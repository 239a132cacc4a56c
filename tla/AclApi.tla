-------------------------------- MODULE AclApi --------------------------------
(***************************************************************************)
(* The ACL endpoints (api/acl.rs), the rules the data plane decides by     *)
(* (acl_store.rs) and the deletion of a route, whose rules the database    *)
(* deletes along.                                                          *)
(***************************************************************************)
EXTENDS ApiRequests

CONSTANT Unparsed   \* the rules with an unknown action or a route id that is no uuid

(* create_acl_rule refuses such a rule; only a snapshot brings one, since  *)
(* its validate looks for empty fields and missing routes alone.           *)
ASSUME UnparsedAssumption == Unparsed \cap Req = {}

VARIABLE aclStore   \* AclStore.snapshot: the rules as last loaded

(* Rows that cannot be turned into a rule are skipped.                     *)
Loaded(rules) == Keep(rules, DOMAIN rules \ Unparsed)

(* reload: list the rules, then store them; a failing list keeps the old   *)
(* snapshot and is only logged.                                            *)
ReloadAcl(r, next) ==
    \/ /\ pc[r] = "reload"
       /\ \/ read' = [read EXCEPT ![r] = db.acl_rules] /\ Goto(r, "store")
          \/ read' = [read EXCEPT ![r] = None] /\ Goto(r, next)
       /\ UNCHANGED <<aclStore, db>>
    \/ /\ pc[r] = "store"
       /\ aclStore' = Loaded(read[r])
       /\ Goto(r, next)
       /\ UNCHANGED <<read, db>>

CreateAclRule(r) ==
    /\ kind[r] = "create_acl"
    /\ LET rule == [route |-> arg[r].id] IN
       \/ /\ pc[r] = "start"
          /\ \/ Reply(r, 422)                       \* bad action or CIDR
             \/ IF arg[r].id \in DOMAIN db.routes \cup {None} THEN Goto(r, "insert")
                                                             ELSE Reply(r, 404)
          /\ UNCHANGED <<read, db, aclStore>>
       \/ /\ pc[r] = "insert"
          /\ IF CanInsert(db, "acl_rules", r, rule)
             THEN Goto(r, "audit") /\ db' = Insert(db, "acl_rules", r, rule)
             ELSE Reply(r, 500) /\ UNCHANGED db
          /\ UNCHANGED <<read, aclStore>>
       \/ /\ pc[r] = "audit"
          /\ WriteAudit(r, "acl.create")
          /\ Goto(r, "reload")
          /\ UNCHANGED <<read, aclStore>>
       \/ ReloadAcl(r, "get")
       \/ /\ pc[r] = "get"
          /\ Reply(r, IF r \in DOMAIN db.acl_rules THEN 201 ELSE 500)
          /\ UNCHANGED <<read, db, aclStore>>
    /\ UNCHANGED <<sessionVars, clock>>

(* Mutant: the rules are reloaded before the rule is deleted.              *)
DropAclRuleReloadFirst(r) ==
    /\ kind[r] = "delete_acl"
    /\ \/ /\ pc[r] = "start"
          /\ IF arg[r].id \in DOMAIN db.acl_rules THEN Goto(r, "reload") ELSE Reply(r, 404)
          /\ UNCHANGED <<read, db, aclStore>>
       \/ ReloadAcl(r, "delete")
       \/ /\ pc[r] = "delete"
          /\ db' = InsertAuditLog(DeleteAclRule(db, arg[r].id), <<r, "acl.delete">>)
          /\ Reply(r, 204)
          /\ UNCHANGED <<read, aclStore>>
    /\ UNCHANGED <<sessionVars, clock>>

DropAclRule(r) ==
    /\ kind[r] = "delete_acl"
    /\ \/ /\ pc[r] = "start"
          /\ IF arg[r].id \in DOMAIN db.acl_rules THEN Goto(r, "delete") ELSE Reply(r, 404)
          /\ UNCHANGED <<read, db, aclStore>>
       \/ /\ pc[r] = "delete"
          /\ db' = DeleteAclRule(db, arg[r].id)
          /\ Goto(r, "audit")
          /\ UNCHANGED <<read, aclStore>>
       \/ /\ pc[r] = "audit"
          /\ WriteAudit(r, "acl.delete")
          /\ Goto(r, "reload")
          /\ UNCHANGED <<read, aclStore>>
       \/ ReloadAcl(r, "answer")
       \/ /\ pc[r] = "answer"
          /\ Reply(r, 204)
          /\ UNCHANGED <<read, db, aclStore>>
    /\ UNCHANGED <<sessionVars, clock>>

(* delete_route, as far as these tables go (HotReload has the rest): the   *)
(* rules of the route are deleted, AclStore is not reloaded.               *)
DropRoute(r) ==
    /\ kind[r] = "delete_route"
    /\ \/ /\ pc[r] = "start"
          /\ IF arg[r].id \in DOMAIN db.routes THEN Goto(r, "delete") ELSE Reply(r, 404)
          /\ UNCHANGED db
       \/ /\ pc[r] = "delete"
          /\ db' = DeleteRoutes(db, {arg[r].id})
          /\ Goto(r, "audit")
       \/ /\ pc[r] = "audit"
          /\ WriteAudit(r, "route.delete")
          /\ Reply(r, 204)
    /\ UNCHANGED <<read, aclStore, sessionVars, clock>>

AclInit == aclStore = Loaded(db.acl_rules)      \* main loads the rules at startup

AclStep(r) == CreateAclRule(r) \/ DropAclRule(r) \/ DropRoute(r)
=============================================================================
