------------------------------- MODULE NodesApi -------------------------------
(***************************************************************************)
(* Nodes and their credentials (api/nodes.rs) and the enrollment of an     *)
(* agent with a bootstrap token (api/enroll.rs).  Each statement is a step.*)
(***************************************************************************)
EXTENDS ApiRequests

(* create_node: the name is checked, the row inserted, then a bootstrap    *)
(* credential for it.                                                      *)
CreateNode(r) ==
    /\ kind[r] = "create_node"
    /\ LET row == [name |-> arg[r].name, description |-> None, meta |-> None] IN
       \/ /\ pc[r] = "start"
          /\ \/ Reply(r, 422)                       \* empty name
             \/ IF NodeNameExists(db, arg[r].name, None) THEN Reply(r, 409) ELSE Goto(r, "insert")
          /\ UNCHANGED db
       \/ /\ pc[r] = "insert"
          /\ IF Duplicate(db, "nodes", r, row)      \* another request was faster
             THEN Reply(r, 409) /\ UNCHANGED db
             ELSE Goto(r, "credential") /\ db' = Insert(db, "nodes", r, row)
       \/ /\ pc[r] = "credential"
          /\ LET cred == NewCredential(r, "bootstrap")
             IN IF CanInsert(db, "credentials", r, cred)
                THEN Goto(r, "get") /\ db' = Insert(db, "credentials", r, cred)
                ELSE Reply(r, 500) /\ UNCHANGED db
       \/ /\ pc[r] = "get"
          /\ IF r \in DOMAIN db.nodes THEN Goto(r, "audit") ELSE Reply(r, 500)
          /\ UNCHANGED db
       \/ /\ pc[r] = "audit"
          /\ WriteAudit(r, "node.create")
          /\ Reply(r, 201)
    /\ UNCHANGED <<read, sessionVars, clock>>

(* update_node: the new row is merged with the one read first, and name    *)
(* and description are written back together.                              *)
UpdateNodeRow(r) ==
    /\ kind[r] = "update_node"
    /\ LET n == arg[r].id
           new == [read[r] EXCEPT !.name = IF arg[r].name = None THEN @ ELSE arg[r].name,
                                  !.description = IF arg[r].name = None THEN r ELSE @]
       IN
       \/ /\ pc[r] = "start"
          /\ IF n \in DOMAIN db.nodes
             THEN /\ read' = [read EXCEPT ![r] = db.nodes[n]]
                  /\ Goto(r, "check") \/ Reply(r, 422)     \* 422: empty name
             ELSE Reply(r, 404) /\ UNCHANGED read
          /\ UNCHANGED db
       \/ /\ pc[r] = "check"
          /\ IF new.name # read[r].name /\ NodeNameExists(db, new.name, n)
             THEN Reply(r, 409) ELSE Goto(r, "update")
          /\ UNCHANGED <<read, db>>
       \/ /\ pc[r] = "update"
          /\ IF n \in DOMAIN db.nodes /\ NodeNameExists(db, new.name, n)
             THEN Reply(r, 409) /\ UNCHANGED db
             ELSE db' = UpdateNode(db, n, new.name, new.description) /\ Goto(r, "get")
          /\ UNCHANGED read
       \/ /\ pc[r] = "get"
          /\ IF n \in DOMAIN db.nodes THEN Goto(r, "audit") ELSE Reply(r, 500)
          /\ UNCHANGED <<read, db>>
       \/ /\ pc[r] = "audit"
          /\ WriteAudit(r, "node.update")
          /\ Reply(r, 200)
          /\ UNCHANGED read
    /\ UNCHANGED <<sessionVars, clock>>

(* delete_node: neither the data plane nor the agent is told.              *)
RemoveNode(r) ==
    /\ kind[r] = "delete_node"
    /\ \/ /\ pc[r] = "start"
          /\ IF arg[r].id \in DOMAIN db.nodes THEN Goto(r, "delete") ELSE Reply(r, 404)
          /\ UNCHANGED db
       \/ /\ pc[r] = "delete"
          /\ db' = DeleteNode(db, arg[r].id)
          /\ Goto(r, "audit")
       \/ /\ pc[r] = "audit"
          /\ WriteAudit(r, "node.delete")
          /\ Reply(r, 204)
    /\ UNCHANGED <<read, sessionVars, clock>>

(* create_credential: a runtime token for an existing node.                *)
CreateCredential(r) ==
    /\ kind[r] = "create_credential"
    /\ LET cred == NewCredential(arg[r].id, "token") IN
       \/ /\ pc[r] = "start"
          /\ \/ Reply(r, 422)                       \* other type, bad expires_at
             \/ IF arg[r].id \in DOMAIN db.nodes THEN Goto(r, "insert") ELSE Reply(r, 404)
          /\ UNCHANGED db
       \/ /\ pc[r] = "insert"
          /\ IF CanInsert(db, "credentials", r, cred)
             THEN Goto(r, "audit") /\ db' = Insert(db, "credentials", r, cred)
             ELSE Reply(r, 500) /\ UNCHANGED db
       \/ /\ pc[r] = "audit"
          /\ WriteAudit(r, "credential.create")
          /\ Reply(r, 201)
    /\ UNCHANGED <<read, sessionVars, clock>>

(* revoke_credential: of any type, whatever its state.                     *)
RevokeCredentialOf(r) ==
    /\ kind[r] = "revoke_credential"
    /\ \/ /\ pc[r] = "start"
          /\ \/ arg[r].id \in DOMAIN db.credentials /\ Goto(r, "update")
             \/ Reply(r, 404)                       \* unknown, or of another node
          /\ UNCHANGED db
       \/ /\ pc[r] = "update"
          /\ db' = RevokeCredential(db, arg[r].id)
          /\ Goto(r, "audit")
       \/ /\ pc[r] = "audit"
          /\ WriteAudit(r, "credential.revoke")
          /\ Reply(r, 204)
    /\ UNCHANGED <<read, sessionVars, clock>>

(* Mutant: an enrolled agent's bootstrap token stays valid.                *)
BurnTokenNever(r) == db' = db

(* The one-time token is used up.                                          *)
BurnToken(r) == db' = RevokeCredential(db, arg[r].id)

(* enroll: look the token up, look the node up, revoke the token, merge    *)
(* what the agent reports, issue the runtime credential, two audit entries.*)
(* The token that is valid when it is looked up is not looked at again.    *)
Enroll(r) ==
    /\ kind[r] = "enroll"
    /\ LET c == arg[r].id
           cred == NewCredential(read[r], "token")
       IN
       \/ /\ pc[r] = "start"
          /\ IF /\ c \in DOMAIN db.credentials
                /\ db.credentials[c].type = "bootstrap"
                /\ ~db.credentials[c].revoked
             THEN Goto(r, "node") /\ read' = [read EXCEPT ![r] = db.credentials[c].node]
             ELSE Reply(r, IF c = None THEN 422 ELSE 401) /\ UNCHANGED read
          /\ UNCHANGED db
       \/ /\ pc[r] = "node"
          /\ IF read[r] \notin DOMAIN db.nodes THEN Reply(r, 500)
             ELSE IF arg[r].name \notin {None, db.nodes[read[r]].name} THEN Reply(r, 422)
             ELSE Goto(r, "revoke")
          /\ UNCHANGED <<read, db>>
       \/ /\ pc[r] = "revoke"
          /\ BurnToken(r)
          /\ Goto(r, "meta")
          /\ UNCHANGED read
       \/ /\ pc[r] = "meta"
          /\ db' = SetNodeAgentMeta(db, read[r], r)
          /\ Goto(r, "credential")
          /\ UNCHANGED read
       \/ /\ pc[r] = "credential"
          /\ IF CanInsert(db, "credentials", r, cred)
             THEN Goto(r, "audit_revoke") /\ db' = Insert(db, "credentials", r, cred)
             ELSE Reply(r, 500) /\ UNCHANGED db
          /\ UNCHANGED read
       \/ /\ pc[r] = "audit_revoke"
          /\ WriteAudit(r, "credential.revoke")
          /\ Goto(r, "audit")
          /\ UNCHANGED read
       \/ /\ pc[r] = "audit"
          /\ WriteAudit(r, "credential.create")
          /\ Reply(r, 200)
          /\ UNCHANGED read
    /\ UNCHANGED <<sessionVars, clock>>

NodesStep(r) ==
    \/ CreateNode(r) \/ UpdateNodeRow(r) \/ RemoveNode(r)
    \/ CreateCredential(r) \/ RevokeCredentialOf(r) \/ Enroll(r)
=============================================================================
