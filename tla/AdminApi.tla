------------------------------- MODULE AdminApi -------------------------------
(***************************************************************************)
(* The management API as a whole: concurrent requests of all endpoints     *)
(* over one database, one session store, one login limiter and one ACL     *)
(* snapshot.                                                               *)
(***************************************************************************)
EXTENDS Accounts, NodesApi, AclApi, SnapshotsApi

vars == <<reqVars, db, sessionVars, clock, limiterVars, aclStore, snapVars>>

Init == RequestsInit /\ AccountsInit /\ AclInit /\ SnapshotsInit

Next ==
    \/ \E r \in Req :
        \/ (Begin(r) \/ Interrupted(r)) /\ UNCHANGED <<limiterVars, aclStore, snapVars>>
        \/ AccountsStep(r) /\ UNCHANGED <<aclStore, snapVars>>
        \/ NodesStep(r) /\ UNCHANGED <<limiterVars, aclStore, snapVars>>
        \/ AclStep(r) /\ UNCHANGED <<limiterVars, snapVars>>
        \/ SnapshotsStep(r) /\ UNCHANGED <<limiterVars, aclStore>>
    \/ Tick /\ UNCHANGED <<limiterVars, aclStore, snapVars>>

Spec == Init /\ [][Next]_vars

-----------------------------------------------------------------------------
(* Properties                                                              *)

(* The columns of a row, as far as the model has them.                     *)
Columns ==
    [users |-> {"name"}, nodes |-> {"name", "description", "meta"}, certificates |-> {"name"},
     routes |-> {"name", "node"}, acl_rules |-> {"route"}, domains |-> {"name", "route", "cert"},
     credentials |-> {"node", "type", "revoked"}]

HasColumns(d, t) == \A x \in DOMAIN d[t] : DOMAIN d[t][x] = Columns[t]

(* What the schema promises of the tables: every reference it declares as  *)
(* a foreign key has its row, and no two users, nodes, routes or domains   *)
(* share a name.                                                           *)
Consistent(d) ==
    /\ \A t \in Tables : \A x \in DOMAIN d[t] : ~Dangling(d, t, d[t][x])
    /\ \A t \in {"users", "nodes", "routes", "domains"} : \A x, y \in DOMAIN d[t] :
        d[t][x].name = d[t][y].name => x = y

(* A behaviour starts with tables the schema allows, whose domains name    *)
(* certificates that are there; a posted snapshot has the six tables, or   *)
(* it is not parsed.                                                       *)
ASSUME ScenarioAssumption ==
    \A s \in Scenarios :
        /\ DOMAIN s.db = DOMAIN Columns \cup {"grants", "audit"}
        /\ \A t \in DOMAIN Columns : HasColumns(s.db, t)
        /\ Consistent(s.db)
        /\ Validate(s.db)

ASSUME SnapshotAssumption ==
    \A s \in SnapshotFiles : DOMAIN s = Tables /\ \A t \in Tables : HasColumns(s, t)

(* The ids of new credentials are fresh.                                   *)
ASSUME FreshAssumption == \A s \in Scenarios : DOMAIN s.db.credentials \cap Req = {}

(* The shape of the state: the tables are as the schema promises, and      *)
(* every guard has its session.                                            *)
ATypeOK ==
    /\ resp \in [Req -> Ok \cup {0, 401, 403, 404, 409, 422, 429, 500}]
    /\ \A r \in Req : Done(r) <=> resp[r] # 0
    /\ \A r \in Req : before[r] \subseteq Req /\ \A x \in todo[r] : x[1] \in Tables
    /\ Consistent(db)
    /\ \A g \in guards : g[2] \in DOMAIN sessions
    /\ \A n \in DOMAIN failures : \A f \in failures[n] : f[2] \in 0..clock

Overlap(q, r) == q \notin before[r] /\ r \notin before[q]

(* Whoever may put a row back that was deleted or revoked.                 *)
Restored == \E q \in Req : kind[q] \in {"restore", "import"} /\ arg[q].flag /\ resp[q] # 403

(* First-run setup creates one administrator and a bootstrap token enrolls *)
(* one agent: two requests succeed only if neither had been answered when  *)
(* the other began, because the check and the write that ends the validity *)
(* are separate statements.  A token an administrator has revoked enrolls  *)
(* nobody who asks later (unless a restore has put the row back).          *)
OneTimeUnlessOverlapping ==
    /\ \A q, r \in Req :
        /\ q # r /\ kind[q] = "setup" /\ kind[r] = "setup"
        /\ resp[q] = 200 /\ resp[r] = 200
        => Overlap(q, r) /\ arg[q].name # arg[r].name
    /\ Restored \/ \A q, r \in Req :
        /\ q # r /\ kind[r] = "enroll" /\ resp[r] = 200 /\ resp[q] \in Ok
        /\ kind[q] \in {"enroll", "revoke_credential"} /\ arg[q].id = arg[r].id
        => q \notin before[r]

(* The wrong guesses under the name of r, in the window and since the last *)
(* success, of attempts that had been answered when r began.               *)
Earlier(r) ==
    {w \in wrong : w[1] \in before[r] /\ w[2] = arg[r].name /\ clock - w[3] < Window}

(* The lock: an attempt whose password is about to be checked was preceded *)
(* by fewer than max_attempts wrong guesses, also of clients that hung up  *)
(* or whose audit entry failed.  The attempts that overlap it do not count *)
(* here, and the code does not stop them: login asks the limiter, awaits   *)
(* the user's row and then checks the password, so that all attempts that  *)
(* asked before the max_attempts-th failure was recorded get their check.  *)
GuessesBounded ==
    \A r \in Req :
        kind[r] = "login" /\ pc[r] \in {"find", "verify"} => Cardinality(Earlier(r)) < MaxAttempts

(* Once a logout is answered its session is gone and none of its access    *)
(* tokens is left, not even one a concurrent refresh was issuing.          *)
LoggedOutStaysOut ==
    \A q \in Req :
        kind[q] = "logout" /\ Done(q) /\ arg[q].who # None =>
            /\ arg[q].who \notin DOMAIN sessions
            /\ \A t \in DOMAIN tokens : tokens[t].session # arg[q].who

AuditOf(k) ==
    CASE k = "setup" -> {"user.create"}
      [] k = "login" -> {"login"}
      [] k = "create_node" -> {"node.create"}
      [] k = "update_node" -> {"node.update"}
      [] k = "delete_node" -> {"node.delete"}
      [] k = "create_credential" -> {"credential.create"}
      [] k = "revoke_credential" -> {"credential.revoke"}
      [] k = "enroll" -> {"credential.revoke", "credential.create"}
      [] k = "create_acl" -> {"acl.create"}
      [] k = "delete_acl" -> {"acl.delete"}
      [] k = "delete_route" -> {"route.delete"}
      [] OTHER -> {}

(* Nobody is told that a change was made without the change being in the   *)
(* audit log, whichever statement fails; a restore is logged when applied. *)
AnsweredIsAudited ==
    \A r \in Req : resp[r] \in Ok =>
        /\ \A action \in AuditOf(kind[r]) : <<r, action>> \in db.audit
        /\ kind[r] \in {"restore", "import"} /\ arg[r].flag => <<r, kind[r]>> \in db.audit

(* An answered ACL change is in force: AclStore has exactly the rules of   *)
(* the database that can be parsed, provided its own reload could read     *)
(* them and no other request that changes rules overlapped it or came      *)
(* after it.  (Two overlapping changes may leave the older list in force,  *)
(* and the deletion of a route or node and a restore reload nothing.)      *)
AclWriters == {"create_acl", "delete_acl", "delete_route", "delete_node", "restore", "import"}
AclTakesEffect ==
    \A r \in Req :
        /\ kind[r] \in {"create_acl", "delete_acl"} /\ resp[r] \in {201, 204}
        /\ read[r] # None
        /\ \A q \in Req \ {r} : kind[q] \in AclWriters => q \in before[r] \/ pc[q] = "idle"
        => aclStore = Loaded(db.acl_rules)

(* A restore that is answered 200 is complete, whatever earlier attempts   *)
(* left half done: every row of the snapshot is in the database, unless a  *)
(* request that deletes rows overlapped it or came after it.               *)
Deleters == {"delete_node", "delete_acl", "delete_route"}
RestoreComplete ==
    \A r \in Req :
        /\ kind[r] \in {"restore", "import"} /\ arg[r].flag /\ resp[r] = 200
        /\ \A q \in Req : kind[q] \in Deleters => q \in before[r] \/ pc[q] = "idle"
        => \A t \in Tables : DOMAIN arg[r].id[t] \subseteq DOMAIN db[t]

(* A backup can be restored: it passes validate, unless a request that     *)
(* deletes or inserts rows overlapped it (the tables are read one by one). *)
Writers == AclWriters \cup {"create_node", "create_credential", "enroll"}
QuietBackupValid ==
    \A r \in Req :
        /\ kind[r] = "backup" /\ resp[r] = 200
        /\ \A q \in Req : kind[q] \in Writers /\ pc[q] # "idle" => ~Overlap(q, r)
        => Validate(read[r])
=============================================================================
