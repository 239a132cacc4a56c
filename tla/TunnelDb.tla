------------------------------- MODULE TunnelDb -------------------------------
(***************************************************************************)
(* The statements of tunnel-db/src/lib.rs that the management API executes, *)
(* as operators on the tables.  A table is a function from primary keys to *)
(* rows; a statement is atomic and commits by itself (no handler opens a   *)
(* transaction).  The migrations declare the constraints: unique names and *)
(* host names, foreign keys with their ON DELETE clauses.  A certificate   *)
(* id of a domain is no foreign key.                                       *)
(***************************************************************************)
EXTENDS Integers, FiniteSets

CONSTANT None   \* SQL NULL, an absent field of a request

(* The tables a snapshot has, in the order restore writes them.            *)
SnapshotTables ==
    <<"nodes", "certificates", "routes", "acl_rules", "domains", "credentials">>

Put(f, k, v) == [x \in DOMAIN f \cup {k} |-> IF x = k THEN v ELSE f[x]]
Keep(f, S) == [x \in S |-> f[x]]

Insert(d, t, k, row) == [d EXCEPT ![t] = Put(@, k, row)]

(* INSERT fails on a taken primary key or unique column ...                *)
Duplicate(d, t, k, row) ==
    \/ k \in DOMAIN d[t]
    \/ /\ t \in {"users", "nodes", "routes", "domains"}
       /\ \E x \in DOMAIN d[t] : d[t][x].name = row.name

(* ... and on a foreign key to a row that is not there.                    *)
Dangling(d, t, row) ==
    \/ t \in {"routes", "credentials"} /\ row.node \notin DOMAIN d.nodes
    \/ t \in {"acl_rules", "domains"} /\ row.route \notin DOMAIN d.routes \cup {None}

CanInsert(d, t, k, row) == ~Duplicate(d, t, k, row) /\ ~Dangling(d, t, row)

NodeNameExists(d, name, except) ==
    \E n \in DOMAIN d.nodes \ {except} : d.nodes[n].name = name

(* name and description are written together, from what was read before.   *)
UpdateNode(d, n, name, description) ==
    IF n \in DOMAIN d.nodes
    THEN [d EXCEPT !.nodes[n].name = name, !.nodes[n].description = description]
    ELSE d

(* DELETE of a route: its rules go with it, its domains lose the reference.*)
DeleteRoutes(d, R) ==
    [d EXCEPT !.routes = Keep(@, DOMAIN @ \ R),
              !.acl_rules = Keep(@, {a \in DOMAIN @ : @[a].route \notin R}),
              !.domains = [x \in DOMAIN @ |->
                             IF @[x].route \in R THEN [@[x] EXCEPT !.route = None]
                                                 ELSE @[x]]]

(* Mutant: foreign keys are not enforced (PRAGMA foreign_keys off).        *)
DeleteNodeAlone(d, n) == [d EXCEPT !.nodes = Keep(@, DOMAIN @ \ {n})]

(* DELETE of a node takes its routes and credentials along.                *)
DeleteNode(d, n) ==
    [DeleteRoutes(d, {x \in DOMAIN d.routes : d.routes[x].node = n})
        EXCEPT !.nodes = Keep(@, DOMAIN @ \ {n}),
               !.credentials = Keep(@, {c \in DOMAIN @ : @[c].node # n})]

DeleteAclRule(d, a) == [d EXCEPT !.acl_rules = Keep(@, DOMAIN @ \ {a})]

NewCredential(n, type) == [node |-> n, type |-> type, revoked |-> FALSE]

(* UPDATE ... SET revoked_at, whatever it was: no rows, no error.          *)
RevokeCredential(d, c) ==
    IF c \in DOMAIN d.credentials THEN [d EXCEPT !.credentials[c].revoked = TRUE] ELSE d

(* What the agent reports of itself, merged into the row of its node.      *)
SetNodeAgentMeta(d, n, meta) ==
    IF n \in DOMAIN d.nodes THEN [d EXCEPT !.nodes[n].meta = meta] ELSE d

InsertAuditLog(d, entry) == [d EXCEPT !.audit = @ \cup {entry}]

(* The first role of a user, "user" when it has none.                      *)
RoleOf(d, u) ==
    LET mine == {g[2] : g \in {x \in d.grants : x[1] = u}}
    IN IF mine = {} THEN "user" ELSE CHOOSE role \in mine : TRUE
=============================================================================
