----------------------------- MODULE ApiRequests -----------------------------
(***************************************************************************)
(* The requests of the management API (server/src/api) and the session     *)
(* store they authenticate against (server/src/session.rs).  Handlers run  *)
(* concurrently and interleave at every statement they await; a statement  *)
(* may fail, and a handler whose client goes away is dropped at its await. *)
(* A scenario fixes which requests come, and the tables and sessions they  *)
(* find.  The id of a row, session or token a request creates is the       *)
(* request itself (ids are fresh uuids and random tokens).                 *)
(***************************************************************************)
EXTENDS TunnelDb

CONSTANTS
    Req,            \* requests; each is sent once
    Scenarios,      \* records [kind, db, sessions]: what a behaviour starts with
    NamesFor,       \* the user or node names requests of a kind carry
    SnapshotFiles,  \* snapshots a client may post to restore or import
    SessionTtl,     \* SESSION_TTL_SECS
    TokenTtl,       \* ACCESS_TOKEN_TTL_SECS
    MaxClock        \* bound: the last moment of a behaviour

(* No request is the absent value.                                         *)
ASSUME NoneAssumption == None \notin Req

VARIABLES
    kind,       \* the endpoint a request goes to
    pc,         \* the statement its handler is at
    resp,       \* the HTTP status it was answered with, 0 before
    before,     \* the requests that had been answered when it began
    arg,        \* what it carries: session cookie, id in the path, a name, a flag
    read,       \* what its handler has read so far
    db,         \* the tables
    sessions,   \* SessionStore.sessions
    tokens,     \* SessionStore.access_tokens
    guards,     \* pairs <<request, session>>: a DashMap read guard is held
    clock

reqVars == <<kind, pc, resp, before, arg, read>>
sessionVars == <<sessions, tokens, guards>>

Done(r) == pc[r] = "done"
Ok == {200, 201, 204}

(* Role -> permission, api/rbac.rs.                                        *)
RoleHasPermission(role, perm) ==
    \/ role = "admin"
    \/ role = "operator" /\ perm \in {"nodes.read", "nodes.write", "routes.read", "routes.write"}
    \/ role = "viewer" /\ perm \in {"nodes.read", "routes.read", "settings.read"}

(* The permission an endpoint asks for; public endpoints ask for none.     *)
Needs(k) ==
    CASE k \in {"create_node", "update_node", "delete_node",
                "create_credential", "revoke_credential"} -> "nodes.write"
      [] k \in {"create_acl", "delete_acl", "delete_route"} -> "routes.write"
      [] k \in {"backup", "export", "restore", "import"} -> "settings.write"
      [] OTHER -> "none"

-----------------------------------------------------------------------------
(* SessionStore                                                            *)

Live(s) == s \in DOMAIN sessions /\ sessions[s].expires > clock

(* create: a session and a first access token.                             *)
CreateSession(r, user, role) ==
    /\ sessions' = Put(sessions, r, [user |-> user, role |-> role, expires |-> clock + SessionTtl])
    /\ tokens' = Put(tokens, r, [session |-> r, expires |-> clock + TokenTtl])
    /\ UNCHANGED guards

(* Dropping an expired session, which waits for the read guards on it; its *)
(* access tokens stay.                                                     *)
DropExpired(s) ==
    /\ ~\E q \in Req : <<q, s>> \in guards
    /\ sessions' = Keep(sessions, DOMAIN sessions \ {s})
    /\ UNCHANGED <<tokens, guards>>

(* user_by_session: a lookup that removes the session it finds expired.    *)
UserBySession(s) ==
    IF s \in DOMAIN sessions /\ ~Live(s) THEN DropExpired(s) ELSE UNCHANGED sessionVars

-----------------------------------------------------------------------------
(* Steps common to all handlers                                            *)

Goto(r, label) ==
    /\ pc' = [pc EXCEPT ![r] = label]
    /\ UNCHANGED <<resp, kind, before, arg>>

Reply(r, status) ==
    /\ pc' = [pc EXCEPT ![r] = "done"]
    /\ resp' = [resp EXCEPT ![r] = status]
    /\ UNCHANGED <<kind, before, arg>>

(* Sessions a client can know: it had them at the start, or got them in    *)
(* the answer to a login or a setup.                                       *)
KnownSessions ==
    {s \in DOMAIN sessions : s \in Req => resp[s] = 200}
        \cup {arg[q].who : q \in {x \in Req : kind[x] = "logout" /\ Done(x)}}

Targets(k) ==
    CASE k \in {"update_node", "delete_node", "create_credential"} -> DOMAIN db.nodes \cup {None}
      [] k \in {"revoke_credential", "enroll"} -> DOMAIN db.credentials \cup {None}
      [] k = "create_acl" -> DOMAIN db.routes \cup {None}
      [] k = "delete_route" -> DOMAIN db.routes
      [] k = "delete_acl" -> DOMAIN db.acl_rules \cup {None}
      [] k \in {"restore", "import"} -> SnapshotFiles
      [] k = "me" -> {t \in DOMAIN tokens : t \in Req => resp[t] = 200} \cup {None}
      [] OTHER -> {None}

Inputs(k) ==
    [who : CASE k \in {"setup", "login", "enroll"} -> {None}
             [] k \in {"refresh", "logout", "me"} -> KnownSessions \cup {None}
             [] OTHER -> KnownSessions,
     id : Targets(k),
     name : IF k \in DOMAIN NamesFor THEN NamesFor[k] ELSE {None},
     flag : IF k \in {"restore", "import"} THEN BOOLEAN ELSE {FALSE}]

(* A request arrives.  The management endpoints resolve the user of the    *)
(* session (CurrentUser) and check its permission before anything else.    *)
Begin(r) ==
    /\ pc[r] = "idle"
    /\ kind[r] # "none"         \* a scenario may have fewer requests
    /\ \E a \in Inputs(kind[r]) :
        /\ arg' = [arg EXCEPT ![r] = a]
        /\ before' = [before EXCEPT ![r] = {q \in Req : Done(q)}]
        /\ LET refused == IF Needs(kind[r]) = "none" THEN 0
                          ELSE IF ~Live(a.who) THEN 401
                          ELSE IF ~RoleHasPermission(sessions[a.who].role, Needs(kind[r])) THEN 403
                          ELSE 0
           IN /\ resp' = [resp EXCEPT ![r] = refused]
              /\ pc' = [pc EXCEPT ![r] = IF refused = 0 THEN "start" ELSE "done"]
        /\ IF Needs(kind[r]) = "none" THEN UNCHANGED sessionVars ELSE UserBySession(a.who)
    /\ UNCHANGED <<kind, read, db, clock>>

(* Where a handler awaits nothing: it cannot be cut there.                 *)
NotAwaiting(r) ==
    \/ pc[r] \in {"idle", "done", "verify", "insert_token", "retain", "bearer", "cookie",
                 "store"}
    \/ pc[r] = "start" /\ kind[r] \in {"login", "logout", "refresh", "me"}

(* A statement fails (500), or the client closes its connection and the    *)
(* handler is dropped at the statement it awaits: what it did so far stays.*)
Interrupted(r) ==
    /\ ~NotAwaiting(r)
    /\ Reply(r, 500)
    /\ UNCHANGED <<read, db, sessionVars, clock>>

(* Mutant: an audit entry that cannot be written is forgotten.             *)
WriteAuditBestEffort(r, action) ==
    db' = db \/ db' = InsertAuditLog(db, <<r, action>>)

(* write_audit: the entry is part of the request; it fails with it.        *)
WriteAudit(r, action) == db' = InsertAuditLog(db, <<r, action>>)

Tick ==
    /\ clock < MaxClock
    /\ \E r \in Req : ~Done(r) /\ kind[r] \in {"login", "logout", "refresh", "me"}
    /\ clock' = clock + 1
    /\ UNCHANGED <<reqVars, db, sessionVars>>

RequestsInit ==
    /\ \E s \in Scenarios : kind = s.kind /\ db = s.db /\ sessions = s.sessions
    /\ pc = [r \in Req |-> "idle"]
    /\ resp = [r \in Req |-> 0]
    /\ before = [r \in Req |-> {}]
    /\ arg = [r \in Req |-> [who |-> None, id |-> None, name |-> None, flag |-> FALSE]]
    /\ read = [r \in Req |-> None]
    /\ tokens = [s \in DOMAIN sessions |-> [session |-> s, expires |-> TokenTtl]]
    /\ guards = {}
    /\ clock = 0
=============================================================================
