------------------------------- MODULE Accounts -------------------------------
(***************************************************************************)
(* First-run setup (api/setup.rs), login and its rate limit (api/auth.rs,   *)
(* login_limiter.rs), refresh, logout and the check of a token.            *)
(***************************************************************************)
EXTENDS ApiRequests

CONSTANTS
    MaxAttempts,    \* LoginLimiter.max_attempts
    Window          \* LoginLimiter.window_secs

ASSUME LimiterAssumption ==
    MaxAttempts \in Nat /\ Window \in Nat /\ "login" \in DOMAIN NamesFor

VARIABLES
    failures,   \* LoginLimiter.failures: per name, the failed attempts with their
                \* times (a Vec of times whose order nobody reads)
    wrong       \* history: the wrong guesses <<request, name, time>> since the
                \* last successful login under the name

limiterVars == <<failures, wrong>>

-----------------------------------------------------------------------------
(* Setup: the check for users and the creation are separate statements,    *)
(* the user and its role too.                                              *)

Setup(r) ==
    /\ kind[r] = "setup"
    /\ \/ /\ pc[r] = "start"
          /\ IF DOMAIN db.users # {}
             THEN Reply(r, 409)
             ELSE Reply(r, 422) \/ Goto(r, "create_user")   \* 422: empty name, short password
          /\ UNCHANGED <<db, sessionVars>>
       \/ /\ pc[r] = "create_user"
          /\ LET row == [name |-> arg[r].name]
             IN IF Duplicate(db, "users", r, row)
                THEN Reply(r, 409) /\ UNCHANGED db
                ELSE Goto(r, "role") /\ db' = Insert(db, "users", r, row)
          /\ UNCHANGED sessionVars
       \/ /\ pc[r] = "role"
          /\ db' = [db EXCEPT !.grants = @ \cup {<<r, "admin">>}]
          /\ Goto(r, "audit")
          /\ UNCHANGED sessionVars
       \/ /\ pc[r] = "audit"
          /\ WriteAudit(r, "user.create")
          /\ CreateSession(r, r, "admin")
          /\ Reply(r, 200)
    /\ UNCHANGED <<read, clock, limiterVars>>

-----------------------------------------------------------------------------
(* Login                                                                   *)

(* retain: the failures within the window.                                 *)
Recent(name) == {f \in failures[name] : clock - f[2] < Window}

(* allows drops what is older than the window, then counts.                *)
Allows(name) == Cardinality(Recent(name)) < MaxAttempts

UserNamed(name) == {u \in DOMAIN db.users : db.users[u].name = name}

(* Mutant: a new entry replaces the earlier failures.                      *)
RecordFailureAnew(r, name) == failures' = [failures EXCEPT ![name] = {<<r, clock>>}]

RecordFailure(r, name) ==
    failures' = [failures EXCEPT ![name] = Recent(name) \cup {<<r, clock>>}]

LoginAdmit(r) ==
    /\ pc[r] = "start"
    /\ failures' = [failures EXCEPT ![arg[r].name] = Recent(arg[r].name)]
    /\ IF Allows(arg[r].name) THEN Goto(r, "find") ELSE Reply(r, 429)
    /\ UNCHANGED <<wrong, read, db, sessionVars>>

(* The password check; an unknown or disabled user counts as a failure, a  *)
(* stored hash that cannot be read does not.                               *)
LoginVerify(r) ==
    LET name == arg[r].name IN
    /\ pc[r] = "verify"
    /\ \/ /\ wrong' = wrong \cup {<<r, name, clock>>}
          /\ RecordFailure(r, name)
          /\ Goto(r, "audit_failure")
       \/ /\ read[r] # {}
          /\ wrong' = {w \in wrong : w[2] # name}
          /\ failures' = [failures EXCEPT ![name] = {}]       \* reset
          /\ Goto(r, "roles")
       \/ /\ read[r] # {}
          /\ Reply(r, 500)                                     \* verify_password fails
          /\ UNCHANGED limiterVars
    /\ UNCHANGED <<read, db, sessionVars>>

Login(r) ==
    /\ kind[r] = "login"
    /\ \/ LoginAdmit(r)
       \/ /\ pc[r] = "find"
          /\ read' = [read EXCEPT ![r] = UserNamed(arg[r].name)]
          /\ Goto(r, "verify")
          /\ UNCHANGED <<limiterVars, db, sessionVars>>
       \/ LoginVerify(r)
       \/ /\ pc[r] = "audit_failure"           \* best effort: 401 either way
          /\ db' = db \/ WriteAudit(r, "login.failed")
          /\ Reply(r, 401)
          /\ UNCHANGED <<read, limiterVars, sessionVars>>
       \/ /\ pc[r] = "roles"
          /\ \E u \in read[r] : CreateSession(r, u, RoleOf(db, u))
          /\ Goto(r, "audit")
          /\ UNCHANGED <<read, limiterVars, db>>
       \/ /\ pc[r] = "audit"
          /\ WriteAudit(r, "login")
          /\ Reply(r, 200)
          /\ UNCHANGED <<read, limiterVars, sessionVars>>
    /\ UNCHANGED clock

-----------------------------------------------------------------------------
(* Sessions                                                                *)

(* Mutant: the guard on the session is dropped before the token is stored. *)
RefreshUnguarded(r) ==
    /\ kind[r] = "refresh"
    /\ LET s == arg[r].who IN
       \/ /\ pc[r] = "start"
          /\ IF Live(s) THEN UNCHANGED sessionVars /\ Goto(r, "insert_token")
                        ELSE UserBySession(s) /\ Reply(r, 401)
       \/ /\ pc[r] = "insert_token"
          /\ tokens' = Put(tokens, r, [session |-> s, expires |-> clock + TokenTtl])
          /\ UNCHANGED <<sessions, guards>>
          /\ Reply(r, 200)
    /\ UNCHANGED <<read, db, clock, limiterVars>>

(* SessionStore::refresh keeps the DashMap guard on the session while it   *)
(* inserts the new token.                                                  *)
Refresh(r) ==
    /\ kind[r] = "refresh"
    /\ LET s == arg[r].who IN
       \/ /\ pc[r] = "start"
          /\ IF Live(s)
             THEN /\ guards' = guards \cup {<<r, s>>}
                  /\ UNCHANGED <<sessions, tokens>>
                  /\ Goto(r, "insert_token")
             ELSE UserBySession(s) /\ Reply(r, 401)
       \/ /\ pc[r] = "insert_token"
          /\ tokens' = Put(tokens, r, [session |-> s, expires |-> clock + TokenTtl])
          /\ guards' = guards \ {<<r, s>>}
          /\ UNCHANGED sessions
          /\ Reply(r, 200)
    /\ UNCHANGED <<read, db, clock, limiterVars>>

(* logout: revoke removes the session, which waits for its readers, then   *)
(* sweeps the tokens; without a cookie there is nothing to do.  The audit  *)
(* entry is written only for a session that was alive, best effort.        *)
Logout(r) ==
    /\ kind[r] = "logout"
    /\ LET s == arg[r].who IN
       \/ /\ pc[r] = "start"
          /\ IF s = None
             THEN Reply(r, 204) /\ UNCHANGED <<sessionVars, read>>
             ELSE /\ ~\E q \in Req : <<q, s>> \in guards
                  /\ sessions' = Keep(sessions, DOMAIN sessions \ {s})
                  /\ UNCHANGED <<tokens, guards>>
                  /\ read' = [read EXCEPT ![r] = {x \in {s} : Live(x)}]
                  /\ Goto(r, "retain")
          /\ UNCHANGED db
       \/ /\ pc[r] = "retain"
          /\ tokens' = Keep(tokens, {t \in DOMAIN tokens : tokens[t].session # s})
          /\ IF read[r] = {} THEN Reply(r, 204) ELSE Goto(r, "audit")
          /\ UNCHANGED <<sessions, guards, read, db>>
       \/ /\ pc[r] = "audit"
          /\ db' = db \/ WriteAudit(r, "logout")
          /\ Reply(r, 204)
          /\ UNCHANGED <<sessionVars, read>>
    /\ UNCHANGED <<clock, limiterVars>>

(* me, and the look-up every management request makes: the bearer token    *)
(* first (an expired one is removed), then the session it names, then the  *)
(* cookie.                                                                 *)
Me(r) ==
    /\ kind[r] = "me"
    /\ LET t == arg[r].id
           live == t \in DOMAIN tokens /\ tokens[t].expires > clock
       IN
       \/ /\ pc[r] = "start"
          /\ tokens' = IF live THEN tokens ELSE Keep(tokens, DOMAIN tokens \ {t})
          /\ UNCHANGED <<sessions, guards>>
          /\ read' = [read EXCEPT ![r] = IF live THEN tokens[t].session ELSE None]
          /\ Goto(r, IF live THEN "bearer" ELSE "cookie")
       \/ /\ pc[r] = "bearer"
          /\ UserBySession(read[r])
          /\ IF Live(read[r]) THEN Reply(r, 200) ELSE Goto(r, "cookie")
          /\ UNCHANGED read
       \/ /\ pc[r] = "cookie"
          /\ UserBySession(arg[r].who)
          /\ Reply(r, IF Live(arg[r].who) THEN 200 ELSE 401)
          /\ UNCHANGED read
    /\ UNCHANGED <<db, clock, limiterVars>>

AccountsInit ==
    /\ failures = [n \in NamesFor["login"] |-> {}]
    /\ wrong = {}

AccountsStep(r) == Setup(r) \/ Login(r) \/ Refresh(r) \/ Logout(r) \/ Me(r)
=============================================================================
