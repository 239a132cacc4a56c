---------------------------- MODULE AdminApiProofs ----------------------------
(***************************************************************************)
(* The management API for any number of requests, any scenario and any     *)
(* limits.  Every handler runs statement by statement and may be cut at    *)
(* each, so no property is inductive as it stands.  Each rests on what its *)
(* handlers have done at the statement they are at:                        *)
(*                                                                         *)
(* RequestInv, the life of a request: answered once, for good; what was    *)
(* answered when it began stays answered.  Everything below uses it.       *)
(*                                                                         *)
(* SessionInv: a refresh holds a guard on a session that exists, and from  *)
(* its removal on a session a logout names is gone.                        *)
(*                                                                         *)
(* TablesInv and DbInv: which tables a statement touches, and that the     *)
(* constraints of the schema survive every statement.  AuditInv: what is   *)
(* in the log before the answer.  LimiterInv: the limiter has every wrong  *)
(* guess of the window.  GuessInv: few of them precede an attempt that is  *)
(* past the limiter.                                                       *)
(*                                                                         *)
(* CertInv: a restore inserts certificates before the domains that name    *)
(* them, and nothing deletes one.  ForceInv, PlaceInv and BackupInv: as    *)
(* long as no request of the disturbing kinds overlaps, what was read is   *)
(* what is there, what a restore has passed is in its table, and the       *)
(* tables a backup has read refer to one another.                          *)
(*                                                                         *)
(* SetupInv and TokenInv: what a setup has created and a token that is     *)
(* used up stay so, because ids are fresh and only an applied restore      *)
(* brings rows back; a request that began after the answer meets them at   *)
(* its first check.                                                        *)
(***************************************************************************)
EXTENDS AdminApi, FiniteSetTheorems, TLAPS

-----------------------------------------------------------------------------
(* What every step of a handler has in common.                             *)

Statuses == Ok \cup {401, 403, 404, 409, 422, 429, 500}

(* A handler that runs goes to its next statement or answers.              *)
Moved(r) ==
    /\ pc[r] \notin {"idle", "done"}
    /\ \/ \E label : label \notin {"idle", "done"} /\ Goto(r, label)
       \/ \E status \in Statuses : Reply(r, status)

(* The variables that are functions of the request.                        *)
PerRequest ==
    /\ DOMAIN pc = Req /\ DOMAIN resp = Req /\ DOMAIN before = Req /\ DOMAIN arg = Req
    /\ DOMAIN read = Req /\ DOMAIN todo = Req /\ DOMAIN cur = Req

(* A step of r leaves the other requests alone.                            *)
Alone(r) ==
    \A q \in Req \ {r} :
        /\ pc'[q] = pc[q] /\ resp'[q] = resp[q] /\ before'[q] = before[q] /\ arg'[q] = arg[q]
        /\ read'[q] = read[q] /\ todo'[q] = todo[q] /\ cur'[q] = cur[q]

Handler(r) ==
    \/ AccountsStep(r) /\ UNCHANGED <<aclStore, snapVars>>
    \/ NodesStep(r) /\ UNCHANGED <<limiterVars, aclStore, snapVars>>
    \/ AclStep(r) /\ UNCHANGED <<limiterVars, snapVars>>
    \/ SnapshotsStep(r) /\ UNCHANGED <<limiterVars, aclStore>>

(* Every handler's step is a move.                                         *)
LEMMA HandlersMove ==
    ASSUME NEW r \in Req, Handler(r)
    PROVE  Moved(r)
<1> USE DEF Statuses, Ok
<1>1. CASE Setup(r)
  BY <1>1 DEF Setup, Moved
<1>2. CASE Login(r)
  BY <1>2 DEF Login, LoginAdmit, LoginVerify, Moved
<1>3. CASE Refresh(r)
  BY <1>3 DEF Refresh, Moved
<1>4. CASE Logout(r)
  BY <1>4 DEF Logout, Moved
<1>5. CASE Me(r)
  BY <1>5 DEF Me, Moved
<1>6. CASE CreateNode(r)
  BY <1>6 DEF CreateNode, Moved
<1>7. CASE UpdateNodeRow(r)
  BY <1>7 DEF UpdateNodeRow, Moved
<1>8. CASE RemoveNode(r)
  BY <1>8 DEF RemoveNode, Moved
<1>9. CASE CreateCredential(r)
  BY <1>9 DEF CreateCredential, Moved
<1>10. CASE RevokeCredentialOf(r)
  BY <1>10 DEF RevokeCredentialOf, Moved
<1>11. CASE Enroll(r)
  BY <1>11 DEF Enroll, Moved
<1>12. CASE CreateAclRule(r)
  BY <1>12 DEF CreateAclRule, ReloadAcl, Moved
<1>13. CASE DropAclRule(r)
  BY <1>13 DEF DropAclRule, ReloadAcl, Moved
<1>14. CASE DropRoute(r)
  BY <1>14 DEF DropRoute, Moved
<1>15. CASE ReadSnapshot(r)
  BY <1>15 DEF ReadSnapshot, SelectOrder, Moved
<1>16. CASE Restore(r)
  BY <1>16 DEF Restore, RestoreStart, RestoreExists, RestoreInsert, Moved
<1> QED
  BY <1>1, <1>2, <1>3, <1>4, <1>5, <1>6, <1>7, <1>8, <1>9, <1>10, <1>11, <1>12, <1>13, <1>14,
     <1>15, <1>16 DEF Handler, AccountsStep, NodesStep, AclStep, SnapshotsStep

(* ... and it changes nothing that belongs to another request.             *)
LEMMA HandlersAlone ==
    ASSUME PerRequest, NEW r \in Req, Handler(r)
    PROVE  Alone(r) /\ PerRequest'
<1> DEFINE Own(f, g) == DOMAIN g = DOMAIN f /\ \A q \in Req \ {r} : g[q] = f[q]
<1> USE DEF PerRequest
<1>1. Own(read, read')
  <2>1. CASE Setup(r)
    BY <2>1 DEF Setup
  <2>2. CASE Login(r)
    BY <2>2 DEF Login, LoginAdmit, LoginVerify
  <2>3. CASE Refresh(r)
    BY <2>3 DEF Refresh
  <2>4. CASE Logout(r)
    BY <2>4 DEF Logout
  <2>5. CASE Me(r)
    BY <2>5 DEF Me
  <2>6. CASE CreateNode(r)
    BY <2>6 DEF CreateNode
  <2>7. CASE UpdateNodeRow(r)
    BY <2>7 DEF UpdateNodeRow
  <2>8. CASE RemoveNode(r)
    BY <2>8 DEF RemoveNode
  <2>9. CASE CreateCredential(r)
    BY <2>9 DEF CreateCredential
  <2>10. CASE RevokeCredentialOf(r)
    BY <2>10 DEF RevokeCredentialOf
  <2>11. CASE Enroll(r)
    BY <2>11 DEF Enroll
  <2>12. CASE CreateAclRule(r)
    BY <2>12 DEF CreateAclRule, ReloadAcl
  <2>13. CASE DropAclRule(r)
    BY <2>13 DEF DropAclRule, ReloadAcl
  <2>14. CASE DropRoute(r)
    BY <2>14 DEF DropRoute
  <2>15. CASE ReadSnapshot(r)
    BY <2>15 DEF ReadSnapshot
  <2>16. CASE Restore(r)
    BY <2>16 DEF Restore, RestoreStart, RestoreExists, RestoreInsert
  <2> QED
    BY <2>1, <2>2, <2>3, <2>4, <2>5, <2>6, <2>7, <2>8, <2>9, <2>10, <2>11, <2>12, <2>13, <2>14,
       <2>15, <2>16
       DEF Handler, AccountsStep, NodesStep, AclStep, SnapshotsStep
<1>2. Own(todo, todo') /\ Own(cur, cur')
  <2>1. CASE UNCHANGED snapVars
    BY <2>1 DEF snapVars
  <2>2. CASE Restore(r)
    BY <2>2 DEF Restore, RestoreStart, RestoreExists, RestoreInsert, snapVars
  <2> QED
    BY <2>1, <2>2 DEF Handler, SnapshotsStep, ReadSnapshot
<1>3. Own(pc, pc') /\ Own(resp, resp') /\ Own(before, before') /\ Own(arg, arg')
  BY HandlersMove DEF Moved, Goto, Reply
<1> QED
  BY <1>1, <1>2, <1>3 DEF Alone

(* What a move leaves of a request: nothing of what it carries changes, it *)
(* neither goes back to "idle" nor is answered without a status.           *)
LEMMA MoveFacts ==
    ASSUME PerRequest, NEW r \in Req, Moved(r)
    PROVE  /\ kind' = kind /\ arg' = arg /\ before' = before
           /\ pc[r] \notin {"idle", "done"} /\ pc'[r] # "idle"
           /\ \/ pc'[r] = "done" /\ resp'[r] \in Statuses
              \/ pc'[r] # "done" /\ resp'[r] = resp[r]
  BY DEF Moved, Goto, Reply, PerRequest

(* An interrupted handler answers 500 and leaves everything as it is.      *)
LEMMA InterruptedFacts ==
    ASSUME PerRequest, NEW r \in Req, Interrupted(r), UNCHANGED snapVars
    PROVE  /\ Moved(r) /\ Alone(r) /\ PerRequest'
           /\ pc'[r] = "done" /\ resp'[r] = 500
<1>1. Moved(r)
  BY DEF Interrupted, NotAwaiting, Moved, Statuses
<1> QED
  BY <1>1 DEF Interrupted, Reply, Alone, PerRequest, snapVars

(* The arrival of a request.                                               *)
LEMMA BeginFacts ==
    ASSUME PerRequest, NEW r \in Req, Begin(r), UNCHANGED snapVars
    PROVE  /\ Alone(r) /\ PerRequest' /\ kind' = kind
           /\ pc[r] = "idle" /\ arg'[r] \in Inputs(kind[r])
           /\ before'[r] = {q \in Req : Done(q)}
           /\ \/ pc'[r] = "done" /\ resp'[r] \in {401, 403} /\ Needs(kind[r]) # "none"
              \/ pc'[r] = "start" /\ resp'[r] = 0
           /\ read'[r] = read[r] /\ todo'[r] = todo[r] /\ cur'[r] = cur[r]
<1>1. PICK a \in Inputs(kind[r]) :
        /\ arg' = [arg EXCEPT ![r] = a]
        /\ before' = [before EXCEPT ![r] = {q \in Req : Done(q)}]
        /\ \/ /\ resp' = [resp EXCEPT ![r] = 0]
              /\ pc' = [pc EXCEPT ![r] = "start"]
           \/ /\ resp' = [resp EXCEPT ![r] = 401] \/ resp' = [resp EXCEPT ![r] = 403]
              /\ pc' = [pc EXCEPT ![r] = "done"]
              /\ Needs(kind[r]) # "none"
  BY Zenon DEF Begin
<1>2. pc[r] = "idle" /\ kind' = kind /\ read' = read
  BY DEF Begin
<1> HIDE DEF Inputs
<1> QED
  BY <1>1, <1>2 DEF Alone, PerRequest, snapVars

-----------------------------------------------------------------------------
(* The life of a request.                                                  *)

(* A request is answered once, with a status, and what was answered when   *)
(* it began is answered still.                                             *)
Life(r) ==
    /\ Done(r) <=> resp[r] # 0
    /\ resp[r] \in Statuses \cup {0}
    /\ before[r] \subseteq {q \in Req : Done(q)}
    /\ r \notin before[r]
    /\ pc[r] = "idle" => before[r] = {} /\ arg[r].who = None /\ ~arg[r].flag

RequestInv == PerRequest /\ \A r \in Req : Life(r)

(* A step of the API is a step of one request or of the clock.             *)
LEMMA StepCases ==
    ASSUME [Next]_vars
    PROVE  \/ \E r \in Req : Begin(r) /\ UNCHANGED <<limiterVars, aclStore, snapVars>>
           \/ \E r \in Req : Interrupted(r) /\ UNCHANGED <<limiterVars, aclStore, snapVars>>
           \/ \E r \in Req : Handler(r)
           \/ Tick /\ UNCHANGED <<limiterVars, aclStore, snapVars>>
           \/ UNCHANGED vars
  BY DEF Next, Handler

(* Whatever happens, the requests keep their life cycle.                   *)
LEMMA RequestStep ==
    ASSUME RequestInv, [Next]_vars
    PROVE  RequestInv'
<1> USE DEF RequestInv, Statuses, Ok
<1>1. ASSUME NEW r \in Req, PerRequest', Alone(r), Moved(r)
      PROVE  RequestInv'
  <2>1. /\ arg' = arg /\ before' = before
        /\ pc[r] \notin {"idle", "done"} /\ pc'[r] # "idle"
        /\ \/ pc'[r] = "done" /\ resp'[r] \in Statuses
           \/ pc'[r] # "done" /\ resp'[r] = resp[r]
    BY <1>1, MoveFacts
  <2>2. \A q \in Req \ {r} : pc'[q] = pc[q] /\ resp'[q] = resp[q]
    BY <1>1 DEF Alone
  <2> QED
    BY <1>1, <2>1, <2>2 DEF Life, Done
<1>2. ASSUME NEW r \in Req, Begin(r), UNCHANGED snapVars
      PROVE  RequestInv'
  <2>1. /\ Alone(r) /\ PerRequest' /\ pc[r] = "idle"
        /\ before'[r] = {q \in Req : Done(q)}
        /\ \/ pc'[r] = "done" /\ resp'[r] \in {401, 403}
           \/ pc'[r] = "start" /\ resp'[r] = 0
    BY <1>2, BeginFacts
  <2>2. \A q \in Req \ {r} :
          pc'[q] = pc[q] /\ resp'[q] = resp[q] /\ before'[q] = before[q] /\ arg'[q] = arg[q]
    BY <2>1 DEF Alone
  <2> QED
    BY <2>1, <2>2 DEF Life, Done
<1>3. CASE UNCHANGED reqVars /\ UNCHANGED snapVars
  BY <1>3 DEF reqVars, snapVars, Life, Done, PerRequest
<1> QED
  <2>1. ASSUME NEW r \in Req, Interrupted(r), UNCHANGED snapVars  PROVE RequestInv'
    BY <1>1, <2>1, InterruptedFacts
  <2>2. ASSUME NEW r \in Req, Handler(r)  PROVE RequestInv'
    BY <1>1, <2>2, HandlersMove, HandlersAlone
  <2>3. CASE Tick /\ UNCHANGED snapVars
    BY <1>3, <2>3 DEF Tick
  <2>4. CASE UNCHANGED vars
    BY <1>3, <2>4 DEF vars
  <2> QED
    BY <1>2, <2>1, <2>2, <2>3, <2>4, StepCases

(* Initially no request has come.                                          *)
LEMMA RequestStart == Init => RequestInv
  BY DEF Init, RequestsInit, SnapshotsInit, RequestInv, PerRequest, Life, Done

(* The life cycle holds always.                                            *)
THEOREM RequestsAnsweredOnce == Spec => []RequestInv
  BY RequestStart, RequestStep, PTL DEF Spec

-----------------------------------------------------------------------------
(* Logout against refresh.                                                 *)

(* A session cookie a client presents comes from an answered request or    *)
(* was there at the start: nobody can still be creating it.                *)
Presented(q) == arg[q].who \in Req => Done(arg[q].who)

(* A read guard belongs to a refresh between its look-up and its insert,   *)
(* and keeps the session in the map ...                                    *)
GuardInv ==
    \A g \in guards : \E q \in Req :
        /\ g = <<q, arg[q].who>>
        /\ kind[q] = "refresh" /\ pc[q] = "insert_token"
        /\ arg[q].who \in DOMAIN sessions

(* ... and every such refresh holds one.                                   *)
HoldsGuard(q) ==
    kind[q] = "refresh" /\ pc[q] = "insert_token" => <<q, arg[q].who>> \in guards

(* From the removal of the session on it is gone; from the sweep on its    *)
(* tokens are.                                                             *)
GoneFrom(q) ==
    kind[q] = "logout" /\ arg[q].who # None =>
        /\ pc[q] \notin {"idle", "start"} => arg[q].who \notin DOMAIN sessions
        /\ pc[q] \notin {"idle", "start", "retain"} =>
              \A t \in DOMAIN tokens : tokens[t].session # arg[q].who

SessionInv ==
    /\ GuardInv
    /\ \A q \in Req : Presented(q) /\ HoldsGuard(q) /\ GoneFrom(q)

(* A look-up removes at most a session nobody holds a guard on.            *)
LEMMA LookUpFacts ==
    ASSUME GuardInv, NEW s, UserBySession(s)
    PROVE  /\ tokens' = tokens /\ guards' = guards
           /\ DOMAIN sessions' \subseteq DOMAIN sessions
           /\ \A q \in Req : <<q, arg[q].who>> \in guards => arg[q].who \in DOMAIN sessions'
<1>1. CASE DropExpired(s)
  <2>1. DOMAIN sessions' = DOMAIN sessions \ {s} /\ tokens' = tokens /\ guards' = guards
    BY <1>1 DEF DropExpired, Keep
  <2>2. \A q \in Req : <<q, arg[q].who>> \in guards => arg[q].who \in DOMAIN sessions
    BY DEF GuardInv
  <2>3. \A q \in Req : <<q, s>> \notin guards
    BY <1>1 DEF DropExpired
  <2> QED
    BY <2>1, <2>2, <2>3
<1>2. CASE UNCHANGED sessionVars
  BY <1>2 DEF sessionVars, GuardInv
<1> QED
  BY <1>1, <1>2 DEF UserBySession

(* The steps that leave the session store's guards, and no more sessions   *)
(* and tokens than there were.                                             *)
LEMMA SessionsShrink ==
    ASSUME RequestInv, SessionInv, NEW r \in Req, Alone(r), Moved(r),
           kind[r] \notin {"refresh", "logout"},
           guards' = guards, DOMAIN sessions' \subseteq DOMAIN sessions,
           DOMAIN tokens' \subseteq DOMAIN tokens,
           \A t \in DOMAIN tokens' : tokens'[t] = tokens[t],
           \A q \in Req : <<q, arg[q].who>> \in guards => arg[q].who \in DOMAIN sessions'
    PROVE  SessionInv'
<1>1. kind' = kind /\ arg' = arg /\ pc[r] # "done"
  BY MoveFacts DEF RequestInv
<1>2. \A q \in Req \ {r} : pc'[q] = pc[q]
  BY DEF Alone
<1>3. GuardInv'
  BY <1>1, <1>2 DEF SessionInv, GuardInv
<1>4. ASSUME NEW q \in Req  PROVE Presented(q)' /\ HoldsGuard(q)' /\ GoneFrom(q)'
  BY <1>1, <1>2 DEF SessionInv, Presented, HoldsGuard, GoneFrom, Done
<1> QED
  BY <1>3, <1>4 DEF SessionInv

(* A login or setup adds a session and a token that nobody has presented.  *)
LEMMA SessionsGrow ==
    ASSUME RequestInv, SessionInv, NEW r \in Req, Alone(r), Moved(r),
           kind[r] \in {"setup", "login"},
           NEW user, NEW role, CreateSession(r, user, role)
    PROVE  SessionInv'
<1>1. kind' = kind /\ arg' = arg /\ pc[r] # "done"
  BY MoveFacts DEF RequestInv
<1>2. \A q \in Req \ {r} : pc'[q] = pc[q]
  BY DEF Alone
<1>3. /\ guards' = guards
      /\ DOMAIN sessions' = DOMAIN sessions \cup {r}
      /\ DOMAIN tokens' = DOMAIN tokens \cup {r} /\ tokens'[r].session = r
      /\ \A t \in DOMAIN tokens : t # r => tokens'[t] = tokens[t]
  BY DEF CreateSession, Put
<1>4. GuardInv'
  BY <1>1, <1>2, <1>3 DEF SessionInv, GuardInv
<1>5. ASSUME NEW q \in Req  PROVE arg[q].who # r
  BY <1>1 DEF SessionInv, Presented, Done
<1>6. ASSUME NEW q \in Req  PROVE Presented(q)' /\ HoldsGuard(q)' /\ GoneFrom(q)'
  BY <1>1, <1>2, <1>3, <1>5 DEF SessionInv, Presented, HoldsGuard, GoneFrom, Done
<1> QED
  BY <1>4, <1>6 DEF SessionInv

(* A refresh takes its guard and gives it back with the token stored.      *)
LEMMA RefreshKeeps ==
    ASSUME RequestInv, SessionInv, NEW r \in Req, Alone(r), Moved(r), Refresh(r)
    PROVE  SessionInv'
<1> DEFINE s == arg[r].who
<1>1. kind' = kind /\ arg' = arg /\ pc[r] # "done" /\ kind[r] = "refresh"
  BY MoveFacts DEF RequestInv, Refresh
<1>2. \A q \in Req \ {r} : pc'[q] = pc[q]
  BY DEF Alone
<1>3. CASE pc[r] = "start" /\ Live(s)
  <2>1. /\ guards' = guards \cup {<<r, s>>} /\ sessions' = sessions /\ tokens' = tokens
        /\ pc'[r] = "insert_token" /\ s \in DOMAIN sessions
    BY <1>3 DEF Refresh, Goto, RequestInv, PerRequest, Live
  <2>2. GuardInv'
    BY <1>1, <1>2, <1>3, <2>1 DEF SessionInv, GuardInv
  <2>3. ASSUME NEW q \in Req  PROVE Presented(q)' /\ HoldsGuard(q)' /\ GoneFrom(q)'
    BY <1>1, <1>2, <2>1 DEF SessionInv, Presented, HoldsGuard, GoneFrom, Done
  <2> QED
    BY <2>2, <2>3 DEF SessionInv
<1>4. CASE pc[r] = "start" /\ ~Live(s)
  <2>1. UserBySession(s) /\ pc'[r] = "done"
    BY <1>4 DEF Refresh, Reply, RequestInv, PerRequest
  <2>2. /\ tokens' = tokens /\ guards' = guards
        /\ DOMAIN sessions' \subseteq DOMAIN sessions
        /\ \A q \in Req : <<q, arg[q].who>> \in guards => arg[q].who \in DOMAIN sessions'
    BY <2>1, LookUpFacts DEF SessionInv
  <2>3. GuardInv'
    BY <1>1, <1>2, <1>4, <2>2 DEF SessionInv, GuardInv
  <2>4. ASSUME NEW q \in Req  PROVE Presented(q)' /\ HoldsGuard(q)' /\ GoneFrom(q)'
    BY <1>1, <1>2, <2>1, <2>2 DEF SessionInv, Presented, HoldsGuard, GoneFrom, Done
  <2> QED
    BY <2>3, <2>4 DEF SessionInv
<1>5. CASE pc[r] = "insert_token"
  <2>1. /\ guards' = guards \ {<<r, s>>} /\ sessions' = sessions
        /\ DOMAIN tokens' = DOMAIN tokens \cup {r} /\ tokens'[r].session = s
        /\ \A t \in DOMAIN tokens : t # r => tokens'[t] = tokens[t]
        /\ pc'[r] = "done"
    BY <1>5 DEF Refresh, Reply, RequestInv, PerRequest, Put
  <2>2. s \in DOMAIN sessions
    BY <1>1, <1>5 DEF SessionInv, HoldsGuard, GuardInv
  <2>3. GuardInv'
    BY <1>1, <1>2, <2>1 DEF SessionInv, GuardInv
  <2>4. ASSUME NEW q \in Req  PROVE Presented(q)' /\ HoldsGuard(q)' /\ GoneFrom(q)'
    BY <1>1, <1>2, <2>1, <2>2 DEF SessionInv, Presented, HoldsGuard, GoneFrom, Done
  <2> QED
    BY <2>3, <2>4 DEF SessionInv
<1> QED
  BY <1>3, <1>4, <1>5 DEF Refresh

(* A logout removes a session nobody holds, then its tokens.               *)
LEMMA LogoutKeeps ==
    ASSUME RequestInv, SessionInv, NEW r \in Req, Alone(r), Moved(r), Logout(r)
    PROVE  SessionInv'
<1> DEFINE s == arg[r].who
<1>1. kind' = kind /\ arg' = arg /\ pc[r] # "done" /\ kind[r] = "logout"
  BY MoveFacts DEF RequestInv, Logout
<1>2. \A q \in Req \ {r} : pc'[q] = pc[q]
  BY DEF Alone
<1>3. CASE pc[r] = "start" /\ s # None
  <2>1. /\ DOMAIN sessions' = DOMAIN sessions \ {s} /\ tokens' = tokens /\ guards' = guards
        /\ pc'[r] = "retain"
        /\ \A q \in Req : <<q, s>> \notin guards
    BY <1>3 DEF Logout, Goto, RequestInv, PerRequest, Keep
  <2>2. GuardInv'
    BY <1>1, <1>2, <1>3, <2>1 DEF SessionInv, GuardInv
  <2>3. ASSUME NEW q \in Req  PROVE Presented(q)' /\ HoldsGuard(q)' /\ GoneFrom(q)'
    BY <1>1, <1>2, <2>1 DEF SessionInv, Presented, HoldsGuard, GoneFrom, Done
  <2> QED
    BY <2>2, <2>3 DEF SessionInv
<1>4. CASE pc[r] = "retain"
  <2>1. /\ sessions' = sessions /\ guards' = guards
        /\ DOMAIN tokens' = {t \in DOMAIN tokens : tokens[t].session # s}
        /\ \A t \in DOMAIN tokens' : tokens'[t] = tokens[t]
    BY <1>4 DEF Logout, Keep
  <2>2. GuardInv'
    BY <1>1, <1>2, <2>1 DEF SessionInv, GuardInv
  <2>3. ASSUME NEW q \in Req  PROVE Presented(q)' /\ HoldsGuard(q)' /\ GoneFrom(q)'
    BY <1>1, <1>2, <1>4, <2>1 DEF SessionInv, Presented, HoldsGuard, GoneFrom, Done
  <2> QED
    BY <2>2, <2>3 DEF SessionInv
<1>5. CASE UNCHANGED sessionVars /\ (pc[r] = "audit" \/ s = None)
  <2>1. sessions' = sessions /\ guards' = guards /\ tokens' = tokens
    BY <1>5 DEF sessionVars
  <2>2. GuardInv'
    BY <1>1, <1>2, <2>1 DEF SessionInv, GuardInv
  <2>3. ASSUME NEW q \in Req  PROVE Presented(q)' /\ HoldsGuard(q)' /\ GoneFrom(q)'
    BY <1>1, <1>2, <1>5, <2>1 DEF SessionInv, Presented, HoldsGuard, GoneFrom, Done
  <2> QED
    BY <2>2, <2>3 DEF SessionInv
<1> QED
  BY <1>3, <1>4, <1>5 DEF Logout

(* A request arrives with a session it was given.                          *)
LEMMA BeginKeeps ==
    ASSUME RequestInv, SessionInv, NEW r \in Req, Begin(r), UNCHANGED snapVars
    PROVE  SessionInv'
<1>1. /\ Alone(r) /\ kind' = kind /\ pc[r] = "idle" /\ arg'[r] \in Inputs(kind[r])
      /\ pc'[r] = "start" \/ (pc'[r] = "done" /\ Needs(kind[r]) # "none")
  <2> PerRequest
    BY DEF RequestInv
  <2> QED
    BY BeginFacts
<1>2. \A q \in Req \ {r} : pc'[q] = pc[q] /\ arg'[q] = arg[q]
  BY <1>1 DEF Alone
<1>3. arg'[r].who \in KnownSessions \cup {None}
  BY <1>1 DEF Inputs
<1>4. Presented(r)'
  <2>1. CASE arg'[r].who \in DOMAIN sessions
    <3>1. ASSUME arg'[r].who \in Req  PROVE pc[arg'[r].who] = "done" /\ arg'[r].who # r
      <4>1. arg'[r].who = None \/ resp[arg'[r].who] = 200
              \/ \E q \in Req : arg[q].who = arg'[r].who
        BY <1>3, <3>1 DEF KnownSessions
      <4> QED
        BY <1>1, <3>1, <4>1, NoneAssumption DEF SessionInv, Presented, RequestInv, Life, Done
    <3> QED
      BY <1>2, <3>1 DEF Presented, Done
  <2>2. CASE arg'[r].who \notin DOMAIN sessions
    <3>1. arg'[r].who = None \/ \E q \in Req : arg[q].who = arg'[r].who
      BY <1>3, <2>2 DEF KnownSessions
    <3>2. arg'[r].who \in Req => pc[arg'[r].who] = "done" /\ arg'[r].who # r
      BY <1>1, <3>1, NoneAssumption DEF SessionInv, Presented, Done
    <3> QED
      BY <1>2, <3>2 DEF Presented, Done
  <2> QED
    BY <2>1, <2>2
<1>5. /\ tokens' = tokens /\ guards' = guards
      /\ DOMAIN sessions' \subseteq DOMAIN sessions
      /\ \A q \in Req : <<q, arg[q].who>> \in guards => arg[q].who \in DOMAIN sessions'
  <2>1. UNCHANGED sessionVars \/ \E s : UserBySession(s)
    BY Zenon DEF Begin
  <2> QED
    BY <2>1, LookUpFacts DEF SessionInv, sessionVars, GuardInv
<1>6. GuardInv'
  BY <1>1, <1>2, <1>5 DEF SessionInv, GuardInv
<1>7. kind[r] = "logout" => Needs(kind[r]) = "none"
  BY DEF Needs
<1>8. ASSUME NEW q \in Req  PROVE Presented(q)' /\ HoldsGuard(q)' /\ GoneFrom(q)'
  <2>1. CASE q = r
    BY <1>1, <1>4, <1>7, <2>1 DEF HoldsGuard, GoneFrom
  <2>2. CASE q # r
    BY <1>1, <1>2, <1>5, <2>2 DEF SessionInv, Presented, HoldsGuard, GoneFrom, Done
  <2> QED
    BY <2>1, <2>2
<1> QED
  BY <1>6, <1>8 DEF SessionInv

(* Every step keeps the session store consistent.                          *)
LEMMA SessionStep ==
    ASSUME RequestInv, SessionInv, [Next]_vars
    PROVE  SessionInv'
<1>1. ASSUME NEW r \in Req, Alone(r), Moved(r), kind[r] \notin {"refresh", "logout"},
             UNCHANGED sessionVars
      PROVE  SessionInv'
  BY <1>1, SessionsShrink DEF sessionVars, SessionInv, GuardInv
<1>2. ASSUME NEW r \in Req, Handler(r)  PROVE SessionInv'
  <2> Moved(r) /\ Alone(r)
    BY <1>2, HandlersMove, HandlersAlone DEF RequestInv
  <2>1. CASE Setup(r)
    BY <1>1, <2>1, SessionsGrow DEF Setup
  <2>2. CASE Login(r)
    BY <1>1, <2>2, SessionsGrow DEF Login, LoginAdmit, LoginVerify
  <2>3. CASE Me(r)
    <3>1. CASE UNCHANGED <<tokens, guards>> /\ \E s : UserBySession(s)
      BY <2>3, <3>1, LookUpFacts, SessionsShrink DEF Me, SessionInv
    <3>2. CASE pc[r] = "start"
      <4>1. /\ DOMAIN tokens' \subseteq DOMAIN tokens
            /\ \A t \in DOMAIN tokens' : tokens'[t] = tokens[t]
            /\ sessions' = sessions /\ guards' = guards /\ kind[r] = "me"
        BY <2>3, <3>2 DEF Me, Keep
      <4> QED
        BY <4>1, SessionsShrink DEF SessionInv, GuardInv
    <3>3. CASE pc[r] # "start"
      <4>1. \E s : UserBySession(s)
        BY <2>3, <3>3 DEF Me
      <4> QED
        BY <3>1, <4>1, LookUpFacts DEF SessionInv
    <3> QED
      BY <3>2, <3>3
  <2>4. CASE NodesStep(r)
    BY <1>1, <2>4 DEF NodesStep, CreateNode, UpdateNodeRow, RemoveNode, CreateCredential,
       RevokeCredentialOf, Enroll
  <2>5. CASE AclStep(r)
    BY <1>1, <2>5 DEF AclStep, CreateAclRule, DropAclRule, DropRoute
  <2>6. CASE SnapshotsStep(r)
    BY <1>1, <2>6 DEF SnapshotsStep, ReadSnapshot, Restore
  <2> QED
    BY <1>2, <2>1, <2>2, <2>3, <2>4, <2>5, <2>6, RefreshKeeps, LogoutKeeps
       DEF Handler, AccountsStep
<1>3. ASSUME NEW r \in Req, Interrupted(r), UNCHANGED snapVars  PROVE SessionInv'
  <2>1. Moved(r) /\ Alone(r) /\ UNCHANGED sessionVars /\ pc'[r] = "done"
    BY <1>3, InterruptedFacts DEF RequestInv, Interrupted
  <2>2. CASE kind[r] \notin {"refresh", "logout"}
    BY <1>1, <2>1, <2>2
  <2>3. CASE kind[r] \in {"refresh", "logout"}
    <3>1. kind' = kind /\ arg' = arg /\ pc[r] \notin {"start", "insert_token", "retain"}
      BY <1>3, <2>1, <2>3, MoveFacts DEF RequestInv, Interrupted, NotAwaiting
    <3>2. \A q \in Req \ {r} : pc'[q] = pc[q]
      BY <2>1 DEF Alone
    <3>3. sessions' = sessions /\ tokens' = tokens /\ guards' = guards
      BY <2>1 DEF sessionVars
    <3>4. GuardInv'
      BY <3>1, <3>2, <3>3 DEF SessionInv, GuardInv
    <3>5. ASSUME NEW q \in Req  PROVE Presented(q)' /\ HoldsGuard(q)' /\ GoneFrom(q)'
      BY <2>1, <3>1, <3>2, <3>3, MoveFacts
         DEF SessionInv, Presented, HoldsGuard, GoneFrom, Done, RequestInv
    <3> QED
      BY <3>4, <3>5 DEF SessionInv
  <2> QED
    BY <2>2, <2>3
<1>4. CASE UNCHANGED reqVars /\ UNCHANGED sessionVars
  BY <1>4 DEF reqVars, sessionVars, SessionInv, GuardInv, Presented, HoldsGuard, GoneFrom, Done
<1> QED
  <2>1. CASE Tick
    BY <1>4, <2>1 DEF Tick
  <2>2. CASE UNCHANGED vars
    BY <1>4, <2>2 DEF vars
  <2> QED
    BY <1>2, <1>3, <2>1, <2>2, StepCases, BeginKeeps

(* Once a logout is answered, its session is gone and no token of it is    *)
(* left or will be stored, however many refreshes were under way.          *)
THEOREM LogoutFinal == Spec => []LoggedOutStaysOut
<1>1. Init => SessionInv
  BY NoneAssumption DEF Init, RequestsInit, SessionInv, GuardInv, Presented, HoldsGuard, GoneFrom
<1>2. SessionInv => LoggedOutStaysOut
  BY DEF SessionInv, GoneFrom, LoggedOutStaysOut, Done
<1> QED
  BY <1>1, <1>2, RequestsAnsweredOnce, SessionStep, PTL DEF Spec

-----------------------------------------------------------------------------
(* The tables and the audit log.                                           *)

TableNames == DOMAIN Columns \cup {"grants", "audit"}

(* The names of the tables, written out.                                   *)
LEMMA TheTables ==
    /\ Tables = {"nodes", "certificates", "routes", "acl_rules", "domains", "credentials"}
    /\ TableNames = Tables \cup {"users", "grants", "audit"}
    /\ DOMAIN Columns = Tables \cup {"users"}
<1>1. Len(SnapshotTables) = 6
  BY DEF SnapshotTables
<1>2. 1..6 = {1, 2, 3, 4, 5, 6}
  OBVIOUS
<1>3. Tables = {"nodes", "certificates", "routes", "acl_rules", "domains", "credentials"}
  BY <1>1, <1>2 DEF Tables, SnapshotTables
<1>4. DOMAIN Columns = Tables \cup {"users"}
  BY <1>3 DEF Columns
<1> QED
  BY <1>3, <1>4 DEF TableNames

(* The rows a restore still has to look at are rows of tables.             *)
TodoTyped(r) ==
    /\ \A x \in todo[r] : x[1] \in Tables
    /\ kind[r] \in {"restore", "import"} /\ pc[r] = "insert" => cur[r][1] \in Tables

TablesInv == DOMAIN db = TableNames /\ \A r \in Req : TodoTyped(r)

(* A statement changes the tables of the set S and no other.               *)
Touches(S) == DOMAIN db' = DOMAIN db /\ \A t \in TableNames \ S : db'[t] = db[t]

(* INSERT, DELETE and UPDATE touch the tables they name and those the      *)
(* foreign keys make them touch.                                           *)
LEMMA StatementsTouch ==
    ASSUME DOMAIN db = TableNames
    PROVE  /\ \A t, k, row : db' = Insert(db, t, k, row) => Touches({t})
           /\ \A e : db' = InsertAuditLog(db, e) =>
                 Touches({"audit"}) /\ db'["audit"] = db["audit"] \cup {e}
           /\ \A R : db' = DeleteRoutes(db, R) => Touches({"routes", "acl_rules", "domains"})
           /\ \A n : db' = DeleteNode(db, n) =>
                 Touches({"nodes", "routes", "acl_rules", "domains", "credentials"})
           /\ \A a : db' = DeleteAclRule(db, a) => Touches({"acl_rules"})
           /\ \A c : db' = RevokeCredential(db, c) => Touches({"credentials"})
           /\ \A n, m : db' = SetNodeAgentMeta(db, n, m) => Touches({"nodes"})
           /\ \A n, x, y : db' = UpdateNode(db, n, x, y) => Touches({"nodes"})
<1> USE TheTables DEF Touches
<1>1. ASSUME NEW t, NEW k, NEW row, db' = Insert(db, t, k, row)  PROVE Touches({t})
  BY <1>1 DEF Insert
<1>2. ASSUME NEW e, db' = InsertAuditLog(db, e)
      PROVE  Touches({"audit"}) /\ db'["audit"] = db["audit"] \cup {e}
  BY <1>2 DEF InsertAuditLog
<1>3. ASSUME NEW R, db' = DeleteRoutes(db, R)
      PROVE  Touches({"routes", "acl_rules", "domains"})
  BY <1>3 DEF DeleteRoutes
<1>4. ASSUME NEW n, db' = DeleteNode(db, n)
      PROVE  Touches({"nodes", "routes", "acl_rules", "domains", "credentials"})
  BY <1>4 DEF DeleteNode, DeleteRoutes
<1>5. ASSUME NEW a, db' = DeleteAclRule(db, a)  PROVE Touches({"acl_rules"})
  BY <1>5 DEF DeleteAclRule
<1>6. ASSUME NEW c, db' = RevokeCredential(db, c)  PROVE Touches({"credentials"})
  BY <1>6 DEF RevokeCredential
<1>7. ASSUME NEW n, NEW m, db' = SetNodeAgentMeta(db, n, m)  PROVE Touches({"nodes"})
  BY <1>7 DEF SetNodeAgentMeta
<1>8. ASSUME NEW n, NEW x, NEW y, db' = UpdateNode(db, n, x, y)  PROVE Touches({"nodes"})
  BY <1>8 DEF UpdateNode
<1> QED
  BY <1>1, <1>2, <1>3, <1>4, <1>5, <1>6, <1>7, <1>8

(* The tables an endpoint writes, besides the audit log.                   *)
Writes(k) ==
    CASE k = "setup" -> {"users", "grants"}
      [] k \in {"create_node", "enroll"} -> {"nodes", "credentials"}
      [] k = "update_node" -> {"nodes"}
      [] k = "delete_node" -> {"nodes", "routes", "acl_rules", "domains", "credentials"}
      [] k \in {"create_credential", "revoke_credential"} -> {"credentials"}
      [] k \in {"create_acl", "delete_acl"} -> {"acl_rules"}
      [] k = "delete_route" -> {"routes", "acl_rules", "domains"}
      [] k \in {"restore", "import"} -> Tables
      [] OTHER -> {}

(* An endpoint writes no other table, and never takes an entry out of the  *)
(* audit log.                                                              *)
LEMMA HandlersTouch ==
    ASSUME TablesInv, NEW r \in Req, Handler(r)
    PROVE  Touches(Writes(kind[r]) \cup {"audit"}) /\ db["audit"] \subseteq db'["audit"]
<1> DEFINE Goal == Touches(Writes(kind[r]) \cup {"audit"}) /\ db["audit"] \subseteq db'["audit"]
<1> DOMAIN db = TableNames
  BY DEF TablesInv
<1>0. CASE UNCHANGED db
  BY <1>0 DEF Touches
<1>a. \A e : db' = InsertAuditLog(db, e) => Goal
  BY StatementsTouch DEF Touches
<1>b. ASSUME NEW S, Touches(S), "audit" \notin S, S \subseteq Writes(kind[r])
      PROVE  Goal
  BY <1>b, TheTables DEF Touches
<1> HIDE DEF Goal
<1>1. CASE Setup(r)
  <2>1. Writes(kind[r]) = {"users", "grants"}
    BY <1>1 DEF Setup, Writes
  <2>2. \/ db' = db \/ \E e : db' = InsertAuditLog(db, e)
        \/ \E row : db' = Insert(db, "users", r, row)
        \/ db' = [db EXCEPT !.grants = @ \cup {<<r, "admin">>}]
    BY <1>1 DEF Setup, WriteAudit
  <2>3. db' = [db EXCEPT !.grants = @ \cup {<<r, "admin">>}] => Touches({"grants"})
    BY TheTables DEF Touches
  <2> QED
    BY <1>0, <1>a, <1>b, <2>1, <2>2, <2>3, StatementsTouch DEF Goal
<1>2. CASE Login(r)
  BY <1>2, <1>0, <1>a, <1>b, StatementsTouch, TheTables
     DEF Login, LoginAdmit, LoginVerify, WriteAudit, Writes, Goal
<1>3. CASE Refresh(r)
  BY <1>3, <1>0 DEF Refresh, Goal
<1>4. CASE Logout(r)
  BY <1>4, <1>0, <1>a, <1>b, StatementsTouch, TheTables DEF Logout, WriteAudit, Writes, Goal
<1>5. CASE Me(r)
  BY <1>5, <1>0 DEF Me, Goal
<1>6. CASE CreateNode(r)
  BY <1>6, <1>0, <1>a, <1>b, StatementsTouch, TheTables DEF CreateNode, WriteAudit, Writes, Goal
<1>7. CASE UpdateNodeRow(r)
  BY <1>7, <1>0, <1>a, <1>b, StatementsTouch, TheTables DEF UpdateNodeRow, WriteAudit, Writes, Goal
<1>8. CASE RemoveNode(r)
  BY <1>8, <1>0, <1>a, <1>b, StatementsTouch, TheTables DEF RemoveNode, WriteAudit, Writes, Goal
<1>9. CASE CreateCredential(r)
  BY <1>9, <1>0, <1>a, <1>b, StatementsTouch, TheTables
     DEF CreateCredential, WriteAudit, Writes, Goal
<1>10. CASE RevokeCredentialOf(r)
  BY <1>10, <1>0, <1>a, <1>b, StatementsTouch, TheTables
     DEF RevokeCredentialOf, WriteAudit, Writes, Goal
<1>11. CASE Enroll(r)
  BY <1>11, <1>0, <1>a, <1>b, StatementsTouch, TheTables
     DEF Enroll, WriteAudit, BurnToken, Writes, Goal
<1>12. CASE CreateAclRule(r)
  BY <1>12, <1>0, <1>a, <1>b, StatementsTouch, TheTables
     DEF CreateAclRule, ReloadAcl, WriteAudit, Writes, Goal
<1>13. CASE DropAclRule(r)
  BY <1>13, <1>0, <1>a, <1>b, StatementsTouch, TheTables
     DEF DropAclRule, ReloadAcl, WriteAudit, Writes, Goal
<1>14. CASE DropRoute(r)
  BY <1>14, <1>0, <1>a, <1>b, StatementsTouch, TheTables DEF DropRoute, WriteAudit, Writes, Goal
<1>15. CASE ReadSnapshot(r)
  BY <1>15, <1>0 DEF ReadSnapshot, Goal
<1>16. CASE Restore(r)
  <2>1. Writes(kind[r]) = Tables
    BY <1>16 DEF Restore, Writes
  <2>2. \/ db' = db \/ \E e : db' = InsertAuditLog(db, e)
        \/ \E k, row : db' = Insert(db, cur[r][1], k, row) /\ pc[r] = "insert"
    BY <1>16 DEF Restore, RestoreStart, RestoreExists, RestoreInsert, WriteAudit
  <2>3. pc[r] = "insert" => cur[r][1] \in Tables
    BY <1>16 DEF Restore, TablesInv, TodoTyped
  <2>4. ASSUME NEW k, NEW row, db' = Insert(db, cur[r][1], k, row), pc[r] = "insert"
        PROVE  Goal
    <3>1. Touches({cur[r][1]})
      BY <2>4, StatementsTouch
    <3>2. cur[r][1] # "audit" /\ {cur[r][1]} \subseteq Writes(kind[r])
      BY <2>1, <2>3, <2>4, TheTables
    <3> QED
      BY <1>b, <3>1, <3>2
  <2> QED
    BY <1>0, <1>a, <2>2, <2>4 DEF Goal
<1> QED
  BY <1>1, <1>2, <1>3, <1>4, <1>5, <1>6, <1>7, <1>8, <1>9, <1>10, <1>11, <1>12, <1>13, <1>14,
     <1>15, <1>16
     DEF Goal, Handler, AccountsStep, NodesStep, AclStep, SnapshotsStep

(* Only restore and import have rows to look at.                           *)
LEMMA OnlyRestoreTodo ==
    ASSUME NEW r \in Req, Handler(r), kind[r] \notin {"restore", "import"}
    PROVE  UNCHANGED snapVars
  BY DEF Handler, SnapshotsStep, ReadSnapshot, Restore

(* The tables stay, and so do the rows of tables a restore works on.       *)
LEMMA TablesStep ==
    ASSUME RequestInv, TablesInv, [Next]_vars
    PROVE  TablesInv'
<1> PerRequest
  BY DEF RequestInv
<1>1. ASSUME NEW r \in Req, Alone(r), kind' = kind, TodoTyped(r)', DOMAIN db' = DOMAIN db
      PROVE  TablesInv'
  <2>1. \A q \in Req \ {r} : pc'[q] = pc[q] /\ todo'[q] = todo[q] /\ cur'[q] = cur[q]
    BY <1>1 DEF Alone
  <2> QED
    BY <1>1, <2>1 DEF TablesInv, TodoTyped
<1>2. ASSUME NEW r \in Req, Begin(r), UNCHANGED snapVars  PROVE TablesInv'
  <2>1. /\ Alone(r) /\ kind' = kind /\ pc'[r] # "insert" /\ todo'[r] = todo[r]
    BY <1>2, BeginFacts
  <2>2. TodoTyped(r)' /\ db' = db
    BY <1>2, <2>1 DEF TablesInv, TodoTyped, Begin
  <2> QED
    BY <1>1, <2>1, <2>2
<1>3. ASSUME NEW r \in Req, Interrupted(r), UNCHANGED snapVars  PROVE TablesInv'
  <2>1. /\ Alone(r) /\ kind' = kind /\ pc'[r] = "done"
    BY <1>3, InterruptedFacts, MoveFacts
  <2>2. TodoTyped(r)' /\ db' = db
    BY <1>3, <2>1 DEF TablesInv, TodoTyped, Interrupted, snapVars
  <2> QED
    BY <1>1, <2>1, <2>2
<1>4. ASSUME NEW r \in Req, Handler(r)  PROVE TablesInv'
  <2>1. Alone(r) /\ Moved(r) /\ kind' = kind /\ DOMAIN db' = DOMAIN db
    BY <1>4, HandlersMove, HandlersAlone, MoveFacts, HandlersTouch DEF Touches
  <2>2. CASE kind[r] \notin {"restore", "import"}
    BY <1>1, <1>4, <2>1, <2>2, OnlyRestoreTodo DEF TodoTyped, TablesInv, snapVars
  <2>3. CASE kind[r] \in {"restore", "import"}
    <3>1. Restore(r)
      BY <1>4, <2>3 DEF Handler, AccountsStep, NodesStep, AclStep, SnapshotsStep, Setup, Login,
         Refresh, Logout, Me, CreateNode, UpdateNodeRow, RemoveNode, CreateCredential,
         RevokeCredentialOf, Enroll, CreateAclRule, DropAclRule, DropRoute, ReadSnapshot
    <3>2. CASE RestoreStart(r)
      <4>1. \/ todo' = todo
            \/ todo'[r] = UNION {{<<t, k>> : k \in DOMAIN arg[r].id[t]} : t \in Tables}
        BY <3>2 DEF RestoreStart, PerRequest
      <4>2. \A x \in todo'[r] : x[1] \in Tables
        BY <4>1 DEF TablesInv, TodoTyped
      <4>3. pc'[r] # "insert"
        BY <3>2 DEF RestoreStart, Goto, Reply, PerRequest
      <4> QED
        BY <1>1, <2>1, <4>2, <4>3 DEF TodoTyped
    <3>3. CASE RestoreExists(r)
      <4>1. PICK x \in todo[r] :
              /\ todo' = [todo EXCEPT ![r] = @ \ {x}]
              /\ pc'[r] = "insert" => cur'[r] = x
        BY <3>3 DEF RestoreExists, Goto, PerRequest
      <4>2. \A y \in todo[r] : y[1] \in Tables
        BY DEF TablesInv, TodoTyped
      <4>3. todo'[r] \subseteq todo[r]
        BY <4>1 DEF PerRequest
      <4> QED
        BY <1>1, <2>1, <4>1, <4>2, <4>3 DEF TodoTyped
    <3>4. CASE UNCHANGED snapVars /\ pc'[r] # "insert"
      BY <1>1, <2>1, <3>4 DEF TodoTyped, TablesInv, snapVars
    <3>5. RestoreInsert(r) => UNCHANGED snapVars /\ pc'[r] # "insert"
      BY DEF RestoreInsert, Goto, Reply, PerRequest
    <3> QED
      BY <3>1, <3>2, <3>3, <3>4, <3>5 DEF Restore, Goto, Reply, PerRequest
  <2> QED
    BY <2>2, <2>3
<1>5. CASE UNCHANGED <<reqVars, db, snapVars>>
  BY <1>5 DEF reqVars, snapVars, TablesInv, TodoTyped
<1> QED
  BY <1>2, <1>3, <1>4, <1>5, StepCases DEF Tick, vars

(* The tables of the start are the schema's.                               *)
LEMMA TablesStart == Init => TablesInv
<1> SUFFICES ASSUME Init  PROVE TablesInv
  OBVIOUS
<1>1. PICK s \in Scenarios : db = s.db
  BY DEF Init, RequestsInit
<1>2. DOMAIN db = TableNames
  BY <1>1, ScenarioAssumption DEF TableNames
<1> QED
  BY <1>2 DEF Init, RequestsInit, SnapshotsInit, TablesInv, TodoTyped

(* What is in the audit log before the answer is given.                    *)
Logged(r) ==
    /\ resp[r] \in Ok =>
          /\ \A action \in AuditOf(kind[r]) : <<r, action>> \in db["audit"]
          /\ kind[r] \in {"restore", "import"} /\ arg[r].flag => <<r, kind[r]>> \in db["audit"]
    /\ kind[r] = "enroll" /\ pc[r] = "audit" => <<r, "credential.revoke">> \in db["audit"]
    /\ kind[r] = "create_acl" /\ pc[r] \in {"reload", "store", "get"} =>
          <<r, "acl.create">> \in db["audit"]
    /\ kind[r] = "delete_acl" /\ pc[r] \in {"reload", "store", "answer"} =>
          <<r, "acl.delete">> \in db["audit"]

AuditInv == \A r \in Req : Logged(r)

(* The audit entries of each endpoint.                                     *)
LEMMA AuditOfEach ==
    /\ AuditOf("setup") = {"user.create"} /\ AuditOf("login") = {"login"}
    /\ AuditOf("refresh") = {} /\ AuditOf("logout") = {} /\ AuditOf("me") = {}
    /\ AuditOf("create_node") = {"node.create"} /\ AuditOf("update_node") = {"node.update"}
    /\ AuditOf("delete_node") = {"node.delete"}
    /\ AuditOf("create_credential") = {"credential.create"}
    /\ AuditOf("revoke_credential") = {"credential.revoke"}
    /\ AuditOf("enroll") = {"credential.revoke", "credential.create"}
    /\ AuditOf("create_acl") = {"acl.create"} /\ AuditOf("delete_acl") = {"acl.delete"}
    /\ AuditOf("delete_route") = {"route.delete"}
    /\ AuditOf("backup") = {} /\ AuditOf("export") = {}
    /\ AuditOf("restore") = {} /\ AuditOf("import") = {}
  BY DEF AuditOf

(* Every step keeps the log ahead of the answers.                          *)
LEMMA AuditStep ==
    ASSUME RequestInv, TablesInv, AuditInv, [Next]_vars
    PROVE  AuditInv'
<1> PerRequest /\ DOMAIN db = TableNames
  BY DEF RequestInv, TablesInv
<1>1. ASSUME NEW r \in Req, Alone(r), kind' = kind, db["audit"] \subseteq db'["audit"], Logged(r)'
      PROVE  AuditInv'
  <2>1. \A q \in Req \ {r} : pc'[q] = pc[q] /\ resp'[q] = resp[q] /\ arg'[q] = arg[q]
    BY <1>1 DEF Alone
  <2> QED
    BY <1>1, <2>1 DEF AuditInv, Logged
<1>2. ASSUME NEW r \in Req, Begin(r), UNCHANGED snapVars  PROVE AuditInv'
  <2>1. /\ Alone(r) /\ kind' = kind /\ pc'[r] \in {"start", "done"} /\ resp'[r] \notin Ok
    BY <1>2, BeginFacts DEF Ok
  <2>2. Logged(r)' /\ db' = db
    BY <1>2, <2>1 DEF Logged, Begin
  <2> QED
    BY <1>1, <2>1, <2>2
<1>3. ASSUME NEW r \in Req, Interrupted(r), UNCHANGED snapVars  PROVE AuditInv'
  <2>1. /\ Alone(r) /\ kind' = kind /\ pc'[r] = "done" /\ resp'[r] \notin Ok
    BY <1>3, InterruptedFacts, MoveFacts DEF Ok
  <2>2. Logged(r)' /\ db' = db
    BY <1>3, <2>1 DEF Logged, Interrupted
  <2> QED
    BY <1>1, <2>1, <2>2
<1>4. ASSUME NEW r \in Req, Handler(r)  PROVE AuditInv'
  <2>1. /\ Alone(r) /\ Moved(r) /\ kind' = kind /\ arg' = arg /\ pc[r] # "done"
        /\ db["audit"] \subseteq db'["audit"]
    BY <1>4, HandlersMove, HandlersAlone, MoveFacts, HandlersTouch
  <2>2. resp[r] = 0
    BY <2>1 DEF RequestInv, Life, Done
  <2>3. Logged(r)
    BY DEF AuditInv
  <2>a. \A label : Goto(r, label) => pc'[r] = label /\ resp'[r] = 0
    BY <2>2 DEF Goto, PerRequest
  <2>b. \A status : Reply(r, status) => pc'[r] = "done" /\ resp'[r] = status
    BY DEF Reply, PerRequest
  <2>c. \A action : WriteAudit(r, action) => <<r, action>> \in db'["audit"]
    BY StatementsTouch DEF WriteAudit
  <2>4. Logged(r)'
    <3> USE <2>1, <2>2, <2>3, <2>a, <2>b, <2>c, AuditOfEach DEF Logged, Ok
    <3> HIDE DEF AuditOf
    <3>1. CASE Setup(r)
      BY <3>1 DEF Setup
    <3>2. CASE Login(r)
      BY <3>2 DEF Login, LoginAdmit, LoginVerify
    <3>3. CASE Refresh(r)
      BY <3>3 DEF Refresh
    <3>4. CASE Logout(r)
      BY <3>4 DEF Logout
    <3>5. CASE Me(r)
      BY <3>5 DEF Me
    <3>6. CASE CreateNode(r)
      BY <3>6 DEF CreateNode
    <3>7. CASE UpdateNodeRow(r)
      BY <3>7 DEF UpdateNodeRow
    <3>8. CASE RemoveNode(r)
      BY <3>8 DEF RemoveNode
    <3>9. CASE CreateCredential(r)
      BY <3>9 DEF CreateCredential
    <3>10. CASE RevokeCredentialOf(r)
      BY <3>10 DEF RevokeCredentialOf
    <3>11. CASE Enroll(r)
      BY <3>11 DEF Enroll
    <3>12. CASE CreateAclRule(r)
      BY <3>12 DEF CreateAclRule, ReloadAcl
    <3>13. CASE DropAclRule(r)
      BY <3>13 DEF DropAclRule, ReloadAcl
    <3>14. CASE DropRoute(r)
      BY <3>14 DEF DropRoute
    <3>15. CASE ReadSnapshot(r)
      BY <3>15 DEF ReadSnapshot, SelectOrder
    <3>16. CASE Restore(r)
      BY <3>16 DEF Restore, RestoreStart, RestoreExists, RestoreInsert
    <3> QED
      BY <1>4, <3>1, <3>2, <3>3, <3>4, <3>5, <3>6, <3>7, <3>8, <3>9, <3>10, <3>11, <3>12, <3>13,
         <3>14, <3>15, <3>16
         DEF Handler, AccountsStep, NodesStep, AclStep, SnapshotsStep
  <2> QED
    BY <1>1, <2>1, <2>4
<1>5. CASE UNCHANGED <<reqVars, db>>
  BY <1>5 DEF reqVars, AuditInv, Logged
<1> QED
  BY <1>2, <1>3, <1>4, <1>5, StepCases DEF Tick, vars

(* Nobody is told of a change that the audit log does not have.            *)
THEOREM AuditBeforeAnswer == Spec => []AnsweredIsAudited
<1>1. Init => AuditInv
  BY DEF Init, RequestsInit, AuditInv, Logged, Ok
<1>2. AuditInv => AnsweredIsAudited
  BY DEF AuditInv, Logged, AnsweredIsAudited
<1>3. Spec => []TablesInv
  BY TablesStart, TablesStep, RequestsAnsweredOnce, PTL DEF Spec
<1> QED
  BY <1>1, <1>2, <1>3, RequestsAnsweredOnce, AuditStep, PTL DEF Spec

-----------------------------------------------------------------------------
(* The schema: what the constraints of the database keep.                  *)

GoodDb(d) ==
    /\ DOMAIN d = TableNames
    /\ \A t \in DOMAIN Columns : HasColumns(d, t)
    /\ Consistent(d)

UniqueNames(d, t) == \A x, y \in DOMAIN d[t] : d[t][x].name = d[t][y].name => x = y
NodesExist(d, t) == \A x \in DOMAIN d[t] : d[t][x].node \in DOMAIN d["nodes"]
RoutesExist(d, t) == \A x \in DOMAIN d[t] : d[t][x].route \in DOMAIN d["routes"] \cup {None}

(* The constraints table by table.                                         *)
LEMMA ConsistentIs ==
    ASSUME NEW d
    PROVE  Consistent(d) <=>
             /\ NodesExist(d, "routes") /\ NodesExist(d, "credentials")
             /\ RoutesExist(d, "acl_rules") /\ RoutesExist(d, "domains")
             /\ UniqueNames(d, "users") /\ UniqueNames(d, "nodes")
             /\ UniqueNames(d, "routes") /\ UniqueNames(d, "domains")
  BY TheTables DEF Consistent, Dangling, NodesExist, RoutesExist, UniqueNames

(* The columns of the tables one by one.                                   *)
LEMMA ColumnsAre ==
    ASSUME NEW d, \A t \in DOMAIN Columns : HasColumns(d, t)
    PROVE  /\ \A x \in DOMAIN d["users"] : DOMAIN d["users"][x] = {"name"}
           /\ \A x \in DOMAIN d["nodes"] : DOMAIN d["nodes"][x] = {"name", "description", "meta"}
           /\ \A x \in DOMAIN d["certificates"] : DOMAIN d["certificates"][x] = {"name"}
           /\ \A x \in DOMAIN d["routes"] : DOMAIN d["routes"][x] = {"name", "node"}
           /\ \A x \in DOMAIN d["acl_rules"] : DOMAIN d["acl_rules"][x] = {"route"}
           /\ \A x \in DOMAIN d["domains"] : DOMAIN d["domains"][x] = {"name", "route", "cert"}
           /\ \A x \in DOMAIN d["credentials"] :
                 DOMAIN d["credentials"][x] = {"node", "type", "revoked"}
  BY TheTables DEF HasColumns, Columns

(* An INSERT that no constraint refuses keeps them all.                    *)
LEMMA InsertKeeps ==
    ASSUME NEW d, GoodDb(d), NEW t \in DOMAIN Columns, NEW k, NEW row,
           DOMAIN row = Columns[t], CanInsert(d, t, k, row)
    PROVE  GoodDb(Insert(d, t, k, row))
<1> DEFINE e == Insert(d, t, k, row)
<1>1. /\ DOMAIN e = DOMAIN d /\ t \in DOMAIN d
      /\ DOMAIN e[t] = DOMAIN d[t] \cup {k} /\ e[t][k] = row
      /\ \A x \in DOMAIN d[t] : x # k /\ e[t][x] = d[t][x]
      /\ \A u \in DOMAIN d : u # t => e[u] = d[u]
  BY TheTables DEF Insert, Put, GoodDb, CanInsert, Duplicate, TableNames
<1> HIDE DEF e
<1>2. DOMAIN e = TableNames /\ \A u \in DOMAIN Columns : HasColumns(e, u)
  BY <1>1, TheTables DEF GoodDb, HasColumns
<1>3. \A u \in TableNames : DOMAIN d[u] \subseteq DOMAIN e[u]
  BY <1>1 DEF GoodDb
<1>4. ASSUME NEW u \in {"routes", "credentials"}, NodesExist(d, u)  PROVE NodesExist(e, u)
  BY <1>1, <1>3, <1>4, TheTables DEF NodesExist, CanInsert, Dangling, GoodDb
<1>5. ASSUME NEW u \in {"acl_rules", "domains"}, RoutesExist(d, u)  PROVE RoutesExist(e, u)
  BY <1>1, <1>3, <1>5, TheTables DEF RoutesExist, CanInsert, Dangling, GoodDb
<1>6. ASSUME NEW u \in {"users", "nodes", "routes", "domains"}, UniqueNames(d, u)
      PROVE  UniqueNames(e, u)
  BY <1>1, <1>6, TheTables DEF UniqueNames, CanInsert, Duplicate, GoodDb
<1>7. Consistent(e)
  BY <1>4, <1>5, <1>6, ConsistentIs DEF GoodDb
<1> QED
  BY <1>2, <1>7 DEF GoodDb, e

(* A DELETE of routes takes their rules along and frees their domains.     *)
LEMMA DeleteRoutesKeeps ==
    ASSUME NEW d, GoodDb(d), NEW R
    PROVE  GoodDb(DeleteRoutes(d, R))
<1> DEFINE e == DeleteRoutes(d, R)
<1>1. /\ DOMAIN e = DOMAIN d
      /\ DOMAIN e["routes"] = DOMAIN d["routes"] \ R
      /\ \A x \in DOMAIN e["routes"] : e["routes"][x] = d["routes"][x]
      /\ DOMAIN e["acl_rules"] = {a \in DOMAIN d["acl_rules"] : d["acl_rules"][a].route \notin R}
      /\ \A x \in DOMAIN e["acl_rules"] : e["acl_rules"][x] = d["acl_rules"][x]
      /\ DOMAIN e["domains"] = DOMAIN d["domains"]
      /\ \A x \in DOMAIN d["domains"] :
            e["domains"][x] = IF d["domains"][x].route \in R
                              THEN [d["domains"][x] EXCEPT !.route = None] ELSE d["domains"][x]
      /\ \A u \in DOMAIN d \ {"routes", "acl_rules", "domains"} : e[u] = d[u]
  BY TheTables DEF DeleteRoutes, Keep, GoodDb
<1> HIDE DEF e
<1>2. \A x \in DOMAIN d["domains"] : DOMAIN d["domains"][x] = {"name", "route", "cert"}
  BY ColumnsAre DEF GoodDb
<1>3. \A x \in DOMAIN d["domains"] :
        /\ DOMAIN e["domains"][x] = {"name", "route", "cert"}
        /\ e["domains"][x].name = d["domains"][x].name
        /\ \/ e["domains"][x].route = None
           \/ e["domains"][x].route = d["domains"][x].route /\ d["domains"][x].route \notin R
  BY <1>1, <1>2
<1>4. DOMAIN e = TableNames /\ \A u \in DOMAIN Columns : HasColumns(e, u)
  <2>1. HasColumns(e, "domains")
    BY <1>1, <1>3 DEF HasColumns, Columns
  <2>2. \A u \in DOMAIN Columns \ {"domains"} : HasColumns(e, u)
    BY <1>1, TheTables DEF GoodDb, HasColumns
  <2> QED
    BY <1>1, <2>1, <2>2 DEF GoodDb
<1>5. NodesExist(e, "routes") /\ NodesExist(e, "credentials")
  BY <1>1, TheTables, ConsistentIs DEF NodesExist, GoodDb
<1>6. RoutesExist(e, "acl_rules") /\ RoutesExist(e, "domains")
  BY <1>1, <1>3, TheTables, ConsistentIs DEF RoutesExist, GoodDb
<1>7. /\ UniqueNames(e, "users") /\ UniqueNames(e, "nodes") /\ UniqueNames(e, "routes")
      /\ UniqueNames(e, "domains")
  BY <1>1, <1>3, TheTables, ConsistentIs DEF UniqueNames, GoodDb
<1>8. Consistent(e)
  BY <1>5, <1>6, <1>7, ConsistentIs
<1> QED
  BY <1>4, <1>8 DEF GoodDb, e

(* A DELETE of a node takes its routes and credentials along.              *)
LEMMA DeleteNodeKeeps ==
    ASSUME NEW d, GoodDb(d), NEW n
    PROVE  GoodDb(DeleteNode(d, n))
<1> DEFINE R == {x \in DOMAIN d["routes"] : d["routes"][x].node = n}
           m == DeleteRoutes(d, R)
           e == DeleteNode(d, n)
<1>1. GoodDb(m)
  BY DeleteRoutesKeeps
<1>2. /\ DOMAIN m["routes"] = DOMAIN d["routes"] \ R
      /\ \A x \in DOMAIN m["routes"] : m["routes"][x] = d["routes"][x]
  BY TheTables DEF DeleteRoutes, Keep, GoodDb
<1>3. e = [m EXCEPT !.nodes = Keep(@, DOMAIN @ \ {n}),
                    !.credentials = Keep(@, {c \in DOMAIN @ : @[c].node # n})]
  BY DEF DeleteNode
<1> HIDE DEF m, e
<1>4. /\ DOMAIN e = DOMAIN m
      /\ DOMAIN e["nodes"] = DOMAIN m["nodes"] \ {n}
      /\ \A x \in DOMAIN e["nodes"] : e["nodes"][x] = m["nodes"][x]
      /\ DOMAIN e["credentials"] = {c \in DOMAIN m["credentials"] : m["credentials"][c].node # n}
      /\ \A x \in DOMAIN e["credentials"] : e["credentials"][x] = m["credentials"][x]
      /\ \A u \in DOMAIN m \ {"nodes", "credentials"} : e[u] = m[u]
  BY <1>1, <1>3, TheTables DEF Keep, GoodDb
<1>5. DOMAIN e = TableNames /\ \A u \in DOMAIN Columns : HasColumns(e, u)
  BY <1>1, <1>4, TheTables DEF GoodDb, HasColumns
<1>6. NodesExist(e, "routes") /\ NodesExist(e, "credentials")
  BY <1>1, <1>2, <1>4, TheTables, ConsistentIs DEF NodesExist, GoodDb
<1>7. RoutesExist(e, "acl_rules") /\ RoutesExist(e, "domains")
  BY <1>1, <1>4, TheTables, ConsistentIs DEF RoutesExist, GoodDb
<1>8. /\ UniqueNames(e, "users") /\ UniqueNames(e, "nodes") /\ UniqueNames(e, "routes")
      /\ UniqueNames(e, "domains")
  BY <1>1, <1>4, TheTables, ConsistentIs DEF UniqueNames, GoodDb
<1>9. Consistent(e)
  BY <1>6, <1>7, <1>8, ConsistentIs
<1> QED
  BY <1>5, <1>9 DEF GoodDb, e

(* A change within the rows of a table that leaves keys and references.    *)
LEMMA RowChangeKeeps ==
    ASSUME NEW d, GoodDb(d), NEW e, NEW t \in {"nodes", "credentials"},
           DOMAIN e = DOMAIN d, \A u \in DOMAIN d \ {t} : e[u] = d[u],
           DOMAIN e[t] = DOMAIN d[t],
           \A x \in DOMAIN d[t] : DOMAIN e[t][x] = DOMAIN d[t][x],
           t = "nodes" => UniqueNames(e, "nodes"),
           t = "credentials" => \A x \in DOMAIN d[t] : e[t][x].node = d[t][x].node
    PROVE  GoodDb(e)
<1>1. DOMAIN e = TableNames /\ \A u \in DOMAIN Columns : HasColumns(e, u)
  BY TheTables DEF GoodDb, HasColumns
<1>2. NodesExist(e, "routes") /\ NodesExist(e, "credentials")
  BY TheTables, ConsistentIs DEF NodesExist, GoodDb
<1>3. RoutesExist(e, "acl_rules") /\ RoutesExist(e, "domains")
  BY TheTables, ConsistentIs DEF RoutesExist, GoodDb
<1>4. /\ UniqueNames(e, "users") /\ UniqueNames(e, "nodes") /\ UniqueNames(e, "routes")
      /\ UniqueNames(e, "domains")
  BY TheTables, ConsistentIs DEF UniqueNames, GoodDb
<1>5. Consistent(e)
  BY <1>2, <1>3, <1>4, ConsistentIs
<1> QED
  BY <1>1, <1>5 DEF GoodDb

(* UPDATE of a node, unless its new name is another node's.                *)
LEMMA UpdateNodeKeeps ==
    ASSUME NEW d, GoodDb(d), NEW n, NEW name, NEW description,
           n \in DOMAIN d["nodes"] => ~NodeNameExists(d, name, n)
    PROVE  GoodDb(UpdateNode(d, n, name, description))
<1> DEFINE e == UpdateNode(d, n, name, description)
<1>1. CASE n \notin DOMAIN d["nodes"]
  BY <1>1 DEF UpdateNode
<1>2. CASE n \in DOMAIN d["nodes"]
  <2>1. DOMAIN d["nodes"][n] = {"name", "description", "meta"} /\ "nodes" \in DOMAIN d
    BY <1>2, ColumnsAre, TheTables DEF GoodDb
  <2>2. /\ DOMAIN e = DOMAIN d /\ \A u \in DOMAIN d \ {"nodes"} : e[u] = d[u]
        /\ DOMAIN e["nodes"] = DOMAIN d["nodes"]
        /\ \A x \in DOMAIN d["nodes"] :
              /\ DOMAIN e["nodes"][x] = DOMAIN d["nodes"][x]
              /\ e["nodes"][x].name = IF x = n THEN name ELSE d["nodes"][x].name
    BY <1>2, <2>1 DEF UpdateNode
  <2> HIDE DEF e
  <2>3. UniqueNames(e, "nodes")
    BY <1>2, <2>2, ConsistentIs DEF UniqueNames, NodeNameExists, GoodDb
  <2>4. GoodDb(e)
    BY <2>2, <2>3, RowChangeKeeps
  <2> QED
    BY <2>4 DEF e
<1> QED
  BY <1>1, <1>2

(* Agent metadata, revocation, deletion of a rule, roles and audit entries *)
(* are no matter of the constraints.                                       *)
LEMMA OtherStatementsKeep ==
    ASSUME NEW d, GoodDb(d)
    PROVE  /\ \A n, meta : GoodDb(SetNodeAgentMeta(d, n, meta))
           /\ \A c : GoodDb(RevokeCredential(d, c))
           /\ \A a : GoodDb(DeleteAclRule(d, a))
           /\ \A x : GoodDb(InsertAuditLog(d, x))
           /\ \A g : GoodDb([d EXCEPT !["grants"] = g])
<1>1. ASSUME NEW n, NEW meta  PROVE GoodDb(SetNodeAgentMeta(d, n, meta))
  <2> DEFINE e == SetNodeAgentMeta(d, n, meta)
  <2>1. CASE n \in DOMAIN d["nodes"]
    <3>1. DOMAIN d["nodes"][n] = {"name", "description", "meta"} /\ "nodes" \in DOMAIN d
      BY <2>1, ColumnsAre, TheTables DEF GoodDb
    <3>2. /\ DOMAIN e = DOMAIN d /\ \A u \in DOMAIN d \ {"nodes"} : e[u] = d[u]
          /\ DOMAIN e["nodes"] = DOMAIN d["nodes"]
          /\ \A x \in DOMAIN d["nodes"] :
                /\ DOMAIN e["nodes"][x] = DOMAIN d["nodes"][x]
                /\ e["nodes"][x].name = d["nodes"][x].name
      BY <2>1, <3>1 DEF SetNodeAgentMeta
    <3> HIDE DEF e
    <3>3. UniqueNames(e, "nodes")
      BY <3>2, ConsistentIs DEF UniqueNames, GoodDb
    <3>4. GoodDb(e)
      BY <3>2, <3>3, RowChangeKeeps
    <3> QED
      BY <3>4 DEF e
  <2> QED
    BY <2>1 DEF SetNodeAgentMeta
<1>2. ASSUME NEW c  PROVE GoodDb(RevokeCredential(d, c))
  <2> DEFINE e == RevokeCredential(d, c)
  <2>1. CASE c \in DOMAIN d["credentials"]
    <3>1. DOMAIN d["credentials"][c] = {"node", "type", "revoked"} /\ "credentials" \in DOMAIN d
      BY <2>1, ColumnsAre, TheTables DEF GoodDb
    <3>2. /\ DOMAIN e = DOMAIN d /\ \A u \in DOMAIN d \ {"credentials"} : e[u] = d[u]
          /\ DOMAIN e["credentials"] = DOMAIN d["credentials"]
          /\ \A x \in DOMAIN d["credentials"] :
                /\ DOMAIN e["credentials"][x] = DOMAIN d["credentials"][x]
                /\ e["credentials"][x].node = d["credentials"][x].node
      BY <2>1, <3>1 DEF RevokeCredential
    <3> HIDE DEF e
    <3>4. GoodDb(e)
      BY <3>2, RowChangeKeeps
    <3> QED
      BY <3>4 DEF e
  <2> QED
    BY <2>1 DEF RevokeCredential
<1>3. ASSUME NEW a  PROVE GoodDb(DeleteAclRule(d, a))
  <2> DEFINE e == DeleteAclRule(d, a)
  <2>1. /\ DOMAIN e = DOMAIN d /\ \A u \in DOMAIN d \ {"acl_rules"} : e[u] = d[u]
        /\ DOMAIN e["acl_rules"] \subseteq DOMAIN d["acl_rules"]
        /\ \A x \in DOMAIN e["acl_rules"] : e["acl_rules"][x] = d["acl_rules"][x]
    BY TheTables DEF DeleteAclRule, Keep, GoodDb
  <2> HIDE DEF e
  <2>2. DOMAIN e = TableNames /\ \A u \in DOMAIN Columns : HasColumns(e, u)
    BY <2>1, TheTables DEF GoodDb, HasColumns
  <2>3. /\ NodesExist(e, "routes") /\ NodesExist(e, "credentials")
        /\ RoutesExist(e, "acl_rules") /\ RoutesExist(e, "domains")
    BY <2>1, TheTables, ConsistentIs DEF NodesExist, RoutesExist, GoodDb
  <2>4. /\ UniqueNames(e, "users") /\ UniqueNames(e, "nodes") /\ UniqueNames(e, "routes")
        /\ UniqueNames(e, "domains")
    BY <2>1, TheTables, ConsistentIs DEF UniqueNames, GoodDb
  <2>5. Consistent(e)
    BY <2>3, <2>4, ConsistentIs
  <2> QED
    BY <2>2, <2>5 DEF GoodDb, e
<1>4. ASSUME NEW e, NEW t \in {"grants", "audit"}, DOMAIN e = DOMAIN d,
             \A u \in DOMAIN d \ {t} : e[u] = d[u]
      PROVE  GoodDb(e)
  <2>1. \A u \in DOMAIN Columns : e[u] = d[u]
    BY <1>4, TheTables DEF GoodDb
  <2>2. DOMAIN e = TableNames /\ \A u \in DOMAIN Columns : HasColumns(e, u)
    BY <1>4, <2>1 DEF GoodDb, HasColumns
  <2>3. /\ NodesExist(e, "routes") /\ NodesExist(e, "credentials")
        /\ RoutesExist(e, "acl_rules") /\ RoutesExist(e, "domains")
    BY <2>1, TheTables, ConsistentIs DEF NodesExist, RoutesExist, GoodDb
  <2>4. /\ UniqueNames(e, "users") /\ UniqueNames(e, "nodes") /\ UniqueNames(e, "routes")
        /\ UniqueNames(e, "domains")
    BY <2>1, TheTables, ConsistentIs DEF UniqueNames, GoodDb
  <2> QED
    BY <2>2, <2>3, <2>4, ConsistentIs DEF GoodDb
<1>5. ASSUME NEW x  PROVE GoodDb(InsertAuditLog(d, x))
  BY <1>4 DEF InsertAuditLog
<1>6. ASSUME NEW g  PROVE GoodDb([d EXCEPT !["grants"] = g])
  BY <1>4
<1> QED
  BY <1>1, <1>2, <1>3, <1>5, <1>6

RowsOf(s) == UNION {{<<t, k>> : k \in DOMAIN s[t]} : t \in Tables}

(* A restore works on the rows of the snapshot it was sent ...             *)
RestoreTyped(r) ==
    kind[r] \in {"restore", "import"} =>
        /\ pc[r] # "idle" => arg[r].id \in SnapshotFiles
        /\ pc[r] \in {"idle", "start"} => todo[r] = {}
        /\ todo[r] \subseteq RowsOf(arg[r].id)
        /\ pc[r] = "insert" => cur[r] \in RowsOf(arg[r].id)

(* ... and an update on the row of a node.                                 *)
UpdateTyped(r) ==
    kind[r] = "update_node" /\ pc[r] \in {"check", "update"} =>
        DOMAIN read[r] = Columns["nodes"]

DbInv == GoodDb(db) /\ \A r \in Req : RestoreTyped(r) /\ UpdateTyped(r)

(* A row of a snapshot is a row of one of its tables.                      *)
LEMMA RowsOfSnapshot ==
    ASSUME NEW s \in SnapshotFiles, NEW x \in RowsOf(s)
    PROVE  /\ x[1] \in Tables /\ x[2] \in DOMAIN s[x[1]]
           /\ DOMAIN s[x[1]][x[2]] = Columns[x[1]]
<1>1. PICK t \in Tables : \E k \in DOMAIN s[t] : x = <<t, k>>
  BY DEF RowsOf
<1>2. HasColumns(s, t)
  BY SnapshotAssumption
<1> QED
  BY <1>1, <1>2 DEF HasColumns

(* An endpoint's statements keep the constraints.                          *)
LEMMA HandlersKeepSchema ==
    ASSUME PerRequest, DbInv, NEW r \in Req, Handler(r)
    PROVE  GoodDb(db')
<1> GoodDb(db) /\ DOMAIN db = TableNames /\ \A t \in Tables : t \in DOMAIN Columns
  BY TheTables DEF DbInv, GoodDb
<1>0. CASE UNCHANGED db
  BY <1>0
<1>a. \A action : WriteAudit(r, action) => GoodDb(db')
  BY OtherStatementsKeep DEF WriteAudit
<1>b. \A t \in DOMAIN Columns : \A k, row :
        DOMAIN row = Columns[t] /\ CanInsert(db, t, k, row) /\ db' = Insert(db, t, k, row)
           => GoodDb(db')
  BY InsertKeeps
<1>c. /\ Columns["users"] = {"name"} /\ Columns["nodes"] = {"name", "description", "meta"}
      /\ Columns["credentials"] = {"node", "type", "revoked"} /\ Columns["acl_rules"] = {"route"}
      /\ {"users", "nodes", "credentials", "acl_rules"} \subseteq DOMAIN Columns
  BY DEF Columns
<1>1. CASE Setup(r)
  <2>1. \/ UNCHANGED db \/ WriteAudit(r, "user.create")
        \/ /\ ~Duplicate(db, "users", r, [name |-> arg[r].name])
           /\ db' = Insert(db, "users", r, [name |-> arg[r].name])
        \/ \E g : db' = [db EXCEPT !["grants"] = g]
    BY <1>1 DEF Setup
  <2>2. ~Dangling(db, "users", [name |-> arg[r].name])
    BY DEF Dangling
  <2>3. DOMAIN [name |-> arg[r].name] = {"name"}
    OBVIOUS
  <2> QED
    BY <1>0, <1>a, <1>b, <1>c, <2>1, <2>2, <2>3, OtherStatementsKeep DEF CanInsert
<1>2. CASE Login(r) \/ Refresh(r) \/ Logout(r) \/ Me(r)
  BY <1>0, <1>2, <1>a DEF Login, LoginAdmit, LoginVerify, Refresh, Logout, Me
<1>3. CASE CreateNode(r)
  <2> DEFINE row == [name |-> arg[r].name, description |-> None, meta |-> None]
             cred == NewCredential(r, "bootstrap")
  <2>1. \/ UNCHANGED db \/ WriteAudit(r, "node.create")
        \/ ~Duplicate(db, "nodes", r, row) /\ db' = Insert(db, "nodes", r, row)
        \/ CanInsert(db, "credentials", r, cred) /\ db' = Insert(db, "credentials", r, cred)
    BY <1>3 DEF CreateNode
  <2>2. ~Dangling(db, "nodes", row)
    BY DEF Dangling
  <2>3. DOMAIN row = {"name", "description", "meta"} /\ DOMAIN cred = {"node", "type", "revoked"}
    BY DEF NewCredential
  <2> QED
    BY <1>0, <1>a, <1>b, <1>c, <2>1, <2>2, <2>3 DEF CanInsert
<1>4. CASE UpdateNodeRow(r)
  <2>1. \/ UNCHANGED db \/ WriteAudit(r, "node.update")
        \/ \E name, description :
             /\ arg[r].id \in DOMAIN db["nodes"] => ~NodeNameExists(db, name, arg[r].id)
             /\ db' = UpdateNode(db, arg[r].id, name, description)
    BY <1>4 DEF UpdateNodeRow
  <2> QED
    BY <1>0, <1>a, <2>1, UpdateNodeKeeps
<1>5. CASE RemoveNode(r)
  BY <1>0, <1>5, <1>a, DeleteNodeKeeps DEF RemoveNode
<1>6. CASE CreateCredential(r)
  <2> DEFINE cred == NewCredential(arg[r].id, "token")
  <2>1. \/ UNCHANGED db \/ WriteAudit(r, "credential.create")
        \/ CanInsert(db, "credentials", r, cred) /\ db' = Insert(db, "credentials", r, cred)
    BY <1>6 DEF CreateCredential
  <2>2. DOMAIN cred = {"node", "type", "revoked"}
    BY DEF NewCredential
  <2> QED
    BY <1>0, <1>a, <1>b, <1>c, <2>1, <2>2
<1>7. CASE RevokeCredentialOf(r)
  BY <1>0, <1>7, <1>a, OtherStatementsKeep DEF RevokeCredentialOf
<1>8. CASE Enroll(r)
  <2> DEFINE cred == NewCredential(read[r], "token")
  <2>1. \/ UNCHANGED db \/ (\E action : WriteAudit(r, action))
        \/ db' = RevokeCredential(db, arg[r].id) \/ db' = SetNodeAgentMeta(db, read[r], r)
        \/ CanInsert(db, "credentials", r, cred) /\ db' = Insert(db, "credentials", r, cred)
    BY <1>8 DEF Enroll, BurnToken
  <2>2. DOMAIN cred = {"node", "type", "revoked"}
    BY DEF NewCredential
  <2> QED
    BY <1>0, <1>a, <1>b, <1>c, <2>1, <2>2, OtherStatementsKeep
<1>9. CASE CreateAclRule(r)
  <2> DEFINE rule == [route |-> arg[r].id]
  <2>1. \/ UNCHANGED db \/ WriteAudit(r, "acl.create")
        \/ CanInsert(db, "acl_rules", r, rule) /\ db' = Insert(db, "acl_rules", r, rule)
    BY <1>9 DEF CreateAclRule, ReloadAcl
  <2>2. DOMAIN rule = {"route"}
    OBVIOUS
  <2> QED
    BY <1>0, <1>a, <1>b, <1>c, <2>1, <2>2
<1>10. CASE DropAclRule(r)
  BY <1>0, <1>10, <1>a, OtherStatementsKeep DEF DropAclRule, ReloadAcl
<1>11. CASE DropRoute(r)
  BY <1>0, <1>11, <1>a, DeleteRoutesKeeps DEF DropRoute
<1>12. CASE ReadSnapshot(r)
  BY <1>0, <1>12 DEF ReadSnapshot
<1>13. CASE Restore(r)
  <2> DEFINE t == cur[r][1]
             row == arg[r].id[t][cur[r][2]]
  <2>1. \/ UNCHANGED db \/ WriteAudit(r, kind[r])
        \/ /\ pc[r] = "insert" /\ CanInsert(db, t, cur[r][2], row)
           /\ db' = Insert(db, t, cur[r][2], row)
    BY <1>13 DEF Restore, RestoreStart, RestoreExists, RestoreInsert
  <2>2. pc[r] = "insert" => t \in Tables /\ DOMAIN row = Columns[t]
    <3>1. pc[r] = "insert" => arg[r].id \in SnapshotFiles /\ cur[r] \in RowsOf(arg[r].id)
      BY <1>13 DEF Restore, DbInv, RestoreTyped
    <3> QED
      BY <3>1, RowsOfSnapshot
  <2> HIDE DEF t, row
  <2> QED
    BY <1>0, <1>a, <1>b, <2>1, <2>2
<1> QED
  BY <1>1, <1>2, <1>3, <1>4, <1>5, <1>6, <1>7, <1>8, <1>9, <1>10, <1>11, <1>12, <1>13
     DEF Handler, AccountsStep, NodesStep, AclStep, SnapshotsStep

(* Every step keeps the schema and the types of what restore and update    *)
(* work on.                                                                *)
LEMMA DbStep ==
    ASSUME RequestInv, DbInv, [Next]_vars
    PROVE  DbInv'
<1> PerRequest
  BY DEF RequestInv
<1>1. ASSUME NEW r \in Req, Alone(r), kind' = kind, GoodDb(db'),
             RestoreTyped(r)', UpdateTyped(r)'
      PROVE  DbInv'
  <2>1. \A q \in Req \ {r} : /\ pc'[q] = pc[q] /\ arg'[q] = arg[q] /\ todo'[q] = todo[q]
                             /\ cur'[q] = cur[q] /\ read'[q] = read[q]
    BY <1>1 DEF Alone
  <2>2. ASSUME NEW q \in Req \ {r}  PROVE RestoreTyped(q)' /\ UpdateTyped(q)'
    BY <1>1, <2>1 DEF DbInv, RestoreTyped, UpdateTyped
  <2> QED
    BY <1>1, <2>2 DEF DbInv
<1>2. ASSUME NEW r \in Req, Begin(r), UNCHANGED snapVars  PROVE DbInv'
  <2>1. /\ Alone(r) /\ kind' = kind /\ pc[r] = "idle" /\ pc'[r] \in {"start", "done"}
        /\ todo'[r] = todo[r] /\ arg'[r] \in Inputs(kind[r]) /\ db' = db
    BY <1>2, BeginFacts DEF Begin
  <2>2. kind[r] \in {"restore", "import"} => arg'[r].id \in SnapshotFiles
    BY <2>1 DEF Inputs, Targets
  <2>3. RestoreTyped(r)' /\ UpdateTyped(r)'
    BY <2>1, <2>2 DEF DbInv, RestoreTyped, UpdateTyped
  <2> QED
    BY <1>1, <2>1, <2>3 DEF DbInv
<1>3. ASSUME NEW r \in Req, Interrupted(r), UNCHANGED snapVars  PROVE DbInv'
  <2>1. /\ Alone(r) /\ kind' = kind /\ pc'[r] = "done" /\ pc[r] # "idle" /\ arg' = arg /\ db' = db
    BY <1>3, InterruptedFacts, MoveFacts DEF Interrupted
  <2>2. RestoreTyped(r)' /\ UpdateTyped(r)'
    BY <1>3, <2>1 DEF DbInv, RestoreTyped, UpdateTyped, snapVars
  <2> QED
    BY <1>1, <2>1, <2>2 DEF DbInv
<1>4. ASSUME NEW r \in Req, Handler(r)  PROVE DbInv'
  <2>1. /\ Alone(r) /\ Moved(r) /\ kind' = kind /\ arg' = arg /\ pc[r] # "idle" /\ pc'[r] # "idle"
        /\ GoodDb(db')
    BY <1>4, HandlersMove, HandlersAlone, MoveFacts, HandlersKeepSchema
  <2>2. CASE kind[r] \notin {"restore", "import", "update_node"}
    BY <1>1, <2>1, <2>2 DEF RestoreTyped, UpdateTyped
  <2>3. CASE kind[r] = "update_node"
    <3>1. UpdateNodeRow(r)
      BY <1>4, <2>3 DEF Handler, AccountsStep, NodesStep, AclStep, SnapshotsStep, Setup, Login,
         Refresh, Logout, Me, CreateNode, RemoveNode, CreateCredential, Restore,
         RevokeCredentialOf, Enroll, CreateAclRule, DropAclRule, DropRoute, ReadSnapshot
    <3>2. CASE pc[r] = "start" /\ arg[r].id \in DOMAIN db["nodes"]
      <4>1. read'[r] = db["nodes"][arg[r].id]
        BY <3>1, <3>2 DEF UpdateNodeRow, PerRequest
      <4>2. DOMAIN db["nodes"][arg[r].id] = Columns["nodes"]
        BY <3>2, TheTables DEF DbInv, GoodDb, HasColumns
      <4> QED
        BY <1>1, <2>1, <2>3, <4>1, <4>2 DEF RestoreTyped, UpdateTyped
    <3>3. CASE read' = read /\ pc'[r] # "check" /\ (pc'[r] = "update" => pc[r] = "check")
      BY <1>1, <2>1, <2>3, <3>3 DEF RestoreTyped, UpdateTyped, DbInv
    <3> QED
      BY <3>1, <3>2, <3>3 DEF UpdateNodeRow, Goto, Reply, PerRequest
  <2>4. CASE kind[r] \in {"restore", "import"}
    <3>1. Restore(r)
      BY <1>4, <2>4 DEF Handler, AccountsStep, NodesStep, AclStep, SnapshotsStep, Setup, Login,
         Refresh, Logout, Me, CreateNode, UpdateNodeRow, RemoveNode, CreateCredential,
         RevokeCredentialOf, Enroll, CreateAclRule, DropAclRule, DropRoute, ReadSnapshot
    <3>2. /\ arg[r].id \in SnapshotFiles /\ todo[r] \subseteq RowsOf(arg[r].id)
          /\ pc[r] = "start" => todo[r] = {}
      BY <2>1, <2>4 DEF DbInv, RestoreTyped
    <3>a. pc'[r] # "start"
      BY <3>1 DEF Restore, RestoreStart, RestoreExists, RestoreInsert, Goto, Reply, PerRequest
    <3>3. CASE RestoreStart(r)
      <4>1. todo'[r] \subseteq RowsOf(arg[r].id) /\ pc'[r] # "insert"
        BY <3>2, <3>3 DEF RestoreStart, RowsOf, Goto, Reply, PerRequest
      <4> QED
        BY <1>1, <2>1, <2>4, <3>2, <3>a, <4>1 DEF RestoreTyped, UpdateTyped
    <3>4. CASE RestoreExists(r)
      <4>1. /\ todo'[r] \subseteq todo[r]
            /\ pc'[r] = "insert" => cur'[r] \in todo[r]
        BY <3>4 DEF RestoreExists, Goto, PerRequest
      <4> QED
        BY <1>1, <2>1, <2>4, <3>2, <3>a, <4>1 DEF RestoreTyped, UpdateTyped
    <3>5. CASE UNCHANGED snapVars /\ pc'[r] # "insert"
      BY <1>1, <2>1, <2>4, <3>2, <3>5, <3>a DEF RestoreTyped, UpdateTyped, snapVars
    <3>6. RestoreInsert(r) => UNCHANGED snapVars /\ pc'[r] # "insert"
      BY DEF RestoreInsert, Goto, Reply, PerRequest
    <3> QED
      BY <3>1, <3>3, <3>4, <3>5, <3>6 DEF Restore, Goto, Reply, PerRequest
  <2> QED
    BY <2>2, <2>3, <2>4
<1>5. CASE UNCHANGED <<reqVars, db, snapVars>>
  BY <1>5 DEF reqVars, snapVars, DbInv, RestoreTyped, UpdateTyped
<1> QED
  BY <1>2, <1>3, <1>4, <1>5, StepCases DEF Tick, vars

(* The scenarios' tables satisfy the schema.                               *)
LEMMA DbStart == Init => DbInv
<1> SUFFICES ASSUME Init  PROVE DbInv
  OBVIOUS
<1>1. PICK s \in Scenarios : db = s.db
  BY DEF Init, RequestsInit
<1>2. GoodDb(db)
  BY <1>1, ScenarioAssumption DEF GoodDb, TableNames
<1> QED
  BY <1>2 DEF Init, RequestsInit, SnapshotsInit, DbInv, RestoreTyped, UpdateTyped

(* The constraints of the schema hold always, and every row a restore      *)
(* works on is a row of its snapshot.                                      *)
LEMMA DbAlways == Spec => []DbInv
  BY DbStart, DbStep, RequestsAnsweredOnce, PTL DEF Spec

-----------------------------------------------------------------------------
(* The login limiter.                                                      *)

(* A wrong guess within the window is among the recorded failures, which   *)
(* are finitely many and none from the future.                             *)
LimiterInv ==
    /\ clock \in Nat
    /\ DOMAIN failures = NamesFor["login"]
    /\ \A n \in DOMAIN failures :
          IsFiniteSet(failures[n]) /\ \A f \in failures[n] : f[2] \in 0..clock
    /\ \A w \in wrong : \E r \in Req, n \in DOMAIN failures, t \in 0..clock :
          w = <<r, n, t>> /\ (clock - t < Window => <<r, t>> \in failures[n])
    /\ \A r \in Req : kind[r] = "login" /\ pc[r] # "idle" => arg[r].name \in NamesFor["login"]

(* Only logins touch the limiter.                                          *)
LEMMA OnlyLoginLimits ==
    ASSUME NEW r \in Req, Handler(r), ~Login(r)
    PROVE  UNCHANGED limiterVars /\ UNCHANGED clock
  BY DEF Handler, AccountsStep, Setup, Refresh, Logout, Me, NodesStep, CreateNode, UpdateNodeRow,
     RemoveNode, CreateCredential, RevokeCredentialOf, Enroll, AclStep, CreateAclRule, DropAclRule,
     DropRoute, SnapshotsStep, ReadSnapshot, Restore

(* The limiter's state and its history go together.                        *)
LEMMA LimiterStep ==
    ASSUME RequestInv, LimiterInv, [Next]_vars
    PROVE  LimiterInv'
<1> PerRequest
  BY DEF RequestInv
<1>1. CASE UNCHANGED <<limiterVars, clock>> /\ kind' = kind
           /\ \A r \in Req : kind[r] = "login" /\ pc'[r] # "idle" => arg'[r].name \in NamesFor["login"]
  BY <1>1 DEF limiterVars, LimiterInv
<1>2. ASSUME NEW r \in Req, Begin(r), UNCHANGED <<limiterVars, snapVars>>  PROVE LimiterInv'
  <2>1. UNCHANGED snapVars
    BY <1>2
  <2>2. Alone(r) /\ kind' = kind /\ arg'[r] \in Inputs(kind[r]) /\ clock' = clock
    BY <1>2, <2>1, BeginFacts DEF Begin
  <2>3. kind[r] = "login" => arg'[r].name \in NamesFor["login"]
    BY <2>2, LimiterAssumption DEF Inputs
  <2>4. ASSUME NEW q \in Req, kind[q] = "login", pc'[q] # "idle"
        PROVE  arg'[q].name \in NamesFor["login"]
    BY <2>2, <2>3, <2>4 DEF Alone, LimiterInv
  <2> QED
    BY <1>1, <1>2, <2>2, <2>4
<1>3. ASSUME NEW r \in Req, Moved(r), Alone(r), UNCHANGED <<limiterVars, clock>>
      PROVE  LimiterInv'
  <2>1. kind' = kind /\ arg' = arg /\ pc[r] # "idle"
    BY <1>3, MoveFacts
  <2>2. ASSUME NEW q \in Req, kind[q] = "login", pc'[q] # "idle"
        PROVE  arg'[q].name \in NamesFor["login"]
    BY <1>3, <2>1, <2>2 DEF Alone, LimiterInv
  <2> QED
    BY <1>1, <1>3, <2>1, <2>2
<1>4. ASSUME NEW r \in Req, Login(r), Moved(r), Alone(r)  PROVE LimiterInv'
  <2> DEFINE name == arg[r].name
  <2>1. /\ kind' = kind /\ arg' = arg /\ clock' = clock /\ pc[r] # "idle" /\ kind[r] = "login"
    BY <1>4, MoveFacts DEF Login
  <2>2. name \in DOMAIN failures
    BY <2>1 DEF LimiterInv
  <2>3. \A q \in Req : kind'[q] = "login" /\ pc'[q] # "idle" => arg'[q].name \in NamesFor["login"]
    BY <1>4, <2>1 DEF Alone, LimiterInv
  <2>4. /\ Recent(name) \subseteq failures[name] /\ IsFiniteSet(Recent(name))
        /\ \A f \in failures[name] : clock - f[2] < Window => f \in Recent(name)
    BY <2>2, FS_Subset DEF Recent, LimiterInv
  <2> HIDE DEF name
  <2>5. CASE LoginAdmit(r)
    <3>1. failures' = [failures EXCEPT ![name] = Recent(name)] /\ wrong' = wrong
      BY <2>5 DEF LoginAdmit, name
    <3>2. /\ DOMAIN failures' = DOMAIN failures /\ failures'[name] = Recent(name)
          /\ \A n \in DOMAIN failures : n # name => failures'[n] = failures[n]
      BY <2>2, <3>1
    <3>3. \A n \in DOMAIN failures' :
            IsFiniteSet(failures'[n]) /\ \A f \in failures'[n] : f[2] \in 0..clock
      BY <2>2, <2>4, <3>2 DEF LimiterInv
    <3>4. \A w \in wrong : \E q \in Req, n \in DOMAIN failures, t \in 0..clock :
            w = <<q, n, t>> /\ (clock - t < Window => <<q, t>> \in failures'[n])
      <4> SUFFICES ASSUME NEW w \in wrong
                   PROVE  \E q \in Req, n \in DOMAIN failures, t \in 0..clock :
                            w = <<q, n, t>> /\ (clock - t < Window => <<q, t>> \in failures'[n])
        OBVIOUS
      <4>1. PICK q \in Req, n \in DOMAIN failures, t \in 0..clock :
              w = <<q, n, t>> /\ (clock - t < Window => <<q, t>> \in failures[n])
        BY DEF LimiterInv
      <4>2. clock - t < Window => <<q, t>> \in failures'[n]
        BY <2>4, <3>2, <4>1
      <4> QED
        BY <4>1, <4>2
    <3> QED
      BY <2>1, <2>3, <3>1, <3>2, <3>3, <3>4 DEF LimiterInv
  <2>6. CASE LoginVerify(r) /\ wrong' = wrong \cup {<<r, name, clock>>} /\ RecordFailure(r, name)
    <3>1. failures' = [failures EXCEPT ![name] = Recent(name) \cup {<<r, clock>>}]
      BY <2>6 DEF RecordFailure
    <3>2. /\ DOMAIN failures' = DOMAIN failures
          /\ failures'[name] = Recent(name) \cup {<<r, clock>>}
          /\ \A n \in DOMAIN failures : n # name => failures'[n] = failures[n]
      BY <2>2, <3>1
    <3>a. IsFiniteSet(Recent(name) \cup {<<r, clock>>})
      BY <2>4, FS_AddElement
    <3>b. clock \in Nat /\ clock \in 0..clock
      BY DEF LimiterInv
    <3>3. \A n \in DOMAIN failures' :
            IsFiniteSet(failures'[n]) /\ \A f \in failures'[n] : f[2] \in 0..clock
      <4>1. \A f \in failures[name] : f[2] \in 0..clock
        BY <2>2 DEF LimiterInv
      <4>2. \A f \in failures'[name] : f[2] \in 0..clock
        BY <2>4, <3>2, <3>b, <4>1
      <4>3. \A n \in DOMAIN failures : n # name =>
              IsFiniteSet(failures'[n]) /\ \A f \in failures'[n] : f[2] \in 0..clock
        BY <3>2 DEF LimiterInv
      <4> QED
        BY <3>2, <3>a, <4>2, <4>3
    <3>4. \A w \in wrong' : \E q \in Req, n \in DOMAIN failures, t \in 0..clock :
            w = <<q, n, t>> /\ (clock - t < Window => <<q, t>> \in failures'[n])
      <4>1. ASSUME NEW w \in wrong
            PROVE  \E q \in Req, n \in DOMAIN failures, t \in 0..clock :
                     w = <<q, n, t>> /\ (clock - t < Window => <<q, t>> \in failures'[n])
        <5>1. PICK q \in Req, n \in DOMAIN failures, t \in 0..clock :
                w = <<q, n, t>> /\ (clock - t < Window => <<q, t>> \in failures[n])
          BY DEF LimiterInv
        <5>2. clock - t < Window => <<q, t>> \in failures'[n]
          BY <2>4, <3>2, <5>1
        <5> QED
          BY <5>1, <5>2
      <4>2. <<r, clock>> \in failures'[name]
        BY <3>2
      <4> QED
        BY <2>2, <2>6, <3>b, <4>1, <4>2
    <3> QED
      BY <2>1, <2>3, <3>2, <3>3, <3>4 DEF LimiterInv
  <2>7. CASE LoginVerify(r) /\ wrong' = {w \in wrong : w[2] # name}
             /\ failures' = [failures EXCEPT ![name] = {}]
    <3>2. /\ DOMAIN failures' = DOMAIN failures /\ failures'[name] = {}
          /\ \A n \in DOMAIN failures : n # name => failures'[n] = failures[n]
      BY <2>2, <2>7
    <3>3. \A n \in DOMAIN failures' :
            IsFiniteSet(failures'[n]) /\ \A f \in failures'[n] : f[2] \in 0..clock
      BY <2>2, <3>2, FS_EmptySet DEF LimiterInv
    <3>4. \A w \in wrong' : \E q \in Req, n \in DOMAIN failures, t \in 0..clock :
            w = <<q, n, t>> /\ (clock - t < Window => <<q, t>> \in failures'[n])
      BY <2>7, <3>2 DEF LimiterInv
    <3> QED
      BY <2>1, <2>3, <3>2, <3>3, <3>4 DEF LimiterInv
  <2>8. CASE UNCHANGED limiterVars
    BY <1>3, <1>4, <2>1, <2>8
  <2> QED
    BY <1>4, <2>5, <2>6, <2>7, <2>8 DEF Login, LoginVerify, name
<1>5. CASE Tick /\ UNCHANGED limiterVars
  <2>1. /\ clock' = clock + 1 /\ failures' = failures /\ wrong' = wrong
        /\ kind' = kind /\ pc' = pc /\ arg' = arg
    BY <1>5 DEF Tick, limiterVars, reqVars
  <2>2. clock \in Nat /\ clock' \in Nat /\ Window \in Nat /\ 0..clock \subseteq 0..clock'
    BY <2>1, LimiterAssumption DEF LimiterInv
  <2>3. \A n \in DOMAIN failures :
          IsFiniteSet(failures[n]) /\ \A f \in failures[n] : f[2] \in 0..clock'
    BY <2>2 DEF LimiterInv
  <2>4. \A w \in wrong : \E q \in Req, n \in DOMAIN failures, t \in 0..clock' :
          w = <<q, n, t>> /\ (clock' - t < Window => <<q, t>> \in failures[n])
    <3>1. \A t \in 0..clock : clock' - t < Window => clock - t < Window
      BY <2>1, <2>2
    <3> QED
      BY <2>2, <3>1 DEF LimiterInv
  <2> QED
    BY <2>1, <2>2, <2>3, <2>4 DEF LimiterInv
<1> QED
  <2>1. ASSUME NEW r \in Req, Interrupted(r), UNCHANGED limiterVars, UNCHANGED snapVars
        PROVE LimiterInv'
    BY <1>3, <2>1, InterruptedFacts DEF Interrupted
  <2>2. ASSUME NEW r \in Req, Handler(r)  PROVE LimiterInv'
    BY <1>3, <1>4, <2>2, HandlersMove, HandlersAlone, OnlyLoginLimits
  <2>3. CASE UNCHANGED vars
    BY <1>1, <2>3 DEF vars, reqVars, LimiterInv
  <2> QED
    BY <1>2, <1>5, <2>1, <2>2, <2>3, StepCases

(* The limiter starts empty.                                               *)
LEMMA LimiterStart == Init => LimiterInv
  BY FS_EmptySet DEF Init, RequestsInit, AccountsInit, LimiterInv

(* A step adds no wrong guess but one of an attempt that is under way, and *)
(* the clock does not go back.                                             *)
LEMMA WrongStep ==
    ASSUME RequestInv, LimiterInv, [Next]_vars
    PROVE  /\ \A w \in wrong' \ wrong : w[1] \in Req /\ ~Done(w[1])
           /\ clock' \in {clock, clock + 1}
<1> PerRequest
  BY DEF RequestInv
<1>1. CASE UNCHANGED <<limiterVars, clock>>
  <2>1. wrong' = wrong /\ clock' = clock
    BY <1>1 DEF limiterVars
  <2> QED
    BY <2>1
<1>2. ASSUME NEW r \in Req, Login(r), pc[r] # "done"
      PROVE  /\ \A w \in wrong' \ wrong : w[1] \in Req /\ ~Done(w[1])
             /\ clock' \in {clock, clock + 1}
  <2>1. clock' = clock
    BY <1>2 DEF Login
  <2>2. CASE LoginVerify(r)
    <3>1. \/ wrong' = wrong \cup {<<r, arg[r].name, clock>>}
          \/ wrong' = {w \in wrong : w[2] # arg[r].name}
          \/ wrong' = wrong
      BY <2>2 DEF LoginVerify, limiterVars
    <3>2. wrong' \ wrong \subseteq {<<r, arg[r].name, clock>>}
      BY <3>1
    <3>3. ASSUME NEW w \in wrong' \ wrong  PROVE w[1] = r
      BY <3>2, <3>3
    <3> QED
      BY <1>2, <2>1, <3>3 DEF Done
  <2>3. CASE ~LoginVerify(r)
    <3>1. wrong' = wrong
      BY <1>2, <2>3 DEF Login, LoginAdmit, limiterVars
    <3> QED
      BY <2>1, <3>1
  <2> QED
    BY <2>2, <2>3
<1>3. CASE \E r \in Req : Handler(r)
  <2>1. PICK r \in Req : Handler(r)
    BY <1>3
  <2>2. pc[r] # "done"
    BY <2>1, HandlersMove, MoveFacts
  <2> QED
    BY <1>1, <1>2, <2>1, <2>2, OnlyLoginLimits
<1>4. CASE Tick /\ UNCHANGED limiterVars
  <2>1. wrong' = wrong /\ clock' = clock + 1
    BY <1>4 DEF Tick, limiterVars
  <2> QED
    BY <2>1
<1> QED
  BY <1>1, <1>3, <1>4, StepCases DEF Begin, Interrupted, vars

(* The wrong guesses that preceded an attempt do not become more.          *)
LEMMA EarlierShrinks ==
    ASSUME RequestInv, LimiterInv, [Next]_vars, NEW r \in Req,
           before'[r] = before[r], arg'[r] = arg[r]
    PROVE  Earlier(r)' \subseteq Earlier(r)
<1> SUFFICES ASSUME NEW w \in Earlier(r)'  PROVE w \in Earlier(r)
  OBVIOUS
<1>1. w \in wrong' /\ w[1] \in before[r] /\ w[2] = arg[r].name /\ clock' - w[3] < Window
  BY DEF Earlier
<1>2. before[r] \subseteq {q \in Req : Done(q)}
  BY DEF RequestInv, Life
<1>3. w \in wrong /\ clock' \in {clock, clock + 1}
  BY <1>1, <1>2, WrongStep DEF Done
<1>4. clock - w[3] < Window
  <2>0. PICK q \in Req, n \in DOMAIN failures, t \in 0..clock :
          w = <<q, n, t>> /\ (clock - t < Window => <<q, t>> \in failures[n])
    BY <1>3 DEF LimiterInv
  <2>1. w[3] \in Nat /\ clock \in Nat /\ Window \in Nat
    <3>1. w[3] = t
      BY <2>0
    <3> QED
      BY <2>0, <3>1, LimiterAssumption DEF LimiterInv
  <2> QED
    BY <1>1, <1>3, <2>1
<1> QED
  BY <1>1, <1>3, <1>4 DEF Earlier

(* The attempts the limiter allows were preceded by few: the wrong guesses *)
(* in the window are injected into the recorded failures.                  *)
LEMMA Admitted ==
    ASSUME LimiterInv, NEW r \in Req, kind[r] = "login", pc[r] # "idle", Allows(arg[r].name)
    PROVE  IsFiniteSet(Earlier(r)) /\ Cardinality(Earlier(r)) < MaxAttempts
<1> DEFINE name == arg[r].name
           S == Earlier(r)
           f == [w \in S |-> <<w[1], w[3]>>]
<1>2. name \in DOMAIN failures /\ IsFiniteSet(Recent(name)) /\ Cardinality(Recent(name)) \in Nat
  BY FS_Subset, FS_CardinalityType DEF LimiterInv, Recent
<1>3. \A w \in S : \E q, t : w = <<q, name, t>> /\ <<q, t>> \in Recent(name)
  <2> SUFFICES ASSUME NEW w \in S
               PROVE  \E q, t : w = <<q, name, t>> /\ <<q, t>> \in Recent(name)
    OBVIOUS
  <2>1. PICK q \in Req, n \in DOMAIN failures, t \in 0..clock :
          w = <<q, n, t>> /\ (clock - t < Window => <<q, t>> \in failures[n])
    BY DEF LimiterInv, Earlier
  <2>2. n = name /\ clock - t < Window
    BY <2>1 DEF Earlier
  <2>3. <<q, t>> \in Recent(name)
    BY <2>1, <2>2 DEF Recent
  <2> QED
    BY <2>1, <2>2, <2>3
<1> HIDE DEF S, name
<1>4. ASSUME NEW w \in S  PROVE <<w[1], w[3]>> \in Recent(name) /\ w = <<w[1], name, w[3]>>
  <2>1. PICK q, t : w = <<q, name, t>> /\ <<q, t>> \in Recent(name)
    BY <1>3
  <2>2. w[1] = q /\ w[3] = t
    BY <2>1
  <2> QED
    BY <2>1, <2>2
<1>5. \A v, w \in S : v[1] = w[1] /\ v[3] = w[3] => v = w
  BY <1>4
<1>6. f \in Injection(S, Recent(name))
  <2>1. f \in [S -> Recent(name)]
    BY <1>4
  <2>2. \A v, w \in S : f[v] = f[w] => v = w
    BY <1>5
  <2> QED
    BY <2>1, <2>2 DEF Injection, IsInjective
<1>7. /\ IsFiniteSet(S) /\ Cardinality(S) <= Cardinality(Recent(name))
      /\ Cardinality(S) \in Nat
  BY <1>2, <1>6, FS_Injection, FS_CardinalityType
<1>8. Cardinality(Recent(name)) < MaxAttempts
  BY DEF Allows, name
<1> QED
  BY <1>2, <1>7, <1>8, LimiterAssumption DEF S

(* Between the limiter and the password, an attempt was preceded by fewer  *)
(* than max_attempts wrong guesses.                                        *)
GuessInv ==
    \A r \in Req : kind[r] = "login" /\ pc[r] \in {"find", "verify"} =>
        IsFiniteSet(Earlier(r)) /\ Cardinality(Earlier(r)) < MaxAttempts

(* It stays so while others guess, succeed or time passes.                 *)
LEMMA GuessStep ==
    ASSUME RequestInv, LimiterInv, GuessInv, [Next]_vars
    PROVE  GuessInv'
<1> SUFFICES ASSUME NEW r \in Req, kind'[r] = "login", pc'[r] \in {"find", "verify"}
             PROVE  IsFiniteSet(Earlier(r)') /\ Cardinality(Earlier(r)') < MaxAttempts
  BY DEF GuessInv
<1> PerRequest
  BY DEF RequestInv
<1>1. ASSUME kind[r] = "login", before'[r] = before[r], arg'[r] = arg[r],
             IsFiniteSet(Earlier(r)), Cardinality(Earlier(r)) < MaxAttempts
      PROVE  IsFiniteSet(Earlier(r)') /\ Cardinality(Earlier(r)') < MaxAttempts
  <2>1. Earlier(r)' \subseteq Earlier(r)
    BY <1>1, EarlierShrinks
  <2> DEFINE S == Earlier(r)
             T == Earlier(r)'
  <2>2. T \subseteq S /\ IsFiniteSet(S) /\ Cardinality(S) < MaxAttempts
    BY <1>1, <2>1
  <2> HIDE DEF S, T
  <2>3. IsFiniteSet(T) /\ Cardinality(T) <= Cardinality(S)
    BY <2>2, FS_Subset
  <2>4. Cardinality(T) \in Nat /\ Cardinality(S) \in Nat
    BY <2>2, <2>3, FS_CardinalityType
  <2>5. Cardinality(T) < MaxAttempts
    BY <2>2, <2>3, <2>4, LimiterAssumption
  <2> QED
    BY <2>3, <2>5 DEF T
<1>2. CASE pc'[r] = pc[r] /\ before'[r] = before[r] /\ arg'[r] = arg[r] /\ kind' = kind
  BY <1>1, <1>2 DEF GuessInv
<1>3. ASSUME NEW q \in Req, Handler(q)
      PROVE  IsFiniteSet(Earlier(r)') /\ Cardinality(Earlier(r)') < MaxAttempts
  <2>1. /\ Alone(q) /\ kind' = kind /\ arg' = arg /\ before' = before /\ pc[q] # "idle"
    BY <1>3, HandlersMove, HandlersAlone, MoveFacts
  <2>2. CASE q # r
    BY <1>2, <2>1, <2>2 DEF Alone
  <2>3. CASE q = r
    <3>1. kind[r] = "login" /\ Login(r)
      BY <1>3, <2>1, <2>3 DEF Handler, AccountsStep, NodesStep, AclStep, SnapshotsStep, Setup,
         Refresh, Logout, Me, CreateNode, UpdateNodeRow, RemoveNode, CreateCredential, Restore,
         RevokeCredentialOf, Enroll, CreateAclRule, DropAclRule, DropRoute, ReadSnapshot
    <3>2. (pc[r] = "start" /\ Allows(arg[r].name)) \/ pc[r] = "find"
      BY <3>1 DEF Login, LoginAdmit, LoginVerify, Goto, Reply, PerRequest
    <3>3. IsFiniteSet(Earlier(r)) /\ Cardinality(Earlier(r)) < MaxAttempts
      BY <3>1, <3>2, Admitted DEF GuessInv
    <3> QED
      BY <1>1, <2>1, <3>1, <3>3
  <2> QED
    BY <2>2, <2>3
<1>4. ASSUME NEW q \in Req, Begin(q) \/ Interrupted(q), UNCHANGED snapVars
      PROVE  IsFiniteSet(Earlier(r)') /\ Cardinality(Earlier(r)') < MaxAttempts
  <2>1. Alone(q) /\ pc'[q] \notin {"find", "verify"} /\ kind' = kind
    BY <1>4, BeginFacts, InterruptedFacts, MoveFacts
  <2> QED
    BY <1>2, <2>1 DEF Alone
<1>5. CASE Tick \/ UNCHANGED vars
  BY <1>2, <1>5 DEF Tick, vars, reqVars
<1> QED
  BY <1>3, <1>4, <1>5, StepCases

(* The lock holds for attempts that follow the wrong guesses, whatever     *)
(* overlaps them.                                                          *)
THEOREM GuessesLimited == Spec => []GuessesBounded
<1>1. Init => GuessInv
  BY DEF Init, RequestsInit, GuessInv
<1>2. Spec => []LimiterInv
  BY LimiterStart, LimiterStep, RequestsAnsweredOnce, PTL DEF Spec
<1>3. GuessInv => GuessesBounded
  BY DEF GuessInv, GuessesBounded
<1> QED
  BY <1>1, <1>2, <1>3, GuessStep, RequestsAnsweredOnce, PTL DEF Spec

-----------------------------------------------------------------------------
(* Types.                                                                  *)

RespTyped == resp \in [Req -> Statuses \cup {0}]

(* The answers are statuses.                                               *)
LEMMA RespStep ==
    ASSUME RequestInv, RespTyped, [Next]_vars
    PROVE  RespTyped'
<1> USE DEF RespTyped
<1> PerRequest
  BY DEF RequestInv
<1>1. ASSUME NEW r \in Req, Moved(r)  PROVE RespTyped'
  BY <1>1 DEF Moved, Goto, Reply
<1>2. ASSUME NEW r \in Req, Begin(r)  PROVE RespTyped'
  <2>1. \E x \in {0, 401, 403} : resp' = [resp EXCEPT ![r] = x]
    BY <1>2, Zenon DEF Begin
  <2> QED
    BY <2>1 DEF Statuses
<1> QED
  BY <1>1, <1>2, StepCases, HandlersMove, InterruptedFacts DEF Tick, vars, reqVars

(* The state is well typed, every reference has its row, names are unique, *)
(* and a held guard keeps its session in the map.                          *)
THEOREM ApiTypeCorrect == Spec => []ATypeOK
<1>1. RequestInv /\ TablesInv /\ DbInv /\ SessionInv /\ LimiterInv /\ RespTyped => ATypeOK
  <2> SUFFICES ASSUME RequestInv, TablesInv, DbInv, SessionInv, LimiterInv, RespTyped
               PROVE  ATypeOK
    OBVIOUS
  <2>1. resp \in [Req -> Ok \cup {0, 401, 403, 404, 409, 422, 429, 500}]
    BY DEF Statuses, RespTyped
  <2>2. \A r \in Req : (Done(r) <=> resp[r] # 0) /\ before[r] \subseteq Req
    BY DEF RequestInv, Life
  <2>3. \A r \in Req : \A x \in todo[r] : x[1] \in Tables
    BY DEF TablesInv, TodoTyped
  <2>4. Consistent(db)
    BY DEF DbInv, GoodDb
  <2>5. \A g \in guards : g[2] \in DOMAIN sessions
    BY DEF SessionInv, GuardInv
  <2>6. \A n \in DOMAIN failures : \A f \in failures[n] : f[2] \in 0..clock
    BY DEF LimiterInv
  <2> QED
    BY <2>1, <2>2, <2>3, <2>4, <2>5, <2>6 DEF ATypeOK
<1>2. Init => SessionInv
  BY NoneAssumption DEF Init, RequestsInit, SessionInv, GuardInv, Presented, HoldsGuard, GoneFrom
<1>3. Init => RespTyped
  BY DEF Init, RequestsInit, RespTyped
<1> QED
  BY <1>1, <1>2, <1>3, RequestsAnsweredOnce, TablesStart, TablesStep, DbAlways, SessionStep,
     LimiterStart, LimiterStep, RespStep, PTL DEF Spec

-----------------------------------------------------------------------------
(* ACL changes.                                                            *)

(* No other request of the kinds K overlapped r or came after it.          *)
Undisturbed(K, r) ==
    \A q \in Req \ {r} : kind[q] \in K => q \in before[r] \/ pc[q] = "idle"

(* An undisturbed change stores what is in the database: when it has read  *)
(* the rules they are still the rules, and from the store on they are in   *)
(* force.                                                                  *)
InForce(r) ==
    kind[r] \in {"create_acl", "delete_acl"} /\ pc[r] # "idle" /\ Undisturbed(AclWriters, r) =>
        /\ pc[r] = "store" => read[r] = db["acl_rules"]
        /\ /\ pc[r] \in {"get", "answer"} \/ resp[r] \in {201, 204}
           /\ read[r] # None
           => aclStore = Loaded(db["acl_rules"])

ForceInv == \A r \in Req : InForce(r)

(* Only the ACL endpoints store rules.                                     *)
LEMMA OnlyAclStores ==
    ASSUME NEW r \in Req, Handler(r), kind[r] \notin {"create_acl", "delete_acl"}
    PROVE  aclStore' = aclStore
  BY DEF Handler, AclStep, CreateAclRule, DropAclRule, DropRoute

(* A request that changes no rules leaves the table of rules.              *)
LEMMA OnlyWritersChangeRules ==
    ASSUME TablesInv, NEW r \in Req, Handler(r), kind[r] \notin AclWriters
    PROVE  db'["acl_rules"] = db["acl_rules"]
<1>1. "acl_rules" \notin Writes(kind[r]) \cup {"audit"}
  BY DEF Writes, AclWriters
<1> QED
  BY <1>1, HandlersTouch, TheTables DEF Touches

(* A request that is still undisturbed after a step of another one was     *)
(* undisturbed before, and the other is not of those kinds.                *)
LEMMA StillUndisturbed ==
    ASSUME RequestInv, NEW r \in Req, NEW q \in Req \ {r}, Alone(q), kind' = kind,
           pc[q] # "done", pc'[q] # "idle", NEW K, Undisturbed(K, r)'
    PROVE  Undisturbed(K, r) /\ kind[q] \notin K
<1>1. before'[r] = before[r] /\ \A p \in Req \ {q} : pc'[p] = pc[p]
  BY DEF Alone
<1>2. before[r] \subseteq {p \in Req : Done(p)}
  BY DEF RequestInv, Life
<1>3. kind[q] \notin K
  BY <1>1, <1>2 DEF Undisturbed, Done
<1> QED
  BY <1>1, <1>3 DEF Undisturbed

(* A step of the API keeps undisturbed changes in force.                   *)
LEMMA ForceStep ==
    ASSUME RequestInv, TablesInv, ForceInv, [Next]_vars
    PROVE  ForceInv'
<1> PerRequest
  BY DEF RequestInv
<1>1. ASSUME NEW q \in Req, Alone(q), kind' = kind, pc[q] # "done", pc'[q] # "idle",
             kind[q] \notin AclWriters =>
                aclStore' = aclStore /\ db'["acl_rules"] = db["acl_rules"],
             InForce(q)'
      PROVE  ForceInv'
  <2> SUFFICES ASSUME NEW r \in Req \ {q}  PROVE InForce(r)'
    BY <1>1 DEF ForceInv
  <2>1. pc'[r] = pc[r] /\ resp'[r] = resp[r] /\ read'[r] = read[r]
    BY <1>1 DEF Alone
  <2>2. ASSUME Undisturbed(AclWriters, r)'
        PROVE  /\ Undisturbed(AclWriters, r)
               /\ aclStore' = aclStore /\ db'["acl_rules"] = db["acl_rules"]
    BY <1>1, <2>2, StillUndisturbed
  <2>3. InForce(r)
    BY DEF ForceInv
  <2> QED
    BY <1>1, <2>1, <2>2, <2>3 DEF InForce
<1>2. ASSUME NEW q \in Req, Begin(q), UNCHANGED aclStore, UNCHANGED snapVars  PROVE ForceInv'
  <2>1. /\ Alone(q) /\ kind' = kind /\ pc[q] = "idle" /\ pc'[q] \in {"start", "done"}
        /\ resp'[q] \notin {201, 204} /\ db' = db
    <3>1. db' = db
      BY <1>2 DEF Begin
    <3> QED
      BY <1>2, <3>1, BeginFacts
  <2>2. InForce(q)'
    BY <2>1 DEF InForce
  <2> QED
    BY <1>1, <1>2, <2>1, <2>2
<1>3. ASSUME NEW q \in Req, Interrupted(q), UNCHANGED aclStore, UNCHANGED snapVars
      PROVE ForceInv'
  <2>1. /\ Alone(q) /\ kind' = kind /\ pc[q] # "done" /\ pc'[q] = "done" /\ resp'[q] = 500
        /\ db' = db
    BY <1>3, InterruptedFacts, MoveFacts DEF Interrupted
  <2>2. InForce(q)'
    BY <2>1 DEF InForce
  <2> QED
    BY <1>1, <1>3, <2>1, <2>2
<1>4. ASSUME NEW q \in Req, Handler(q)  PROVE ForceInv'
  <2>1. /\ Alone(q) /\ Moved(q) /\ kind' = kind /\ before' = before
        /\ pc[q] \notin {"idle", "done"} /\ pc'[q] # "idle"
    BY <1>4, HandlersMove, HandlersAlone, MoveFacts
  <2>2. kind[q] \notin AclWriters => aclStore' = aclStore /\ db'["acl_rules"] = db["acl_rules"]
    BY <1>4, OnlyWritersChangeRules, OnlyAclStores DEF AclWriters
  <2>3. InForce(q)'
    <3> SUFFICES ASSUME kind[q] \in {"create_acl", "delete_acl"}, Undisturbed(AclWriters, q)'
                 PROVE  InForce(q)'
      BY <2>1 DEF InForce
    <3>1. Undisturbed(AclWriters, q)
      BY <2>1 DEF Undisturbed, Alone
    <3>2. resp[q] = 0
      BY <2>1 DEF RequestInv, Life, Done
    <3>3. InForce(q)
      BY DEF ForceInv
    <3>4. CreateAclRule(q) \/ DropAclRule(q)
      BY <1>4 DEF Handler, AccountsStep, NodesStep, AclStep, SnapshotsStep, Setup, Login, Restore,
         Refresh, Logout, Me, CreateNode, UpdateNodeRow, RemoveNode, CreateCredential,
         RevokeCredentialOf, Enroll, DropRoute, ReadSnapshot
    <3>5. CASE ReloadAcl(q, "get") \/ ReloadAcl(q, "answer")
      <4>1. CASE pc[q] = "reload"
        <5>1. /\ db' = db /\ resp'[q] = 0
              /\ \/ read'[q] = db["acl_rules"] /\ pc'[q] = "store"
                 \/ read'[q] = None /\ pc'[q] \in {"get", "answer"}
          BY <3>2, <3>5, <4>1 DEF ReloadAcl, Goto, PerRequest
        <5> QED
          BY <2>1, <5>1 DEF InForce
      <4>2. CASE pc[q] = "store"
        <5>1. db' = db /\ resp'[q] = 0 /\ aclStore' = Loaded(read[q]) /\ pc'[q] \in {"get", "answer"}
          BY <3>2, <3>5, <4>2 DEF ReloadAcl, Goto, PerRequest
        <5> QED
          BY <2>1, <3>1, <3>3, <4>2, <5>1 DEF InForce
      <4> QED
        BY <3>5, <4>1, <4>2 DEF ReloadAcl
    <3>6. CASE pc[q] \in {"get", "answer"}
      <4>1. aclStore' = aclStore /\ db' = db /\ read' = read /\ pc'[q] = "done"
        BY <3>4, <3>6 DEF CreateAclRule, DropAclRule, ReloadAcl, Reply, PerRequest
      <4> QED
        BY <2>1, <3>1, <3>3, <3>6, <4>1 DEF InForce
    <3>7. CASE pc[q] \in {"start", "insert", "delete", "audit"}
      <4>1. pc'[q] \notin {"store", "get", "answer"} /\ resp'[q] \notin {201, 204}
        BY <3>2, <3>4, <3>7 DEF CreateAclRule, DropAclRule, ReloadAcl, Reply, Goto, PerRequest
      <4> QED
        BY <2>1, <4>1 DEF InForce
    <3> QED
      BY <3>4, <3>5, <3>6, <3>7 DEF CreateAclRule, DropAclRule
  <2> QED
    BY <1>1, <2>1, <2>2, <2>3
<1>5. CASE UNCHANGED <<reqVars, db, aclStore>>
  BY <1>5 DEF reqVars, ForceInv, InForce, Undisturbed
<1> QED
  BY <1>2, <1>3, <1>4, <1>5, StepCases DEF Tick, vars

(* An answered ACL change whose reload could read the rules is in force,   *)
(* unless another request that changes rules overlapped or followed it.    *)
THEOREM AclInForce == Spec => []AclTakesEffect
<1>1. Init => ForceInv
  BY DEF Init, RequestsInit, ForceInv, InForce
<1>2. RequestInv /\ ForceInv => AclTakesEffect
  BY DEF RequestInv, Life, Done, ForceInv, InForce, Undisturbed, AclTakesEffect
<1>3. Spec => []TablesInv
  BY TablesStart, TablesStep, RequestsAnsweredOnce, PTL DEF Spec
<1> QED
  BY <1>1, <1>2, <1>3, RequestsAnsweredOnce, ForceStep, PTL DEF Spec

-----------------------------------------------------------------------------
(* Restore.                                                                *)

(* Whoever deletes nothing leaves every key of every table.                *)
LEMMA OnlyDeletersDelete ==
    ASSUME DbInv, NEW r \in Req, Handler(r), kind[r] \notin Deleters
    PROVE  \A t \in Tables : DOMAIN db[t] \subseteq DOMAIN db'[t]
<1> DEFINE Kept == \A t \in Tables : DOMAIN db[t] \subseteq DOMAIN db'[t]
<1> DOMAIN db = TableNames
  BY DEF DbInv, GoodDb
<1>0. CASE UNCHANGED db
  BY <1>0
<1>a. \A e : db' = InsertAuditLog(db, e) => Kept
  BY TheTables DEF InsertAuditLog
<1>b. \A t, k, row : db' = Insert(db, t, k, row) => Kept
  BY TheTables DEF Insert, Put
<1>c. \A g : db' = [db EXCEPT !["grants"] = g] => Kept
  BY TheTables
<1>d. ASSUME NEW n, NEW x, NEW y, db' = UpdateNode(db, n, x, y)  PROVE Kept
  <2>1. DOMAIN db'["nodes"] = DOMAIN db["nodes"]
    BY <1>d, TheTables DEF UpdateNode
  <2>2. \A t \in Tables \ {"nodes"} : db'[t] = db[t]
    BY <1>d, TheTables DEF UpdateNode
  <2> QED
    BY <2>1, <2>2
<1>e. \A n, x : db' = SetNodeAgentMeta(db, n, x) => Kept
  BY TheTables DEF SetNodeAgentMeta
<1>f. \A c : db' = RevokeCredential(db, c) => Kept
  BY TheTables DEF RevokeCredential
<1> HIDE DEF Kept
<1>1. Kept
  <2>1. CASE AccountsStep(r)
    BY <2>1, <1>0, <1>a, <1>b, <1>c DEF AccountsStep, Setup, Login, LoginAdmit, LoginVerify,
       Refresh, Logout, Me, WriteAudit, Kept
  <2>2. CASE CreateNode(r) \/ UpdateNodeRow(r)
    BY <2>2, <1>0, <1>a, <1>b, <1>d DEF CreateNode, UpdateNodeRow, WriteAudit, Kept
  <2>3. CASE CreateCredential(r) \/ RevokeCredentialOf(r)
    BY <2>3, <1>0, <1>a, <1>b, <1>f DEF CreateCredential, RevokeCredentialOf, WriteAudit, Kept
  <2>4. CASE Enroll(r)
    BY <2>4, <1>0, <1>a, <1>b, <1>e, <1>f DEF Enroll, BurnToken, WriteAudit, Kept
  <2>5. CASE CreateAclRule(r)
    BY <2>5, <1>0, <1>a, <1>b DEF CreateAclRule, ReloadAcl, WriteAudit, Kept
  <2>6. CASE SnapshotsStep(r)
    BY <2>6, <1>0, <1>a, <1>b DEF SnapshotsStep, ReadSnapshot, Restore, RestoreStart,
       RestoreExists, RestoreInsert, WriteAudit, Kept
  <2> QED
    BY <2>1, <2>2, <2>3, <2>4, <2>5, <2>6
       DEF Handler, NodesStep, AclStep, RemoveNode, DropAclRule, DropRoute, Deleters
<1> QED
  BY <1>1 DEF Kept

(* What an undisturbed restore has put in place: of every row of the       *)
(* snapshot, it has still to come to it, is about to insert it, or finds   *)
(* it in its table.                                                        *)
InPlace(r) ==
    /\ kind[r] \in {"restore", "import"} /\ arg[r].flag /\ Undisturbed(Deleters, r)
    /\ pc[r] \in {"exists", "insert", "audit"} \/ resp[r] = 200
    => /\ \A x \in RowsOf(arg[r].id) :
             \/ x \in todo[r] \/ (pc[r] = "insert" /\ x = cur[r])
             \/ x[2] \in DOMAIN db[x[1]]
       /\ pc[r] = "audit" \/ resp[r] = 200 => todo[r] = {}

PlaceInv == \A r \in Req : InPlace(r)

(* Every step keeps what restores have put in place.                       *)
LEMMA PlaceStep ==
    ASSUME RequestInv, DbInv, PlaceInv, [Next]_vars
    PROVE  PlaceInv'
<1> PerRequest
  BY DEF RequestInv
<1>1. ASSUME NEW q \in Req, Alone(q), kind' = kind, pc[q] # "done", pc'[q] # "idle",
             kind[q] \notin Deleters => \A t \in Tables : DOMAIN db[t] \subseteq DOMAIN db'[t],
             InPlace(q)'
      PROVE  PlaceInv'
  <2> SUFFICES ASSUME NEW r \in Req \ {q}  PROVE InPlace(r)'
    BY <1>1 DEF PlaceInv
  <2>1. /\ pc'[r] = pc[r] /\ resp'[r] = resp[r] /\ arg'[r] = arg[r]
        /\ todo'[r] = todo[r] /\ cur'[r] = cur[r]
    BY <1>1 DEF Alone
  <2>2. ASSUME Undisturbed(Deleters, r)'
        PROVE  /\ Undisturbed(Deleters, r)
               /\ \A t \in Tables : DOMAIN db[t] \subseteq DOMAIN db'[t]
    BY <1>1, <2>2, StillUndisturbed
  <2>3. InPlace(r)
    BY DEF PlaceInv
  <2>4. \A x \in RowsOf(arg[r].id) : x[1] \in Tables
    BY DEF RowsOf
  <2> QED
    BY <1>1, <2>1, <2>2, <2>3, <2>4 DEF InPlace
<1>2. ASSUME NEW q \in Req, Begin(q), UNCHANGED snapVars  PROVE PlaceInv'
  <2>1. db' = db
    BY <1>2 DEF Begin
  <2>2. /\ Alone(q) /\ kind' = kind /\ pc[q] = "idle" /\ pc'[q] \in {"start", "done"}
        /\ resp'[q] # 200
    BY <1>2, BeginFacts
  <2>3. InPlace(q)'
    BY <2>2 DEF InPlace
  <2> QED
    BY <1>1, <2>1, <2>2, <2>3
<1>3. ASSUME NEW q \in Req, Interrupted(q), UNCHANGED snapVars  PROVE PlaceInv'
  <2>1. /\ Alone(q) /\ kind' = kind /\ pc[q] # "done" /\ pc'[q] = "done" /\ resp'[q] = 500
        /\ db' = db
    BY <1>3, InterruptedFacts, MoveFacts DEF Interrupted
  <2>2. InPlace(q)'
    BY <2>1 DEF InPlace
  <2> QED
    BY <1>1, <2>1, <2>2
<1>4. ASSUME NEW q \in Req, Handler(q)  PROVE PlaceInv'
  <2>1. /\ Alone(q) /\ Moved(q) /\ kind' = kind /\ before' = before /\ arg' = arg
        /\ pc[q] \notin {"idle", "done"} /\ pc'[q] # "idle"
    BY <1>4, HandlersMove, HandlersAlone, MoveFacts
  <2>2. kind[q] \notin Deleters => \A t \in Tables : DOMAIN db[t] \subseteq DOMAIN db'[t]
    BY <1>4, OnlyDeletersDelete
  <2>3. InPlace(q)'
    <3> SUFFICES ASSUME kind[q] \in {"restore", "import"}, arg[q].flag, Undisturbed(Deleters, q)'
                 PROVE  InPlace(q)'
      BY <2>1 DEF InPlace
    <3> DEFINE Rows == RowsOf(arg[q].id)
    <3>1. Undisturbed(Deleters, q)
      BY <2>1 DEF Undisturbed, Alone
    <3>2. resp[q] = 0
      BY <2>1 DEF RequestInv, Life, Done
    <3>3. InPlace(q)
      BY DEF PlaceInv
    <3>4. Restore(q)
      BY <1>4 DEF Handler, AccountsStep, NodesStep, AclStep, SnapshotsStep, Setup, Login,
         Refresh, Logout, Me, CreateNode, UpdateNodeRow, RemoveNode, CreateCredential,
         RevokeCredentialOf, Enroll, CreateAclRule, DropAclRule, DropRoute, ReadSnapshot
    <3>5. \A x \in Rows : x[1] \in Tables /\ DOMAIN db[x[1]] \subseteq DOMAIN db'[x[1]]
      BY <2>2 DEF RowsOf, Deleters
    <3> HIDE DEF Rows
    <3>6. CASE RestoreStart(q)
      <4>1. \/ pc'[q] = "done" /\ resp'[q] \in {422, 500}
            \/ pc'[q] = "exists" /\ todo'[q] = Rows /\ resp'[q] = 0
        BY <3>2, <3>6 DEF RestoreStart, RowsOf, Rows, Goto, Reply, PerRequest
      <4> QED
        BY <2>1, <4>1 DEF InPlace, Rows
    <3>7. CASE RestoreExists(q)
      <4>1. PICK x \in todo[q] :
              /\ todo'[q] = todo[q] \ {x} /\ resp'[q] = 0 /\ db' = db
              /\ \/ x[2] \in DOMAIN db[x[1]] /\ pc'[q] = "exists"
                 \/ pc'[q] = "insert" /\ cur'[q] = x
        BY <3>2, <3>7 DEF RestoreExists, Goto, PerRequest
      <4>2. \A y \in Rows : y \in todo[q] \/ y[2] \in DOMAIN db[y[1]]
        BY <3>1, <3>3, <3>7 DEF InPlace, RestoreExists, Rows
      <4> QED
        BY <2>1, <4>1, <4>2 DEF InPlace, Rows
    <3>8. CASE RestoreInsert(q)
      <4>1. CASE pc'[q] = "done"
        <5>1. resp'[q] = 500
          BY <3>8, <4>1 DEF RestoreInsert, Goto, Reply, PerRequest
        <5> QED
          BY <2>1, <4>1, <5>1 DEF InPlace
      <4>2. CASE pc'[q] # "done"
        <5>1. /\ pc'[q] = "exists" /\ resp'[q] = 0 /\ todo' = todo /\ pc[q] = "insert"
              /\ db' = Insert(db, cur[q][1], cur[q][2], arg[q].id[cur[q][1]][cur[q][2]])
          BY <3>2, <3>8, <4>2 DEF RestoreInsert, Goto, Reply, PerRequest, snapVars
        <5>2. cur[q] \in Rows
          BY <5>1 DEF DbInv, RestoreTyped, Rows
        <5>3. cur[q][2] \in DOMAIN db'[cur[q][1]]
          <6>1. cur[q][1] \in DOMAIN db
            BY <3>5, <5>2, TheTables DEF DbInv, GoodDb
          <6> QED
            BY <5>1, <6>1 DEF Insert, Put
        <5>4. \A y \in Rows : y \in todo[q] \/ y = cur[q] \/ y[2] \in DOMAIN db[y[1]]
          BY <3>1, <3>3, <5>1 DEF InPlace, Rows
        <5>5. \A y \in Rows : y \in todo[q] \/ y[2] \in DOMAIN db'[y[1]]
          BY <3>5, <5>3, <5>4
        <5>6. \A y \in RowsOf(arg'[q].id) : y \in todo'[q] \/ y[2] \in DOMAIN db'[y[1]]
          BY <2>1, <5>1, <5>5 DEF Rows
        <5>7. pc'[q] = "exists" /\ resp'[q] = 0
          BY <5>1
        <5> QED
          BY <5>6, <5>7 DEF InPlace
      <4> QED
        BY <4>1, <4>2
    <3>9. CASE pc[q] = "exists" /\ todo[q] = {} /\ UNCHANGED snapVars /\ db' = db
      <4>1. pc'[q] = "audit" /\ resp'[q] = 0 /\ todo' = todo
        BY <3>2, <3>4, <3>9
           DEF Restore, RestoreStart, RestoreExists, RestoreInsert, Goto, Reply, PerRequest,
               snapVars
      <4>2. \A y \in Rows : y[2] \in DOMAIN db[y[1]]
        BY <3>1, <3>3, <3>9 DEF InPlace, Rows
      <4> QED
        BY <2>1, <3>9, <4>1, <4>2 DEF InPlace, Rows
    <3>10. CASE pc[q] = "audit"
      <4>1. pc'[q] = "done" /\ todo' = todo
        BY <3>4, <3>10
           DEF Restore, RestoreStart, RestoreExists, RestoreInsert, Reply, PerRequest, snapVars
      <4>2. todo[q] = {} /\ \A y \in Rows : y[2] \in DOMAIN db[y[1]]
        BY <3>1, <3>3, <3>10 DEF InPlace, Rows
      <4> QED
        BY <2>1, <3>5, <4>1, <4>2 DEF InPlace, Rows
    <3> QED
      BY <3>4, <3>6, <3>7, <3>8, <3>9, <3>10 DEF Restore
  <2> QED
    BY <1>1, <2>1, <2>2, <2>3
<1>5. CASE UNCHANGED <<reqVars, db, snapVars>>
  BY <1>5 DEF reqVars, snapVars, PlaceInv, InPlace, Undisturbed
<1> QED
  BY <1>2, <1>3, <1>4, <1>5, StepCases DEF Tick, vars

(* A restore that is answered 200 has every row of its snapshot in the     *)
(* database, unless rows were deleted meanwhile or since.                  *)
THEOREM RestoreIsComplete == Spec => []RestoreComplete
<1>1. Init => PlaceInv
  BY DEF Init, RequestsInit, PlaceInv, InPlace
<1>2. RequestInv /\ PlaceInv => RestoreComplete
  <2> SUFFICES ASSUME RequestInv, PlaceInv, NEW r \in Req,
                      kind[r] \in {"restore", "import"}, arg[r].flag, resp[r] = 200,
                      \A q \in Req : kind[q] \in Deleters => q \in before[r] \/ pc[q] = "idle",
                      NEW t \in Tables, NEW k \in DOMAIN arg[r].id[t]
               PROVE  k \in DOMAIN db[t]
    BY DEF RestoreComplete
  <2>1. <<t, k>> \in RowsOf(arg[r].id)
    BY DEF RowsOf
  <2>2. pc[r] = "done"
    BY DEF RequestInv, Life, Done
  <2> QED
    BY <2>1, <2>2 DEF PlaceInv, InPlace, Undisturbed
<1> QED
  BY <1>1, <1>2, RequestsAnsweredOnce, DbAlways, PlaceStep, PTL DEF Spec

-----------------------------------------------------------------------------
(* Backup.                                                                 *)

(* The place of the tables in the order in which a restore writes them.    *)
LEMMA TableOrder ==
    /\ Len(SnapshotTables) = 6
    /\ SnapshotTables[1] = "nodes" /\ SnapshotTables[2] = "certificates"
    /\ SnapshotTables[3] = "routes" /\ SnapshotTables[4] = "acl_rules"
    /\ SnapshotTables[5] = "domains" /\ SnapshotTables[6] = "credentials"
  BY DEF SnapshotTables

(* When a restore comes to a domain it has no certificate left to look at. *)
LEMMA CertificatesFirst ==
    ASSUME NEW rows, FirstTable(rows) = "domains", NEW x \in rows, x[1] = "domains"
    PROVE  \A y \in rows : y[1] # "certificates"
<1> DEFINE left == {i \in 1..Len(SnapshotTables) : \E y \in rows : y[1] = SnapshotTables[i]}
<1>1. 5 \in left
  BY TableOrder
<1>2. \E i \in left : \A j \in left : i <= j
  <2>1. left \subseteq 1..6
    BY TableOrder
  <2> HIDE DEF left
  <2> QED
    BY <1>1, <2>1
<1>3. PICK i \in left : FirstTable(rows) = SnapshotTables[i] /\ \A j \in left : i <= j
  <2> DEFINE i == CHOOSE i \in left : \A j \in left : i <= j
  <2>1. i \in left /\ \A j \in left : i <= j
    BY <1>2
  <2>2. FirstTable(rows) = SnapshotTables[i]
    BY DEF FirstTable
  <2> QED
    BY <2>1, <2>2
<1>4. i \in 1..6 /\ SnapshotTables[i] = "domains"
  BY <1>3, TableOrder
<1>5. i = 5
  BY <1>4, TableOrder
<1>6. 2 \notin left
  BY <1>3, <1>5
<1> QED
  BY <1>6, TableOrder

CertsExist(d) ==
    \A x \in DOMAIN d["domains"] : d["domains"][x].cert \in DOMAIN d["certificates"] \cup {None}

(* The database itself would pass validate.                                *)
LEMMA ValidateIs ==
    ASSUME NEW d, GoodDb(d), CertsExist(d)
    PROVE  Validate(d)
  BY ConsistentIs DEF GoodDb, NodesExist, RoutesExist, CertsExist, Validate

(* The certificates of a snapshot are restored before its domains.         *)
CertsBefore(r) ==
    /\ kind[r] \in {"restore", "import"} /\ pc[r] \in {"exists", "insert"}
    => /\ Validate(arg[r].id)
       /\ arg[r].flag => \A k \in DOMAIN arg[r].id["certificates"] :
             \/ <<"certificates", k>> \in todo[r]
             \/ pc[r] = "insert" /\ cur[r] = <<"certificates", k>>
             \/ k \in DOMAIN db["certificates"]
       /\ pc[r] = "insert" => arg[r].flag
       /\ pc[r] = "insert" /\ cur[r][1] = "domains" =>
             \A y \in todo[r] : y[1] # "certificates"

CertInv == CertsExist(db) /\ \A r \in Req : CertsBefore(r)

(* No endpoint deletes a certificate.                                      *)
LEMMA CertificatesStay ==
    ASSUME DbInv, TablesInv, NEW r \in Req, Handler(r)
    PROVE  DOMAIN db["certificates"] \subseteq DOMAIN db'["certificates"]
<1>1. CASE kind[r] \in Deleters
  <2>1. "certificates" \notin Writes(kind[r]) \cup {"audit"}
    BY <1>1 DEF Deleters, Writes
  <2> QED
    BY <2>1, HandlersTouch, TheTables DEF Touches
<1>2. CASE kind[r] \notin Deleters
  BY <1>2, OnlyDeletersDelete, TheTables
<1> QED
  BY <1>1, <1>2

(* Only a restore adds a domain; a deleted route only loses it its route.  *)
LEMMA DomainsKeepCerts ==
    ASSUME DbInv, TablesInv, NEW r \in Req, Handler(r), kind[r] \notin {"restore", "import"}
    PROVE  /\ DOMAIN db'["domains"] = DOMAIN db["domains"]
           /\ \A x \in DOMAIN db["domains"] : db'["domains"][x].cert = db["domains"][x].cert
<1> DOMAIN db = TableNames
  BY DEF TablesInv
<1>1. CASE kind[r] \notin {"delete_node", "delete_route"}
  <2>1. "domains" \notin Writes(kind[r]) \cup {"audit"}
    BY <1>1 DEF Writes
  <2> QED
    BY <2>1, HandlersTouch, TheTables DEF Touches
<1>2. \A x \in DOMAIN db["domains"] : DOMAIN db["domains"][x] = {"name", "route", "cert"}
  BY ColumnsAre DEF DbInv, GoodDb
<1> DEFINE Freed(R) == [x \in DOMAIN db["domains"] |->
                          IF db["domains"][x].route \in R
                          THEN [db["domains"][x] EXCEPT !.route = None] ELSE db["domains"][x]]
<1>3. ASSUME NEW R, db'["domains"] = Freed(R)
      PROVE  /\ DOMAIN db'["domains"] = DOMAIN db["domains"]
             /\ \A x \in DOMAIN db["domains"] : db'["domains"][x].cert = db["domains"][x].cert
  BY <1>2, <1>3
<1>4. CASE kind[r] \in {"delete_node", "delete_route"}
  <2>1. RemoveNode(r) \/ DropRoute(r)
    BY <1>4 DEF Handler, AccountsStep, NodesStep, AclStep, SnapshotsStep, Setup, Login,
       Refresh, Logout, Me, CreateNode, UpdateNodeRow, CreateCredential, Restore,
       RevokeCredentialOf, Enroll, CreateAclRule, DropAclRule, ReadSnapshot
  <2>2. \/ db' = db \/ (\E action : WriteAudit(r, action))
        \/ db' = DeleteNode(db, arg[r].id) \/ db' = DeleteRoutes(db, {arg[r].id})
    BY <2>1 DEF RemoveNode, DropRoute
  <2>3. \A action : WriteAudit(r, action) => db'["domains"] = db["domains"]
    BY TheTables, StatementsTouch DEF WriteAudit, Touches
  <2>4. db' = DeleteRoutes(db, {arg[r].id}) => db'["domains"] = Freed({arg[r].id})
    BY TheTables DEF DeleteRoutes
  <2>5. ASSUME NEW n, db' = DeleteNode(db, n)  PROVE \E R : db'["domains"] = Freed(R)
    BY <2>5, TheTables DEF DeleteNode, DeleteRoutes
  <2> HIDE DEF Freed
  <2> QED
    BY <1>3, <2>2, <2>3, <2>4, <2>5
<1> QED
  BY <1>1, <1>4

(* Domains keep naming certificates that are there.                        *)
LEMMA CertStep ==
    ASSUME RequestInv, TablesInv, DbInv, CertInv, [Next]_vars
    PROVE  CertInv'
<1> PerRequest /\ DOMAIN db = TableNames
  BY DEF RequestInv, TablesInv
<1>1. ASSUME NEW q \in Req, Alone(q), kind' = kind,
             DOMAIN db["certificates"] \subseteq DOMAIN db'["certificates"],
             CertsExist(db'), CertsBefore(q)'
      PROVE  CertInv'
  <2> SUFFICES ASSUME NEW r \in Req \ {q}  PROVE CertsBefore(r)'
    BY <1>1 DEF CertInv
  <2>1. pc'[r] = pc[r] /\ arg'[r] = arg[r] /\ todo'[r] = todo[r] /\ cur'[r] = cur[r]
    BY <1>1 DEF Alone
  <2>2. CertsBefore(r)
    BY DEF CertInv
  <2> HIDE DEF Validate
  <2> QED
    BY <1>1, <2>1, <2>2 DEF CertsBefore
<1>2. ASSUME NEW q \in Req, Begin(q), UNCHANGED snapVars  PROVE CertInv'
  <2>1. db' = db
    BY <1>2 DEF Begin
  <2>2. /\ Alone(q) /\ kind' = kind /\ pc'[q] \in {"start", "done"}
    BY <1>2, BeginFacts
  <2>3. CertsBefore(q)'
    BY <2>2 DEF CertsBefore
  <2> QED
    BY <1>1, <2>1, <2>2, <2>3 DEF CertInv
<1>3. ASSUME NEW q \in Req, Interrupted(q), UNCHANGED snapVars  PROVE CertInv'
  <2>1. Alone(q) /\ kind' = kind /\ pc'[q] = "done" /\ db' = db
    BY <1>3, InterruptedFacts, MoveFacts DEF Interrupted
  <2>2. CertsBefore(q)'
    BY <2>1 DEF CertsBefore
  <2> QED
    BY <1>1, <2>1, <2>2 DEF CertInv
<1>4. ASSUME NEW q \in Req, Handler(q)  PROVE CertInv'
  <2>1. /\ Alone(q) /\ Moved(q) /\ kind' = kind /\ arg' = arg
        /\ DOMAIN db["certificates"] \subseteq DOMAIN db'["certificates"]
    BY <1>4, HandlersMove, HandlersAlone, MoveFacts, CertificatesStay
  <2>2. CASE kind[q] \notin {"restore", "import"}
    <3>1. CertsExist(db')
      BY <1>4, <2>1, <2>2, DomainsKeepCerts DEF CertInv, CertsExist
    <3>2. CertsBefore(q)'
      BY <2>1, <2>2 DEF CertsBefore
    <3> QED
      BY <1>1, <2>1, <3>1, <3>2
  <2>3. CASE kind[q] \in {"restore", "import"}
    <3> DEFINE s == arg[q].id
    <3>1. Restore(q)
      BY <1>4, <2>3 DEF Handler, AccountsStep, NodesStep, AclStep, SnapshotsStep, Setup, Login,
         Refresh, Logout, Me, CreateNode, UpdateNodeRow, RemoveNode, CreateCredential,
         RevokeCredentialOf, Enroll, CreateAclRule, DropAclRule, DropRoute, ReadSnapshot
    <3>2. CertsBefore(q) /\ CertsExist(db)
      BY DEF CertInv
    <3>3. ASSUME db' = db \/ WriteAudit(q, kind[q])  PROVE CertsExist(db')
      <4>1. db'["domains"] = db["domains"] /\ db'["certificates"] = db["certificates"]
        BY <3>3, StatementsTouch, TheTables DEF WriteAudit, Touches
      <4> QED
        BY <3>2, <4>1 DEF CertsExist
    <3> HIDE DEF s
    <3>4. CASE RestoreStart(q)
      <4>1. \/ pc'[q] = "done"
            \/ pc'[q] = "exists" /\ Validate(s) /\ todo'[q] = RowsOf(s)
        BY <3>4 DEF RestoreStart, RowsOf, Goto, Reply, PerRequest, s
      <4>2. \A k \in DOMAIN s["certificates"] : <<"certificates", k>> \in RowsOf(s)
        BY TheTables DEF RowsOf
      <4>3. CertsBefore(q)'
        <5> HIDE DEF Validate, RowsOf
        <5> QED
          BY <2>1, <4>1, <4>2 DEF CertsBefore, s
      <4> QED
        BY <1>1, <2>1, <3>3, <3>4, <4>3 DEF RestoreStart
    <3>5. CASE RestoreExists(q)
      <4>1. PICK x \in todo[q] :
              /\ todo'[q] = todo[q] \ {x} /\ db' = db /\ x[1] = FirstTable(todo[q])
              /\ \/ pc'[q] = "exists" /\ (x[2] \in DOMAIN db[x[1]] \/ ~arg[q].flag)
                 \/ pc'[q] = "insert" /\ cur'[q] = x /\ arg[q].flag
        BY <3>5 DEF RestoreExists, Goto, PerRequest
      <4>2. /\ Validate(s) /\ pc[q] = "exists"
            /\ arg[q].flag => \A k \in DOMAIN s["certificates"] :
                  <<"certificates", k>> \in todo[q] \/ k \in DOMAIN db["certificates"]
        BY <2>3, <3>2, <3>5 DEF CertsBefore, RestoreExists, s
      <4>3. x[1] = "domains" => \A y \in todo[q] : y[1] # "certificates"
        BY <4>1, CertificatesFirst
      <4>4. \A k : <<"certificates", k>> = x => x[1] = "certificates" /\ x[2] = k
        OBVIOUS
      <4>5. CertsBefore(q)'
        <5> HIDE DEF Validate, FirstTable
        <5>1. ASSUME arg[q].flag, NEW k \in DOMAIN s["certificates"]
              PROVE  \/ <<"certificates", k>> \in todo'[q]
                     \/ pc'[q] = "insert" /\ cur'[q] = <<"certificates", k>>
                     \/ k \in DOMAIN db'["certificates"]
          BY <4>1, <4>2, <4>4, <5>1
        <5>2. pc'[q] = "insert" /\ cur'[q][1] = "domains" =>
                \A y \in todo'[q] : y[1] # "certificates"
          BY <4>1, <4>3
        <5>3. pc'[q] = "insert" => arg[q].flag
          BY <4>1
        <5> QED
          BY <2>1, <4>2, <5>1, <5>2, <5>3 DEF CertsBefore, s
      <4> QED
        BY <1>1, <2>1, <3>3, <4>1, <4>5
    <3>6. CASE RestoreInsert(q)
      <4>1. CASE pc'[q] = "done"
        <5>1. db' = db
          BY <3>6, <4>1 DEF RestoreInsert, Goto, PerRequest
        <5>2. CertsBefore(q)'
          BY <2>1, <4>1 DEF CertsBefore
        <5> QED
          BY <1>1, <2>1, <3>3, <5>1, <5>2
      <4>2. CASE pc'[q] # "done"
        <5> DEFINE t == cur[q][1]
                   k == cur[q][2]
                   row == s[t][k]
        <5>1. /\ pc[q] = "insert" /\ pc'[q] = "exists" /\ todo' = todo
              /\ db' = Insert(db, t, k, row)
          BY <3>6, <4>2 DEF RestoreInsert, Goto, Reply, PerRequest, snapVars, s
        <5>2. s \in SnapshotFiles /\ cur[q] \in RowsOf(s)
          BY <2>3, <5>1 DEF DbInv, RestoreTyped, s
        <5>3. t \in Tables /\ k \in DOMAIN s[t]
          BY <5>2, RowsOfSnapshot
        <5>4. /\ Validate(s) /\ arg[q].flag
              /\ \A c \in DOMAIN s["certificates"] :
                    \/ <<"certificates", c>> \in todo[q] \/ cur[q] = <<"certificates", c>>
                    \/ c \in DOMAIN db["certificates"]
              /\ t = "domains" => \A y \in todo[q] : y[1] # "certificates"
          BY <2>3, <3>2, <5>1 DEF CertsBefore, s
        <5> HIDE DEF t, k, row
        <5>5. /\ DOMAIN db'[t] = DOMAIN db[t] \cup {k} /\ db'[t][k] = row
              /\ \A x \in DOMAIN db[t] : x # k => db'[t][x] = db[t][x]
              /\ \A u \in Tables : u # t => db'[u] = db[u]
          BY <5>1, <5>3, TheTables DEF Insert, Put
        <5>6. CertsExist(db')
          <6>1. CASE t # "domains"
            BY <2>1, <3>2, <5>5, <6>1, TheTables DEF CertsExist
          <6>2. CASE t = "domains"
            <7>1. row.cert \in DOMAIN s["certificates"] \cup {None}
              BY <5>3, <5>4, <6>2 DEF Validate, row
            <7>2. ASSUME NEW c \in DOMAIN s["certificates"]  PROVE c \in DOMAIN db["certificates"]
              <8>1. <<"certificates", c>>[1] = "certificates"
                OBVIOUS
              <8> QED
                BY <5>4, <6>2, <8>1 DEF t
            <7> QED
              BY <2>1, <3>2, <5>5, <6>2, <7>1, <7>2 DEF CertsExist
          <6> QED
            BY <6>1, <6>2
        <5>7. ASSUME NEW c \in DOMAIN s["certificates"]
              PROVE  <<"certificates", c>> \in todo[q] \/ c \in DOMAIN db'["certificates"]
          <6>1. cur[q] = <<"certificates", c>> => t = "certificates" /\ k = c
            BY DEF t, k
          <6> QED
            BY <2>1, <5>4, <5>5, <6>1
        <5>8. pc'[q] = "exists" /\ todo' = todo
          BY <5>1
        <5>9. CertsBefore(q)'
          <6> HIDE DEF Validate
          <6> QED
            BY <2>1, <5>4, <5>7, <5>8 DEF CertsBefore, s
        <5> QED
          BY <1>1, <2>1, <5>6, <5>9
      <4> QED
        BY <4>1, <4>2
    <3>7. CASE /\ db' = db \/ WriteAudit(q, kind[q])
               /\ pc'[q] \notin {"exists", "insert"}
      <4>1. CertsBefore(q)'
        BY <3>7 DEF CertsBefore
      <4> QED
        BY <1>1, <2>1, <3>3, <3>7, <4>1
    <3> QED
      BY <3>1, <3>4, <3>5, <3>6, <3>7 DEF Restore, Goto, Reply, PerRequest
  <2> QED
    BY <2>2, <2>3
<1>5. CASE UNCHANGED <<reqVars, db, snapVars>>
  BY <1>5 DEF reqVars, snapVars, CertInv, CertsBefore
<1> QED
  BY <1>2, <1>3, <1>4, <1>5, StepCases DEF Tick, vars

(* The scenarios' domains name certificates that are there.                *)
LEMMA CertStart == Init => CertInv
<1> SUFFICES ASSUME Init  PROVE CertInv
  OBVIOUS
<1>1. PICK s \in Scenarios : db = s.db
  BY DEF Init, RequestsInit
<1>2. CertsExist(db)
  BY <1>1, ScenarioAssumption DEF Validate, CertsExist
<1> QED
  BY <1>2 DEF Init, RequestsInit, CertInv, CertsBefore

(* Whatever is restored, the database keeps passing its own validation.    *)
THEOREM DatabaseValid == Spec => []Validate(db)
<1>1. DbInv /\ CertInv => Validate(db)
  BY ValidateIs DEF DbInv, CertInv
<1>2. Spec => []CertInv
  BY CertStart, CertStep, TablesStart, TablesStep, DbAlways, RequestsAnsweredOnce, PTL DEF Spec
<1> QED
  BY <1>1, <1>2, DbAlways, PTL

(* Two states of a table that validate cannot tell apart: a node may be    *)
(* renamed and a credential revoked.                                       *)
SameRefs(t, a, b) ==
    /\ DOMAIN a = DOMAIN b
    /\ t = "credentials" => \A x \in DOMAIN a : a[x].node = b[x].node
    /\ t \notin {"nodes", "credentials"} => a = b

(* validate depends on keys and references only.                           *)
LEMMA ValidateRefs ==
    ASSUME NEW s, NEW d, Validate(d), \A t \in Tables : SameRefs(t, s[t], d[t])
    PROVE  Validate(s)
  BY TheTables DEF Validate, SameRefs

(* Requests that are no writers leave keys and references.                 *)
LEMMA OnlyWritersChangeRefs ==
    ASSUME DbInv, TablesInv, NEW r \in Req, Handler(r), kind[r] \notin Writers
    PROVE  \A t \in Tables : SameRefs(t, db[t], db'[t])
<1> DOMAIN db = TableNames
  BY DEF TablesInv
<1>1. CASE kind[r] \notin {"update_node", "revoke_credential"}
  <2>1. (Writes(kind[r]) \cup {"audit"}) \cap Tables = {}
    BY <1>1, TheTables DEF Writes, Writers, AclWriters
  <2> QED
    BY <2>1, HandlersTouch, TheTables DEF Touches, SameRefs
<1>a. \A action : WriteAudit(r, action) => \A t \in Tables : db'[t] = db[t]
  BY StatementsTouch, TheTables DEF WriteAudit, Touches
<1>2. CASE kind[r] = "update_node"
  <2>1. UpdateNodeRow(r)
    BY <1>2 DEF Handler, AccountsStep, NodesStep, AclStep, SnapshotsStep, Setup, Login,
       Refresh, Logout, Me, CreateNode, RemoveNode, CreateCredential, Restore,
       RevokeCredentialOf, Enroll, CreateAclRule, DropAclRule, DropRoute, ReadSnapshot
  <2>2. \/ db' = db \/ WriteAudit(r, "node.update")
        \/ \E name, description : db' = UpdateNode(db, arg[r].id, name, description)
    BY <2>1 DEF UpdateNodeRow
  <2>3. ASSUME NEW name, NEW description, db' = UpdateNode(db, arg[r].id, name, description)
        PROVE  \A t \in Tables : SameRefs(t, db[t], db'[t])
    <3>1. DOMAIN db'["nodes"] = DOMAIN db["nodes"]
      BY <2>3, TheTables DEF UpdateNode
    <3>2. \A t \in Tables \ {"nodes"} : db'[t] = db[t]
      BY <2>3, TheTables, StatementsTouch DEF Touches
    <3> QED
      BY <3>1, <3>2 DEF SameRefs
  <2> QED
    BY <1>a, <2>2, <2>3 DEF SameRefs
<1>3. CASE kind[r] = "revoke_credential"
  <2>1. RevokeCredentialOf(r)
    BY <1>3 DEF Handler, AccountsStep, NodesStep, AclStep, SnapshotsStep, Setup, Login,
       Refresh, Logout, Me, CreateNode, UpdateNodeRow, RemoveNode, CreateCredential, Restore,
       Enroll, CreateAclRule, DropAclRule, DropRoute, ReadSnapshot
  <2>2. db' = db \/ WriteAudit(r, "credential.revoke") \/ db' = RevokeCredential(db, arg[r].id)
    BY <2>1 DEF RevokeCredentialOf
  <2>3. ASSUME db' = RevokeCredential(db, arg[r].id)
        PROVE  \A t \in Tables : SameRefs(t, db[t], db'[t])
    <3>1. \A x \in DOMAIN db["credentials"] :
            DOMAIN db["credentials"][x] = {"node", "type", "revoked"}
      BY ColumnsAre DEF DbInv, GoodDb
    <3>2. /\ DOMAIN db'["credentials"] = DOMAIN db["credentials"]
          /\ \A x \in DOMAIN db["credentials"] :
                db["credentials"][x].node = db'["credentials"][x].node
      BY <2>3, <3>1, TheTables DEF RevokeCredential
    <3>3. \A t \in Tables \ {"credentials"} : db'[t] = db[t]
      BY <2>3, TheTables, StatementsTouch DEF Touches
    <3> QED
      BY <3>2, <3>3 DEF SameRefs
  <2> QED
    BY <1>a, <2>2, <2>3 DEF SameRefs
<1> QED
  BY <1>1, <1>2, <1>3

(* The tables a backup has read when it is at a label.                     *)
Selected(label) ==
    {SelectOrder[j] : j \in {x \in 1..6 : \E i \in 1..6 : label = SelectOrder[i] /\ x < i}}

(* No writer overlapped r.                                                 *)
Quiet(r) == \A q \in Req : kind[q] \in Writers /\ pc[q] # "idle" => ~Overlap(q, r)

(* A quiet backup holds what the database holds, as far as it has read,    *)
(* and is valid when it is answered.                                       *)
BackupRead(r) ==
    kind[r] = "backup" /\ Quiet(r) =>
        /\ ~Done(r) /\ pc[r] \notin {"idle", "start"} =>
              /\ DOMAIN read[r] = Tables
              /\ \A t \in Selected(pc[r]) : SameRefs(t, read[r][t], db[t])
        /\ resp[r] = 200 => Validate(read[r])

BackupInv == \A r \in Req : BackupRead(r)

(* A running request that is quiet is undisturbed.                         *)
LEMMA QuietIsUndisturbed ==
    ASSUME RequestInv, NEW r \in Req, Quiet(r), ~Done(r)
    PROVE  Undisturbed(Writers, r)
  BY DEF Quiet, Overlap, Undisturbed, RequestInv, Life, Done

(* A request that is quiet after a step of another was quiet before.       *)
LEMMA StillQuiet ==
    ASSUME RequestInv, NEW r \in Req, NEW q \in Req \ {r}, Alone(q), kind' = kind, pc'[q] # "idle",
           pc[q] = "idle" \/ before'[q] = before[q], Quiet(r)'
    PROVE  Quiet(r)
<1>1. \A p \in Req \ {q} : pc'[p] = pc[p] /\ before'[p] = before[p]
  BY DEF Alone
<1>2. ASSUME NEW p \in Req, kind[p] \in Writers, pc[p] # "idle"  PROVE ~Overlap(p, r)
  BY <1>1, <1>2 DEF Quiet, Overlap
<1> QED
  BY <1>2 DEF Quiet

(* Reading on: at the next table, one more has been read.                  *)
LEMMA SelectedNext ==
    /\ SelectOrder[1] = "nodes" /\ SelectOrder[2] = "routes" /\ SelectOrder[3] = "domains"
    /\ SelectOrder[4] = "acl_rules" /\ SelectOrder[5] = "credentials"
    /\ SelectOrder[6] = "certificates" /\ Len(SelectOrder) = 6
    /\ \A i \in 1..6 : SelectOrder[i] \in Tables
    /\ Selected(SelectOrder[1]) = {}
    /\ \A i \in 1..5 : Selected(SelectOrder[i + 1]) = Selected(SelectOrder[i]) \cup {SelectOrder[i]}
    /\ Tables = Selected(SelectOrder[6]) \cup {SelectOrder[6]}
<1>1. /\ SelectOrder[1] = "nodes" /\ SelectOrder[2] = "routes" /\ SelectOrder[3] = "domains"
      /\ SelectOrder[4] = "acl_rules" /\ SelectOrder[5] = "credentials"
      /\ SelectOrder[6] = "certificates" /\ Len(SelectOrder) = 6
  BY DEF SelectOrder
<1>2. \A i, j \in 1..6 : SelectOrder[i] = SelectOrder[j] => i = j
  BY <1>1
<1>3. ASSUME NEW i \in 1..6  PROVE Selected(SelectOrder[i]) = {SelectOrder[j] : j \in 1..(i - 1)}
  BY <1>2 DEF Selected
<1>4. Selected(SelectOrder[1]) = {}
  BY <1>3
<1>5. ASSUME NEW i \in 1..5
      PROVE  Selected(SelectOrder[i + 1]) = Selected(SelectOrder[i]) \cup {SelectOrder[i]}
  <2>1. i \in 1..6 /\ i + 1 \in 1..6 /\ (i + 1) - 1 = i
    OBVIOUS
  <2>2. 1..i = 1..(i - 1) \cup {i}
    OBVIOUS
  <2> QED
    BY <1>3, <2>1, <2>2
<1>6. \A i \in 1..6 : SelectOrder[i] \in Tables
  BY <1>1, TheTables
<1>7. Tables = Selected(SelectOrder[6]) \cup {SelectOrder[6]}
  <2>1. 1..5 = {1, 2, 3, 4, 5}
    OBVIOUS
  <2>2. Selected(SelectOrder[6]) = {SelectOrder[j] : j \in {1, 2, 3, 4, 5}}
    BY <1>3, <2>1
  <2>3. Selected(SelectOrder[6]) = {"nodes", "routes", "domains", "acl_rules", "credentials"}
    BY <1>1, <2>2
  <2> QED
    BY <1>1, <2>3, TheTables
<1> QED
  BY <1>1, <1>4, <1>5, <1>6, <1>7

(* Every step keeps quiet backups what they are.                           *)
LEMMA BackupStep ==
    ASSUME RequestInv, RequestInv', TablesInv, DbInv, CertInv, BackupInv, [Next]_vars
    PROVE  BackupInv'
<1> PerRequest
  BY DEF RequestInv
<1>1. ASSUME NEW q \in Req, Alone(q), kind' = kind, pc[q] # "done", pc'[q] # "idle",
             pc[q] = "idle" \/ before'[q] = before[q],
             kind[q] \notin Writers => \A t \in Tables : SameRefs(t, db[t], db'[t]),
             BackupRead(q)'
      PROVE  BackupInv'
  <2> SUFFICES ASSUME NEW r \in Req \ {q}, kind[r] = "backup", Quiet(r)'
               PROVE  BackupRead(r)'
    BY <1>1 DEF BackupInv, BackupRead
  <2>1. pc'[r] = pc[r] /\ resp'[r] = resp[r] /\ read'[r] = read[r]
    BY <1>1 DEF Alone
  <2>2. Quiet(r)
    BY <1>1, StillQuiet
  <2>3. BackupRead(r)
    BY DEF BackupInv
  <2>4. CASE Done(r)
    <3> HIDE DEF Validate
    <3> QED
      BY <1>1, <2>1, <2>2, <2>3, <2>4 DEF BackupRead, Done
  <2>5. CASE ~Done(r)
    <3>1. Undisturbed(Writers, r)'
      BY <2>1, <2>5 DEF Quiet, Overlap, Undisturbed, RequestInv, Life, Done
    <3>2. \A t \in Tables : SameRefs(t, db[t], db'[t])
      BY <1>1, <3>1, StillUndisturbed
    <3>3. resp[r] # 200
      BY <2>5 DEF RequestInv, Life
    <3>4. \A t \in Selected(pc[r]) : t \in Tables
      <4>1. \A j \in 1..6 : SelectOrder[j] \in Tables
        BY SelectedNext
      <4> QED
        BY <4>1 DEF Selected
    <3>5. ASSUME pc[r] \notin {"idle", "start"}
          PROVE  /\ DOMAIN read[r] = Tables
                 /\ \A t \in Selected(pc[r]) : SameRefs(t, read[r][t], db'[t])
      BY <2>2, <2>3, <2>5, <3>2, <3>4, <3>5 DEF BackupRead, SameRefs
    <3> QED
      BY <1>1, <2>1, <3>3, <3>5 DEF BackupRead
  <2> QED
    BY <2>4, <2>5
<1>2. ASSUME NEW q \in Req, Begin(q), UNCHANGED snapVars  PROVE BackupInv'
  <2>1. db' = db
    BY <1>2 DEF Begin
  <2>2. /\ Alone(q) /\ kind' = kind /\ pc[q] = "idle" /\ pc'[q] \in {"start", "done"}
        /\ resp'[q] # 200
    BY <1>2, BeginFacts
  <2>3. BackupRead(q)'
    BY <2>2 DEF BackupRead, Done
  <2> QED
    BY <1>1, <2>1, <2>2, <2>3 DEF SameRefs
<1>3. ASSUME NEW q \in Req, Interrupted(q), UNCHANGED snapVars  PROVE BackupInv'
  <2>1. /\ Alone(q) /\ kind' = kind /\ pc[q] # "done" /\ pc'[q] = "done" /\ resp'[q] = 500
        /\ db' = db /\ before' = before
    BY <1>3, InterruptedFacts, MoveFacts DEF Interrupted
  <2>2. BackupRead(q)'
    BY <2>1 DEF BackupRead, Done
  <2> QED
    BY <1>1, <2>1, <2>2 DEF SameRefs
<1>4. ASSUME NEW q \in Req, Handler(q)  PROVE BackupInv'
  <2>1. /\ Alone(q) /\ Moved(q) /\ kind' = kind /\ before' = before
        /\ pc[q] \notin {"idle", "done"} /\ pc'[q] # "idle"
    BY <1>4, HandlersMove, HandlersAlone, MoveFacts
  <2>2. kind[q] \notin Writers => \A t \in Tables : SameRefs(t, db[t], db'[t])
    BY <1>4, OnlyWritersChangeRefs
  <2>3. BackupRead(q)'
    <3> SUFFICES ASSUME kind[q] = "backup", Quiet(q)'  PROVE BackupRead(q)'
      BY <2>1 DEF BackupRead
    <3>1. Quiet(q)
      BY <2>1 DEF Quiet, Overlap, Alone, Writers, AclWriters
    <3>2. BackupRead(q) /\ resp[q] = 0
      BY <2>1 DEF BackupInv, RequestInv, Life, Done
    <3>3. ReadSnapshot(q)
      BY <1>4 DEF Handler, AccountsStep, NodesStep, AclStep, SnapshotsStep, Setup, Login,
         Refresh, Logout, Me, CreateNode, UpdateNodeRow, RemoveNode, CreateCredential, Restore,
         RevokeCredentialOf, Enroll, CreateAclRule, DropAclRule, DropRoute
    <3>4. db' = db
      BY <3>3 DEF ReadSnapshot
    <3>5. CASE pc[q] = "start"
      <4>1. read'[q] = EmptySnapshot /\ pc'[q] = SelectOrder[1] /\ resp'[q] = 0
        <5>1. \A i \in 1..6 : SelectOrder[i] # "start"
          BY SelectedNext, TheTables
        <5> QED
          BY <3>2, <3>3, <3>5, <5>1, SelectedNext DEF ReadSnapshot, Goto, PerRequest
      <4>2. DOMAIN read'[q] = Tables /\ Selected(pc'[q]) = {}
        BY <4>1, SelectedNext DEF EmptySnapshot
      <4> QED
        BY <2>1, <4>1, <4>2 DEF BackupRead
    <3>6. ASSUME NEW i \in 1..6, pc[q] = SelectOrder[i],
                 read' = [read EXCEPT ![q][SelectOrder[i]] = db[SelectOrder[i]]],
                 IF i = 6 THEN Reply(q, 200) ELSE Goto(q, SelectOrder[i + 1])
          PROVE  BackupRead(q)'
      <4> DEFINE u == SelectOrder[i]
      <4>1. pc[q] # "start" /\ u \in Tables
        BY <3>6, SelectedNext, TheTables
      <4>2. DOMAIN read[q] = Tables /\ \A t \in Selected(u) : SameRefs(t, read[q][t], db[t])
        BY <2>1, <3>1, <3>2, <3>6, <4>1 DEF BackupRead, Done
      <4>3. /\ DOMAIN read'[q] = Tables /\ read'[q][u] = db[u]
            /\ \A t \in Tables : t # u => read'[q][t] = read[q][t]
        BY <3>6, <4>1, <4>2 DEF PerRequest
      <4>4. \A t \in Selected(u) : t \in Tables
        <5>1. \A j \in 1..6 : SelectOrder[j] \in Tables
          BY SelectedNext
        <5> QED
          BY <5>1 DEF Selected
      <4>5. \A t \in Selected(u) \cup {u} : SameRefs(t, read'[q][t], db[t])
        BY <4>2, <4>3, <4>4 DEF SameRefs
      <4>6. CASE i = 6
        <5>1. pc'[q] = "done" /\ \A t \in Tables : SameRefs(t, read'[q][t], db[t])
          BY <3>6, <4>5, <4>6, SelectedNext DEF Reply, PerRequest
        <5>2. Validate(db)
          BY ValidateIs DEF DbInv, CertInv
        <5>3. Validate(read'[q])
          BY <5>1, <5>2, ValidateRefs
        <5> HIDE DEF Validate
        <5> QED
          BY <5>1, <5>3 DEF BackupRead, Done
      <4>7. CASE i # 6
        <5>1. i \in 1..5 /\ pc'[q] = SelectOrder[i + 1] /\ resp'[q] = 0
          BY <3>2, <3>6, <4>7 DEF Goto, PerRequest
        <5>2. Selected(pc'[q]) = Selected(u) \cup {u}
          BY <5>1, SelectedNext
        <5>3. \A t \in Selected(pc'[q]) : SameRefs(t, read'[q][t], db'[t])
          BY <3>4, <4>5, <5>2
        <5> QED
          BY <4>3, <5>1, <5>3 DEF BackupRead
      <4> QED
        BY <4>6, <4>7
    <3>7. CASE pc[q] # "start"
      <4>1. PICK i \in 1..Len(SelectOrder) :
              /\ pc[q] = SelectOrder[i]
              /\ read' = [read EXCEPT ![q][SelectOrder[i]] = db[SelectOrder[i]]]
              /\ IF i = Len(SelectOrder) \/ (~IncludeSecrets(q) /\ SelectOrder[i + 1] \in Secrets)
                 THEN Reply(q, 200) ELSE Goto(q, SelectOrder[i + 1])
        BY <3>3, <3>7 DEF ReadSnapshot
      <4> QED
        BY <3>6, <4>1, SelectedNext DEF IncludeSecrets
    <3> QED
      BY <3>5, <3>7
  <2> QED
    BY <1>1, <2>1, <2>2, <2>3
<1>5. CASE UNCHANGED <<reqVars, db>>
  BY <1>5 DEF reqVars, BackupInv, BackupRead, Quiet, Overlap, Done
<1> QED
  BY <1>2, <1>3, <1>4, <1>5, StepCases DEF Tick, vars

(* A backup that no writer overlapped can be restored.                     *)
THEOREM BackupsValid == Spec => []QuietBackupValid
<1>1. Init => BackupInv
  BY DEF Init, RequestsInit, BackupInv, BackupRead
<1>2. BackupInv => QuietBackupValid
  <2> HIDE DEF Validate
  <2> QED
    BY DEF BackupInv, BackupRead, QuietBackupValid, Quiet
<1>3. Spec => []TablesInv
  BY TablesStart, TablesStep, RequestsAnsweredOnce, PTL DEF Spec
<1>4. Spec => []CertInv
  BY <1>3, CertStart, CertStep, DbAlways, RequestsAnsweredOnce, PTL DEF Spec
<1> QED
  BY <1>1, <1>2, <1>3, <1>4, RequestsAnsweredOnce, DbAlways, BackupStep, PTL DEF Spec
-----------------------------------------------------------------------------
(* One administrator, one enrollment per token.                            *)

(* The user a setup has created stays, under the name it asked for ...     *)
SetupKept(r) ==
    /\ kind[r] = "setup"
    /\ pc[r] \in {"role", "audit"} \/ resp[r] = 200
    => r \in DOMAIN db["users"] /\ db["users"][r].name = arg[r].name

(* ... and a setup that comes after it does not get past the check.        *)
SetupLate(r) ==
    /\ kind[r] = "setup"
    /\ \E q \in before[r] : kind[q] = "setup" /\ resp[q] = 200
    => pc[r] \in {"start", "done"} /\ resp[r] # 200

SetupInv == \A r \in Req : SetupKept(r) /\ SetupLate(r)

(* A setup that has succeeded keeps every later one out.                   *)
LEMMA SetupStep ==
    ASSUME RequestInv, TablesInv, SetupInv, [Next]_vars
    PROVE  SetupInv'
<1> PerRequest /\ DOMAIN db = TableNames
  BY DEF RequestInv, TablesInv
<1> DEFINE UsersStay == \A x \in DOMAIN db["users"] :
                           x \in DOMAIN db'["users"] /\ db'["users"][x] = db["users"][x]
<1>1. ASSUME NEW q \in Req, Alone(q), kind' = kind, pc[q] # "done", UsersStay,
             SetupKept(q)', SetupLate(q)'
      PROVE  SetupInv'
  <2> SUFFICES ASSUME NEW r \in Req \ {q}  PROVE SetupKept(r)' /\ SetupLate(r)'
    BY <1>1 DEF SetupInv
  <2>1. /\ pc'[r] = pc[r] /\ resp'[r] = resp[r] /\ before'[r] = before[r] /\ arg'[r] = arg[r]
        /\ \A p \in Req \ {q} : resp'[p] = resp[p]
    BY <1>1 DEF Alone
  <2>2. before[r] \subseteq {p \in Req : Done(p)}
    BY DEF RequestInv, Life
  <2>3. SetupKept(r) /\ SetupLate(r)
    BY DEF SetupInv
  <2>4. SetupKept(r)'
    BY <1>1, <2>1, <2>3 DEF SetupKept
  <2>5. q \notin before[r]
    BY <1>1, <2>2 DEF Done
  <2>6. SetupLate(r)'
    BY <1>1, <2>1, <2>2, <2>3, <2>5 DEF SetupLate
  <2> QED
    BY <2>4, <2>6
<1>2. ASSUME NEW q \in Req, Begin(q), UNCHANGED snapVars  PROVE SetupInv'
  <2>1. db' = db
    BY <1>2 DEF Begin
  <2>2. /\ Alone(q) /\ kind' = kind /\ pc[q] = "idle"
        /\ pc'[q] \in {"start", "done"} /\ resp'[q] # 200
    BY <1>2, BeginFacts
  <2>3. SetupKept(q)' /\ SetupLate(q)'
    BY <2>2 DEF SetupKept, SetupLate
  <2> QED
    BY <1>1, <2>1, <2>2, <2>3
<1>3. ASSUME NEW q \in Req, Interrupted(q), UNCHANGED snapVars  PROVE SetupInv'
  <2>1. /\ Alone(q) /\ kind' = kind /\ pc[q] # "done" /\ pc'[q] = "done" /\ resp'[q] = 500
        /\ db' = db
    BY <1>3, InterruptedFacts, MoveFacts DEF Interrupted
  <2>2. SetupKept(q)' /\ SetupLate(q)'
    BY <2>1 DEF SetupKept, SetupLate
  <2> QED
    BY <1>1, <2>1, <2>2
<1>4. ASSUME NEW q \in Req, Handler(q)  PROVE SetupInv'
  <2>1. /\ Alone(q) /\ Moved(q) /\ kind' = kind /\ arg' = arg /\ before' = before
        /\ pc[q] \notin {"idle", "done"}
    BY <1>4, HandlersMove, HandlersAlone, MoveFacts
  <2>2. resp[q] = 0
    BY <2>1 DEF RequestInv, Life, Done
  <2>3. CASE kind[q] # "setup"
    <3>1. "users" \notin Writes(kind[q]) \cup {"audit"}
      BY <2>3, TheTables DEF Writes
    <3>2. db'["users"] = db["users"]
      BY <1>4, <3>1, HandlersTouch, TheTables DEF Touches
    <3>3. SetupKept(q)' /\ SetupLate(q)'
      BY <2>1, <2>3 DEF SetupKept, SetupLate
    <3> QED
      BY <1>1, <2>1, <3>2, <3>3
  <2>4. CASE kind[q] = "setup"
    <3>1. Setup(q)
      BY <1>4, <2>4 DEF Handler, AccountsStep, NodesStep, AclStep, SnapshotsStep, Login,
         Refresh, Logout, Me, CreateNode, UpdateNodeRow, RemoveNode, CreateCredential,
         RevokeCredentialOf, Enroll, CreateAclRule, DropAclRule, DropRoute, ReadSnapshot, Restore
    <3>2. SetupKept(q) /\ SetupLate(q)
      BY DEF SetupInv
    <3>3. \A p \in before[q] : p \in Req /\ resp'[p] = resp[p]
      BY <2>1 DEF RequestInv, Life, Alone
    <3>4. CASE pc[q] = "start"
      <4>1. /\ db' = db /\ pc'[q] \in {"create_user", "done"} /\ resp'[q] # 200
            /\ DOMAIN db["users"] # {} => pc'[q] = "done"
        BY <2>2, <3>1, <3>4 DEF Setup, Goto, Reply, PerRequest
      <4>2. ASSUME NEW p \in before[q], kind[p] = "setup", resp[p] = 200
            PROVE  DOMAIN db["users"] # {}
        BY <3>3, <4>2 DEF SetupInv, SetupKept
      <4>3. SetupKept(q)' /\ SetupLate(q)'
        BY <2>1, <3>3, <4>1, <4>2 DEF SetupKept, SetupLate
      <4> QED
        BY <1>1, <2>1, <4>1, <4>3
    <3>5. CASE pc[q] # "start"
      <4>1. SetupLate(q)'
        BY <2>1, <2>4, <3>2, <3>3, <3>5 DEF SetupLate
      <4>2. CASE pc[q] = "create_user"
        <5>1. CASE db' = db /\ pc'[q] = "done" /\ resp'[q] = 409
          BY <1>1, <2>1, <4>1, <5>1 DEF SetupKept
        <5>2. CASE db' = Insert(db, "users", q, [name |-> arg[q].name]) /\ q \notin DOMAIN db["users"]
          <6>1. /\ DOMAIN db'["users"] = DOMAIN db["users"] \cup {q}
                /\ db'["users"][q].name = arg[q].name
                /\ \A x \in DOMAIN db["users"] : x # q /\ db'["users"][x] = db["users"][x]
            BY <5>2, TheTables DEF Insert, Put
          <6>2. SetupKept(q)'
            BY <2>1, <6>1 DEF SetupKept
          <6> QED
            BY <1>1, <2>1, <4>1, <6>1, <6>2
        <5> QED
          BY <3>1, <4>2, <5>1, <5>2 DEF Setup, Reply, Duplicate, PerRequest
      <4>3. CASE pc[q] \in {"role", "audit"}
        <5>1. db'["users"] = db["users"]
          BY <3>1, <4>3, TheTables DEF Setup, WriteAudit, InsertAuditLog
        <5>2. SetupKept(q)'
          BY <2>1, <2>4, <3>2, <4>3, <5>1 DEF SetupKept
        <5> QED
          BY <1>1, <2>1, <4>1, <5>1, <5>2
      <4> QED
        BY <3>1, <3>5, <4>2, <4>3 DEF Setup
    <3> QED
      BY <3>4, <3>5
  <2> QED
    BY <2>3, <2>4
<1>5. CASE UNCHANGED <<reqVars, db>>
  BY <1>5 DEF reqVars, SetupInv, SetupKept, SetupLate
<1> QED
  BY <1>2, <1>3, <1>4, <1>5, StepCases DEF Tick, vars

(* A request has stored the credential it issues.                          *)
Issued(p) ==
    /\ kind[p] \in {"create_node", "create_credential", "enroll"}
    /\ pc[p] \notin {"idle", "start", "insert", "node", "revoke", "meta", "credential"}

(* A credential that bears the id of a request was issued by it ...        *)
Made(p) == p \in DOMAIN db["credentials"] => Issued(p)

(* ... as was one that somebody asks for, so it is not issued again.       *)
Asked(q) == kind[q] \in {"enroll", "revoke_credential"} /\ arg[q].id \in Req => Issued(arg[q].id)

(* A credential that is gone or revoked enrolls nobody ...                 *)
Spent(c) == c \in DOMAIN db["credentials"] => db["credentials"][c].revoked

(* ... which is so from the statement on that uses the token up or revokes *)
(* it.                                                                     *)
Burnt(q) ==
    \/ kind[q] = "enroll" /\ pc[q] \in {"meta", "credential", "audit_revoke", "audit"}
    \/ kind[q] = "revoke_credential" /\ pc[q] = "audit"
    \/ kind[q] \in {"enroll", "revoke_credential"} /\ resp[q] \in Ok
    => Spent(arg[q].id)

(* An enrollment that comes after the token was used or revoked is refused.*)
EnrollLate(r) ==
    /\ kind[r] = "enroll"
    /\ \E q \in before[r] : /\ kind[q] \in {"enroll", "revoke_credential"}
                            /\ resp[q] \in Ok /\ arg[q].id = arg[r].id
    => pc[r] \in {"start", "done"} /\ resp[r] # 200

(* A preview inserts nothing.                                              *)
Applies(r) == kind[r] \in {"restore", "import"} /\ pc[r] = "insert" => arg[r].flag

TokenInv ==
    /\ \A r \in Req : Applies(r)
    /\ Restored \/ \A r \in Req : Made(r) /\ Asked(r) /\ Burnt(r) /\ EnrollLate(r)

(* What a handler of r may do to the credentials: delete or revoke any,    *)
(* and store one under its own id, once.                                   *)
CredentialsFall(r) ==
    \A c \in DOMAIN db'["credentials"] :
        \/ /\ c \in DOMAIN db["credentials"]
           /\ db["credentials"][c].revoked => db'["credentials"][c].revoked
        \/ c = r /\ ~Issued(r) /\ Issued(r)'

(* Every statement on the credentials but the INSERT of a restore.         *)
LEMMA CredentialStatements ==
    ASSUME GoodDb(db), NEW r
    PROVE  /\ db'["credentials"] = db["credentials"] => CredentialsFall(r)
           /\ \A n : db' = DeleteNode(db, n) => CredentialsFall(r)
           /\ \A c : db' = RevokeCredential(db, c) =>
                 /\ CredentialsFall(r)
                 /\ c \in DOMAIN db'["credentials"] => db'["credentials"][c].revoked
           /\ \A row : db' = Insert(db, "credentials", r, row) /\ ~Issued(r) /\ Issued(r)' =>
                 CredentialsFall(r)
<1> DOMAIN db = TableNames
  BY DEF GoodDb
<1>1. db'["credentials"] = db["credentials"] => CredentialsFall(r)
  BY DEF CredentialsFall
<1>2. ASSUME NEW n, db' = DeleteNode(db, n)  PROVE CredentialsFall(r)
  <2>1. /\ DOMAIN db'["credentials"] \subseteq DOMAIN db["credentials"]
        /\ \A c \in DOMAIN db'["credentials"] : db'["credentials"][c] = db["credentials"][c]
    BY <1>2, TheTables DEF DeleteNode, DeleteRoutes, Keep
  <2> QED
    BY <2>1 DEF CredentialsFall
<1>3. ASSUME NEW c, db' = RevokeCredential(db, c)
      PROVE  /\ CredentialsFall(r)
             /\ c \in DOMAIN db'["credentials"] => db'["credentials"][c].revoked
  <2>1. CASE c \in DOMAIN db["credentials"]
    <3>1. DOMAIN db["credentials"][c] = {"node", "type", "revoked"}
      BY <2>1, ColumnsAre DEF GoodDb
    <3>2. /\ DOMAIN db'["credentials"] = DOMAIN db["credentials"]
          /\ db'["credentials"][c].revoked
          /\ \A x \in DOMAIN db["credentials"] : x # c => db'["credentials"][x] = db["credentials"][x]
      BY <1>3, <2>1, <3>1, TheTables DEF RevokeCredential
    <3> QED
      BY <3>2 DEF CredentialsFall
  <2>2. CASE c \notin DOMAIN db["credentials"]
    BY <1>1, <1>3, <2>2 DEF RevokeCredential
  <2> QED
    BY <2>1, <2>2
<1>4. ASSUME NEW row, db' = Insert(db, "credentials", r, row), ~Issued(r), Issued(r)'
      PROVE  CredentialsFall(r)
  <2>1. /\ DOMAIN db'["credentials"] = DOMAIN db["credentials"] \cup {r}
        /\ \A x \in DOMAIN db["credentials"] : x # r => db'["credentials"][x] = db["credentials"][x]
    BY <1>4, TheTables DEF Insert, Put
  <2> QED
    BY <1>4, <2>1 DEF CredentialsFall
<1> QED
  BY <1>1, <1>2, <1>3, <1>4

(* No handler but an applied restore brings a credential back.             *)
LEMMA HandlersSpend ==
    ASSUME RequestInv, DbInv, TablesInv, NEW r \in Req, Handler(r),
           ~(kind[r] \in {"restore", "import"} /\ pc[r] = "insert")
    PROVE  CredentialsFall(r)
<1> PerRequest /\ DOMAIN db = TableNames /\ GoodDb(db)
  BY DEF RequestInv, TablesInv, DbInv
<1>m. kind' = kind
  BY HandlersMove, MoveFacts
<1>a. \A label : Goto(r, label) => pc'[r] = label
  BY DEF Goto, PerRequest
<1>b. \A e : db' = InsertAuditLog(db, e) => db'["credentials"] = db["credentials"]
  BY TheTables DEF InsertAuditLog
<1>c. CASE "credentials" \notin Writes(kind[r])
  BY <1>c, HandlersTouch, CredentialStatements, TheTables DEF Touches
<1>d. \A k, row : db' = Insert(db, "nodes", k, row) => db'["credentials"] = db["credentials"]
  BY TheTables DEF Insert
<1>e. \A n, m : db' = SetNodeAgentMeta(db, n, m) => db'["credentials"] = db["credentials"]
  BY TheTables DEF SetNodeAgentMeta
<1>1. CASE CreateNode(r)
  BY <1>1, <1>m, <1>a, <1>b, <1>d, CredentialStatements DEF CreateNode, WriteAudit, Issued
<1>2. CASE RemoveNode(r)
  BY <1>2, <1>b, CredentialStatements DEF RemoveNode, WriteAudit
<1>3. CASE CreateCredential(r)
  BY <1>3, <1>m, <1>a, <1>b, CredentialStatements DEF CreateCredential, WriteAudit, Issued
<1>4. CASE RevokeCredentialOf(r)
  BY <1>4, <1>b, CredentialStatements DEF RevokeCredentialOf, WriteAudit
<1>5. CASE Enroll(r)
  BY <1>5, <1>m, <1>a, <1>b, <1>e, CredentialStatements DEF Enroll, BurnToken, WriteAudit, Issued
<1>6. CASE Restore(r)
  BY <1>6, <1>b, CredentialStatements
     DEF Restore, RestoreStart, RestoreExists, RestoreInsert, WriteAudit
<1>7. CASE AccountsStep(r) \/ AclStep(r) \/ ReadSnapshot(r) \/ UpdateNodeRow(r)
  <2>1. kind[r] \in {"setup", "login", "refresh", "logout", "me", "create_acl", "delete_acl",
                     "delete_route", "backup", "export", "update_node"}
    BY <1>7 DEF AccountsStep, AclStep, ReadSnapshot, UpdateNodeRow, Setup, Login, Refresh, Logout,
       Me, CreateAclRule, DropAclRule, DropRoute
  <2> QED
    BY <1>c, <2>1 DEF Writes
<1> QED
  BY <1>1, <1>2, <1>3, <1>4, <1>5, <1>6, <1>7 DEF Handler, NodesStep, SnapshotsStep

(* Once an applied restore has been admitted, that stays so.               *)
LEMMA RestoredStays ==
    ASSUME RequestInv, Restored, [Next]_vars
    PROVE  Restored'
<1> PerRequest
  BY DEF RequestInv
<1>1. PICK q \in Req : kind[q] \in {"restore", "import"} /\ arg[q].flag /\ resp[q] # 403
  BY DEF Restored
<1>2. pc[q] # "idle"
  BY <1>1 DEF RequestInv, Life
<1>3. ASSUME NEW r \in Req, Alone(r), kind' = kind, r # q  PROVE Restored'
  BY <1>1, <1>3 DEF Alone, Restored
<1>4. ASSUME NEW r \in Req, Begin(r), UNCHANGED snapVars  PROVE Restored'
  BY <1>2, <1>3, <1>4, BeginFacts
<1>5. ASSUME NEW r \in Req, Interrupted(r), UNCHANGED snapVars  PROVE Restored'
  <2>1. Alone(r) /\ kind' = kind /\ arg' = arg /\ resp'[r] = 500
    BY <1>5, InterruptedFacts, MoveFacts
  <2> QED
    BY <1>1, <1>3, <2>1 DEF Restored
<1>6. ASSUME NEW r \in Req, Handler(r)  PROVE Restored'
  <2>1. Alone(r) /\ kind' = kind /\ arg' = arg
    BY <1>6, HandlersMove, HandlersAlone, MoveFacts
  <2>2. CASE r = q
    <3>1. Restore(q)
      BY <1>1, <1>6, <2>2
         DEF Handler, AccountsStep, NodesStep, AclStep, SnapshotsStep, Setup, Login,
         Refresh, Logout, Me, CreateNode, UpdateNodeRow, RemoveNode, CreateCredential,
         RevokeCredentialOf, Enroll, CreateAclRule, DropAclRule, DropRoute, ReadSnapshot
    <3>2. resp'[q] # 403
      BY <1>1, <3>1 DEF Restore, RestoreStart, RestoreExists, RestoreInsert, Goto, Reply, PerRequest
    <3> QED
      BY <1>1, <2>1, <3>2 DEF Restored
  <2> QED
    BY <1>3, <2>1, <2>2
<1>7. CASE UNCHANGED reqVars
  BY <1>7 DEF reqVars, Restored
<1> QED
  BY <1>4, <1>5, <1>6, <1>7, StepCases DEF Tick, vars

(* A credential is not issued twice.                                       *)
LEMMA IssuedStays ==
    ASSUME PerRequest, NEW r \in Req, Issued(r), Handler(r)
    PROVE  Issued(r)'
<1>1. kind' = kind
  BY HandlersMove, MoveFacts
<1>2. CreateNode(r) \/ CreateCredential(r) \/ Enroll(r)
  BY DEF Issued, Handler, AccountsStep, NodesStep, AclStep, SnapshotsStep, Setup, Login, Restore,
     Refresh, Logout, Me, UpdateNodeRow, RemoveNode, RevokeCredentialOf, CreateAclRule,
     DropAclRule, DropRoute, ReadSnapshot
<1> QED
  BY <1>1, <1>2 DEF Issued, CreateNode, CreateCredential, Enroll, Goto, Reply, PerRequest

(* Only an applied restore reaches its INSERT.                             *)
LEMMA AppliesStep ==
    ASSUME RequestInv, \A r \in Req : Applies(r), [Next]_vars
    PROVE  \A r \in Req : Applies(r)'
<1> PerRequest
  BY DEF RequestInv
<1>1. ASSUME NEW q \in Req, Alone(q), kind' = kind, Applies(q)'
      PROVE  \A r \in Req : Applies(r)'
  BY <1>1 DEF Alone, Applies
<1>2. ASSUME NEW q \in Req, Begin(q), UNCHANGED snapVars  PROVE \A r \in Req : Applies(r)'
  BY <1>1, <1>2, BeginFacts DEF Applies
<1>3. ASSUME NEW q \in Req, Interrupted(q), UNCHANGED snapVars  PROVE \A r \in Req : Applies(r)'
  BY <1>1, <1>3, InterruptedFacts, MoveFacts DEF Applies
<1>4. ASSUME NEW q \in Req, Handler(q)  PROVE \A r \in Req : Applies(r)'
  <2>1. Alone(q) /\ kind' = kind /\ arg' = arg
    BY <1>4, HandlersMove, HandlersAlone, MoveFacts
  <2>2. CASE kind[q] \in {"restore", "import"}
    <3>1. Restore(q)
      BY <1>4, <2>2 DEF Handler, AccountsStep, NodesStep, AclStep, SnapshotsStep, Setup, Login,
         Refresh, Logout, Me, CreateNode, UpdateNodeRow, RemoveNode, CreateCredential,
         RevokeCredentialOf, Enroll, CreateAclRule, DropAclRule, DropRoute, ReadSnapshot
    <3>2. pc'[q] = "insert" => arg[q].flag
      BY <3>1 DEF Restore, RestoreStart, RestoreExists, RestoreInsert, Goto, Reply, PerRequest
    <3> QED
      BY <1>1, <2>1, <3>2 DEF Applies
  <2> QED
    BY <1>1, <2>1, <2>2 DEF Applies
<1>5. CASE UNCHANGED reqVars
  BY <1>5 DEF reqVars, Applies
<1> QED
  BY <1>2, <1>3, <1>4, <1>5, StepCases DEF Tick, vars

(* A used or revoked token stays so, and whoever comes later is refused.   *)
LEMMA TokenStep ==
    ASSUME RequestInv, DbInv, TablesInv, TokenInv, [Next]_vars
    PROVE  TokenInv'
<1> PerRequest
  BY DEF RequestInv
<1>0. \A r \in Req : Applies(r)'
  BY AppliesStep DEF TokenInv
<1> SUFFICES ASSUME ~Restored'
             PROVE  \A r \in Req : Made(r)' /\ Asked(r)' /\ Burnt(r)' /\ EnrollLate(r)'
  BY <1>0 DEF TokenInv
<1>u. /\ ~Restored
      /\ \A r \in Req : Made(r) /\ Asked(r) /\ Burnt(r) /\ EnrollLate(r)
  BY RestoredStays DEF TokenInv
<1>1. ASSUME NEW q \in Req, Alone(q), kind' = kind, pc[q] # "done", CredentialsFall(q),
             Issued(q) => Issued(q)', Asked(q)', Burnt(q)', EnrollLate(q)'
      PROVE  \A r \in Req : Made(r)' /\ Asked(r)' /\ Burnt(r)' /\ EnrollLate(r)'
  <2> SUFFICES ASSUME NEW r \in Req
               PROVE  Made(r)' /\ (r # q => Asked(r)' /\ Burnt(r)' /\ EnrollLate(r)')
    BY <1>1
  <2>1. \A p \in Req : Issued(p) => Issued(p)'
    BY <1>1 DEF Alone, Issued
  <2>2. Made(r)'
    BY <1>1, <1>u, <2>1 DEF Made, CredentialsFall
  <2>3. CASE r # q
    <3>1. /\ pc'[r] = pc[r] /\ resp'[r] = resp[r] /\ before'[r] = before[r] /\ arg'[r] = arg[r]
          /\ \A p \in Req \ {q} : resp'[p] = resp[p] /\ arg'[p] = arg[p]
      BY <1>1, <2>3 DEF Alone
    <3>2. Asked(r)'
      BY <1>1, <1>u, <2>1, <3>1 DEF Asked
    <3>3. Burnt(r)'
      <4>1. kind[r] \in {"enroll", "revoke_credential"} /\ Spent(arg[r].id) => Spent(arg[r].id)'
        BY <1>1, <1>u, <3>1 DEF Spent, CredentialsFall, Asked
      <4> QED
        BY <1>1, <1>u, <3>1, <4>1 DEF Burnt
    <3>4. EnrollLate(r)'
      <4>1. before[r] \subseteq {p \in Req : Done(p)}
        BY DEF RequestInv, Life
      <4>2. q \notin before[r]
        BY <1>1, <4>1 DEF Done
      <4> QED
        BY <1>1, <1>u, <3>1, <4>1, <4>2 DEF EnrollLate
    <3> QED
      BY <2>2, <3>2, <3>3, <3>4
  <2> QED
    BY <2>2, <2>3
<1>2. ASSUME NEW q \in Req, Begin(q), UNCHANGED snapVars
      PROVE  \A r \in Req : Made(r)' /\ Asked(r)' /\ Burnt(r)' /\ EnrollLate(r)'
  <2>1. db' = db
    BY <1>2 DEF Begin
  <2>2. /\ Alone(q) /\ kind' = kind /\ pc[q] = "idle" /\ arg'[q] \in Inputs(kind[q])
        /\ pc'[q] \in {"start", "done"} /\ resp'[q] \notin Ok
    BY <1>2, BeginFacts DEF Ok
  <2>3. CredentialsFall(q)
    BY <2>1, CredentialStatements DEF DbInv
  <2>4. ~Issued(q)
    BY <2>2 DEF Issued
  <2>5. \A p \in Req : Issued(p) => Issued(p)'
    BY <2>2, <2>4 DEF Issued, Alone
  <2>6. Asked(q)'
    <3>1. CASE kind[q] \in {"enroll", "revoke_credential"}
      <4>1. arg'[q].id \in DOMAIN db["credentials"] \cup {None}
        BY <2>2, <3>1 DEF Inputs, Targets
      <4> QED
        BY <1>u, <2>5, <4>1, NoneAssumption DEF Asked, Made
    <3> QED
      BY <2>2, <3>1 DEF Asked
  <2>7. Burnt(q)' /\ EnrollLate(q)'
    BY <2>2 DEF Burnt, EnrollLate, Ok
  <2> QED
    BY <1>1, <2>2, <2>3, <2>4, <2>6, <2>7
<1>3. ASSUME NEW q \in Req, Interrupted(q), UNCHANGED snapVars
      PROVE  \A r \in Req : Made(r)' /\ Asked(r)' /\ Burnt(r)' /\ EnrollLate(r)'
  <2>1. /\ Alone(q) /\ kind' = kind /\ arg' = arg /\ pc[q] \notin {"idle", "done"}
        /\ pc'[q] = "done" /\ resp'[q] = 500 /\ db' = db
    BY <1>3, InterruptedFacts, MoveFacts DEF Interrupted
  <2>2. CredentialsFall(q)
    BY <2>1, CredentialStatements DEF DbInv
  <2>3. \A p \in Req : Issued(p) => Issued(p)'
    BY <2>1 DEF Issued, Alone
  <2>4. Asked(q)'
    BY <1>u, <2>1, <2>3 DEF Asked
  <2>5. Burnt(q)' /\ EnrollLate(q)'
    BY <2>1 DEF Burnt, EnrollLate, Ok
  <2> QED
    BY <1>1, <2>1, <2>2, <2>3, <2>4, <2>5
<1>4. ASSUME NEW q \in Req, Handler(q)
      PROVE  \A r \in Req : Made(r)' /\ Asked(r)' /\ Burnt(r)' /\ EnrollLate(r)'
  <2>1. /\ Alone(q) /\ Moved(q) /\ kind' = kind /\ arg' = arg /\ before' = before
        /\ pc[q] \notin {"idle", "done"}
    BY <1>4, HandlersMove, HandlersAlone, MoveFacts
  <2>2. resp[q] = 0
    BY <2>1 DEF RequestInv, Life, Done
  <2>3. ~(kind[q] \in {"restore", "import"} /\ pc[q] = "insert")
    BY <1>u, <2>2 DEF TokenInv, Applies, Restored
  <2>4. CredentialsFall(q)
    BY <1>4, <2>3, HandlersSpend
  <2>5. Issued(q) => Issued(q)'
    BY <1>4, IssuedStays
  <2>6. \A p \in Req : Issued(p) => Issued(p)'
    BY <2>1, <2>5 DEF Issued, Alone
  <2>7. Asked(q)'
    BY <1>u, <2>1, <2>6 DEF Asked
  <2>8. kind[q] \in {"enroll", "revoke_credential"} /\ Spent(arg[q].id) => Spent(arg[q].id)'
    BY <1>u, <2>1, <2>4 DEF Spent, CredentialsFall, Asked
  <2>9. Burnt(q)' /\ EnrollLate(q)'
    <3>1. CASE kind[q] \notin {"enroll", "revoke_credential"}
      BY <2>1, <3>1 DEF Burnt, EnrollLate
    <3>2. CASE kind[q] = "revoke_credential"
      <4>1. RevokeCredentialOf(q)
        BY <1>4, <3>2 DEF Handler, AccountsStep, NodesStep, AclStep, SnapshotsStep, Setup, Login,
           Refresh, Logout, Me, CreateNode, UpdateNodeRow, RemoveNode, CreateCredential, Restore,
           Enroll, CreateAclRule, DropAclRule, DropRoute, ReadSnapshot
      <4>2. CASE pc[q] = "update"
        <5>1. db' = RevokeCredential(db, arg[q].id)
          BY <4>1, <4>2 DEF RevokeCredentialOf
        <5>2. Spent(arg[q].id)'
          BY <2>1, <5>1, CredentialStatements DEF DbInv, Spent
        <5> QED
          BY <2>1, <3>2, <5>2 DEF Burnt, EnrollLate
      <4>3. CASE pc[q] # "update"
        <5>1. pc'[q] = "audit" \/ resp'[q] \in Ok => pc[q] = "audit"
          BY <2>2, <4>1, <4>3 DEF RevokeCredentialOf, Goto, Reply, PerRequest, Ok
        <5> QED
          BY <1>u, <2>1, <2>8, <3>2, <5>1 DEF Burnt, EnrollLate
      <4> QED
        BY <4>2, <4>3
    <3>3. CASE kind[q] = "enroll"
      <4>1. Enroll(q)
        BY <1>4, <3>3 DEF Handler, AccountsStep, NodesStep, AclStep, SnapshotsStep, Setup, Login,
           Refresh, Logout, Me, CreateNode, UpdateNodeRow, RemoveNode, CreateCredential, Restore,
           RevokeCredentialOf, CreateAclRule, DropAclRule, DropRoute, ReadSnapshot
      <4>2. \A p \in before[q] : p \in Req /\ resp'[p] = resp[p]
        BY <2>1 DEF RequestInv, Life, Alone
      <4>3. CASE pc[q] = "start"
        <5>1. /\ pc'[q] \in {"node", "done"} /\ resp'[q] \notin Ok
              /\ Spent(arg[q].id) => pc'[q] = "done"
          BY <2>2, <4>1, <4>3 DEF Enroll, Goto, Reply, PerRequest, Ok, Spent
        <5>2. ASSUME NEW p \in before[q], kind[p] \in {"enroll", "revoke_credential"},
                     resp[p] \in Ok, arg[p].id = arg[q].id
              PROVE  Spent(arg[q].id)
          BY <1>u, <4>2, <5>2 DEF Burnt
        <5> QED
          BY <2>1, <4>2, <5>1, <5>2 DEF Burnt, EnrollLate, Ok
      <4>4. CASE pc[q] # "start"
        <5>1. EnrollLate(q)'
          BY <1>u, <2>1, <3>3, <4>2, <4>4 DEF EnrollLate
        <5>2. CASE pc[q] = "revoke"
          <6>1. db' = RevokeCredential(db, arg[q].id)
            BY <4>1, <5>2 DEF Enroll, BurnToken
          <6>2. Spent(arg[q].id)'
            BY <2>1, <6>1, CredentialStatements DEF DbInv, Spent
          <6> QED
            BY <5>1, <6>2 DEF Burnt
        <5>3. CASE pc[q] # "revoke"
          <6>1. /\ pc'[q] \in {"meta", "credential", "audit_revoke", "audit"} \/ resp'[q] \in Ok
                => pc[q] \in {"meta", "credential", "audit_revoke", "audit"}
            BY <2>2, <4>1, <4>4, <5>3 DEF Enroll, Goto, Reply, PerRequest, Ok
          <6> QED
            BY <1>u, <2>1, <2>8, <3>3, <5>1, <6>1 DEF Burnt
        <5> QED
          BY <5>2, <5>3
      <4> QED
        BY <4>3, <4>4
    <3> QED
      BY <3>1, <3>2, <3>3
  <2> QED
    BY <1>1, <2>1, <2>4, <2>5, <2>7, <2>9
<1>5. CASE UNCHANGED <<reqVars, db>>
  BY <1>5, <1>u DEF reqVars, Made, Asked, Burnt, EnrollLate, Issued, Spent
<1> QED
  BY <1>2, <1>3, <1>4, <1>5, StepCases DEF Tick, vars

(* Nothing is issued, used or revoked at the start.                        *)
LEMMA OneTimeStart == Init => SetupInv /\ TokenInv
<1> SUFFICES ASSUME Init  PROVE SetupInv /\ TokenInv
  OBVIOUS
<1>1. PICK s \in Scenarios : db = s.db
  BY DEF Init, RequestsInit
<1>2. \A r \in Req : r \notin DOMAIN db["credentials"]
  BY <1>1, FreshAssumption
<1>3. \A r \in Req : pc[r] = "idle" /\ resp[r] = 0 /\ before[r] = {} /\ arg[r].id = None
  BY DEF Init, RequestsInit
<1>4. SetupInv
  BY <1>3 DEF SetupInv, SetupKept, SetupLate
<1>5. TokenInv
  BY <1>2, <1>3, NoneAssumption
     DEF TokenInv, Applies, Made, Asked, Burnt, EnrollLate, Ok
<1> QED
  BY <1>4, <1>5

(* First-run setup makes one administrator and a bootstrap token enrolls   *)
(* one agent, unless the requests overlap; a token revoked by then enrolls *)
(* nobody, unless a restore was applied.                                   *)
THEOREM OneTimeUse == Spec => []OneTimeUnlessOverlapping
<1>1. RequestInv /\ DbInv /\ SetupInv /\ TokenInv => OneTimeUnlessOverlapping
  <2> SUFFICES ASSUME RequestInv, DbInv, SetupInv, TokenInv  PROVE OneTimeUnlessOverlapping
    OBVIOUS
  <2>1. UniqueNames(db, "users")
    BY ConsistentIs DEF DbInv, GoodDb
  <2>2. ASSUME NEW q \in Req, NEW r \in Req, q # r, kind[q] = "setup", kind[r] = "setup",
               resp[q] = 200, resp[r] = 200
        PROVE  Overlap(q, r) /\ arg[q].name # arg[r].name
    BY <2>1, <2>2 DEF SetupInv, SetupKept, SetupLate, UniqueNames, Overlap
  <2>3. ASSUME ~Restored, NEW q \in Req, NEW r \in Req, kind[r] = "enroll", resp[r] = 200,
               resp[q] \in Ok, kind[q] \in {"enroll", "revoke_credential"},
               arg[q].id = arg[r].id
        PROVE  q \notin before[r]
    BY <2>3 DEF TokenInv, EnrollLate
  <2> QED
    BY <2>2, <2>3 DEF OneTimeUnlessOverlapping
<1>2. Spec => []TablesInv
  BY TablesStart, TablesStep, RequestsAnsweredOnce, PTL DEF Spec
<1> QED
  BY <1>1, <1>2, OneTimeStart, SetupStep, TokenStep, DbAlways, RequestsAnsweredOnce, PTL DEF Spec

=============================================================================
