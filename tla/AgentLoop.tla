------------------------------ MODULE AgentLoop ------------------------------
(***************************************************************************)
(* The agent's life outside one message: run_with_reconnect and Backoff of *)
(* agent/src/reconnect.rs, connect_any and the select! loop of             *)
(* AgentSession::run in agent/src/session.rs, and read_frame of            *)
(* tunnel-core/src/frame_io.rs, which that loop drops whenever another arm *)
(* is ready.  A frame on the wire is its length field and its body; what   *)
(* the bytes of a body mean when they are read as a length is not known.   *)
(* Time is counted in ticks.                                               *)
(***************************************************************************)
EXTENDS ServerIdentity, Sequences, FiniteSets

CONSTANTS
    Endpoints,          \* server_addresses(): the servers, primary first
    BackoffTicks, Cap,  \* BACKOFF_SECONDS and ReconnectConfig.cap
    MaxReconnects,      \* the values max_reconnects may have; NoLimit is None
    NoLimit,
    Interval, Timeout,  \* HeartbeatConfig
    MaxWire,            \* bound on the fields in flight when time passes
    MaxMisread          \* bound on a body length read out of step

ASSUME BackoffAssumption == Cap \in Nat /\ BackoffTicks \in Seq(Nat) /\ BackoffTicks # <<>>
ASSUME MaxReconnectsAssumption == MaxReconnects \ {NoLimit} \subseteq Nat
ASSUME HeartbeatAssumption == Interval \in Nat \ {0} /\ Timeout \in Nat \ {0}

VARIABLES
    endpoints,  \* the endpoints that could be resolved when the agent started
    phase,      \* "top", "connect", "session", "sleep", "stopped"
    idx,        \* the endpoint connect_any is at
    attempt, reconnects,
    timer,      \* what is left of the delay
    max, cancel,
    ended,      \* history: rounds that ended since the last authentication
    waited,     \* history: ticks slept before this round
    ses         \* the session: its server and control stream

loopVars == <<endpoints, phase, idx, attempt, reconnects, timer, max, cancel, ended, waited>>
agVars == <<loopVars, ses, idVars>>

NoSession == [on |-> 0, alive |-> FALSE, wire |-> <<>>, need |-> 0, frame |-> "none",
              ping |-> 0, pong |-> 0]

(* resolve_endpoints: what does not resolve at the start is never tried.   *)
LoopInit ==
    /\ IdentityInit
    /\ \E S \in SUBSET Server \ {{}} : endpoints = SelectSeq(Endpoints, LAMBDA s : s \in S)
    /\ max \in MaxReconnects
    /\ phase = "top" /\ idx = 1 /\ attempt = 0 /\ reconnects = 0
    /\ timer = 0 /\ cancel = FALSE /\ ended = 0 /\ waited = 0
    /\ ses = NoSession

AtMost(n, bound) == IF n < bound THEN n ELSE bound

-----------------------------------------------------------------------------
(* run_with_reconnect                                                      *)

(* The top of the loop: cancelled, out of reconnects, or another round.    *)
Top ==
    /\ phase = "top"
    /\ IF cancel \/ (max # NoLimit /\ reconnects > max)
       THEN phase' = "stopped"
       ELSE phase' = "connect"
    /\ UNCHANGED <<endpoints, idx, attempt, reconnects, timer, max, cancel, ended, waited, ses, idVars>>

(* Backoff::base_delay; next_delay draws from [base / 2, base].            *)
BaseDelay(n) == AtMost(BackoffTicks[AtMost(n + 1, Len(BackoffTicks))], Cap)

(* A round or a session is over: one more reconnect, and the next delay.   *)
EnterSleep(from) ==
    /\ phase' = "sleep"
    /\ reconnects' = IF max = NoLimit THEN reconnects ELSE reconnects + 1
    /\ \E jitter \in 0..(BaseDelay(from) \div 2) : timer' = BaseDelay(from) \div 2 + jitter
    /\ ended' = AtMost(ended + 1, Len(BackoffTicks)) /\ waited' = 0
    /\ attempt' = AtMost(from + 1, Len(BackoffTicks))
    /\ idx' = 1
    /\ UNCHANGED <<endpoints, max, cancel>>

(* Mutant: authentication does not reset the backoff.                      *)
ConnectOkKeepsBackoff ==
    LET s == endpoints[idx] IN
    /\ phase = "connect" /\ proc[s] = "on" /\ Trusted(s)
    /\ Verify(s)
    /\ phase' = "session" /\ ended' = 0 /\ waited' = 0 /\ idx' = 1
    /\ ses' = [NoSession EXCEPT !.on = s, !.alive = TRUE]
    /\ UNCHANGED <<endpoints, attempt, reconnects, timer, max, cancel>>

(* connect_any, one endpoint: QUIC and TLS handshake, HELLO and AUTH, first*)
(* snapshot.  The first endpoint that answers is used.                     *)
ConnectOk ==
    LET s == endpoints[idx] IN
    /\ phase = "connect" /\ proc[s] = "on" /\ Trusted(s)
    /\ Verify(s)
    /\ phase' = "session" /\ attempt' = 0 /\ ended' = 0 /\ waited' = 0 /\ idx' = 1
    /\ ses' = [NoSession EXCEPT !.on = s, !.alive = TRUE]
    /\ UNCHANGED <<endpoints, reconnects, timer, max, cancel>>

(* The endpoint is unreachable, has not the pinned certificate, or refuses *)
(* (AUTH_FAIL or a stream that ends early, after it was pinned).           *)
ConnectFails ==
    LET s == endpoints[idx] IN
    /\ phase = "connect"
    /\ IF proc[s] = "on" /\ Trusted(s) THEN Verify(s) ELSE UNCHANGED idVars
    /\ IF idx < Len(endpoints)
       THEN idx' = idx + 1 /\ UNCHANGED <<endpoints, phase, attempt, reconnects, timer,
                                         max, cancel, ended, waited>>
       ELSE EnterSleep(attempt)
    /\ UNCHANGED ses

(* sleep_or_cancel                                                         *)
Wake ==
    /\ phase = "sleep"
    /\ \/ timer = 0 /\ phase' = "top"
       \/ cancel /\ phase' = "stopped"
    /\ timer' = 0
    /\ UNCHANGED <<endpoints, idx, attempt, reconnects, max, cancel, ended, waited, ses, idVars>>

Cancel ==
    /\ ~cancel /\ phase # "stopped"
    /\ cancel' = TRUE
    /\ UNCHANGED <<endpoints, phase, idx, attempt, reconnects, timer, max, ended, waited, ses, idVars>>

-----------------------------------------------------------------------------
(* AgentSession::run: the arms of its select!.                             *)

EndOfSession == EnterSleep(attempt) /\ ses' = NoSession /\ UNCHANGED idVars

(* PING is due: the read that was under way is dropped and with it what it *)
(* had taken from the stream.  A live server answers.                      *)
Ping ==
    /\ phase = "session" /\ ses.ping = Interval
    /\ ses' = [ses EXCEPT !.ping = 0, !.need = 0, !.frame = "none",
                          !.wire = IF ses.alive THEN @ \o <<"length", "pong">> ELSE @]
    /\ UNCHANGED <<loopVars, idVars>>

(* The server writes a frame of its own: configuration, UDP_OPEN.          *)
Push ==
    /\ phase = "session" /\ ses.alive /\ Len(ses.wire) + 2 <= MaxWire
    /\ ses' = [ses EXCEPT !.wire = @ \o <<"length", "config">>]
    /\ UNCHANGED <<loopVars, idVars>>

(* A complete frame: PONG moves the deadline, what cannot be decoded is    *)
(* ignored.                                                                *)
Handle(f, left) ==
    ses' = [ses EXCEPT !.wire = left, !.need = 0, !.frame = "none",
                       !.pong = IF f = "pong" THEN 0 ELSE @]

(* read_frame takes the next field.  In step it is a length and then its   *)
(* body.  Out of step a body is taken for a length: too small or too large *)
(* ends the session, and any other makes it wait for that many fields,     *)
(* whose type may then be unknown.                                         *)
Read ==
    LET field == Head(ses.wire)  left == Tail(ses.wire) IN
    /\ phase = "session" /\ ses.wire # <<>>
    /\ \/ /\ ses.need = 0 /\ field = "length"
          /\ ses' = [ses EXCEPT !.wire = left, !.need = 1, !.frame = "next"]
          /\ UNCHANGED <<loopVars, idVars>>
       \/ /\ ses.need = 0 /\ field # "length"
          /\ \/ EndOfSession
             \/ \E n \in 1..MaxMisread :
                    ses' = [ses EXCEPT !.wire = left, !.need = n, !.frame = "misread"]
                /\ UNCHANGED <<loopVars, idVars>>
       \/ /\ ses.need > 1
          /\ ses' = [ses EXCEPT !.wire = left, !.need = @ - 1]
          /\ UNCHANGED <<loopVars, idVars>>
       \/ /\ ses.need = 1
          /\ \/ /\ Handle(IF ses.frame = "next" THEN field ELSE "misread", left)
                /\ UNCHANGED <<loopVars, idVars>>
             \/ ses.frame = "misread" /\ EndOfSession

(* Mutant: the deadline counts from the last PING.                         *)
HeartbeatTimeoutOfPing == phase = "session" /\ ses.ping >= Timeout /\ EndOfSession

(* No PONG for the whole timeout.                                          *)
HeartbeatTimeout == phase = "session" /\ ses.pong >= Timeout /\ EndOfSession

(* The stream or the connection is seen to be closed.                      *)
StreamClosed == phase = "session" /\ ~ses.alive /\ EndOfSession

-----------------------------------------------------------------------------
(* Time passes; timers that are due are served first, and the wire does not*)
(* fill up for ever.                                                       *)
Tick ==
    /\ \/ phase = "sleep" /\ timer > 0 /\ timer' = timer - 1 /\ waited' = waited + 1 /\ UNCHANGED ses
       \/ /\ phase = "session" /\ ses.ping < Interval /\ ses.pong < Timeout
          /\ Len(ses.wire) <= MaxWire
          /\ ses' = [ses EXCEPT !.ping = @ + 1, !.pong = @ + 1]
          /\ UNCHANGED <<timer, waited>>
    /\ UNCHANGED <<endpoints, phase, idx, attempt, reconnects, max, cancel, ended, idVars>>

(* A server dies: its sessions are dead whether the agent sees it or not.  *)
ServerDies(s) ==
    /\ Die(s)
    /\ ses' = IF ses.on = s THEN [ses EXCEPT !.alive = FALSE] ELSE ses
    /\ UNCHANGED loopVars

ServerStarts(s) ==
    (Generate(s) \/ WriteKey(s) \/ LoadIdentity(s)) /\ UNCHANGED <<loopVars, ses>>

AgentSteps == Top \/ ConnectOk \/ ConnectFails \/ Wake \/ Ping \/ Read \/ HeartbeatTimeout

LoopNext ==
    \/ AgentSteps \/ Tick \/ Push \/ StreamClosed \/ Cancel
    \/ \E s \in Server : ServerDies(s) \/ ServerStarts(s)

LoopSpec == LoopInit /\ [][LoopNext]_agVars

(* The agent runs and time passes.  Connecting again and again to a server *)
(* that is up succeeds at some time.                                       *)
FairLoop ==
    /\ LoopSpec
    /\ WF_agVars(Top) /\ WF_agVars(Wake) /\ WF_agVars(Tick)
    /\ WF_agVars(ConnectOk \/ ConnectFails) /\ SF_agVars(ConnectOk)
    /\ WF_agVars(Ping) /\ WF_agVars(Read) /\ WF_agVars(HeartbeatTimeout)

-----------------------------------------------------------------------------
(* Properties                                                              *)

(* Rounds that end in a row are further and further apart: the time slept  *)
(* before the next is between half and all of the table's entry for their  *)
(* number, up to the cap; an authentication starts the table over.  And    *)
(* there are never more than max_reconnects rounds after the first.        *)
RetryPolicy ==
    /\ phase = "connect" /\ ended > 0 =>
        LET base == BaseDelay(ended - 1) IN waited \in (base \div 2)..base
    /\ max # NoLimit /\ phase \in {"connect", "session"} => reconnects <= max

(* The control stream is read in step with the frames written to it.       *)
InStep ==
    /\ phase = "session" /\ ses.alive
    /\ IF ses.need = 0 THEN ses.wire = <<>> \/ Head(ses.wire) = "length" ELSE ses.frame = "next"

Resolved == {endpoints[i] : i \in 1..Len(endpoints)}

(* An agent that was not told to stop always comes back to a session it    *)
(* reads correctly, if one of the endpoints it resolved stays up: dead     *)
(* servers, half-read frames that PING threw away and streams nobody       *)
(* answers end with the heartbeat at the latest, and the loop goes on to   *)
(* the first endpoint that answers.                                        *)
ComesBack ==
    (/\ [](max = NoLimit /\ ~cancel)
     /\ \E s \in Server : <>[](s \in Resolved /\ proc[s] = "on" /\ Trusted(s)))
        => []<>InStep
=============================================================================
