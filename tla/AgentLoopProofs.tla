--------------------------- MODULE AgentLoopProofs ---------------------------
(***************************************************************************)
(* The agent's retry policy and the identity it pins, for every set of     *)
(* servers, every backoff table and cap, and every limit on reconnects.    *)
(*                                                                         *)
(* RetryPolicy speaks of the time slept when a round starts.  It is        *)
(* inductive with what the code never writes down: that the attempt counter*)
(* of Backoff is the number of rounds that ended since the last            *)
(* authentication, and that slept and remaining time together stay within  *)
(* the bounds from which the delay was drawn.                              *)
(*                                                                         *)
(* PinnedIsServed speaks of running servers.  It is inductive with what the*)
(* files of a server hold while it is down: a pin exists only for a pair   *)
(* of files that is complete, and complete files are never written again.  *)
(***************************************************************************)
EXTENDS AgentLoop, SequenceTheorems, TLAPS

Phases == {"top", "connect", "session", "sleep", "stopped"}

(* The state of run_with_reconnect is well typed, and between two rounds   *)
(* the backoff counter counts the rounds that ended.                       *)
LoopTyped ==
    /\ phase \in Phases
    /\ ended \in 0..Len(BackoffTicks) /\ attempt = ended
    /\ reconnects \in Nat /\ timer \in Nat /\ waited \in Nat
    /\ max # NoLimit => max \in Nat

(* What is slept before a round, from the drawing of the delay on.         *)
DelayKept ==
    /\ phase = "sleep" => ended > 0
    /\ phase = "session" => ended = 0
    /\ phase \in {"sleep", "top", "connect"} /\ ended > 0 =>
          LET base == BaseDelay(ended - 1)
          IN  waited + (IF phase = "sleep" THEN timer ELSE 0) \in (base \div 2)..base

(* No round starts once the limit is passed.                               *)
WithinLimit == max # NoLimit /\ phase \in {"connect", "session"} => reconnects <= max

LoopInv == LoopTyped /\ DelayKept /\ WithinLimit

-----------------------------------------------------------------------------
(* The entries of the table Backoff::base_delay reads are its own, and the *)
(* last one stands for every later attempt.                                *)
LEMMA BaseDelayFacts ==
    ASSUME NEW n \in 0..Len(BackoffTicks)
    PROVE  /\ BaseDelay(n) \in Nat
           /\ AtMost(n + 1, Len(BackoffTicks)) \in 1..Len(BackoffTicks)
           /\ BaseDelay(AtMost(n + 1, Len(BackoffTicks)) - 1) = BaseDelay(n)
<1>1. Len(BackoffTicks) \in Nat /\ Len(BackoffTicks) > 0
  BY BackoffAssumption, EmptySeq, LenProperties
<1>2. AtMost(n + 1, Len(BackoffTicks)) \in 1..Len(BackoffTicks)
  BY <1>1 DEF AtMost
<1>3. \A i \in 1..Len(BackoffTicks) : BackoffTicks[i] \in Nat
  BY BackoffAssumption, ElementOfSeq
<1>4. BaseDelay(n) \in Nat
  BY <1>2, <1>3, BackoffAssumption DEF BaseDelay, AtMost
<1>5. AtMost(AtMost(n + 1, Len(BackoffTicks)) - 1 + 1, Len(BackoffTicks))
         = AtMost(n + 1, Len(BackoffTicks))
  BY <1>1 DEF AtMost
<1>6. BaseDelay(AtMost(n + 1, Len(BackoffTicks)) - 1) = BaseDelay(n)
  BY <1>5 DEF BaseDelay
<1> QED
  BY <1>2, <1>4, <1>6

(* The end of a round or of a session draws the delay from the bounds of   *)
(* the entry for the number of rounds that have ended.                     *)
LEMMA SleepKeepsPolicy ==
    ASSUME LoopInv, EnterSleep(attempt)
    PROVE  LoopInv'
<1> DEFINE n == AtMost(ended + 1, Len(BackoffTicks))
           base == BaseDelay(ended)
<1>1. base \in Nat /\ n \in 1..Len(BackoffTicks) /\ BaseDelay(n - 1) = base
  BY BaseDelayFacts DEF LoopInv, LoopTyped
<1>2. PICK jitter \in 0..(base \div 2) : timer' = base \div 2 + jitter
  BY DEF EnterSleep, LoopInv, LoopTyped
<1>3. /\ phase' = "sleep" /\ ended' = n /\ attempt' = n /\ waited' = 0 /\ max' = max
      /\ reconnects' \in Nat
  BY DEF EnterSleep, LoopInv, LoopTyped
<1>4. base \div 2 \in Nat /\ 2 * (base \div 2) <= base
  BY <1>1
<1>5. timer' \in Nat /\ timer' \in (base \div 2)..base
  BY <1>1, <1>2, <1>4
<1>6. LoopTyped'
  BY <1>1, <1>3, <1>5 DEF LoopInv, LoopTyped, Phases
<1>7. BaseDelay(ended' - 1) = base
  BY <1>1, <1>3
<1>8. DelayKept'
  <2>0. Len(BackoffTicks) \in Nat
    BY BackoffAssumption, LenProperties
  <2>1. ended' > 0 /\ waited' + timer' = timer'
    <3>1. ended' \in 1..Len(BackoffTicks)
      BY <1>1, <1>3
    <3>2. waited' = 0 /\ timer' \in Nat
      BY <1>3, <1>5
    <3>3. ended' > 0
      BY <3>1, <2>0
    <3>4. waited' + timer' = timer'
      <4>1. \A x \in Nat : 0 + x = x
        OBVIOUS
      <4> QED
        BY <3>2, <4>1, Zenon
    <3> QED
      BY <3>3, <3>4
  <2>2. BaseDelay(ended - 1)' = base
    BY <1>7 DEF BaseDelay
  <2> HIDE DEF base, n
  <2> QED
    BY <1>3, <1>5, <2>1, <2>2 DEF DelayKept
<1>9. WithinLimit'
  BY <1>3 DEF WithinLimit
<1> QED
  BY <1>6, <1>8, <1>9 DEF LoopInv

(* A step that leaves the loop's own variables alone keeps its invariant.  *)
LEMMA LoopStutter == LoopInv /\ UNCHANGED loopVars => LoopInv'
BY DEF LoopInv, LoopTyped, DelayKept, WithinLimit, loopVars, BaseDelay

(* The retry policy is kept by every step.                                 *)
LEMMA LoopStep == LoopInv /\ [LoopNext]_agVars => LoopInv'
<1> SUFFICES ASSUME LoopInv, [LoopNext]_agVars PROVE LoopInv'
  OBVIOUS
<1> DEFINE base == BaseDelay(ended - 1)
<1>1. CASE Top
  <2>1. UNCHANGED <<attempt, reconnects, timer, max, ended, waited>>
    BY <1>1 DEF Top
  <2>2. LoopTyped' /\ WithinLimit'
    BY <1>1, <2>1 DEF LoopInv, LoopTyped, Phases, WithinLimit, Top
  <2>3. phase = "top" /\ phase' \in {"connect", "stopped"}
    BY <1>1 DEF Top
  <2>4. DelayKept'
    BY <2>1, <2>3 DEF LoopInv, LoopTyped, DelayKept, BaseDelay
  <2> QED
    BY <2>2, <2>4 DEF LoopInv
<1>2. CASE ConnectOk
  <2>1. /\ phase = "connect" /\ phase' = "session" /\ attempt' = 0 /\ ended' = 0 /\ waited' = 0
        /\ UNCHANGED <<reconnects, timer, max>>
    BY <1>2 DEF ConnectOk
  <2>2. Len(BackoffTicks) \in Nat
    BY BackoffAssumption, LenProperties
  <2> QED
    BY <2>1, <2>2 DEF LoopInv, LoopTyped, DelayKept, WithinLimit, Phases
<1>3. CASE ConnectFails
  <2>1. CASE idx < Len(endpoints)
    <3>1. UNCHANGED <<phase, attempt, reconnects, timer, max, ended, waited>>
      BY <1>3, <2>1 DEF ConnectFails
    <3> QED
      BY <3>1 DEF LoopInv, LoopTyped, DelayKept, WithinLimit, BaseDelay
  <2>2. CASE ~(idx < Len(endpoints))
    BY <1>3, <2>2, SleepKeepsPolicy DEF ConnectFails
  <2> QED
    BY <2>1, <2>2
<1>4. CASE Wake
  <2>1. /\ phase = "sleep" /\ timer' = 0
        /\ UNCHANGED <<attempt, reconnects, max, ended, waited>>
        /\ (phase' = "top" /\ timer = 0) \/ phase' = "stopped"
    BY <1>4 DEF Wake
  <2>2. LoopTyped' /\ WithinLimit'
    BY <2>1 DEF LoopInv, LoopTyped, Phases, WithinLimit
  <2>3. DelayKept'
    BY <2>1 DEF LoopInv, LoopTyped, DelayKept, BaseDelay
  <2> QED
    BY <2>2, <2>3 DEF LoopInv
<1>5. CASE EndOfSession
  BY <1>5, SleepKeepsPolicy DEF EndOfSession
<1>6. CASE Tick
  <2>1. CASE phase = "sleep" /\ timer > 0 /\ timer' = timer - 1 /\ waited' = waited + 1
    <3>1. UNCHANGED <<phase, attempt, reconnects, max, ended>>
      BY <1>6 DEF Tick
    <3>2. LoopTyped' /\ WithinLimit'
      BY <2>1, <3>1 DEF LoopInv, LoopTyped, WithinLimit
    <3>3. waited' + timer' = waited + timer
      BY <2>1 DEF LoopInv, LoopTyped
    <3>4. DelayKept'
      BY <2>1, <3>1, <3>3 DEF LoopInv, DelayKept, BaseDelay
    <3> QED
      BY <3>2, <3>4 DEF LoopInv
  <2>2. CASE UNCHANGED <<timer, waited>>
    <3>1. UNCHANGED <<phase, attempt, reconnects, timer, max, ended, waited>>
      BY <1>6, <2>2 DEF Tick
    <3> QED
      BY <3>1 DEF LoopInv, LoopTyped, DelayKept, WithinLimit, BaseDelay
  <2> QED
    BY <1>6, <2>1, <2>2 DEF Tick
<1>7. CASE UNCHANGED loopVars
  BY <1>7, LoopStutter
<1>8. CASE Cancel
  <2>1. UNCHANGED <<phase, attempt, reconnects, timer, max, ended, waited>>
    BY <1>8 DEF Cancel
  <2> QED
    BY <2>1 DEF LoopInv, LoopTyped, DelayKept, WithinLimit, BaseDelay
<1>9. CASE Read
  <2>1. EndOfSession \/ UNCHANGED loopVars
    BY <1>9 DEF Read
  <2> QED
    BY <1>5, <1>7, <2>1
<1>10. CASE Ping \/ Push
  BY <1>7, <1>10 DEF Ping, Push
<1>11. CASE HeartbeatTimeout \/ StreamClosed
  BY <1>5, <1>11 DEF HeartbeatTimeout, StreamClosed
<1>12. CASE \E s \in Server : ServerDies(s) \/ ServerStarts(s)
  BY <1>7, <1>12 DEF ServerDies, ServerStarts
<1>13. CASE UNCHANGED agVars
  BY <1>7, <1>13 DEF agVars
<1> QED
  BY <1>1, <1>2, <1>3, <1>4, <1>6, <1>8, <1>9, <1>10, <1>11, <1>12, <1>13
     DEF LoopNext, AgentSteps

(* Rounds are at least half a table entry apart, an authentication starts  *)
(* the table over, and max_reconnects is respected, whatever the table.    *)
THEOREM Retries == LoopSpec => []RetryPolicy
<1>1. LoopInit => LoopInv
  <2> SUFFICES ASSUME LoopInit PROVE LoopInv
    OBVIOUS
  <2>1. max # NoLimit => max \in Nat
    BY MaxReconnectsAssumption DEF LoopInit
  <2>2. Len(BackoffTicks) \in Nat
    BY BackoffAssumption, LenProperties
  <2>3. /\ phase = "top" /\ attempt = 0 /\ reconnects = 0
        /\ timer = 0 /\ ended = 0 /\ waited = 0
    BY DEF LoopInit
  <2> QED
    BY <2>1, <2>2, <2>3 DEF LoopInv, LoopTyped, DelayKept, WithinLimit, Phases
<1>2. LoopInv => RetryPolicy
  <2> SUFFICES ASSUME LoopInv PROVE RetryPolicy
    OBVIOUS
  <2>1. ASSUME phase = "connect", ended > 0
        PROVE  waited \in (BaseDelay(ended - 1) \div 2)..BaseDelay(ended - 1)
    <3>1. waited + 0 = waited
      BY DEF LoopInv, LoopTyped
    <3> QED
      BY <2>1, <3>1 DEF LoopInv, DelayKept
  <2> QED
    BY <2>1 DEF LoopInv, WithinLimit, RetryPolicy
<1> QED
  BY <1>1, <1>2, LoopStep, PTL DEF LoopSpec

-----------------------------------------------------------------------------
(* The identity of one server, running or not.  A certificate an agent may *)
(* see, and one an agent has pinned, is in both files; while the files are *)
(* being written nobody has pinned anything.                               *)
Certs == Nat \ {0}

Identity(s) ==
    /\ proc[s] \in {"off", "certWritten", "on", "broken"}
    /\ made[s] \in Nat
    /\ certFile[s] \in Nat \cup {Torn} /\ keyFile[s] \in Nat \cup {Torn}
    /\ proc[s] = "on" => held[s] \in Certs /\ certFile[s] = held[s] /\ keyFile[s] = held[s]
    /\ proc[s] = "certWritten" => held[s] \in Certs /\ certFile[s] = held[s] /\ pin[s] = 0
    /\ pin[s] # 0 => pin[s] \in Certs /\ certFile[s] = pin[s] /\ keyFile[s] = pin[s]
                        /\ proc[s] # "broken"

IdTyped ==
    /\ made \in [Server -> Nat]
    /\ certFile \in [Server -> Nat \cup {Torn}] /\ keyFile \in [Server -> Nat \cup {Torn}]
    /\ DOMAIN proc = Server /\ DOMAIN held = Server /\ DOMAIN pin = Server

IdentityInv == IdTyped /\ \A s \in Server : Identity(s)

(* Starting a server, whichever of its file operations it dies at, leaves  *)
(* the identity of every server as it has to be.                           *)
LEMMA StartKeepsIdentity ==
    ASSUME IdentityInv, NEW s \in Server,
           Generate(s) \/ WriteKey(s) \/ LoadIdentity(s) \/ Die(s)
    PROVE  IdentityInv'
<1> USE DEF IdentityInv, IdTyped, Certs, Torn
<1>0. Identity(s)
  OBVIOUS
<1>1. CASE Generate(s)
  <2>1. made'[s] \in Certs /\ made'[s] = made[s] + 1
    BY <1>0, <1>1 DEF Generate, Identity
  <2>2. pin[s] = 0
    BY <1>0, <1>1 DEF Generate, Identity
  <2>3. IdTyped'
    BY <1>1, <2>1 DEF Generate
  <2>4. Identity(s)'
    BY <1>0, <1>1, <2>1, <2>2 DEF Generate, Identity
  <2>5. \A t \in Server : t # s => Identity(t)'
    BY <1>1 DEF Generate, Identity
  <2> QED
    BY <2>3, <2>4, <2>5
<1>2. CASE WriteKey(s)
  <2>1. IdTyped'
    BY <1>0, <1>2 DEF WriteKey, Identity
  <2>2. Identity(s)'
    BY <1>0, <1>2 DEF WriteKey, Identity
  <2>3. \A t \in Server : t # s => Identity(t)'
    BY <1>2 DEF WriteKey, Identity
  <2> QED
    BY <2>1, <2>2, <2>3
<1>3. CASE LoadIdentity(s)
  <2>1. IdTyped'
    BY <1>3 DEF LoadIdentity
  <2>2. Identity(s)'
    BY <1>0, <1>3 DEF LoadIdentity, Identity
  <2>3. \A t \in Server : t # s => Identity(t)'
    BY <1>3 DEF LoadIdentity, Identity
  <2> QED
    BY <2>1, <2>2, <2>3
<1>4. CASE Die(s)
  <2>1. IdTyped'
    BY <1>4 DEF Die
  <2>2. Identity(s)'
    BY <1>0, <1>4 DEF Die, Identity
  <2>3. \A t \in Server : t # s => Identity(t)'
    BY <1>4 DEF Die, Identity
  <2> QED
    BY <2>1, <2>2, <2>3
<1> QED
  BY <1>1, <1>2, <1>3, <1>4

(* An agent that verifies a running server pins the certificate in its     *)
(* files, or keeps the pin it has.                                         *)
LEMMA VerifyKeepsIdentity ==
    ASSUME IdentityInv, NEW s, proc[s] = "on", Verify(s)
    PROVE  IdentityInv'
<1>1. IdTyped'
  BY DEF IdentityInv, IdTyped, Verify
<1>2. ASSUME NEW t \in Server PROVE Identity(t)'
  <2>1. CASE t # s
    BY <2>1 DEF IdentityInv, IdTyped, Identity, Verify
  <2>2. CASE t = s
    BY <2>2 DEF IdentityInv, IdTyped, Identity, Verify, Certs
  <2> QED
    BY <2>1, <2>2
<1> QED
  BY <1>1, <1>2 DEF IdentityInv

(* A step that touches no file, no process and no pin keeps the identities.*)
LEMMA IdentityStutter == IdentityInv /\ UNCHANGED idVars => IdentityInv'
BY DEF IdentityInv, IdTyped, Identity, idVars

(* The identity of every server is kept by every step of the loop.         *)
LEMMA IdentityAlways == LoopSpec => []IdentityInv
<1>1. LoopInit => IdentityInv
  <2> SUFFICES ASSUME LoopInit PROVE IdentityInv
    OBVIOUS
  <2> QED
    BY DEF LoopInit, IdentityInit, IdentityInv, IdTyped, Identity
<1>2. IdentityInv /\ [LoopNext]_agVars => IdentityInv'
  <2> SUFFICES ASSUME IdentityInv, [LoopNext]_agVars PROVE IdentityInv'
    OBVIOUS
  <2>1. CASE UNCHANGED idVars
    BY <2>1, IdentityStutter
  <2>2. CASE ConnectOk
    BY <2>2, VerifyKeepsIdentity DEF ConnectOk
  <2>3. CASE ConnectFails
    BY <2>1, <2>3, VerifyKeepsIdentity DEF ConnectFails
  <2>4. CASE EndOfSession
    BY <2>1, <2>4 DEF EndOfSession
  <2>5. CASE Read
    <3>1. EndOfSession \/ UNCHANGED idVars
      BY <2>5 DEF Read
    <3> QED
      BY <2>1, <2>4, <3>1
  <2>6. CASE HeartbeatTimeout \/ StreamClosed
    BY <2>4, <2>6 DEF HeartbeatTimeout, StreamClosed
  <2>7. CASE Top \/ Wake \/ Ping \/ Push \/ Tick \/ Cancel
    BY <2>1, <2>7 DEF Top, Wake, Ping, Push, Tick, Cancel, loopVars, idVars
  <2>8. ASSUME NEW s \in Server, ServerDies(s) \/ ServerStarts(s) PROVE IdentityInv'
    BY <2>8, StartKeepsIdentity DEF ServerDies, ServerStarts
  <2>9. CASE UNCHANGED agVars
    BY <2>1, <2>9 DEF agVars
  <2> QED
    BY <2>2, <2>3, <2>5, <2>6, <2>7, <2>8, <2>9 DEF LoopNext, AgentSteps
<1> QED
  BY <1>1, <1>2, PTL DEF LoopSpec

(* A server that was pinned never presents another certificate, because its*)
(* files were complete when it was pinned and complete files are only read.*)
THEOREM IdentityKept == LoopSpec => []PinnedIsServed
<1>1. IdentityInv => PinnedIsServed
  BY DEF IdentityInv, Identity, PinnedIsServed
<1> QED
  BY <1>1, IdentityAlways, PTL

(* A pinned server whose process is down finds both files, of one          *)
(* certificate, the pinned one: load_or_generate neither generates another *)
(* nor lets server_config refuse the pair.                                 *)
PinnedCanRestart ==
    \A s \in Server : pin[s] # 0 => /\ proc[s] # "broken"
                                    /\ certFile[s] = pin[s] /\ keyFile[s] = pin[s]
                                    /\ pin[s] # Torn

(* No death of the process, at whatever file operation, leaves a pinned    *)
(* server unable to start with the certificate its agents expect.          *)
THEOREM RestartKept == LoopSpec => []PinnedCanRestart
<1>1. IdentityInv => PinnedCanRestart
  BY DEF IdentityInv, Identity, PinnedCanRestart, Certs, Torn
<1> QED
  BY <1>1, IdentityAlways, PTL
=============================================================================
