------------------------- MODULE StreamForwardProofs -------------------------
(***************************************************************************)
(* Forwarding, for every set of connections, every protocol and access     *)
(* rule, and any number of chunks.                                         *)
(*                                                                         *)
(* First, forwarding uses the limiter as ConnLimiter describes: every step *)
(* takes one of its actions or leaves its variables, so that what is proved*)
(* of the limiter holds of the composition.                                *)
(*                                                                         *)
(* Second, the bytes.  ConnInv describes one connection by its record: up  *)
(* to the answer nothing but the frames is on the streams (Opening,        *)
(* Answer); after it, what was delivered, what is on the stream and what   *)
(* was read ahead are consecutive (UpData, DownData); and a half that ended*)
(* without a reset, a loss or an early end ended because its source had    *)
(* (UpEnd, DownEnd).                                                       *)
(***************************************************************************)
EXTENDS StreamForward, ConnLimiterProofs, SequenceTheorems

(* The chunks of s are those after the first k.                            *)
From(s, k) == \A i \in 1..Len(s) : s[i] = k + i

Item == Nat \cup {"OPEN_TCP", "OPEN_OK", "OPEN_FAIL"}
Unopened == {"peek", "route", "limit", "open", "blocked"}
States == {"none", "wait", "head", "copy"} \cup Unopened

(* The stream is open and no task of the agent has taken its first frame.  *)
Waiting == {"read", "deaf"}

Fields == {"proto", "st", "sent", "fin", "reset", "taken", "buf", "upQ", "qfin", "upDone",
           "dnDone", "ag", "agUp", "agDn", "got", "eof", "dsent", "dtaken", "dfin", "dreset",
           "dnQ", "dqfin", "dgot", "deof", "lost", "cut"}

(* y is x with other values in the fields F.                               *)
Agree(x, y, F) == DOMAIN y = Fields /\ \A f \in Fields \ F : y[f] = x[f]

Typed(x) ==
    /\ DOMAIN x = Fields
    /\ x.proto \in {"tcp", "http", "tls", "passthrough"} /\ x.st \in States
    /\ x.ag \in {"none", "read", "deaf", "dial", "copy"}
    /\ x.sent \in Nat /\ x.taken \in Nat /\ x.dsent \in Nat /\ x.dtaken \in Nat
    /\ x.buf \in Seq(Item) /\ x.upQ \in Seq(Item) /\ x.got \in Seq(Item)
    /\ x.dnQ \in Seq(Item) /\ x.dgot \in Seq(Item)

(* Nothing came from the agent yet.                                        *)
Quiet(x) ==
    /\ x.got = <<>> /\ x.dnQ = <<>> /\ x.dgot = <<>>
    /\ ~x.upDone /\ ~x.dnDone /\ ~x.agUp /\ ~x.agDn /\ ~x.eof /\ ~x.deof
    /\ x.dsent = 0 /\ x.dtaken = 0 /\ ~x.dfin /\ ~x.dreset /\ ~x.dqfin

(* Before the stream is opened, and until the agent has dialled.           *)
Opening(x) ==
    /\ x.ag = "none" /\ x.st \in {"none"} \cup Unopened =>
          Quiet(x) /\ x.upQ = <<>> /\ ~x.qfin /\ ~x.cut
    /\ x.st \in Unopened => x.ag = "none"
    /\ x.ag \in Waiting \cup {"dial"} => x.st \in {"wait", "none"} /\ Quiet(x)
    /\ x.ag \in Waiting => x.upQ = <<"OPEN_TCP">>
    /\ x.ag = "dial" => x.upQ = <<>>

(* OPEN_OK is in front of the target's bytes.                              *)
Accepted(q) == q # <<>> /\ Head(q) = "OPEN_OK" /\ From(Tail(q), 0)

(* Until the answer is read, and that it was OPEN_OK if anything is copied.*)
Answer(x) ==
    /\ x.st = "wait" =>
          /\ x.got = <<>> /\ x.dgot = <<>>
          /\ ~x.upDone /\ ~x.dnDone /\ ~x.qfin /\ ~x.deof
          /\ x.ag = "copy" => x.upQ = <<>>
          /\ x.dnQ # <<>> /\ Head(x.dnQ) = "OPEN_OK" =>
                /\ Accepted(x.dnQ)
                /\ ~x.dreset => x.dtaken = Len(x.dnQ) - 1
                /\ x.ag = "copy" \/ (x.ag = "none" /\ x.agUp)
          /\ x.ag = "copy" => x.dnQ # <<>> /\ Head(x.dnQ) = "OPEN_OK"
    /\ x.st \in {"head", "copy"} => x.ag = "copy" \/ (x.ag = "none" /\ x.agUp)
    /\ x.dqfin /\ ~x.agDn => x.ag = "none" /\ x.st = "wait" /\ x.dnQ = <<"OPEN_FAIL">>

(* What each flag of an end entails.                                       *)
Flags(x) ==
    /\ x.st # "none" => ~x.cut
    /\ x.st = "none" /\ x.ag # "none" => x.qfin /\ (x.cut \/ (x.upDone /\ x.dnDone))
    /\ x.upDone => x.qfin
    /\ x.qfin => x.upDone \/ x.cut
    /\ x.agUp => x.lost \/ x.dreset \/ x.qfin
    /\ x.eof => x.agUp
    /\ x.agDn => x.dqfin
    /\ x.dnDone => x.lost \/ x.reset \/ x.agDn
    /\ x.deof => x.dnDone

(* Towards the target: delivered, on the stream, read ahead.               *)
OnStream(x) == IF x.ag \in Waiting THEN 0 ELSE Len(x.upQ)
UpData(x) ==
    /\ x.taken <= x.sent /\ (x.reset => x.taken = x.sent)
    /\ From(x.got, 0)
    /\ ~x.agUp /\ (x.ag = "none" => x.st \in Unopened) =>
          /\ x.ag \notin Waiting => From(x.upQ, Len(x.got))
          /\ From(x.buf, Len(x.got) + OnStream(x))
          /\ ~x.reset => x.taken = Len(x.got) + OnStream(x) + Len(x.buf)

(* Towards the client: delivered, on the stream.                           *)
DownData(x) ==
    /\ x.dtaken <= x.dsent /\ (x.dreset => x.dtaken = x.dsent)
    /\ From(x.dgot, 0)
    /\ x.st \in {"head", "copy"} /\ ~x.dnDone =>
          /\ From(x.dnQ, Len(x.dgot))
          /\ ~x.dreset => x.dtaken = Len(x.dgot) + Len(x.dnQ)

Clean(x) == ~x.reset /\ ~x.dreset /\ ~x.lost /\ ~x.cut

(* A half that ended in a clean connection had nothing left to copy.       *)
UpEnd(x) ==
    /\ x.upDone /\ Clean(x) => x.fin /\ x.buf = <<>> /\ x.taken = x.sent
    /\ x.eof /\ Clean(x) => x.fin /\ Len(x.got) = x.sent
DownEnd(x) ==
    /\ x.agDn /\ Clean(x) => x.dfin /\ x.dtaken = x.dsent
    /\ x.deof /\ Clean(x) => x.dfin /\ Len(x.dgot) = x.dsent

ConnInv(x) ==
    /\ Typed(x)
    /\ Opening(x) /\ Answer(x) /\ Flags(x)
    /\ UpData(x) /\ DownData(x) /\ UpEnd(x) /\ DownEnd(x)

ForwardInv == DOMAIN cx = Followed /\ \A c \in Followed : ConnInv(cx[c])

(* The two sets of states are expanded everywhere.                         *)
USE DEF Unopened, Waiting

-----------------------------------------------------------------------------
(* Every step of forwarding is a step of the limiter, or leaves it alone.  *)
LEMMA ForwardStep == [ForwardNext]_fvars => [Next]_vars
<1> SUFFICES ASSUME [ForwardNext]_fvars PROVE [Next]_vars
  OBVIOUS
<1>1. ASSUME NEW c \in Client \ Followed, OtherConnection(c) PROVE [Next]_vars
  BY <1>1 DEF OtherConnection, Next
<1>2. ASSUME NEW c \in Followed,
             \/ Accept(c) \/ ClientActs(c) \/ TargetActs(c) \/ AgentTask(c)
             \/ SessionEnds(c) \/ ConnectionLost(c) \/ StreamLimit(c)
      PROVE  UNCHANGED vars
  BY <1>2 DEF Accept, ClientActs, TargetActs, SessionEnds, ConnectionLost, StreamLimit, AgentTask, AgentOpen, AgentDial, AgentCopyUp,
     AgentCopyDown, AgentEnds
<1>3. ASSUME NEW c \in Followed, ServerTask(c) PROVE [Next]_vars
  <2>1. c \in Client
    BY FollowedAssumption
  <2>2. CASE ReadHead(c) \/ PeekSni(c) \/ CopyUp(c) \/ CopyDown(c)
    BY <2>2 DEF ReadHead, PeekSni, CopyUp, CopyDown
  <2>3. CASE Route(c)
    <3>1. Arrive(c) \/ UNCHANGED vars
      BY <2>3 DEF Route
    <3> QED
      BY <2>1, <3>1 DEF Next
  <2>4. CASE Acquire(c)
    BY <2>1, <2>4 DEF Acquire, Next
  <2>5. CASE GetConn(c) \/ OpenStream(c) \/ AwaitAnswer(c) \/ WriteHead(c) \/ CopyEnds(c)
    <3>1. DropGuard(c) \/ UNCHANGED vars
      BY <2>5 DEF GetConn, OpenStream, AwaitAnswer, WriteHead, CopyEnds, End
    <3> QED
      BY <2>1, <3>1 DEF Next
  <2> QED
    BY <1>3, <2>2, <2>3, <2>4, <2>5 DEF ServerTask
<1>4. CASE AgentLeaves \/ AgentReturns
  BY <1>4 DEF AgentLeaves, AgentReturns
<1>5. CASE SetLimit
  BY <1>5 DEF Next
<1>6. CASE UNCHANGED fvars
  BY <1>6 DEF fvars
<1> QED
  BY <1>1, <1>2, <1>3, <1>4, <1>5, <1>6 DEF ForwardNext

(* The connections that are forwarded use the limiter as it is meant to be *)
(* used.                                                                   *)
LEMMA ForwardUsesLimiter == ForwardSpec => Spec
<1>1. ForwardInit => Init
  BY DEF ForwardInit
<1> QED
  BY <1>1, ForwardStep, PTL DEF ForwardSpec, Spec

(* The counter of a route is exact however its connections end: refused,   *)
(* given up while opening, lost or copied to the end.                      *)
THEOREM ForwardCounterExact == ForwardSpec => []CounterExact
BY ForwardUsesLimiter, CounterIsExact, PTL

(* With everything that happens between a place and its release,           *)
(* max_connections is still the promise of AdmissionControl.               *)
THEOREM ForwardAdmission == ForwardSpec => ImplementsAdmissionControl
BY ForwardUsesLimiter, Refinement, PTL

-----------------------------------------------------------------------------
(* Consecutive chunks.                                                     *)

(* No chunks follow anything.                                              *)
LEMMA FromEmpty == \A k : From(<<>>, k)
BY DEF From

(* The next chunk extends a run of chunks.                                 *)
LEMMA FromAppend ==
    ASSUME NEW s \in Seq(Item), NEW k \in Nat, From(s, k), NEW e \in Item, e = k + Len(s) + 1
    PROVE  /\ From(Append(s, e), k) /\ Append(s, e) \in Seq(Item)
           /\ Len(Append(s, e)) = Len(s) + 1
<1>1. /\ Append(s, e) \in Seq(Item) /\ Len(Append(s, e)) = Len(s) + 1
      /\ \A i \in 1..Len(s) : Append(s, e)[i] = s[i]
      /\ Append(s, e)[Len(s) + 1] = e
  BY AppendProperties
<1>2. Len(s) \in Nat
  BY LenProperties
<1> QED
  BY <1>1, <1>2 DEF From

(* Taking the first chunk leaves those after it.                           *)
LEMMA FromTail ==
    ASSUME NEW s \in Seq(Item), s # <<>>, NEW k \in Nat, From(s, k)
    PROVE  /\ Head(s) = k + 1 /\ From(Tail(s), k + 1)
           /\ Head(s) \in Item /\ Tail(s) \in Seq(Item)
           /\ Len(Tail(s)) = Len(s) - 1 /\ Len(s) \in Nat \ {0}
<1>1. Len(s) \in Nat \ {0}
  BY EmptySeq, LenProperties
<1>2. /\ Head(s) = s[1] /\ Head(s) \in Item /\ Tail(s) \in Seq(Item)
      /\ Len(Tail(s)) = Len(s) - 1
      /\ \A i \in 1..Len(Tail(s)) : Tail(s)[i] = s[i + 1]
  BY <1>1, HeadTailProperties
<1> QED
  BY <1>1, <1>2 DEF From

(* The first chunk on a stream is delivered.                               *)
LEMMA MoveChunk ==
    ASSUME NEW t \in Seq(Item), NEW s \in Seq(Item), s # <<>>, From(t, 0), From(s, Len(t))
    PROVE  /\ From(Append(t, Head(s)), 0) /\ From(Tail(s), Len(Append(t, Head(s))))
           /\ Len(Append(t, Head(s))) + Len(Tail(s)) = Len(t) + Len(s)
<1>1. Len(t) \in Nat
  BY LenProperties
<1>2. /\ Head(s) = Len(t) + 1 /\ Head(s) \in Item /\ From(Tail(s), Len(t) + 1)
      /\ Len(Tail(s)) = Len(s) - 1 /\ Len(s) \in Nat
  BY <1>1, FromTail
<1>3. Head(s) = 0 + Len(t) + 1
  BY <1>1, <1>2
<1>4. From(Append(t, Head(s)), 0) /\ Len(Append(t, Head(s))) = Len(t) + 1
  BY <1>2, <1>3, FromAppend
<1> QED
  BY <1>1, <1>2, <1>4

(* Two runs one after the other are one.                                   *)
LEMMA FromConcat ==
    ASSUME NEW s \in Seq(Item), NEW t \in Seq(Item), NEW k \in Nat,
           From(s, k), From(t, k + Len(s))
    PROVE  /\ From(s \o t, k) /\ s \o t \in Seq(Item) /\ Len(s \o t) = Len(s) + Len(t)
<1>1. /\ s \o t \in Seq(Item) /\ Len(s \o t) = Len(s) + Len(t)
      /\ \A i \in 1..Len(s \o t) : (s \o t)[i] = IF i <= Len(s) THEN s[i] ELSE t[i - Len(s)]
  BY ConcatProperties
<1>2. Len(s) \in Nat /\ Len(t) \in Nat
  BY LenProperties
<1> QED
  BY <1>1, <1>2 DEF From

(* A byte of the target behind OPEN_OK is behind OPEN_OK.                  *)
LEMMA AcceptedAppend ==
    ASSUME NEW q \in Seq(Item), Accepted(q), NEW e \in Item, e = Len(q)
    PROVE  /\ Accepted(Append(q, e)) /\ Append(q, e) \in Seq(Item)
           /\ Len(Append(q, e)) = Len(q) + 1
<1>1. Len(q) \in Nat \ {0}
  BY EmptySeq, LenProperties DEF Accepted
<1>2. /\ Append(q, e) \in Seq(Item) /\ Len(Append(q, e)) = Len(q) + 1
      /\ \A i \in 1..Len(q) : Append(q, e)[i] = q[i]
      /\ Append(q, e)[Len(q) + 1] = e
  BY AppendProperties
<1>3. Append(q, e) # <<>>
  BY <1>1, <1>2, EmptySeq
<1>4. /\ Head(q) = q[1] /\ Tail(q) \in Seq(Item) /\ Len(Tail(q)) = Len(q) - 1
      /\ \A i \in 1..Len(Tail(q)) : Tail(q)[i] = q[i + 1]
  BY <1>1, HeadTailProperties DEF Accepted
<1>5. /\ Head(Append(q, e)) = Append(q, e)[1] /\ Len(Tail(Append(q, e))) = Len(q)
      /\ \A i \in 1..Len(q) : Tail(Append(q, e))[i] = Append(q, e)[i + 1]
  BY <1>1, <1>2, <1>3, HeadTailProperties
<1>6. Head(Append(q, e)) = "OPEN_OK"
  BY <1>1, <1>2, <1>4, <1>5 DEF Accepted
<1>7. ASSUME NEW i \in 1..Len(q) PROVE Tail(Append(q, e))[i] = 0 + i
  <2>1. CASE i = Len(q)
    BY <1>1, <1>2, <1>5, <2>1
  <2>2. CASE i < Len(q)
    BY <1>1, <1>2, <1>4, <1>5, <2>2 DEF Accepted, From
  <2> QED
    BY <1>1, <2>1, <2>2
<1>8. From(Tail(Append(q, e)), 0)
  BY <1>5, <1>7 DEF From
<1> QED
  BY <1>2, <1>3, <1>6, <1>8 DEF Accepted

(* What read_head and peek_sni read ahead is the first chunks.             *)
LEMMA ReadAhead ==
    ASSUME NEW k \in Nat
    PROVE  LET s == [i \in 1..k |-> i] IN s \in Seq(Item) /\ Len(s) = k /\ From(s, 0)
BY DEF From, Item

(* Nothing is behind a frame that is alone on its stream.                  *)
LEMMA OpenTail == \A e : Tail(<<e>>) = <<>>
OBVIOUS

-----------------------------------------------------------------------------
(* One connection.                                                         *)

(* A connection nobody knows of, and one that was just accepted.           *)
LEMMA ClosedInv == ConnInv(Closed) /\ \A p \in {"tcp", "http", "tls"} : ConnInv(Fresh(p))
<1>1. ASSUME NEW p \in {"tcp", "http", "tls"}, NEW st \in {"none", "route", "peek"},
             NEW x, x = [Fresh(p) EXCEPT !.st = st]
      PROVE  ConnInv(x)
  <2>1. Typed(x)
    BY <1>1 DEF Fresh, Typed, Fields, States, Item
  <2>2. Opening(x) /\ Answer(x) /\ Flags(x) /\ UpEnd(x) /\ DownEnd(x)
    BY <1>1 DEF Fresh, Opening, Quiet, Answer, Flags, UpEnd, DownEnd
  <2>3. UpData(x) /\ DownData(x)
    BY <1>1, FromEmpty DEF Fresh, UpData, DownData, OnStream
  <2> QED
    BY <2>1, <2>2, <2>3 DEF ConnInv
<1>2. ASSUME NEW p \in {"tcp", "http", "tls"} PROVE ConnInv(Fresh(p))
  <2> DEFINE x == Fresh(p)
  <2>1. Typed(x)
    BY DEF Fresh, Typed, Fields, States, Item
  <2>2. Opening(x) /\ Answer(x) /\ Flags(x) /\ UpEnd(x) /\ DownEnd(x)
    BY DEF Fresh, Opening, Quiet, Answer, Flags, UpEnd, DownEnd
  <2>3. UpData(x) /\ DownData(x)
    BY FromEmpty DEF Fresh, UpData, DownData, OnStream
  <2> QED
    BY <2>1, <2>2, <2>3 DEF ConnInv
<1> QED
  BY <1>1, <1>2 DEF Closed

(* The client sends, closes or resets.                                     *)
LEMMA ClientInv ==
    ASSUME NEW x, ConnInv(x), NEW y,
           ~x.fin,
           ~x.reset,
           \/ ~x.upDone /\ y = [x EXCEPT !.sent = @ + 1]
           \/ y = [x EXCEPT !.fin = TRUE]
           \/ y = [x EXCEPT !.reset = TRUE, !.taken = x.sent]
    PROVE  ConnInv(y)
<1>1. CASE ~x.upDone /\ y = [x EXCEPT !.sent = @ + 1]
  <2>0. /\ Agree(x, y, {"sent"})
        /\ y.sent = x.sent + 1
    BY <1>1 DEF ConnInv, Typed, Agree, Fields
  <2> USE DEF ConnInv, Agree, Fields
  <2>1. Typed(y) /\ Opening(y) /\ Answer(y) /\ Flags(y)
    BY <1>1, <2>0 DEF Typed, Opening, Quiet, Answer, Flags
  <2>2. UpData(y) /\ DownData(y) /\ UpEnd(y) /\ DownEnd(y)
    BY <1>1, <2>0 DEF UpData, OnStream, Typed, DownData, UpEnd, Clean, DownEnd
  <2> QED
    BY <2>1, <2>2
<1>2. CASE y = [x EXCEPT !.fin = TRUE]
  <2>0. /\ Agree(x, y, {"fin"})
        /\ y.fin
    BY <1>2 DEF ConnInv, Typed, Agree, Fields
  <2> USE DEF ConnInv, Agree, Fields
  <2>1. Typed(y) /\ Opening(y) /\ Answer(y) /\ Flags(y)
    BY <1>2, <2>0 DEF Typed, Opening, Quiet, Answer, Flags
  <2>2. UpData(y) /\ DownData(y) /\ UpEnd(y) /\ DownEnd(y)
    BY <1>2, <2>0 DEF UpData, OnStream, Typed, DownData, UpEnd, Clean, DownEnd
  <2> QED
    BY <2>1, <2>2
<1>3. CASE y = [x EXCEPT !.reset = TRUE, !.taken = x.sent]
  <2>0. /\ Agree(x, y, {"reset", "taken"})
        /\ y.reset
        /\ y.taken = x.sent
    BY <1>3 DEF ConnInv, Typed, Agree, Fields
  <2> USE DEF ConnInv, Agree, Fields
  <2>1. Typed(y) /\ Opening(y) /\ Answer(y) /\ Flags(y)
    BY <1>3, <2>0 DEF Typed, Opening, Quiet, Answer, Flags
  <2>2. UpData(y) /\ DownData(y) /\ UpEnd(y) /\ DownEnd(y)
    BY <1>3, <2>0 DEF UpData, OnStream, Typed, DownData, UpEnd, Clean, DownEnd
  <2> QED
    BY <2>1, <2>2
<1> QED
  BY <1>1, <1>2, <1>3

(* The target sends, closes or resets.                                     *)
LEMMA TargetInv ==
    ASSUME NEW x, ConnInv(x), NEW y,
           x.ag = "copy",
           ~x.dfin,
           ~x.dreset,
           \/ ~x.agDn /\ y = [x EXCEPT !.dsent = @ + 1]
           \/ y = [x EXCEPT !.dfin = TRUE]
           \/ y = [x EXCEPT !.dreset = TRUE, !.dtaken = x.dsent]
    PROVE  ConnInv(y)
<1>1. CASE ~x.agDn /\ y = [x EXCEPT !.dsent = @ + 1]
  <2>0. /\ Agree(x, y, {"dsent"})
        /\ y.dsent = x.dsent + 1
    BY <1>1 DEF ConnInv, Typed, Agree, Fields
  <2> USE DEF ConnInv, Agree, Fields
  <2>1. Typed(y) /\ Opening(y) /\ Answer(y) /\ Flags(y)
    BY <1>1, <2>0 DEF Typed, Opening, Quiet, Answer, Flags
  <2>2. UpData(y) /\ DownData(y) /\ UpEnd(y) /\ DownEnd(y)
    BY <1>1, <2>0 DEF UpData, OnStream, Typed, DownData, UpEnd, Clean, DownEnd
  <2> QED
    BY <2>1, <2>2
<1>2. CASE y = [x EXCEPT !.dfin = TRUE]
  <2>0. /\ Agree(x, y, {"dfin"})
        /\ y.dfin
    BY <1>2 DEF ConnInv, Typed, Agree, Fields
  <2> USE DEF ConnInv, Agree, Fields
  <2>1. Typed(y) /\ Opening(y) /\ Answer(y) /\ Flags(y)
    BY <1>2, <2>0 DEF Typed, Opening, Quiet, Answer, Flags
  <2>2. UpData(y) /\ DownData(y) /\ UpEnd(y) /\ DownEnd(y)
    BY <1>2, <2>0 DEF UpData, OnStream, Typed, DownData, UpEnd, Clean, DownEnd
  <2> QED
    BY <2>1, <2>2
<1>3. CASE y = [x EXCEPT !.dreset = TRUE, !.dtaken = x.dsent]
  <2>0. /\ Agree(x, y, {"dreset", "dtaken"})
        /\ y.dreset
        /\ y.dtaken = x.dsent
    BY <1>3 DEF ConnInv, Typed, Agree, Fields
  <2> USE DEF ConnInv, Agree, Fields
  <2>1. Typed(y) /\ Opening(y) /\ Answer(y) /\ Flags(y)
    BY <1>3, <2>0 DEF Typed, Opening, Quiet, Answer, Flags
  <2>2. UpData(y) /\ DownData(y) /\ UpEnd(y) /\ DownEnd(y)
    BY <1>3, <2>0 DEF UpData, OnStream, Typed, DownData, UpEnd, Clean, DownEnd
  <2> QED
    BY <2>1, <2>2
<1> QED
  BY <1>1, <1>2, <1>3

(* The QUIC connection is lost.                                            *)
LEMMA LostInv ==
    ASSUME NEW x, ConnInv(x), NEW y, y = [x EXCEPT !.lost = TRUE]
    PROVE  ConnInv(y)
<1>0. Agree(x, y, {"lost"}) /\ y.lost
  BY DEF ConnInv, Typed, Agree, Fields
<1> USE DEF ConnInv, Agree, Fields
<1>1. Typed(y) /\ Opening(y) /\ Answer(y) /\ Flags(y)
  BY <1>0 DEF Typed, Opening, Quiet, Answer, Flags
<1>2. UpData(y) /\ DownData(y) /\ UpEnd(y) /\ DownEnd(y)
  BY <1>0 DEF UpData, OnStream, Typed, DownData, UpEnd, Clean, DownEnd
<1> QED
  BY <1>1, <1>2

(* A connection is looked up, or open_bi waits or may go on: no stream yet.*)
LEMMA PlaceInv ==
    ASSUME NEW x, ConnInv(x), NEW y, NEW next \in Unopened,
           x.st \in Unopened,
           \/ y = [x EXCEPT !.st = next, !.lost = FALSE]
           \/ y = [x EXCEPT !.st = next]
    PROVE  ConnInv(y)
<1>0. Agree(x, y, {"st", "lost"}) /\ y.st = next
  BY DEF ConnInv, Typed, Agree, Fields
<1> USE DEF ConnInv, Agree, Fields
<1>1. Typed(y) /\ Opening(y) /\ Answer(y) /\ Flags(y)
  BY <1>0 DEF Typed, States, Opening, Quiet, Answer, Flags
<1>2. UpData(y) /\ DownData(y) /\ UpEnd(y) /\ DownEnd(y)
  BY <1>0 DEF UpData, OnStream, Typed, DownData, UpEnd, Clean, Opening,
     Quiet, DownEnd
<1> QED
  BY <1>1, <1>2

(* A TLS client is served as an HTTP client inside the handshake.          *)
LEMMA TerminateInv ==
    ASSUME NEW x, ConnInv(x), NEW y,
           x.st = "peek",
           y = [x EXCEPT !.proto = "http"]
    PROVE  ConnInv(y)
<1>0. /\ Agree(x, y, {"proto"})
      /\ y.proto = "http"
  BY DEF ConnInv, Typed, Agree, Fields
<1> USE DEF ConnInv, Agree, Fields
<1>1. Typed(y) /\ Opening(y) /\ Answer(y) /\ Flags(y)
  BY <1>0 DEF Typed, Opening, Quiet, Answer, Flags
<1>2. UpData(y) /\ DownData(y) /\ UpEnd(y) /\ DownEnd(y)
  BY <1>0 DEF UpData, OnStream, Typed, DownData, UpEnd, Clean, DownEnd
<1> QED
  BY <1>1, <1>2

(* The first chunk is read, with what came along with it.                  *)
LEMMA FirstInv ==
    ASSUME NEW x, ConnInv(x), NEW y,
           x.st = "peek",
           ~x.reset,
           NEW k \in 1..x.sent,
           NEW p \in {"http", "passthrough"},
           y = [x EXCEPT !.buf = [i \in 1..k |-> i], !.taken = k, !.proto = p, !.st = "route"]
    PROVE  ConnInv(y)
<1>0. /\ Agree(x, y, {"buf", "taken", "proto", "st"})
      /\ y.proto = p /\ y.st = "route" /\ y.taken = k
      /\ y.buf = [i \in 1..k |-> i]
  BY DEF ConnInv, Typed, Agree, Fields
<1> USE DEF ConnInv, Agree, Fields
<1>1. Opening(y) /\ Answer(y) /\ Flags(y)
  BY <1>0 DEF Opening, Quiet, Answer, Flags
<1>2. DownData(y) /\ UpEnd(y) /\ DownEnd(y)
  BY <1>0 DEF DownData, Typed, Opening, Quiet, UpEnd, Clean, DownEnd
<1>3. Typed(y)
  <2>1. k \in Nat
    BY DEF Typed
  <2> QED
    BY <1>0, <2>1, ReadAhead DEF Typed, States
<1>4. UpData(y)
  <2>1. k \in Nat /\ k <= x.sent
    BY DEF Typed
  <2>2. From(y.buf, 0) /\ Len(y.buf) = k
    BY <1>0, <2>1, ReadAhead
  <2>3. Len(y.got) = 0 /\ y.upQ = <<>> /\ Len(y.upQ) = 0 /\ y.ag = "none" /\ y.got = <<>>
    BY <1>0 DEF Opening, Quiet
  <2>4. Len(y.got) + OnStream(y) = 0
    <3>1. OnStream(y) = 0
      BY <2>3 DEF OnStream
    <3> QED
      BY <2>3, <3>1
  <2>5. y.taken = Len(y.got) + OnStream(y) + Len(y.buf)
    <3> HIDE DEF ConnInv, Agree, Fields
    <3> QED
      BY <1>0, <2>1, <2>2, <2>4
  <2>6. From(y.buf, Len(y.got) + OnStream(y))
    BY <2>2, <2>4
  <2> QED
    BY <1>0, <2>1, <2>3, <2>5, <2>6, FromEmpty DEF UpData
<1> QED
  BY <1>1, <1>2, <1>3, <1>4

(* The stream is opened.                                                   *)
LEMMA OpenInv ==
    ASSUME NEW x, ConnInv(x), NEW y,
           x.st = "open",
           NEW a \in Waiting,
           y = [x EXCEPT !.st = "wait", !.upQ = <<"OPEN_TCP">>, !.ag = a]
    PROVE  ConnInv(y)
<1>0. /\ Agree(x, y, {"st", "upQ", "ag"})
      /\ y.st = "wait"
      /\ y.upQ = <<"OPEN_TCP">> /\ y.ag = a
  BY DEF ConnInv, Typed, Agree, Fields
<1> USE DEF ConnInv, Agree, Fields
<1>1. Typed(y) /\ Opening(y) /\ Answer(y) /\ Flags(y)
  BY <1>0 DEF Typed, States, Item, Opening, Quiet, Answer, Flags
<1>2. DownData(y) /\ UpEnd(y) /\ DownEnd(y)
  BY <1>0 DEF DownData, Typed, Opening, Quiet, UpEnd, Clean, DownEnd
<1>3. UpData(y)
  <2>1. x.got = <<>> /\ x.upQ = <<>> /\ x.ag = "none" /\ ~x.agUp
    BY DEF Opening, Quiet
  <2>2. OnStream(x) = 0 /\ OnStream(y) = 0
    BY <1>0, <2>1 DEF OnStream
  <2> QED
    BY <1>0, <2>1, <2>2 DEF UpData
<1> QED
  BY <1>1, <1>2, <1>3

(* The server's task returns, in the middle of opening or after copying.   *)
LEMMA EndInv ==
    ASSUME NEW x, ConnInv(x), NEW y,
           \/ x.st \in {"limit", "open", "blocked", "wait", "head"}
           \/ x.st = "copy" /\ x.upDone /\ x.dnDone,
           y = [x EXCEPT !.st = "none", !.cut = (x.st # "copy"), !.qfin = TRUE]
    PROVE  ConnInv(Settled(y))
<1>1. CASE y.st = "none" /\ y.ag \in {"none", "deaf"}
  BY <1>1, ClosedInv DEF Settled
<1>2. CASE ~(y.st = "none" /\ y.ag \in {"none", "deaf"})
  <2>0. /\ Agree(x, y, {"st", "cut", "qfin"})
        /\ y.st = "none" /\ y.qfin
        /\ y.cut <=> x.st # "copy"
    BY <1>2 DEF ConnInv, Typed, Agree, Fields
  <2> USE DEF ConnInv, Agree, Fields
  <2>1. Typed(y) /\ Opening(y) /\ Answer(y) /\ Flags(y)
    BY <1>2, <2>0 DEF Typed, States, Opening, Quiet, Answer, Flags
  <2>2. UpData(y) /\ DownData(y) /\ UpEnd(y) /\ DownEnd(y)
    BY <1>2, <2>0 DEF UpData, OnStream, Typed, DownData, UpEnd, Clean, Flags, DownEnd
  <2> QED
    BY <1>2, <2>1, <2>2 DEF Settled
<1> QED
  BY <1>1, <1>2

(* OPEN_OK is read.                                                        *)
LEMMA AnswerInv ==
    ASSUME NEW x, ConnInv(x), NEW y,
           x.st = "wait",
           x.dnQ # <<>>,
           Head(x.dnQ) = "OPEN_OK",
           NEW next \in {"head", "copy"},
           y = [x EXCEPT !.dnQ = Tail(@), !.st = next]
    PROVE  ConnInv(y)
<1>0. /\ Agree(x, y, {"dnQ", "st"})
      /\ y.st = next
      /\ y.dnQ = Tail(x.dnQ)
  BY DEF ConnInv, Typed, Agree, Fields
<1> USE DEF ConnInv, Agree, Fields
<1>1. Opening(y) /\ Answer(y) /\ Flags(y)
  BY <1>0 DEF Opening, Quiet, Answer, Flags
<1>2. UpData(y) /\ UpEnd(y) /\ DownEnd(y)
  BY <1>0 DEF UpData, OnStream, Typed, UpEnd, Clean, DownEnd
<1>3. Typed(y)
  BY <1>0, HeadTailProperties, EmptySeq, LenProperties DEF Typed, States
<1>4. DownData(y)
  BY <1>0, HeadTailProperties, EmptySeq, LenProperties DEF DownData, Typed, Answer, Accepted
<1> QED
  BY <1>1, <1>2, <1>3, <1>4

(* The head and the bytes read along with it are written.                  *)
LEMMA HeadInv ==
    ASSUME NEW x, ConnInv(x), NEW y,
           x.st = "head",
           y = [x EXCEPT !.upQ = @ \o x.buf, !.buf = <<>>, !.st = "copy"]
    PROVE  ConnInv(y)
<1>0. /\ Agree(x, y, {"upQ", "buf", "st"})
      /\ y.st = "copy" /\ y.buf = <<>>
      /\ y.upQ = x.upQ \o x.buf
  BY DEF ConnInv, Typed, Agree, Fields
<1> USE DEF ConnInv, Agree, Fields
<1>1. Opening(y) /\ Answer(y) /\ Flags(y)
  BY <1>0 DEF Opening, Quiet, Answer, Flags
<1>2. DownData(y) /\ UpEnd(y) /\ DownEnd(y)
  BY <1>0 DEF DownData, Typed, UpEnd, Clean, Flags, Answer, DownEnd
<1>3. Typed(y)
  BY <1>0, ConcatProperties DEF Typed, States
<1>4. UpData(y)
  <2>1. CASE x.agUp
    BY <1>0, <2>1 DEF UpData
  <2>2. CASE x.ag = "copy" /\ ~x.agUp
    <3>3. Len(x.got) \in Nat /\ Len(x.upQ) \in Nat /\ Len(x.buf) \in Nat
      BY LenProperties DEF Typed
    <3>1. /\ x.upQ \in Seq(Item) /\ x.buf \in Seq(Item)
          /\ From(x.upQ, Len(x.got)) /\ From(x.buf, Len(x.got) + Len(x.upQ))
      BY <2>2 DEF Typed, UpData, OnStream
    <3>4. From(y.upQ, Len(x.got)) /\ Len(y.upQ) = Len(x.upQ) + Len(x.buf)
      BY <1>0, <3>1, <3>3, FromConcat
    <3>5. From(y.buf, Len(y.got) + OnStream(y)) /\ Len(y.buf) = 0
      BY <1>0, FromEmpty
    <3>6. ~x.reset => y.taken = Len(y.got) + OnStream(y) + Len(y.buf)
      BY <1>0, <2>2, <3>3, <3>4, <3>5 DEF UpData, OnStream
    <3> QED
      BY <1>0, <2>2, <3>4, <3>5, <3>6 DEF UpData
  <2> QED
    BY <2>1, <2>2 DEF Answer
<1> QED
  BY <1>1, <1>2, <1>3, <1>4

(* One chunk of the buffer towards the agent.                              *)
LEMMA CopyBufferInv ==
    ASSUME NEW x, ConnInv(x), NEW y,
           x.st = "copy",
           x.buf # <<>>,
           x.ag = "copy",
           ~x.agUp,
           ~x.upDone,
           y = [x EXCEPT !.buf = Tail(@), !.upQ = Append(@, Head(x.buf))]
    PROVE  ConnInv(y)
<1>0. /\ Agree(x, y, {"buf", "upQ"})
      /\ y.buf = Tail(x.buf)
      /\ y.upQ = Append(x.upQ, Head(x.buf))
  BY DEF ConnInv, Typed, Agree, Fields
<1> USE DEF ConnInv, Agree, Fields
<1>1. Opening(y) /\ Answer(y) /\ Flags(y)
  BY <1>0 DEF Opening, Quiet, Answer, Flags
<1>2. DownData(y) /\ UpEnd(y) /\ DownEnd(y)
  BY <1>0 DEF DownData, Typed, UpEnd, Clean, DownEnd
<1>3. Typed(y)
  BY <1>0, HeadTailProperties, EmptySeq, LenProperties, AppendProperties DEF Typed
<1>4. UpData(y)
  <2>1. /\ Len(x.got) \in Nat /\ Len(x.upQ) \in Nat /\ Len(x.buf) \in Nat
        /\ x.buf \in Seq(Item) /\ x.upQ \in Seq(Item) /\ x.taken \in Nat
    BY LenProperties DEF Typed
  <2>2. From(x.upQ, Len(x.got)) /\ From(x.buf, Len(x.got) + Len(x.upQ))
    BY DEF UpData, OnStream
  <2>3. /\ Head(x.buf) = Len(x.got) + Len(x.upQ) + 1 /\ Head(x.buf) \in Item
        /\ From(y.buf, Len(x.got) + Len(x.upQ) + 1) /\ Len(y.buf) = Len(x.buf) - 1
    <3> HIDE DEF ConnInv, Agree, Fields
    <3>1. \A i, j \in Nat : i + j \in Nat
      OBVIOUS
    <3>2. Len(x.got) + Len(x.upQ) \in Nat
      BY <2>1, <3>1, Zenon
    <3>3. /\ Head(x.buf) = Len(x.got) + Len(x.upQ) + 1 /\ Head(x.buf) \in Item
          /\ From(Tail(x.buf), Len(x.got) + Len(x.upQ) + 1) /\ Len(Tail(x.buf)) = Len(x.buf) - 1
      BY <2>1, <2>2, <3>2, FromTail, Zenon
    <3> QED
      BY <1>0, <3>3, Zenon
  <2>4. From(y.upQ, Len(x.got)) /\ Len(y.upQ) = Len(x.upQ) + 1
    <3> HIDE DEF ConnInv, Agree, Fields
    <3> QED
      BY <1>0, <2>1, <2>2, <2>3, FromAppend
  <2>5. Len(y.got) + OnStream(y) = Len(x.got) + Len(x.upQ) + 1
    BY <1>0, <2>1, <2>4 DEF OnStream
  <2>6. From(y.buf, Len(y.got) + OnStream(y))
    BY <2>3, <2>5
  <2>7. ~x.reset => y.taken = Len(y.got) + OnStream(y) + Len(y.buf)
    BY <1>0, <2>1, <2>3, <2>5 DEF UpData, OnStream
  <2> QED
    BY <1>0, <2>4, <2>6, <2>7 DEF UpData
<1> QED
  BY <1>1, <1>2, <1>3, <1>4

(* One chunk of the client towards the agent.                              *)
LEMMA CopyClientInv ==
    ASSUME NEW x, ConnInv(x), NEW y,
           x.st = "copy",
           x.buf = <<>>,
           x.taken < x.sent,
           x.ag = "copy",
           ~x.agUp,
           ~x.upDone,
           y = [x EXCEPT !.taken = @ + 1, !.upQ = Append(@, x.taken + 1)]
    PROVE  ConnInv(y)
<1>0. /\ Agree(x, y, {"taken", "upQ"})
      /\ y.taken = x.taken + 1
      /\ y.upQ = Append(x.upQ, x.taken + 1)
  BY DEF ConnInv, Typed, Agree, Fields
<1> USE DEF ConnInv, Agree, Fields
<1>1. Opening(y) /\ Answer(y) /\ Flags(y)
  BY <1>0 DEF Opening, Quiet, Answer, Flags
<1>2. DownData(y) /\ UpEnd(y) /\ DownEnd(y)
  BY <1>0 DEF DownData, Typed, UpEnd, Clean, DownEnd
<1>3. Typed(y)
  <2>1. x.taken + 1 \in Item /\ x.upQ \in Seq(Item) /\ x.taken + 1 \in Nat
    BY DEF Typed, Item
  <2>2. y.upQ \in Seq(Item)
    BY <1>0, <2>1, AppendProperties
  <2> QED
    BY <1>0, <2>1, <2>2 DEF Typed
<1>4. UpData(y)
  <2>1. /\ Len(x.got) \in Nat /\ Len(x.upQ) \in Nat /\ Len(x.buf) \in Nat
        /\ x.buf \in Seq(Item) /\ x.upQ \in Seq(Item) /\ x.taken \in Nat
    BY LenProperties DEF Typed
  <2>2. ~x.reset /\ From(x.upQ, Len(x.got)) /\ x.taken = Len(x.got) + Len(x.upQ)
    BY <2>1 DEF UpData, OnStream, Typed
  <2>3. x.taken + 1 \in Item /\ x.taken + 1 = Len(x.got) + Len(x.upQ) + 1
    BY <2>1, <2>2 DEF Typed, Item
  <2>4. From(y.upQ, Len(x.got)) /\ Len(y.upQ) = Len(x.upQ) + 1
    <3> HIDE DEF ConnInv, Agree, Fields
    <3> QED
      BY <1>0, <2>1, <2>2, <2>3, FromAppend
  <2>5. y.taken = Len(y.got) + OnStream(y) + Len(y.buf)
    BY <1>0, <2>1, <2>2, <2>4 DEF OnStream
  <2>6. y.taken <= y.sent
    BY <1>0 DEF Typed
  <2>7. From(y.buf, Len(y.got) + OnStream(y))
    BY <1>0, FromEmpty
  <2> QED
    BY <1>0, <2>2, <2>4, <2>5, <2>6, <2>7 DEF UpData
<1> QED
  BY <1>1, <1>2, <1>3, <1>4

(* The end of the input, or an agent that reads no more.                   *)
LEMMA UpEndsInv ==
    ASSUME NEW x, ConnInv(x), NEW y,
           x.st = "copy",
           ~x.upDone,
           \/ x.lost \/ x.agUp \/ x.ag = "none"
           \/ x.buf = <<>> /\ x.taken >= x.sent /\ (x.fin \/ x.reset),
           y = [x EXCEPT !.upDone = TRUE, !.qfin = TRUE]
    PROVE  ConnInv(y)
<1>0. /\ Agree(x, y, {"upDone", "qfin"})
      /\ y.upDone /\ y.qfin
  BY DEF ConnInv, Typed, Agree, Fields
<1> USE DEF ConnInv, Agree, Fields
<1>1. Typed(y) /\ Opening(y) /\ Answer(y) /\ Flags(y)
  BY <1>0 DEF Typed, Opening, Quiet, Answer, Flags
<1>2. UpData(y) /\ DownData(y) /\ UpEnd(y) /\ DownEnd(y)
  BY <1>0 DEF UpData, OnStream, Typed, DownData, UpEnd, Clean, Flags, Answer, DownEnd
<1> QED
  BY <1>1, <1>2

(* One chunk to the client.                                                *)
LEMMA CopyDownInv ==
    ASSUME NEW x, ConnInv(x), NEW y,
           x.st = "copy",
           ~x.dnDone,
           x.dnQ # <<>>,
           y = [x EXCEPT !.dnQ = Tail(@), !.dgot = Append(@, Head(x.dnQ))]
    PROVE  ConnInv(y)
<1>0. /\ Agree(x, y, {"dnQ", "dgot"})
      /\ y.dnQ = Tail(x.dnQ)
      /\ y.dgot = Append(x.dgot, Head(x.dnQ))
  BY DEF ConnInv, Typed, Agree, Fields
<1> USE DEF ConnInv, Agree, Fields
<1>1. Opening(y) /\ Answer(y) /\ Flags(y)
  BY <1>0 DEF Opening, Quiet, Answer, Flags
<1>2. UpData(y) /\ UpEnd(y) /\ DownEnd(y)
  BY <1>0 DEF UpData, OnStream, Typed, UpEnd, Clean, DownEnd, Flags
<1>3. Typed(y)
  BY <1>0, HeadTailProperties, EmptySeq, LenProperties, AppendProperties DEF Typed
<1>4. DownData(y)
  <2>1. Len(x.dgot) \in Nat /\ Len(x.dnQ) \in Nat /\ x.dgot \in Seq(Item)
    BY LenProperties DEF Typed
  <2>2. /\ Head(x.dnQ) = Len(x.dgot) + 1 /\ Head(x.dnQ) \in Item
        /\ From(y.dnQ, Len(x.dgot) + 1) /\ Len(y.dnQ) = Len(x.dnQ) - 1
    BY <1>0, <2>1, FromTail DEF Typed, DownData
  <2>3. From(x.dgot, 0) /\ Head(x.dnQ) = 0 + Len(x.dgot) + 1
    BY <2>1, <2>2 DEF DownData
  <2>4. From(y.dgot, 0) /\ Len(y.dgot) = Len(x.dgot) + 1
    <3> HIDE DEF ConnInv, Agree, Fields
    <3> QED
      BY <1>0, <2>1, <2>2, <2>3, FromAppend
  <2>5. ~x.dreset => y.dtaken = Len(y.dgot) + Len(y.dnQ)
    BY <1>0, <2>1, <2>2, <2>4 DEF DownData
  <2>6. From(y.dnQ, Len(y.dgot))
    BY <2>2, <2>4
  <2> QED
    BY <1>0, <2>4, <2>5, <2>6 DEF DownData
<1> QED
  BY <1>1, <1>2, <1>3, <1>4

(* The end of what the agent sends, or a client that is gone.              *)
LEMMA DownEndsInv ==
    ASSUME NEW x, ConnInv(x), NEW y,
           x.st = "copy",
           ~x.dnDone,
           x.lost \/ (x.dnQ = <<>> /\ x.dqfin) \/ x.reset,
           y = [x EXCEPT !.dnDone = TRUE, !.deof = ~x.reset, !.dnQ = <<>>]
    PROVE  ConnInv(y)
<1>0. /\ Agree(x, y, {"dnDone", "deof", "dnQ"})
      /\ y.dnDone /\ (y.deof <=> ~x.reset) /\ y.dnQ = <<>>
  BY DEF ConnInv, Typed, Agree, Fields
<1> USE DEF ConnInv, Agree, Fields
<1>1. Typed(y) /\ Opening(y) /\ Answer(y) /\ Flags(y)
  BY <1>0 DEF Typed, Opening, Quiet, Answer, Flags
<1>2. UpData(y) /\ DownData(y) /\ UpEnd(y)
  BY <1>0 DEF UpData, OnStream, Typed, DownData, UpEnd, Clean
<1>3. DownEnd(y)
  <2>1. Clean(y) => Clean(x) /\ x.agDn /\ x.dnQ = <<>> /\ ~x.dreset
    BY <1>0 DEF Clean, Answer
  <2>2. x.dnQ = <<>> /\ ~x.dreset => x.dtaken = Len(x.dgot)
    <3>3. x.dnQ = <<>> => Len(x.dnQ) = 0
      OBVIOUS
    <3>4. Len(x.dgot) \in Nat
      BY LenProperties DEF Typed
    <3> QED
      BY <3>3, <3>4 DEF DownData
  <2> QED
    BY <1>0, <2>1, <2>2 DEF DownEnd, Clean
<1> QED
  BY <1>1, <1>2, <1>3

(* The agent has read OPEN_TCP.                                            *)
LEMMA AgentOpenInv ==
    ASSUME NEW x, ConnInv(x), NEW y,
           x.ag = "read",
           y = [x EXCEPT !.upQ = <<>>, !.ag = "dial"]
    PROVE  ConnInv(y)
<1>0. /\ Agree(x, y, {"upQ", "ag"})
      /\ y.upQ = <<>> /\ y.ag = "dial"
  BY DEF ConnInv, Typed, Agree, Fields
<1> USE DEF ConnInv, Agree, Fields
<1>1. Typed(y) /\ Opening(y) /\ Answer(y) /\ Flags(y)
  BY <1>0 DEF Typed, Opening, Quiet, Answer, Flags
<1>2. DownData(y) /\ UpEnd(y) /\ DownEnd(y)
  BY <1>0 DEF DownData, Typed, UpEnd, Clean, DownEnd
<1>3. UpData(y)
  <2>1. x.got = <<>> /\ ~x.agUp
    BY DEF Opening, Quiet
  <2>2. OnStream(x) = 0 /\ OnStream(y) = 0
    BY <1>0 DEF OnStream
  <2>3. From(y.upQ, Len(x.got))
    BY <1>0, FromEmpty
  <2> QED
    BY <1>0, <2>1, <2>2, <2>3 DEF UpData
<1> QED
  BY <1>1, <1>2, <1>3

(* The agent's task returns: the connection was lost, or both halves ended.*)
LEMMA AgentGoneInv ==
    ASSUME NEW x, ConnInv(x), NEW y,
           x.ag # "none",
           x.lost \/ (x.agUp /\ x.agDn),
           x.ag = "copy" => x.agUp /\ x.agDn,
           y = [x EXCEPT !.ag = "none"]
    PROVE  ConnInv(Settled(y))
<1>1. CASE y.st = "none" /\ y.ag = "none"
  BY <1>1, ClosedInv DEF Settled
<1>2. CASE ~(y.st = "none" /\ y.ag = "none")
  <2>0. /\ Agree(x, y, {"ag"})
        /\ y.ag = "none"
    BY <1>2 DEF ConnInv, Typed, Agree, Fields
  <2> USE DEF ConnInv, Agree, Fields
  <2>1. Typed(y) /\ Opening(y) /\ Answer(y) /\ Flags(y)
    BY <1>2, <2>0 DEF Typed, Opening, Quiet, Flags, Answer
  <2>2. UpData(y) /\ DownData(y) /\ UpEnd(y) /\ DownEnd(y)
    BY <1>2, <2>0 DEF UpData, OnStream, Typed, Opening, DownData, UpEnd, Clean, DownEnd
  <2> QED
    BY <1>2, <2>1, <2>2 DEF Settled
<1> QED
  BY <1>1, <1>2

(* The agent's session ends before the stream was accepted.                *)
LEMMA DeafInv ==
    ASSUME NEW x, ConnInv(x), NEW y,
           x.ag = "read",
           y = [x EXCEPT !.ag = "deaf"]
    PROVE  ConnInv(Settled(y))
<1>0. Agree(x, y, {"ag"}) /\ y.ag = "deaf"
  BY DEF ConnInv, Typed, Agree, Fields
<1>1. CASE y.st = "none"
  BY <1>0, <1>1, ClosedInv DEF Settled
<1>2. CASE y.st # "none"
  <2> USE DEF ConnInv, Agree, Fields
  <2>1. Typed(y) /\ Opening(y) /\ Answer(y) /\ Flags(y)
    BY <1>0, <1>2 DEF Typed, Opening, Quiet, Flags, Answer
  <2>2. UpData(y) /\ DownData(y) /\ UpEnd(y) /\ DownEnd(y)
    BY <1>0, <1>2 DEF UpData, OnStream, Typed, Opening, DownData, UpEnd, Clean, DownEnd
  <2> QED
    BY <1>2, <2>1, <2>2 DEF Settled
<1> QED
  BY <1>1, <1>2

(* The agent answers OPEN_FAIL.                                            *)
LEMMA AgentRefusesInv ==
    ASSUME NEW x, ConnInv(x), NEW y,
           x.ag = "dial",
           y = [x EXCEPT !.ag = "none", !.dnQ = <<"OPEN_FAIL">>, !.dqfin = TRUE]
    PROVE  ConnInv(Settled(y))
<1>1. CASE y.st = "none" /\ y.ag = "none"
  BY <1>1, ClosedInv DEF Settled
<1>2. CASE ~(y.st = "none" /\ y.ag = "none")
  <2>0. /\ Agree(x, y, {"ag", "dnQ", "dqfin"})
        /\ y.ag = "none" /\ y.dnQ = <<"OPEN_FAIL">> /\ y.dqfin
    BY <1>2 DEF ConnInv, Typed, Agree, Fields
  <2> USE DEF ConnInv, Agree, Fields
  <2>1. Typed(y) /\ Opening(y) /\ Answer(y) /\ Flags(y)
    BY <1>2, <2>0 DEF Typed, Item, Opening, Quiet, Answer, Flags
  <2>2. UpData(y) /\ DownData(y) /\ UpEnd(y) /\ DownEnd(y)
    BY <1>2, <2>0 DEF UpData, OnStream, Typed, Opening, Quiet, DownData, UpEnd, Clean, DownEnd
  <2> QED
    BY <1>2, <2>1, <2>2 DEF Settled
<1> QED
  BY <1>1, <1>2

(* The agent answers OPEN_OK.                                              *)
LEMMA AgentDialsInv ==
    ASSUME NEW x, ConnInv(x), NEW y,
           x.ag = "dial",
           y = [x EXCEPT !.ag = "copy", !.dnQ = <<"OPEN_OK">>]
    PROVE  ConnInv(y)
<1>0. /\ Agree(x, y, {"ag", "dnQ"})
      /\ y.ag = "copy" /\ y.dnQ = <<"OPEN_OK">>
  BY DEF ConnInv, Typed, Agree, Fields
<1> USE DEF ConnInv, Agree, Fields
<1>1. Typed(y) /\ Opening(y) /\ Flags(y)
  BY <1>0 DEF Typed, Item, Opening, Quiet, Flags
<1>2. UpData(y) /\ DownData(y) /\ UpEnd(y) /\ DownEnd(y)
  BY <1>0 DEF UpData, OnStream, Typed, DownData, Opening, Quiet, UpEnd, Clean, DownEnd
<1>3. Answer(y)
  <2>1. Accepted(y.dnQ) /\ Len(y.dnQ) - 1 = 0 /\ Head(y.dnQ) = "OPEN_OK" /\ y.dnQ # <<>>
    BY <1>0, OpenTail, FromEmpty DEF Accepted
  <2> QED
    BY <1>0, <2>1 DEF Answer, Opening, Quiet
<1> QED
  BY <1>1, <1>2, <1>3

(* One chunk to the target.                                                *)
LEMMA AgentCopyUpInv ==
    ASSUME NEW x, ConnInv(x), NEW y,
           x.ag = "copy",
           ~x.agUp,
           x.upQ # <<>>,
           y = [x EXCEPT !.upQ = Tail(@), !.got = Append(@, Head(x.upQ))]
    PROVE  ConnInv(y)
<1>0. /\ Agree(x, y, {"upQ", "got"})
      /\ y.upQ = Tail(x.upQ)
      /\ y.got = Append(x.got, Head(x.upQ))
  BY DEF ConnInv, Typed, Agree, Fields
<1> USE DEF ConnInv, Agree, Fields
<1>1. Opening(y) /\ Answer(y) /\ Flags(y)
  BY <1>0 DEF Opening, Quiet, Answer, Flags
<1>2. DownData(y) /\ UpEnd(y) /\ DownEnd(y)
  BY <1>0 DEF DownData, Typed, UpEnd, Clean, Flags, DownEnd
<1>3. Typed(y)
  BY <1>0, HeadTailProperties, EmptySeq, LenProperties, AppendProperties DEF Typed
<1>4. UpData(y)
  <2>1. /\ x.got \in Seq(Item) /\ x.upQ \in Seq(Item)
        /\ From(x.upQ, Len(x.got)) /\ From(x.got, 0)
    BY DEF Typed, UpData
  <2>2. /\ From(y.got, 0) /\ From(y.upQ, Len(y.got))
        /\ Len(y.got) + Len(y.upQ) = Len(x.got) + Len(x.upQ)
    <3> HIDE DEF ConnInv, Agree, Fields
    <3> QED
      BY <1>0, <2>1, MoveChunk
  <2>3. OnStream(y) = Len(y.upQ) /\ OnStream(x) = Len(x.upQ)
    BY <1>0 DEF OnStream
  <2> QED
    BY <1>0, <2>2, <2>3 DEF UpData
<1> QED
  BY <1>1, <1>2, <1>3, <1>4

(* The end of what the server sends, or a target that is gone.             *)
LEMMA AgentUpEndsInv ==
    ASSUME NEW x, ConnInv(x), NEW y,
           x.ag = "copy",
           ~x.agUp,
           x.lost \/ (x.upQ = <<>> /\ x.qfin) \/ x.dreset,
           y = [x EXCEPT !.agUp = TRUE, !.eof = ~x.dreset, !.upQ = <<>>]
    PROVE  ConnInv(y)
<1>0. /\ Agree(x, y, {"agUp", "eof", "upQ"})
      /\ y.agUp /\ (y.eof <=> ~x.dreset) /\ y.upQ = <<>>
  BY DEF ConnInv, Typed, Agree, Fields
<1> USE DEF ConnInv, Agree, Fields
<1>1. Typed(y) /\ Opening(y) /\ Answer(y) /\ Flags(y)
  BY <1>0 DEF Typed, Opening, Quiet, Answer, Flags
<1>2. UpData(y) /\ DownData(y) /\ DownEnd(y)
  BY <1>0 DEF UpData, OnStream, Typed, DownData, DownEnd, Clean
<1>3. UpEnd(y)
  <2>1. Clean(y) => Clean(x) /\ x.upDone /\ x.upQ = <<>> /\ ~x.reset
    BY <1>0 DEF Clean, Flags
  <2>2. x.upQ = <<>> /\ ~x.reset /\ x.buf = <<>> => x.taken = Len(x.got)
    <3>1. x.upQ = <<>> => Len(x.upQ) = 0
      OBVIOUS
    <3>2. x.buf = <<>> => Len(x.buf) = 0
      OBVIOUS
    <3>3. Len(x.got) \in Nat
      BY LenProperties DEF Typed
    <3> QED
      BY <3>1, <3>2, <3>3 DEF UpData, OnStream
  <2> QED
    BY <1>0, <2>1, <2>2 DEF UpEnd, Clean
<1> QED
  BY <1>1, <1>2, <1>3

(* One chunk of the target towards the server.                             *)
LEMMA AgentCopyDownInv ==
    ASSUME NEW x, ConnInv(x), NEW y,
           x.ag = "copy",
           ~x.agDn,
           x.dtaken < x.dsent,
           ~x.dnDone,
           x.st # "none",
           y = [x EXCEPT !.dtaken = @ + 1, !.dnQ = Append(@, x.dtaken + 1)]
    PROVE  ConnInv(y)
<1>0. /\ Agree(x, y, {"dtaken", "dnQ"})
      /\ y.dtaken = x.dtaken + 1
      /\ y.dnQ = Append(x.dnQ, x.dtaken + 1)
  BY DEF ConnInv, Typed, Agree, Fields
<1> USE DEF ConnInv, Agree, Fields
<1>1. Opening(y) /\ Flags(y)
  BY <1>0 DEF Opening, Quiet, Flags
<1>2. UpData(y) /\ UpEnd(y) /\ DownEnd(y)
  BY <1>0 DEF UpData, OnStream, Typed, UpEnd, Clean, DownEnd
<1>3. Typed(y)
  <2>1. x.dtaken + 1 \in Item /\ x.dnQ \in Seq(Item) /\ x.dtaken + 1 \in Nat
    BY DEF Typed, Item
  <2>2. y.dnQ \in Seq(Item)
    BY <1>0, <2>1, AppendProperties
  <2> QED
    BY <1>0, <2>1, <2>2 DEF Typed
<1>4. Answer(y)
  <2>1. CASE x.st = "wait"
    <3>1. /\ Accepted(x.dnQ) /\ x.dnQ \in Seq(Item) /\ x.dtaken = Len(x.dnQ) - 1
          /\ x.dtaken + 1 \in Item /\ x.dtaken \in Nat
      BY <2>1 DEF Answer, Typed, Item, DownData
    <3>2. Len(x.dnQ) \in Nat
      BY <3>1, LenProperties
    <3>3. x.dtaken + 1 = Len(x.dnQ)
      BY <3>1, <3>2
    <3>4. Accepted(y.dnQ) /\ Len(y.dnQ) = Len(x.dnQ) + 1
      <4> HIDE DEF ConnInv, Agree, Fields
      <4> QED
        BY <1>0, <3>1, <3>3, AcceptedAppend
    <3>5. y.dtaken = Len(y.dnQ) - 1 /\ y.dnQ # <<>> /\ Head(y.dnQ) = "OPEN_OK"
      BY <1>0, <3>1, <3>2, <3>4 DEF Accepted
    <3> QED
      BY <1>0, <2>1, <3>4, <3>5 DEF Answer
  <2>2. CASE x.st # "wait"
    BY <1>0, <2>2 DEF Answer
  <2> QED
    BY <2>1, <2>2
<1>5. DownData(y)
  <2>1. /\ Len(x.dgot) \in Nat /\ Len(x.dnQ) \in Nat /\ x.dnQ \in Seq(Item)
        /\ x.dtaken \in Nat /\ x.dsent \in Nat /\ x.dtaken + 1 \in Item
    BY LenProperties DEF Typed, Item
  <2>2. ~x.dreset
    BY <2>1 DEF DownData
  <2>3. CASE x.st \in {"head", "copy"}
    <3>1. From(x.dnQ, Len(x.dgot)) /\ x.dtaken = Len(x.dgot) + Len(x.dnQ)
      BY <2>2, <2>3 DEF DownData
    <3>2. x.dtaken + 1 = Len(x.dgot) + Len(x.dnQ) + 1
      BY <2>1, <3>1
    <3>3. From(y.dnQ, Len(x.dgot)) /\ Len(y.dnQ) = Len(x.dnQ) + 1
      <4> HIDE DEF ConnInv, Agree, Fields
      <4> QED
        BY <1>0, <2>1, <3>1, <3>2, FromAppend
    <3>4. y.dtaken = Len(y.dgot) + Len(y.dnQ)
      BY <1>0, <2>1, <3>1, <3>3
    <3> QED
      BY <1>0, <2>1, <3>3, <3>4 DEF DownData
  <2>4. CASE ~(x.st \in {"head", "copy"})
    BY <1>0, <2>1, <2>2, <2>4 DEF DownData
  <2> QED
    BY <2>3, <2>4
<1> QED
  BY <1>1, <1>2, <1>3, <1>4, <1>5

(* The target sends no more, or the server reads no more.                  *)
LEMMA AgentDownEndsInv ==
    ASSUME NEW x, ConnInv(x), NEW y,
           x.ag = "copy",
           ~x.agDn,
           \/ x.lost \/ x.dnDone \/ x.st = "none"
           \/ x.dtaken >= x.dsent /\ (x.dfin \/ x.dreset),
           y = [x EXCEPT !.agDn = TRUE, !.dqfin = TRUE]
    PROVE  ConnInv(y)
<1>0. /\ Agree(x, y, {"agDn", "dqfin"})
      /\ y.agDn /\ y.dqfin
  BY DEF ConnInv, Typed, Agree, Fields
<1> USE DEF ConnInv, Agree, Fields
<1>1. Typed(y) /\ Opening(y) /\ Answer(y) /\ Flags(y)
  BY <1>0 DEF Typed, Opening, Quiet, Answer, Flags
<1>2. UpData(y) /\ DownData(y) /\ UpEnd(y) /\ DownEnd(y)
  BY <1>0 DEF UpData, OnStream, Typed, DownData, UpEnd, Clean, DownEnd, Flags
<1> QED
  BY <1>1, <1>2

-----------------------------------------------------------------------------
(* The composition: every step replaces the record of one connection.      *)

(* A connection with its new record, and the others as they were.          *)
LEMMA OneConnection ==
    ASSUME ForwardInv, NEW c \in Followed, NEW y, ConnInv(y), cx' = [cx EXCEPT ![c] = y]
    PROVE  ForwardInv'
BY DEF ForwardInv

(* Clients and targets.                                                    *)
LEMMA EndsStep ==
    ASSUME ForwardInv, NEW c \in Followed, Accept(c) \/ ClientActs(c) \/ TargetActs(c)
    PROVE  ForwardInv'
<1> DEFINE x == cx[c]
<1>0. ConnInv(x)
  BY DEF ForwardInv
<1>1. CASE Accept(c)
  <2>1. PICK p \in Proto[c] : cx' = [cx EXCEPT ![c] = Fresh(p)]
    BY <1>1 DEF Accept
  <2>2. ConnInv(Fresh(p))
    BY <2>1, ProtoAssumption, ClosedInv
  <2> QED
    BY <2>1, <2>2, OneConnection
<1>2. CASE ClientActs(c)
  <2>1. ~x.fin /\ ~x.reset
    BY <1>2 DEF ClientActs, Gone
  <2>2. CASE ~x.upDone /\ cx' = [cx EXCEPT ![c].sent = @ + 1]
    <3> DEFINE y == [x EXCEPT !.sent = @ + 1]
    <3>1. cx' = [cx EXCEPT ![c] = y]
      BY <2>2 DEF ForwardInv
    <3>2. ConnInv(y)
      BY <1>0, <2>1, <2>2, ClientInv
    <3> QED
      BY <3>1, <3>2, OneConnection
  <2>3. CASE cx' = [cx EXCEPT ![c].fin = TRUE]
    <3> DEFINE y == [x EXCEPT !.fin = TRUE]
    <3>1. cx' = [cx EXCEPT ![c] = y]
      BY <2>3 DEF ForwardInv
    <3>2. ConnInv(y)
      BY <1>0, <2>1, <2>3, ClientInv
    <3> QED
      BY <3>1, <3>2, OneConnection
  <2>4. CASE cx' = [cx EXCEPT ![c].reset = TRUE, ![c].taken = x.sent]
    <3> DEFINE y == [x EXCEPT !.reset = TRUE, !.taken = x.sent]
    <3>1. cx' = [cx EXCEPT ![c] = y]
      BY <2>4 DEF ForwardInv
    <3>2. ConnInv(y)
      BY <1>0, <2>1, <2>4, ClientInv
    <3> QED
      BY <3>1, <3>2, OneConnection
  <2> QED
    BY <1>2, <2>2, <2>3, <2>4 DEF ClientActs
<1>3. CASE TargetActs(c)
  <2>1. x.ag = "copy" /\ ~x.dfin /\ ~x.dreset
    BY <1>3 DEF TargetActs, TargetGone
  <2>2. CASE ~x.agDn /\ cx' = [cx EXCEPT ![c].dsent = @ + 1]
    <3> DEFINE y == [x EXCEPT !.dsent = @ + 1]
    <3>1. cx' = [cx EXCEPT ![c] = y]
      BY <2>2 DEF ForwardInv
    <3>2. ConnInv(y)
      BY <1>0, <2>1, <2>2, TargetInv
    <3> QED
      BY <3>1, <3>2, OneConnection
  <2>3. CASE cx' = [cx EXCEPT ![c].dfin = TRUE]
    <3> DEFINE y == [x EXCEPT !.dfin = TRUE]
    <3>1. cx' = [cx EXCEPT ![c] = y]
      BY <2>3 DEF ForwardInv
    <3>2. ConnInv(y)
      BY <1>0, <2>1, <2>3, TargetInv
    <3> QED
      BY <3>1, <3>2, OneConnection
  <2>4. CASE cx' = [cx EXCEPT ![c].dreset = TRUE, ![c].dtaken = x.dsent]
    <3> DEFINE y == [x EXCEPT !.dreset = TRUE, !.dtaken = x.dsent]
    <3>1. cx' = [cx EXCEPT ![c] = y]
      BY <2>4 DEF ForwardInv
    <3>2. ConnInv(y)
      BY <1>0, <2>1, <2>4, TargetInv
    <3> QED
      BY <3>1, <3>2, OneConnection
  <2> QED
    BY <1>3, <2>2, <2>3, <2>4 DEF TargetActs
<1> QED
  BY <1>1, <1>2, <1>3

(* What the network and the agent's session do to a stream.                *)
LEMMA TunnelStep ==
    ASSUME ForwardInv, NEW c \in Followed,
           SessionEnds(c) \/ ConnectionLost(c) \/ StreamLimit(c)
    PROVE  ForwardInv'
<1> DEFINE x == cx[c]
<1>0. ConnInv(x)
  BY DEF ForwardInv
<1>1. CASE SessionEnds(c)
  <2> DEFINE y == [x EXCEPT !.ag = "deaf"]
  <2>1. cx' = [cx EXCEPT ![c] = Settled(y)] /\ x.ag = "read"
    BY <1>1 DEF SessionEnds
  <2>2. ConnInv(Settled(y))
    BY <1>0, <2>1, DeafInv
  <2> QED
    BY <2>1, <2>2, OneConnection
<1>2. CASE ConnectionLost(c)
  <2> DEFINE y == [x EXCEPT !.lost = TRUE]
  <2>1. cx' = [cx EXCEPT ![c] = y]
    BY <1>2 DEF ConnectionLost, ForwardInv
  <2>2. ConnInv(y)
    BY <1>0, LostInv
  <2> QED
    BY <2>1, <2>2, OneConnection
<1>3. CASE StreamLimit(c)
  <2>1. PICK next \in Unopened : x.st \in Unopened /\ cx' = [cx EXCEPT ![c].st = next]
    BY <1>3 DEF StreamLimit
  <2> DEFINE y == [x EXCEPT !.st = next]
  <2>2. cx' = [cx EXCEPT ![c] = y]
    BY <2>1 DEF ForwardInv
  <2>3. ConnInv(y)
    BY <1>0, <2>1, PlaceInv
  <2> QED
    BY <2>2, <2>3, OneConnection
<1> QED
  BY <1>1, <1>2, <1>3

(* The end of the server's task, from wherever it stands.                  *)
LEMMA EndStep ==
    ASSUME ForwardInv, NEW c \in Followed, End(c),
           \/ cx[c].st \in {"limit", "open", "blocked", "wait", "head"}
           \/ cx[c].st = "copy" /\ cx[c].upDone /\ cx[c].dnDone
    PROVE  ForwardInv'
<1> DEFINE y == [cx[c] EXCEPT !.st = "none", !.cut = (cx[c].st # "copy"), !.qfin = TRUE]
<1>1. ConnInv(Settled(y))
  BY EndInv DEF ForwardInv
<1>2. cx' = [cx EXCEPT ![c] = Settled(y)]
  BY DEF End, ForwardInv
<1> QED
  BY <1>1, <1>2, OneConnection

(* Up to the answer of the agent, on the server.                           *)
LEMMA OpenStep ==
    ASSUME ForwardInv, NEW c \in Followed,
           \/ ReadHead(c) \/ PeekSni(c) \/ Route(c) \/ Acquire(c)
           \/ GetConn(c) \/ OpenStream(c) \/ AwaitAnswer(c)
    PROVE  ForwardInv'
<1> DEFINE x == cx[c]
<1>0. ConnInv(x)
  BY DEF ForwardInv
<1>1. CASE Refuse(c)
  BY <1>1, ClosedInv, OneConnection DEF Refuse
<1>2. ASSUME NEW p \in {"http", "passthrough"}, x.st = "peek", TakeFirst(c, p, "route")
      PROVE  ForwardInv'
  <2>1. PICK k \in 1..x.sent :
            cx' = [cx EXCEPT ![c].buf = [i \in 1..k |-> i], ![c].taken = k,
                             ![c].proto = p, ![c].st = "route"]
    BY <1>2 DEF TakeFirst
  <2> DEFINE y == [x EXCEPT !.buf = [i \in 1..k |-> i], !.taken = k, !.proto = p, !.st = "route"]
  <2>2. cx' = [cx EXCEPT ![c] = y]
    BY <2>1 DEF ForwardInv
  <2>3. ConnInv(y)
    BY <1>0, <1>2, <2>1, FirstInv DEF TakeFirst
  <2> QED
    BY <2>2, <2>3, OneConnection
<1>3. CASE ReadHead(c)
  BY <1>1, <1>2, <1>3 DEF ReadHead
<1>4. CASE PeekSni(c)
  <2>1. CASE cx' = [cx EXCEPT ![c].proto = "http"]
    <3> DEFINE y == [x EXCEPT !.proto = "http"]
    <3>1. cx' = [cx EXCEPT ![c] = y]
      BY <2>1 DEF ForwardInv
    <3>2. ConnInv(y)
      BY <1>0, <1>4, TerminateInv DEF PeekSni
    <3> QED
      BY <3>1, <3>2, OneConnection
  <2> QED
    BY <1>1, <1>2, <1>4, <2>1 DEF PeekSni
<1>5. CASE Route(c)
  <2>1. CASE cx' = [cx EXCEPT ![c].st = "limit", ![c].lost = FALSE]
    <3> DEFINE y == [x EXCEPT !.st = "limit", !.lost = FALSE]
    <3>1. cx' = [cx EXCEPT ![c] = y]
      BY <2>1 DEF ForwardInv
    <3>2. ConnInv(y)
      BY <1>0, <1>5, PlaceInv DEF Route
    <3> QED
      BY <3>1, <3>2, OneConnection
  <2>2. Refuse(c) \/ cx' = [cx EXCEPT ![c].st = "limit", ![c].lost = FALSE]
    BY <1>5 DEF Route
  <2> QED
    BY <1>1, <2>1, <2>2
<1>6. CASE Acquire(c)
  <2>1. CASE UNCHANGED cx
    BY <2>1 DEF ForwardInv
  <2> QED
    BY <1>1, <1>6, <2>1 DEF Acquire
<1>7. CASE OpenStream(c)
  <2>1. ASSUME NEW a \in Waiting, x.st = "open",
               cx' = [cx EXCEPT ![c].st = "wait", ![c].upQ = <<"OPEN_TCP">>, ![c].ag = a]
        PROVE  ForwardInv'
    <3> DEFINE y == [x EXCEPT !.st = "wait", !.upQ = <<"OPEN_TCP">>, !.ag = a]
    <3>1. cx' = [cx EXCEPT ![c] = y]
      BY <2>1 DEF ForwardInv
    <3>2. ConnInv(y)
      BY <1>0, <2>1, OpenInv
    <3> QED
      BY <3>1, <3>2, OneConnection
  <2>2. CASE End(c) /\ x.st \in {"open", "blocked"}
    BY <2>2, EndStep
  <2> QED
    BY <1>7, <2>1, <2>2 DEF OpenStream
<1>9. CASE GetConn(c)
  <2>0. x.st = "limit"
    BY <1>9 DEF GetConn
  <2>1. CASE cx' = [cx EXCEPT ![c].st = "open", ![c].lost = FALSE]
    <3> DEFINE y == [x EXCEPT !.st = "open", !.lost = FALSE]
    <3>1. cx' = [cx EXCEPT ![c] = y]
      BY <2>1 DEF ForwardInv
    <3>2. ConnInv(y)
      BY <1>0, <2>0, PlaceInv
    <3> QED
      BY <3>1, <3>2, OneConnection
  <2>2. CASE cx' = [cx EXCEPT ![c].st = "open"]
    <3> DEFINE y == [x EXCEPT !.st = "open"]
    <3>1. cx' = [cx EXCEPT ![c] = y]
      BY <2>2 DEF ForwardInv
    <3>2. ConnInv(y)
      BY <1>0, <2>0, PlaceInv
    <3> QED
      BY <3>1, <3>2, OneConnection
  <2>3. CASE End(c)
    BY <2>0, <2>3, EndStep
  <2> QED
    BY <1>9, <2>1, <2>2, <2>3 DEF GetConn
<1>8. CASE AwaitAnswer(c)
  <2>0. x.st = "wait"
    BY <1>8 DEF AwaitAnswer
  <2>1. CASE End(c)
    BY <2>0, <2>1, EndStep
  <2>2. ASSUME NEW next \in {"head", "copy"}, x.dnQ # <<>>, Head(x.dnQ) = "OPEN_OK",
               cx' = [cx EXCEPT ![c].dnQ = Tail(@), ![c].st = next]
        PROVE  ForwardInv'
    <3> DEFINE y == [x EXCEPT !.dnQ = Tail(@), !.st = next]
    <3>1. cx' = [cx EXCEPT ![c] = y]
      BY <2>2 DEF ForwardInv
    <3>2. ConnInv(y)
      BY <1>0, <2>0, <2>2, AnswerInv
    <3> QED
      BY <3>1, <3>2, OneConnection
  <2> QED
    BY <1>8, <2>1, <2>2 DEF AwaitAnswer
<1> QED
  BY <1>3, <1>4, <1>5, <1>6, <1>7, <1>8, <1>9

(* Copying, on the server.                                                 *)
LEMMA CopyStep ==
    ASSUME ForwardInv, NEW c \in Followed,
           WriteHead(c) \/ CopyUp(c) \/ CopyDown(c) \/ CopyEnds(c)
    PROVE  ForwardInv'
<1> DEFINE x == cx[c]
<1>0. ConnInv(x)
  BY DEF ForwardInv
<1>1. CASE WriteHead(c)
  <2>0. x.st = "head"
    BY <1>1 DEF WriteHead
  <2>1. CASE cx' = [cx EXCEPT ![c].upQ = @ \o x.buf, ![c].buf = <<>>, ![c].st = "copy"]
    <3> DEFINE y == [x EXCEPT !.upQ = @ \o x.buf, !.buf = <<>>, !.st = "copy"]
    <3>1. cx' = [cx EXCEPT ![c] = y]
      BY <2>1 DEF ForwardInv
    <3>2. ConnInv(y)
      BY <1>0, <2>0, <2>1, HeadInv
    <3> QED
      BY <3>1, <3>2, OneConnection
  <2>2. End(c) \/ cx' = [cx EXCEPT ![c].upQ = @ \o x.buf, ![c].buf = <<>>, ![c].st = "copy"]
    BY <1>1 DEF WriteHead
  <2> QED
    BY <2>0, <2>1, <2>2, EndStep
<1>2. CASE CopyUp(c)
  <2>0. x.st = "copy" /\ ~x.upDone
    BY <1>2 DEF CopyUp
  <2>a. x.ag = "copy" \/ x.ag = "none"
    BY <1>0, <2>0 DEF ConnInv, Answer
  <2>1. CASE /\ x.buf # <<>> /\ ~x.agUp /\ x.ag = "copy"
             /\ cx' = [cx EXCEPT ![c].buf = Tail(@), ![c].upQ = Append(@, Head(x.buf))]
    <3> DEFINE y == [x EXCEPT !.buf = Tail(@), !.upQ = Append(@, Head(x.buf))]
    <3>1. cx' = [cx EXCEPT ![c] = y]
      BY <2>1 DEF ForwardInv
    <3>2. ConnInv(y)
      BY <1>0, <2>0, <2>1, CopyBufferInv
    <3> QED
      BY <3>1, <3>2, OneConnection
  <2>2. CASE /\ x.buf = <<>> /\ x.taken < x.sent /\ ~x.agUp /\ x.ag = "copy"
             /\ cx' = [cx EXCEPT ![c].taken = @ + 1, ![c].upQ = Append(@, x.taken + 1)]
    <3> DEFINE y == [x EXCEPT !.taken = @ + 1, !.upQ = Append(@, x.taken + 1)]
    <3>1. cx' = [cx EXCEPT ![c] = y]
      BY <2>2 DEF ForwardInv
    <3>2. ConnInv(y)
      BY <1>0, <2>0, <2>2, CopyClientInv
    <3> QED
      BY <3>1, <3>2, OneConnection
  <2>3. CASE /\ \/ x.lost \/ x.agUp \/ x.ag = "none"
                \/ x.buf = <<>> /\ x.taken >= x.sent /\ (x.fin \/ x.reset)
             /\ cx' = [cx EXCEPT ![c].upDone = TRUE, ![c].qfin = TRUE]
    <3> DEFINE y == [x EXCEPT !.upDone = TRUE, !.qfin = TRUE]
    <3>1. cx' = [cx EXCEPT ![c] = y]
      BY <2>3 DEF ForwardInv
    <3>2. ConnInv(y)
      BY <1>0, <2>0, <2>3, UpEndsInv
    <3> QED
      BY <3>1, <3>2, OneConnection
  <2>4. x.taken \in Nat /\ x.sent \in Nat
    BY <1>0 DEF ConnInv, Typed
  <2> DEFINE more == x.buf # <<>> \/ x.taken < x.sent
             refused == x.lost \/ x.agUp \/ x.ag = "none"
  <2>5. \/ /\ more /\ ~refused /\ x.buf # <<>>
           /\ cx' = [cx EXCEPT ![c].buf = Tail(@), ![c].upQ = Append(@, Head(x.buf))]
        \/ /\ more /\ ~refused /\ x.buf = <<>>
           /\ cx' = [cx EXCEPT ![c].taken = @ + 1, ![c].upQ = Append(@, x.taken + 1)]
        \/ /\ (more /\ refused) \/ (~more /\ (x.fin \/ x.reset))
           /\ cx' = [cx EXCEPT ![c].upDone = TRUE, ![c].qfin = TRUE]
    BY <1>2 DEF CopyUp, Gone
  <2>6. ~more => x.buf = <<>> /\ x.taken >= x.sent
    BY <2>4
  <2> QED
    BY <2>a, <2>1, <2>2, <2>3, <2>5, <2>6
<1>3. CASE CopyDown(c)
  <2>0. x.st = "copy" /\ ~x.dnDone
    BY <1>3 DEF CopyDown
  <2>1. CASE /\ x.dnQ # <<>>
             /\ cx' = [cx EXCEPT ![c].dnQ = Tail(@), ![c].dgot = Append(@, Head(x.dnQ))]
    <3> DEFINE y == [x EXCEPT !.dnQ = Tail(@), !.dgot = Append(@, Head(x.dnQ))]
    <3>1. cx' = [cx EXCEPT ![c] = y]
      BY <2>1 DEF ForwardInv
    <3>2. ConnInv(y)
      BY <1>0, <2>0, <2>1, CopyDownInv
    <3> QED
      BY <3>1, <3>2, OneConnection
  <2>2. CASE /\ x.lost \/ (x.dnQ = <<>> /\ x.dqfin) \/ x.reset
             /\ cx' = [cx EXCEPT ![c].dnDone = TRUE, ![c].deof = ~x.reset, ![c].dnQ = <<>>]
    <3> DEFINE y == [x EXCEPT !.dnDone = TRUE, !.deof = ~x.reset, !.dnQ = <<>>]
    <3>1. cx' = [cx EXCEPT ![c] = y]
      BY <2>2 DEF ForwardInv
    <3>2. ConnInv(y)
      BY <1>0, <2>0, <2>2, DownEndsInv
    <3> QED
      BY <3>1, <3>2, OneConnection
  <2> QED
    BY <1>3, <2>1, <2>2 DEF CopyDown
<1>4. CASE CopyEnds(c)
  BY <1>4, EndStep DEF CopyEnds
<1> QED
  BY <1>1, <1>2, <1>3, <1>4

(* The agent.                                                              *)
LEMMA AgentStep ==
    ASSUME ForwardInv, NEW c \in Followed, AgentTask(c)
    PROVE  ForwardInv'
<1> DEFINE x == cx[c]
<1>0. ConnInv(x)
  BY DEF ForwardInv
<1>1. ASSUME x.ag # "none", x.lost \/ (x.agUp /\ x.agDn), x.ag = "copy" => x.agUp /\ x.agDn,
             cx' = [cx EXCEPT ![c] = Settled([@ EXCEPT !.ag = "none"])]
      PROVE  ForwardInv'
  <2> DEFINE y == [x EXCEPT !.ag = "none"]
  <2>1. cx' = [cx EXCEPT ![c] = Settled(y)]
    BY <1>1
  <2>2. ConnInv(Settled(y))
    BY <1>0, <1>1, AgentGoneInv
  <2> QED
    BY <2>1, <2>2, OneConnection
<1>2. CASE AgentOpen(c)
  <2>0. x.ag = "read"
    BY <1>2 DEF AgentOpen
  <2>a. Tail(x.upQ) = <<>>
    BY <1>0, <2>0, OpenTail DEF ConnInv, Opening
  <2>1. CASE cx' = [cx EXCEPT ![c].upQ = Tail(@), ![c].ag = "dial"]
    <3> DEFINE y == [x EXCEPT !.upQ = <<>>, !.ag = "dial"]
    <3>1. cx' = [cx EXCEPT ![c] = y]
      BY <2>1, <2>a DEF ForwardInv
    <3>2. ConnInv(y)
      BY <1>0, <2>0, <2>1, AgentOpenInv
    <3> QED
      BY <3>1, <3>2, OneConnection
  <2> QED
    BY <1>1, <1>2, <2>0, <2>1 DEF AgentOpen
<1>3. CASE AgentDial(c)
  <2>0. x.ag = "dial"
    BY <1>3 DEF AgentDial
  <2>1. CASE cx' = [cx EXCEPT ![c].ag = "copy", ![c].dnQ = <<"OPEN_OK">>]
    <3> DEFINE y == [x EXCEPT !.ag = "copy", !.dnQ = <<"OPEN_OK">>]
    <3>1. cx' = [cx EXCEPT ![c] = y]
      BY <2>1 DEF ForwardInv
    <3>2. ConnInv(y)
      BY <1>0, <2>0, <2>1, AgentDialsInv
    <3> QED
      BY <3>1, <3>2, OneConnection
  <2>2. CASE cx' = [cx EXCEPT ![c] = Settled([@ EXCEPT !.ag = "none", !.dnQ = <<"OPEN_FAIL">>, !.dqfin = TRUE])]
    <3> DEFINE y == [x EXCEPT !.ag = "none", !.dnQ = <<"OPEN_FAIL">>, !.dqfin = TRUE]
    <3>1. cx' = [cx EXCEPT ![c] = Settled(y)]
      BY <2>2 DEF ForwardInv
    <3>2. ConnInv(Settled(y))
      BY <1>0, <2>0, <2>2, AgentRefusesInv
    <3> QED
      BY <3>1, <3>2, OneConnection
  <2> QED
    BY <1>1, <1>3, <2>0, <2>1, <2>2 DEF AgentDial
<1>4. CASE AgentCopyUp(c)
  <2>0. x.ag = "copy" /\ ~x.agUp
    BY <1>4 DEF AgentCopyUp
  <2>1. CASE /\ x.upQ # <<>>
             /\ cx' = [cx EXCEPT ![c].upQ = Tail(@), ![c].got = Append(@, Head(x.upQ))]
    <3> DEFINE y == [x EXCEPT !.upQ = Tail(@), !.got = Append(@, Head(x.upQ))]
    <3>1. cx' = [cx EXCEPT ![c] = y]
      BY <2>1 DEF ForwardInv
    <3>2. ConnInv(y)
      BY <1>0, <2>0, <2>1, AgentCopyUpInv
    <3> QED
      BY <3>1, <3>2, OneConnection
  <2>2. CASE /\ x.lost \/ (x.upQ = <<>> /\ x.qfin) \/ x.dreset
             /\ cx' = [cx EXCEPT ![c].agUp = TRUE, ![c].eof = ~x.dreset, ![c].upQ = <<>>]
    <3> DEFINE y == [x EXCEPT !.agUp = TRUE, !.eof = ~x.dreset, !.upQ = <<>>]
    <3>1. cx' = [cx EXCEPT ![c] = y]
      BY <2>2 DEF ForwardInv
    <3>2. ConnInv(y)
      BY <1>0, <2>0, <2>2, AgentUpEndsInv
    <3> QED
      BY <3>1, <3>2, OneConnection
  <2> QED
    BY <1>4, <2>1, <2>2 DEF AgentCopyUp
<1>5. CASE AgentCopyDown(c)
  <2>0. x.ag = "copy" /\ ~x.agDn
    BY <1>5 DEF AgentCopyDown
  <2>1. CASE /\ x.dtaken < x.dsent /\ ~x.dnDone /\ x.st # "none"
             /\ cx' = [cx EXCEPT ![c].dtaken = @ + 1, ![c].dnQ = Append(@, x.dtaken + 1)]
    <3> DEFINE y == [x EXCEPT !.dtaken = @ + 1, !.dnQ = Append(@, x.dtaken + 1)]
    <3>1. cx' = [cx EXCEPT ![c] = y]
      BY <2>1 DEF ForwardInv
    <3>2. ConnInv(y)
      BY <1>0, <2>0, <2>1, AgentCopyDownInv
    <3> QED
      BY <3>1, <3>2, OneConnection
  <2>2. CASE /\ \/ x.lost \/ x.dnDone \/ x.st = "none"
                \/ x.dtaken >= x.dsent /\ (x.dfin \/ x.dreset)
             /\ cx' = [cx EXCEPT ![c].agDn = TRUE, ![c].dqfin = TRUE]
    <3> DEFINE y == [x EXCEPT !.agDn = TRUE, !.dqfin = TRUE]
    <3>1. cx' = [cx EXCEPT ![c] = y]
      BY <2>2 DEF ForwardInv
    <3>2. ConnInv(y)
      BY <1>0, <2>0, <2>2, AgentDownEndsInv
    <3> QED
      BY <3>1, <3>2, OneConnection
  <2>3. x.dtaken \in Nat /\ x.dsent \in Nat
    BY <1>0 DEF ConnInv, Typed
  <2> DEFINE more == x.dtaken < x.dsent
             refused == x.lost \/ x.dnDone \/ x.st = "none"
  <2>4. \/ /\ more /\ ~refused
           /\ cx' = [cx EXCEPT ![c].dtaken = @ + 1, ![c].dnQ = Append(@, x.dtaken + 1)]
        \/ /\ (more /\ refused) \/ (~more /\ (x.dfin \/ x.dreset))
           /\ cx' = [cx EXCEPT ![c].agDn = TRUE, ![c].dqfin = TRUE]
    BY <1>5 DEF AgentCopyDown, TargetGone
  <2>5. ~more => x.dtaken >= x.dsent
    BY <2>3
  <2> QED
    BY <2>1, <2>2, <2>4, <2>5
<1>6. CASE AgentEnds(c)
  BY <1>1, <1>6 DEF AgentEnds
<1> QED
  BY <1>2, <1>3, <1>4, <1>5, <1>6 DEF AgentTask

(* Every connection keeps ConnInv in every behaviour.                      *)
LEMMA ForwardAlways == ForwardSpec => []ForwardInv
<1>1. ForwardInit => ForwardInv
  BY ClosedInv DEF ForwardInit, ForwardInv
<1>2. ForwardInv /\ [ForwardNext]_fvars => ForwardInv'
  <2> SUFFICES ASSUME ForwardInv, [ForwardNext]_fvars PROVE ForwardInv'
    OBVIOUS
  <2>1. CASE UNCHANGED cx
    BY <2>1 DEF ForwardInv
  <2>2. ASSUME NEW c \in Followed, ServerTask(c) PROVE ForwardInv'
    BY <2>2, OpenStep, CopyStep DEF ServerTask
  <2>3. ASSUME NEW c \in Followed,
               Accept(c) \/ ClientActs(c) \/ TargetActs(c) \/ AgentTask(c)
        PROVE  ForwardInv'
    BY <2>3, EndsStep, AgentStep
  <2>4. ASSUME NEW c \in Followed, SessionEnds(c) \/ ConnectionLost(c) \/ StreamLimit(c)
        PROVE  ForwardInv'
    BY <2>4, TunnelStep
  <2>5. CASE AgentLeaves \/ AgentReturns \/ (SetLimit /\ UNCHANGED <<cx, online>>)
    BY <2>1, <2>5 DEF AgentLeaves, AgentReturns
  <2>6. CASE \E c \in Client \ Followed : OtherConnection(c)
    BY <2>1, <2>6 DEF OtherConnection
  <2>7. CASE UNCHANGED fvars
    BY <2>1, <2>7 DEF fvars
  <2> QED
    BY <2>2, <2>3, <2>4, <2>5, <2>6, <2>7 DEF ForwardNext
<1> QED
  BY <1>1, <1>2, PTL DEF ForwardSpec

(* Each end receives the other's bytes in order and nothing else, and all  *)
(* of them when it sees the end of a clean connection, however many chunks *)
(* are sent and however the tasks of the two processes interleave.         *)
THEOREM BytesDelivered == ForwardSpec => []BytesInOrder
<1>1. ForwardInv => BytesInOrder
  <2> SUFFICES ASSUME ForwardInv, NEW c \in Followed
               PROVE  LET clean == ~cx[c].reset /\ ~cx[c].dreset /\ ~cx[c].lost /\ ~cx[c].cut IN
                      /\ Counting(cx[c].got) /\ Counting(cx[c].dgot)
                      /\ cx[c].eof /\ clean => cx[c].fin /\ Len(cx[c].got) = cx[c].sent
                      /\ cx[c].deof /\ clean => cx[c].dfin /\ Len(cx[c].dgot) = cx[c].dsent
    BY DEF BytesInOrder
  <2>1. ConnInv(cx[c])
    BY DEF ForwardInv
  <2>2. \A s \in Seq(Item) : From(s, 0) => Counting(s)
    <3> SUFFICES ASSUME NEW s \in Seq(Item), From(s, 0), NEW i \in 1..Len(s) PROVE s[i] = i
      BY DEF Counting
    <3>1. i \in Nat
      BY LenProperties
    <3> QED
      BY <3>1 DEF From
  <2>3. Counting(cx[c].got) /\ Counting(cx[c].dgot)
    BY <2>1, <2>2 DEF ConnInv, Typed, UpData, DownData
  <2> QED
    BY <2>1, <2>3 DEF ConnInv, UpEnd, DownEnd, Clean
<1> QED
  BY <1>1, ForwardAlways, PTL
=============================================================================
