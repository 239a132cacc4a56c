------------------------- MODULE NodeLifecycleProofs -------------------------
(***************************************************************************)
(* The safety of the connection lifecycle, for every set of nodes, every   *)
(* finite set of connections and every kind of fault.                      *)
(*                                                                         *)
(* None of the four invariants needs another beyond types and the fact that*)
(* a task past authentication knows its node: what makes each inductive is *)
(* its own statement, that whatever names a task is still ahead of that    *)
(* task.  An overlapping task of the same node may remove an entry early   *)
(* (which keeps the invariant), never add one for somebody else.           *)
(***************************************************************************)
EXTENDS NodeLifecycle, FiniteSetTheorems, TLAPS

(* Past authentication a task knows its node.                              *)
NodeKnown ==
    \A c \in Conn :
        pc[c] \in {"authok", "register"} \cup Counted \cup Cleaning => node[c] \in Node

Typed == TypeOK /\ NodeKnown

(* Types, and that the node is known, are kept by every step.              *)
LEMMA TypeStep == Typed /\ [Next]_vars => Typed'
<1> SUFFICES ASSUME Typed, [Next]_vars PROVE Typed'
  OBVIOUS
<1> USE DEF TypeOK, NodeKnown, Typed, Go, registries, database, written, Steps, Handshaking,
            Counted, Cleaning, Statuses
<1>1. ASSUME NEW c \in Conn,
             Handshake(c) \/ Serving(c) \/ Cleanup(c) \/ Connect(c) \/ Lose(c)
      PROVE  Typed'
  <2>1. CASE ReadHello(c) \/ ProtocolError(c) \/ AuthFail(c) \/ RejectedClosed(c)
            \/ HandshakeClosed(c) \/ SendSnapshot(c) \/ SnapshotFails(c)
    BY <2>1 DEF ReadHello, ProtocolError, AuthFail, RejectedClosed, HandshakeClosed,
      SendSnapshot, SnapshotFails
  <2>2. CASE \E n \in Node : Authenticate(c, n)
    BY <2>2 DEF Authenticate
  <2>3. CASE RegisterSession(c)
    BY <2>3 DEF RegisterSession
  <2>4. CASE SetNodeOnline(c) \/ SetNodeOnlineFails(c)
    BY <2>4 DEF SetNodeOnline, SetNodeOnlineFails
  <2>5. CASE PublishOnline(c)
    BY <2>5 DEF PublishOnline
  <2>6. CASE RegisterConn(c)
    BY <2>6 DEF RegisterConn
  <2>7. CASE RegisterPush(c)
    BY <2>7 DEF RegisterPush
  <2>8. CASE ServePeerClosed(c) \/ ServeHeartbeatTimeout(c) \/ ServeResyncFails(c)
            \/ ServePushClosed(c)
    BY <2>8 DEF ServePeerClosed, ServeHeartbeatTimeout, ServeResyncFails, ServePushClosed
  <2>9. CASE UnregisterPush(c)
    BY <2>9 DEF UnregisterPush
  <2>10. CASE UnregisterConn(c)
    BY <2>10 DEF UnregisterConn
  <2>11. CASE UnregisterSession(c)
    BY <2>11 DEF UnregisterSession
  <2>12. CASE SetNodeOffline(c) \/ SetNodeOfflineFails(c)
    BY <2>12 DEF SetNodeOffline, SetNodeOfflineFails
  <2>13. CASE PublishOffline(c)
    BY <2>13 DEF PublishOffline
  <2>14. CASE Connect(c) \/ Lose(c)
    BY <2>14 DEF Connect, Lose
  <2> QED
    BY <1>1, <2>1, <2>2, <2>3, <2>4, <2>5, <2>6, <2>7,
       <2>8, <2>9, <2>10, <2>11, <2>12, <2>13, <2>14
    DEF Handshake, Serving, Cleanup
<1>2. ASSUME NEW n \in Node, RevokeCredential(n) \/ DeleteNode(n) \/ RestoreNode(n)
      PROVE  Typed'
  <2>1. CASE RevokeCredential(n) \/ DeleteNode(n)
    BY <2>1 DEF RevokeCredential, DeleteNode
  <2>2. CASE RestoreNode(n)
    <3>1. status' \in [Node -> Statuses] /\ carried' \in SUBSET Node
      BY <2>2 DEF RestoreNode
    <3>2. valid' \in [Node -> BOOLEAN]
      BY <2>2, Zenon DEF RestoreNode
    <3> QED BY <2>2, <3>1, <3>2 DEF RestoreNode
  <2> QED BY <1>2, <2>1, <2>2
<1>3. CASE Restart
  BY <1>3 DEF Restart
<1>4. CASE UNCHANGED vars
  BY <1>4 DEF vars
<1> QED
  BY <1>1, <1>2, <1>3, <1>4 DEF Next, Environment

(* A step keeps every registry entry with a task that will remove it.      *)
LEMMA EntryStep == Typed /\ NoDanglingEntry /\ [Next]_vars => NoDanglingEntry'
<1> SUFFICES ASSUME Typed, NoDanglingEntry, [Next]_vars PROVE NoDanglingEntry'
  OBVIOUS
<1> USE NoneAssumption DEF TypeOK, NodeKnown, Typed, Go, registries, database, written, Steps, Handshaking,
            Counted, Cleaning, Statuses, Live, HoldsSession, HoldsConn, HoldsPush,
            HoldsStatus, HoldsAnnounced, NoDanglingEntry
<1>1. ASSUME NEW c \in Conn,
             Handshake(c) \/ Serving(c) \/ Cleanup(c) \/ Connect(c) \/ Lose(c)
      PROVE  NoDanglingEntry'
  <2>1. CASE ReadHello(c) \/ ProtocolError(c) \/ AuthFail(c) \/ RejectedClosed(c)
            \/ HandshakeClosed(c) \/ SendSnapshot(c) \/ SnapshotFails(c)
    BY <2>1 DEF ReadHello, ProtocolError, AuthFail, RejectedClosed, HandshakeClosed,
      SendSnapshot, SnapshotFails
  <2>2. CASE \E n \in Node : Authenticate(c, n)
    BY <2>2 DEF Authenticate
  <2>3. CASE RegisterSession(c)
    BY <2>3 DEF RegisterSession
  <2>4. CASE SetNodeOnline(c) \/ SetNodeOnlineFails(c)
    BY <2>4 DEF SetNodeOnline, SetNodeOnlineFails
  <2>5. CASE PublishOnline(c)
    BY <2>5 DEF PublishOnline
  <2>6. CASE RegisterConn(c)
    BY <2>6 DEF RegisterConn
  <2>7. CASE RegisterPush(c)
    BY <2>7 DEF RegisterPush
  <2>8. CASE ServePeerClosed(c) \/ ServeHeartbeatTimeout(c) \/ ServeResyncFails(c)
            \/ ServePushClosed(c)
    BY <2>8 DEF ServePeerClosed, ServeHeartbeatTimeout, ServeResyncFails, ServePushClosed
  <2>9. CASE UnregisterPush(c)
    BY <2>9 DEF UnregisterPush
  <2>10. CASE UnregisterConn(c)
    BY <2>10 DEF UnregisterConn
  <2>11. CASE UnregisterSession(c)
    BY <2>11 DEF UnregisterSession
  <2>12. CASE SetNodeOffline(c) \/ SetNodeOfflineFails(c)
    BY <2>12 DEF SetNodeOffline, SetNodeOfflineFails
  <2>13. CASE PublishOffline(c)
    BY <2>13 DEF PublishOffline
  <2>14. CASE Connect(c) \/ Lose(c)
    BY <2>14 DEF Connect, Lose
  <2> QED
    BY <1>1, <2>1, <2>2, <2>3, <2>4, <2>5, <2>6, <2>7,
       <2>8, <2>9, <2>10, <2>11, <2>12, <2>13, <2>14
    DEF Handshake, Serving, Cleanup
<1>2. ASSUME NEW n \in Node, RevokeCredential(n) \/ DeleteNode(n) \/ RestoreNode(n)
      PROVE  NoDanglingEntry'
  BY <1>2 DEF RevokeCredential, DeleteNode, RestoreNode
<1>3. CASE Restart
  BY <1>3 DEF Restart
<1>4. CASE UNCHANGED vars
  BY <1>4 DEF vars
<1> QED
  BY <1>1, <1>2, <1>3, <1>4 DEF Next, Environment

(* A step keeps an 'online' row with a task that will write 'offline', or  *)
(* records that the write was lost.                                        *)
LEMMA StatusStep == Typed /\ NoGhostOnline /\ [Next]_vars => NoGhostOnline'
<1> SUFFICES ASSUME Typed, NoGhostOnline, [Next]_vars PROVE NoGhostOnline'
  OBVIOUS
<1> USE DEF TypeOK, NodeKnown, Typed, Go, registries, database, written, Steps, Handshaking,
            Counted, Cleaning, Statuses, Live, HoldsSession, HoldsConn, HoldsPush,
            HoldsStatus, HoldsAnnounced, NoGhostOnline
<1>1. ASSUME NEW c \in Conn,
             Handshake(c) \/ Serving(c) \/ Cleanup(c) \/ Connect(c) \/ Lose(c)
      PROVE  NoGhostOnline'
  <2>1. CASE ReadHello(c) \/ ProtocolError(c) \/ AuthFail(c) \/ RejectedClosed(c)
            \/ HandshakeClosed(c) \/ SendSnapshot(c) \/ SnapshotFails(c)
    BY <2>1 DEF ReadHello, ProtocolError, AuthFail, RejectedClosed, HandshakeClosed,
      SendSnapshot, SnapshotFails
  <2>2. CASE \E n \in Node : Authenticate(c, n)
    BY <2>2 DEF Authenticate
  <2>3. CASE RegisterSession(c)
    BY <2>3 DEF RegisterSession
  <2>4. CASE SetNodeOnline(c) \/ SetNodeOnlineFails(c)
    BY <2>4 DEF SetNodeOnline, SetNodeOnlineFails
  <2>5. CASE PublishOnline(c)
    BY <2>5 DEF PublishOnline
  <2>6. CASE RegisterConn(c)
    BY <2>6 DEF RegisterConn
  <2>7. CASE RegisterPush(c)
    BY <2>7 DEF RegisterPush
  <2>8. CASE ServePeerClosed(c) \/ ServeHeartbeatTimeout(c) \/ ServeResyncFails(c)
            \/ ServePushClosed(c)
    BY <2>8 DEF ServePeerClosed, ServeHeartbeatTimeout, ServeResyncFails, ServePushClosed
  <2>9. CASE UnregisterPush(c)
    BY <2>9 DEF UnregisterPush
  <2>10. CASE UnregisterConn(c)
    BY <2>10 DEF UnregisterConn
  <2>11. CASE UnregisterSession(c)
    BY <2>11 DEF UnregisterSession
  <2>12. CASE SetNodeOffline(c) \/ SetNodeOfflineFails(c)
    BY <2>12 DEF SetNodeOffline, SetNodeOfflineFails
  <2>13. CASE PublishOffline(c)
    BY <2>13 DEF PublishOffline
  <2>14. CASE Connect(c) \/ Lose(c)
    BY <2>14 DEF Connect, Lose
  <2> QED
    BY <1>1, <2>1, <2>2, <2>3, <2>4, <2>5, <2>6, <2>7,
       <2>8, <2>9, <2>10, <2>11, <2>12, <2>13, <2>14
    DEF Handshake, Serving, Cleanup
<1>2. ASSUME NEW n \in Node, RevokeCredential(n) \/ DeleteNode(n) \/ RestoreNode(n)
      PROVE  NoGhostOnline'
  BY <1>2 DEF RevokeCredential, DeleteNode, RestoreNode
<1>3. CASE Restart
  BY <1>3 DEF Restart
<1>4. CASE UNCHANGED vars
  BY <1>4 DEF vars
<1> QED
  BY <1>1, <1>2, <1>3, <1>4 DEF Next, Environment

(* A step keeps a NODE_ONLINE event with a task that will publish          *)
(* NODE_OFFLINE.                                                           *)
LEMMA EventStep == Typed /\ NoGhostEvent /\ [Next]_vars => NoGhostEvent'
<1> SUFFICES ASSUME Typed, NoGhostEvent, [Next]_vars PROVE NoGhostEvent'
  OBVIOUS
<1> USE DEF TypeOK, NodeKnown, Typed, Go, registries, database, written, Steps, Handshaking,
            Counted, Cleaning, Statuses, Live, HoldsSession, HoldsConn, HoldsPush,
            HoldsStatus, HoldsAnnounced, NoGhostEvent
<1>1. ASSUME NEW c \in Conn,
             Handshake(c) \/ Serving(c) \/ Cleanup(c) \/ Connect(c) \/ Lose(c)
      PROVE  NoGhostEvent'
  <2>1. CASE ReadHello(c) \/ ProtocolError(c) \/ AuthFail(c) \/ RejectedClosed(c)
            \/ HandshakeClosed(c) \/ SendSnapshot(c) \/ SnapshotFails(c)
    BY <2>1 DEF ReadHello, ProtocolError, AuthFail, RejectedClosed, HandshakeClosed,
      SendSnapshot, SnapshotFails
  <2>2. CASE \E n \in Node : Authenticate(c, n)
    BY <2>2 DEF Authenticate
  <2>3. CASE RegisterSession(c)
    BY <2>3 DEF RegisterSession
  <2>4. CASE SetNodeOnline(c) \/ SetNodeOnlineFails(c)
    BY <2>4 DEF SetNodeOnline, SetNodeOnlineFails
  <2>5. CASE PublishOnline(c)
    BY <2>5 DEF PublishOnline
  <2>6. CASE RegisterConn(c)
    BY <2>6 DEF RegisterConn
  <2>7. CASE RegisterPush(c)
    BY <2>7 DEF RegisterPush
  <2>8. CASE ServePeerClosed(c) \/ ServeHeartbeatTimeout(c) \/ ServeResyncFails(c)
            \/ ServePushClosed(c)
    BY <2>8 DEF ServePeerClosed, ServeHeartbeatTimeout, ServeResyncFails, ServePushClosed
  <2>9. CASE UnregisterPush(c)
    BY <2>9 DEF UnregisterPush
  <2>10. CASE UnregisterConn(c)
    BY <2>10 DEF UnregisterConn
  <2>11. CASE UnregisterSession(c)
    BY <2>11 DEF UnregisterSession
  <2>12. CASE SetNodeOffline(c) \/ SetNodeOfflineFails(c)
    BY <2>12 DEF SetNodeOffline, SetNodeOfflineFails
  <2>13. CASE PublishOffline(c)
    BY <2>13 DEF PublishOffline
  <2>14. CASE Connect(c) \/ Lose(c)
    BY <2>14 DEF Connect, Lose
  <2> QED
    BY <1>1, <2>1, <2>2, <2>3, <2>4, <2>5, <2>6, <2>7,
       <2>8, <2>9, <2>10, <2>11, <2>12, <2>13, <2>14
    DEF Handshake, Serving, Cleanup
<1>2. ASSUME NEW n \in Node, RevokeCredential(n) \/ DeleteNode(n) \/ RestoreNode(n)
      PROVE  NoGhostEvent'
  BY <1>2 DEF RevokeCredential, DeleteNode, RestoreNode
<1>3. CASE Restart
  BY <1>3 DEF Restart
<1>4. CASE UNCHANGED vars
  BY <1>4 DEF vars
<1> QED
  BY <1>1, <1>2, <1>3, <1>4 DEF Next, Environment

(* The tasks between the inc and the dec of the gauges.                    *)
InGauge == {c \in Conn : pc[c] \in Counted}

(* The gauges move with the set of tasks they count.                       *)
LEMMA GaugeStep == Typed /\ GaugeExact /\ [Next]_vars => GaugeExact'
<1> SUFFICES ASSUME Typed, GaugeExact, [Next]_vars PROVE GaugeExact'
  OBVIOUS
<1> USE DEF TypeOK, NodeKnown, Typed, Go, registries, database, written
<1>f. IsFiniteSet(InGauge) /\ Cardinality(InGauge) \in Nat
  BY ConnAssumption, FS_Subset, FS_CardinalityType DEF InGauge
<1>g. GaugeExact <=> nodesOnline = Cardinality(InGauge)
  BY DEF GaugeExact, InGauge
<1>h. GaugeExact' <=> nodesOnline' = Cardinality(InGauge')
  BY DEF GaugeExact, InGauge
<1>1. ASSUME NEW c \in Conn, RegisterSession(c) PROVE GaugeExact'
  <2>1. InGauge' = InGauge \cup {c} /\ c \notin InGauge
    BY <1>1 DEF RegisterSession, InGauge, Counted
  <2>2. Cardinality(InGauge') = Cardinality(InGauge) + 1
    BY <2>1, <1>f, FS_AddElement
  <2> QED BY <1>1, <1>g, <1>h, <2>2 DEF RegisterSession
<1>2. ASSUME NEW c \in Conn, UnregisterSession(c) PROVE GaugeExact'
  <2>1. InGauge' = InGauge \ {c} /\ c \in InGauge
    BY <1>2 DEF UnregisterSession, InGauge, Counted
  <2>2. Cardinality(InGauge') = Cardinality(InGauge) - 1
    BY <2>1, <1>f, FS_RemoveElement
  <2> QED BY <1>2, <1>g, <1>h, <2>2 DEF UnregisterSession
<1>3. CASE Restart
  <2>1. InGauge' = {} /\ nodesOnline' = 0
    BY <1>3 DEF Restart, InGauge, Counted
  <2> QED BY <1>h, <2>1, FS_EmptySet
<1>4. CASE InGauge' = InGauge /\ nodesOnline' = nodesOnline
  BY <1>4, <1>g, <1>h
<1>5. ASSUME NEW c \in Conn, Handshake(c), ~RegisterSession(c)
      PROVE  InGauge' = InGauge /\ nodesOnline' = nodesOnline
  <2>1. CASE ReadHello(c) \/ ProtocolError(c) \/ AuthFail(c) \/ RejectedClosed(c)
             \/ HandshakeClosed(c) \/ SendSnapshot(c) \/ SnapshotFails(c)
    BY <2>1 DEF ReadHello, ProtocolError, AuthFail, RejectedClosed,
       HandshakeClosed, SendSnapshot, SnapshotFails, InGauge, Counted
  <2>2. CASE \E n \in Node : Authenticate(c, n)
    BY <2>2 DEF Authenticate, InGauge, Counted
  <2>3. CASE SetNodeOnline(c) \/ SetNodeOnlineFails(c) \/ PublishOnline(c)
    BY <2>3 DEF SetNodeOnline, SetNodeOnlineFails, PublishOnline, InGauge, Counted
  <2> QED BY <1>5, <2>1, <2>2, <2>3 DEF Handshake
<1>6. ASSUME NEW c \in Conn, Serving(c)
      PROVE  InGauge' = InGauge /\ nodesOnline' = nodesOnline
  <2>1. CASE RegisterConn(c) \/ RegisterPush(c)
    BY <2>1 DEF RegisterConn, RegisterPush, InGauge, Counted
  <2>2. CASE ServePeerClosed(c) \/ ServeHeartbeatTimeout(c) \/ ServeResyncFails(c)
             \/ ServePushClosed(c)
    BY <2>2 DEF ServePeerClosed, ServeHeartbeatTimeout, ServeResyncFails, ServePushClosed,
       InGauge, Counted
  <2> QED BY <1>6, <2>1, <2>2 DEF Serving
<1>7. ASSUME NEW c \in Conn, Cleanup(c), ~UnregisterSession(c)
      PROVE  InGauge' = InGauge /\ nodesOnline' = nodesOnline
  <2>1. CASE UnregisterPush(c) \/ UnregisterConn(c)
    BY <2>1 DEF UnregisterPush, UnregisterConn, InGauge, Counted
  <2>2. CASE SetNodeOffline(c) \/ SetNodeOfflineFails(c) \/ PublishOffline(c)
    BY <2>2 DEF SetNodeOffline, SetNodeOfflineFails, PublishOffline, InGauge, Counted
  <2> QED BY <1>7, <2>1, <2>2 DEF Cleanup
<1>8. ASSUME NEW c \in Conn, Connect(c) \/ Lose(c)
      PROVE  InGauge' = InGauge /\ nodesOnline' = nodesOnline
  BY <1>8 DEF Connect, Lose, InGauge, Counted
<1>9. ASSUME NEW n \in Node, RevokeCredential(n) \/ DeleteNode(n) \/ RestoreNode(n)
      PROVE  InGauge' = InGauge /\ nodesOnline' = nodesOnline
  BY <1>9 DEF RevokeCredential, DeleteNode, RestoreNode, InGauge, Counted
<1>10. CASE UNCHANGED vars
  BY <1>4, <1>10 DEF vars, InGauge, Counted
<1> QED
  BY <1>1, <1>2, <1>3, <1>4, <1>5, <1>6, <1>7, <1>8, <1>9, <1>10
  DEF Next, Environment

-----------------------------------------------------------------------------

(* Nothing is registered, written or announced at the start.               *)
LEMMA InitInv ==
    Init => Typed /\ NoDanglingEntry /\ GaugeExact /\ NoGhostOnline /\ NoGhostEvent
<1> SUFFICES ASSUME Init
    PROVE Typed /\ NoDanglingEntry /\ GaugeExact /\ NoGhostOnline /\ NoGhostEvent
  OBVIOUS
<1>1. Typed
  BY DEF Init, Typed, TypeOK, NodeKnown, Steps, Handshaking, Counted, Cleaning, Statuses
<1>2. NoDanglingEntry /\ NoGhostOnline /\ NoGhostEvent
  BY DEF Init, NoDanglingEntry, NoGhostOnline, NoGhostEvent
<1>3. InGauge = {}
  BY DEF Init, InGauge, Counted
<1> QED BY <1>1, <1>2, <1>3, FS_EmptySet DEF GaugeExact, InGauge, Init

(* Type correctness.                                                       *)
THEOREM TypeCorrect == Spec => []TypeOK
<1> QED BY InitInv, TypeStep, PTL DEF Spec, Typed

(* No interleaving of the tasks of one node leaves an entry in sessions,   *)
(* conns or push that no task will remove.                                 *)
THEOREM EntriesAreOwned == Spec => []NoDanglingEntry
<1> QED BY InitInv, TypeStep, EntryStep, PTL DEF Spec

(* nodes_online and sessions_active count the tasks between register and   *)
(* unregister.                                                             *)
THEOREM GaugesAreExact == Spec => []GaugeExact
<1> QED BY InitInv, TypeStep, GaugeStep, PTL DEF Spec

(* A node is 'online' in the database only while a task will write         *)
(* 'offline', or when that write was lost.                                 *)
THEOREM OnlineIsOwned == Spec => []NoGhostOnline
<1> QED BY InitInv, TypeStep, StatusStep, PTL DEF Spec

(* The same of the events dashboards follow.                               *)
THEOREM EventsAreOwned == Spec => []NoGhostEvent
<1> QED BY InitInv, TypeStep, EventStep, PTL DEF Spec

(* A connection taken out of the data-plane registry never comes back.     *)
THEOREM NeverResurrected == Spec => NoResurrection
<1> DEFINE Past == HoldsConn \cup {"unsession", "setoffline", "unannounce", "done"}
           Kept == \A n \in Node, c \in Conn :
                       pc[c] \in Past /\ conns[n] # c => conns'[n] # c
<1>1. Typed /\ [Next]_vars => [Kept]_vars
  <2> SUFFICES ASSUME Typed, Next PROVE Kept
    OBVIOUS
  <2> USE NoneAssumption DEF Typed, TypeOK, NodeKnown, Go, registries, HoldsConn,
          Counted, Cleaning
  <2>1. ASSUME NEW c \in Conn, RegisterConn(c) PROVE Kept
    BY <2>1 DEF RegisterConn
  <2>2. ASSUME NEW c \in Conn, UnregisterConn(c) PROVE Kept
    BY <2>2 DEF UnregisterConn
  <2>3. CASE Restart
    BY <2>3 DEF Restart
  <2>4. CASE conns' = conns
    BY <2>4
  <2>5. ASSUME NEW c \in Conn, Handshake(c) PROVE conns' = conns
    BY <2>5 DEF Handshake, ReadHello, ProtocolError, Authenticate, AuthFail,
       RejectedClosed, HandshakeClosed, SendSnapshot, SnapshotFails,
       RegisterSession, SetNodeOnline, SetNodeOnlineFails, PublishOnline
  <2>6. ASSUME NEW c \in Conn, Serving(c), ~RegisterConn(c) PROVE conns' = conns
    BY <2>6 DEF Serving, RegisterPush, ServePeerClosed, ServeHeartbeatTimeout,
       ServeResyncFails, ServePushClosed
  <2>7. ASSUME NEW c \in Conn, Cleanup(c), ~UnregisterConn(c) PROVE conns' = conns
    BY <2>7 DEF Cleanup, UnregisterPush, UnregisterSession, SetNodeOffline,
       SetNodeOfflineFails, PublishOffline
  <2>8. ASSUME NEW c \in Conn, Connect(c) \/ Lose(c) PROVE conns' = conns
    BY <2>8 DEF Connect, Lose
  <2>9. ASSUME NEW n \in Node, RevokeCredential(n) \/ DeleteNode(n) \/ RestoreNode(n)
        PROVE  conns' = conns
    BY <2>9 DEF RevokeCredential, DeleteNode, RestoreNode
  <2> HIDE DEF Kept
  <2> QED
    BY <2>1, <2>2, <2>3, <2>4, <2>5, <2>6, <2>7, <2>8, <2>9 DEF Next, Environment
<1> QED
  BY <1>1, InitInv, TypeStep, PTL DEF Spec, NoResurrection
=============================================================================
