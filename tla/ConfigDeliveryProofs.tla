------------------------ MODULE ConfigDeliveryProofs ------------------------
(***************************************************************************)
(* ConfigDelivery for any nodes, connections, edits and bounds on          *)
(* versions.                                                               *)
(*                                                                         *)
(* First, it implements NodeLifecycle: configuration messages change       *)
(* nothing in how connections come, are served and go, and the theorems of *)
(* NodeLifecycleProofs carry over.                                         *)
(*                                                                         *)
(* Second, versions.  That an agent has all edits of the version it        *)
(* acknowledges, and no version is ahead of the server, rests on           *)
(* VersionInv: a handler writes its row before it bumps the version and    *)
(* reads the routes after it, so a message under a version has every edit  *)
(* bumped up to it; every message on its way and every state of an agent   *)
(* keeps that; and each bump gives a version nobody has named.             *)
(***************************************************************************)
EXTENDS ConfigDelivery, NodeLifecycleProofs

(* A handler of the admin API takes no lifecycle step.                     *)
LEMMA RequestStep == ASSUME NEW e \in Edit, Request(e) PROVE UNCHANGED vars
  BY DEF Request, Commit, Bump, RequestGivesUp, ReadRoutes, PushSnapshot, PushDelta

(* A step of a connection's task is a lifecycle step of it, or none.       *)
LEMMA TaskStep ==
    ASSUME NEW c \in Conn, Task(c)
    PROVE  Handshake(c) \/ Serving(c) \/ Cleanup(c) \/ UNCHANGED vars
<1>1. CASE (\E n \in Node : CAuthenticate(c, n)) \/ CSendSnapshot(c) \/ CSnapshotFails(c)
  BY <1>1 DEF CAuthenticate, CSendSnapshot, CSnapshotFails, Handshake
<1>2. CASE ServePush(c) \/ ServeAck(c) \/ ServeResync(c) \/ ServeResyncSend(c)
  BY <1>2 DEF ServePush, ServeAck, ServeResync, ServeResyncSend
<1>3. CASE CServeEnds(c)
  BY <1>3 DEF CServeEnds, Serving
<1>4. CASE OtherTaskStep(c)
  BY <1>4 DEF OtherTaskStep, Handshake, Serving
<1> QED
  BY <1>1, <1>2, <1>3, <1>4 DEF Task

(* Neither does an agent that handles a message take one.                  *)
LEMMA AgentStep == ASSUME NEW c \in Conn, AgentRuns(c) PROVE UNCHANGED vars
  BY DEF AgentRuns, AgentSnapshot, AgentUpdate

(* Every step of the composition is a step of the lifecycle or stutters.   *)
LEMMA LifecycleStep == [CNext]_cvars => [Next]_vars
<1>1. ASSUME CEnvironment PROVE Environment
  BY <1>1 DEF CEnvironment, Environment, CLose, CDeleteNode, CRestart
<1>2. ASSUME NEW c \in Conn, Task(c) PROVE [Next]_vars
  BY <1>2, TaskStep DEF Next
<1>3. UNCHANGED cvars => UNCHANGED vars
  BY DEF cvars
<1> QED
  BY <1>1, <1>2, <1>3, RequestStep, AgentStep DEF CNext, Next

(* The composition of API handlers, ConfigSync, control loops and agents   *)
(* implements the connection lifecycle.                                    *)
THEOREM Refinement == CSpec => ImplementsLifecycle
<1>1. CInit => Init
  BY DEF CInit
<1> QED
  BY <1>1, LifecycleStep, PTL DEF CSpec, Spec, ImplementsLifecycle

(* Hence, with configuration traffic as without it, no registry entry is   *)
(* left behind.                                                            *)
THEOREM EntriesAreOwnedWithConfig == CSpec => []NoDanglingEntry
  BY Refinement, EntriesAreOwned, PTL DEF ImplementsLifecycle

-----------------------------------------------------------------------------
(* Versions and routes.                                                    *)
(*                                                                         *)
(* AgentHasItsVersion speaks of what an agent has applied; the invariant   *)
(* below says the same of everything on its way there: what a handler has  *)
(* read and not yet pushed, the push channel and the control stream.  Two  *)
(* facts carry it.  A handler writes its row before it bumps and reads     *)
(* after it, so whoever reads version and then routes gets at least the    *)
(* edits of that version.  And every bump gives a version nobody has named *)
(* yet, so nothing that was complete becomes incomplete by a later one.    *)

DownMsg == [type : {"snapshot", "update"}, ver : Nat, have : SUBSET Edit]
UpMsg == [type : {"ack", "resync"}, ver : Nat]

ConfigTypes ==
    /\ committed \in SUBSET Edit
    /\ version \in [Node -> Nat]
    /\ applied \in [Node -> Nat]
    /\ req \in [Edit -> ReqSteps]
    /\ bumped \in [Edit -> Nat]
    /\ payload \in [Edit -> SUBSET Edit]
    /\ readVer \in [Conn -> Nat \cup {NoVer}]
    /\ queue \in [Conn -> Seq(DownMsg)]
    /\ down \in [Conn -> Seq(DownMsg)]
    /\ upq \in [Conn -> Seq(UpMsg)]
    /\ agent \in [Conn -> [run : BOOLEAN, ver : Nat, have : SUBSET Edit]]
    /\ acked \in [Conn -> Nat]

(* have contains the edits of n that b gives a version up to v.            *)
CoversIn(b, n, v, have) ==
    \A e \in Edit : EditNode[e] = n /\ b[e] \in 1..v => e \in have

(* A snapshot comes with the edits of its version and of all before it, an *)
(* update with the edit of its version.                                    *)
GoodMsg(b, n, m) ==
    /\ m.type = "snapshot" => CoversIn(b, n, m.ver, m.have)
    /\ m.type = "update" =>
           /\ m.ver >= 1
           /\ \A e \in Edit : EditNode[e] = n /\ b[e] = m.ver => e \in m.have

AllGood(b, n, s) == \A i \in 1..Len(s) : GoodMsg(b, n, s[i])
UpTo(v, s) == \A i \in 1..Len(s) : s[i].ver <= v

(* A version belongs to one edit of the node; the edit is in the routes    *)
(* table before it has one, and stays there while the node does.           *)
EditFacts(e) ==
    LET n == EditNode[e] IN
    /\ bumped[e] <= version[n]
    /\ req[e] \in {"idle", "bumpSnapshot", "bumpDelta"} => bumped[e] = 0
    /\ req[e] \in {"read", "pushSnapshot", "pushDelta"} => bumped[e] >= 1
    /\ status[n] # "absent" /\ (bumped[e] >= 1 \/ req[e] \in {"bumpSnapshot", "bumpDelta"})
           => e \in committed
    /\ status[n] # "absent" /\ req[e] = "pushSnapshot"
           => CoversIn(bumped, n, bumped[e], payload[e])
    /\ \A f \in Edit : EditNode[f] = n /\ bumped[e] >= 1 /\ bumped[f] = bumped[e] => f = e

(* Nothing has been said on a connection.                                  *)
Quiet(c) ==
    /\ queue[c] = <<>> /\ down[c] = <<>> /\ upq[c] = <<>>
    /\ ~agent[c].run /\ acked[c] = 0 /\ readVer[c] = NoVer

(* What a connection knows of the versions of its node ...                 *)
NamesVersions(c) ==
    LET v == version[node[c]] IN
    /\ readVer[c] <= v
    /\ acked[c] <= v
    /\ agent[c].run => agent[c].ver <= v
    /\ UpTo(v, queue[c]) /\ UpTo(v, down[c]) /\ UpTo(v, upq[c])

(* ... and of its routes.                                                  *)
HasRoutes(c) ==
    /\ agent[c].run => CoversIn(bumped, node[c], agent[c].ver, agent[c].have)
    /\ AllGood(bumped, node[c], queue[c])
    /\ AllGood(bumped, node[c], down[c])

ConnFacts(c) ==
    /\ pc[c] \in {"idle", "hello", "auth"} => node[c] = None
    /\ pc[c] = "authok" => readVer[c] # NoVer
    /\ node[c] = None => Quiet(c)
    /\ node[c] # None => NamesVersions(c)
    /\ node[c] # None /\ status[node[c]] # "absent" => HasRoutes(c)

VersionInv ==
    /\ \A e \in Edit : EditFacts(e)
    /\ \A c \in Conn : ConnFacts(c)
    /\ \A n \in Node : applied[n] <= version[n]

LifeInv == Typed /\ NoDanglingEntry

(* What every step does to versions: they go up, an edit gets one above all*)
(* that were there, and a deleted node stays deleted.                      *)
Later ==
    /\ \A n \in Node : version'[n] >= version[n]
    /\ \A n \in Node : status[n] = "absent" => status'[n] = "absent"
    /\ \A e \in Edit : bumped'[e] = bumped[e]
                       \/ (bumped[e] = 0 /\ bumped'[e] > version[EditNode[e]])

-----------------------------------------------------------------------------
(* Facts about messages.                                                   *)

(* Routes that cover a version still do after a later bump.                *)
LEMMA CoversLater ==
    ASSUME NEW n, NEW v \in Nat, NEW top \in Nat, v <= top, NEW have,
           NEW b \in [Edit -> Nat], NEW b2 \in [Edit -> Nat],
           \A e \in Edit : EditNode[e] = n
                => b2[e] = b[e] \/ (b[e] = 0 /\ b2[e] > top),
           CoversIn(b, n, v, have)
    PROVE  CoversIn(b2, n, v, have)
  BY DEF CoversIn

(* So do the messages in a queue.                                          *)
LEMMA GoodLater ==
    ASSUME NEW n, NEW top \in Nat, NEW s \in Seq(DownMsg), UpTo(top, s),
           NEW b \in [Edit -> Nat], NEW b2 \in [Edit -> Nat],
           \A e \in Edit : EditNode[e] = n
                => b2[e] = b[e] \/ (b[e] = 0 /\ b2[e] > top),
           AllGood(b, n, s)
    PROVE  AllGood(b2, n, s)
<1> SUFFICES ASSUME NEW i \in 1..Len(s) PROVE GoodMsg(b2, n, s[i])
  BY DEF AllGood
<1>1. s[i] \in DownMsg /\ s[i].ver <= top /\ GoodMsg(b, n, s[i])
  BY DEF AllGood, UpTo
<1>2. s[i].ver \in Nat
  BY <1>1 DEF DownMsg
<1>3. s[i].type = "snapshot" => CoversIn(b2, n, s[i].ver, s[i].have)
  BY <1>1, <1>2, CoversLater DEF GoodMsg
<1>4. ASSUME s[i].type = "update", NEW e \in Edit, EditNode[e] = n, b2[e] = s[i].ver
      PROVE  e \in s[i].have
  BY <1>1, <1>2, <1>4 DEF GoodMsg
<1> QED BY <1>1, <1>3, <1>4 DEF GoodMsg

(* Appending a good message and taking the first keep a queue good.        *)
LEMMA AppendGood ==
    ASSUME NEW n, NEW b, NEW s \in Seq(DownMsg), NEW m \in DownMsg,
           AllGood(b, n, s), GoodMsg(b, n, m)
    PROVE  AllGood(b, n, Append(s, m))
  BY DEF AllGood

(* The queue after the first message is taken, and that message.           *)
LEMMA TailGood ==
    ASSUME NEW n, NEW b, NEW s \in Seq(DownMsg), s # <<>>, AllGood(b, n, s)
    PROVE  AllGood(b, n, Tail(s)) /\ GoodMsg(b, n, Head(s)) /\ Head(s) \in DownMsg
  BY DEF AllGood

(* The same of the versions in a queue, in either direction.               *)
LEMMA AppendUpTo ==
    ASSUME NEW v \in Nat, NEW S, NEW s \in Seq(S), NEW m \in S, UpTo(v, s), m.ver <= v
    PROVE  UpTo(v, Append(s, m))
  BY DEF UpTo

(* The queue after the first message is taken, and its version.            *)
LEMMA TailUpTo ==
    ASSUME NEW v \in Nat, NEW S, NEW s \in Seq(S), s # <<>>, UpTo(v, s)
    PROVE  UpTo(v, Tail(s)) /\ Head(s).ver <= v /\ Head(s) \in S
  BY DEF UpTo

(* A bound on the versions is one for every later counter.                 *)
LEMMA UpToLater ==
    ASSUME NEW v \in Nat, NEW w \in Nat, v <= w, NEW S, NEW s \in Seq(S), UpTo(v, s),
           \A m \in S : m.ver \in Nat
    PROVE  UpTo(w, s)
<1> SUFFICES ASSUME NEW i \in 1..Len(s) PROVE s[i].ver <= w
  BY DEF UpTo
<1> QED BY s[i] \in S, s[i].ver \in Nat DEF UpTo

(* An empty queue says nothing.                                            *)
LEMMA EmptyGood ==
    ASSUME NEW n, NEW b, NEW v PROVE AllGood(b, n, <<>>) /\ UpTo(v, <<>>)
  BY DEF AllGood, UpTo

-----------------------------------------------------------------------------
(* One step.                                                               *)

CInv == LifeInv /\ ConfigTypes /\ VersionInv
Early == {"idle", "hello", "auth"}

(* What a connection knows stays true while it is left alone.              *)
LEMMA KeepConn ==
    ASSUME CInv, ConfigTypes', Later, NEW c \in Conn,
           node'[c] = node[c], queue'[c] = queue[c], down'[c] = down[c],
           upq'[c] = upq[c], agent'[c] = agent[c], acked'[c] = acked[c],
           readVer'[c] = readVer[c],
           pc'[c] \in Early => pc[c] \in Early,
           pc'[c] = "authok" => pc[c] = "authok"
    PROVE  ConnFacts(c)'
<1> DEFINE n == node[c]
<1>0. ConnFacts(c) /\ n \in Node \cup {None}
  BY DEF CInv, VersionInv, LifeInv, Typed, TypeOK
<1>1. (pc[c] \in {"idle", "hello", "auth"} => node[c] = None)'
  BY <1>0 DEF ConnFacts, Early
<1>2. (pc[c] = "authok" => readVer[c] # NoVer)' /\ (node[c] = None => Quiet(c))'
  BY <1>0 DEF ConnFacts, Quiet
<1>3. ASSUME n # None PROVE NamesVersions(c)'
  <2>1. /\ NamesVersions(c) /\ n \in Node
        /\ version[n] \in Nat /\ version'[n] \in Nat /\ version[n] <= version'[n]
        /\ readVer[c] \in Int /\ acked[c] \in Nat /\ agent[c].ver \in Nat
    BY <1>0, <1>3 DEF ConnFacts, ConfigTypes, CInv, Later, NoVer
  <2>2. queue[c] \in Seq(DownMsg) /\ down[c] \in Seq(DownMsg) /\ upq[c] \in Seq(UpMsg)
    BY DEF ConfigTypes, CInv
  <2>3. (\A m \in DownMsg : m.ver \in Nat) /\ (\A m \in UpMsg : m.ver \in Nat)
    BY DEF DownMsg, UpMsg
  <2>4. UpTo(version'[n], queue[c]) /\ UpTo(version'[n], down[c])
    BY <2>1, <2>2, <2>3, UpToLater DEF NamesVersions
  <2>5. UpTo(version'[n], upq[c])
    BY <2>1, <2>2, <2>3, UpToLater DEF NamesVersions
  <2> QED BY <2>1, <2>4, <2>5 DEF NamesVersions
<1>4. ASSUME n # None, status'[n] # "absent" PROVE HasRoutes(c)'
  <2>1. HasRoutes(c) /\ NamesVersions(c) /\ n \in Node /\ version[n] \in Nat
    BY <1>0, <1>4 DEF ConnFacts, ConfigTypes, CInv, Later
  <2>2. /\ bumped \in [Edit -> Nat] /\ bumped' \in [Edit -> Nat]
        /\ \A e \in Edit : EditNode[e] = n =>
               bumped'[e] = bumped[e] \/ (bumped[e] = 0 /\ bumped'[e] > version[n])
    BY DEF ConfigTypes, CInv, Later
  <2>3. /\ queue[c] \in Seq(DownMsg) /\ down[c] \in Seq(DownMsg)
        /\ agent[c].ver \in Nat
    BY DEF ConfigTypes, CInv
  <2>4. agent[c].run => CoversIn(bumped', n, agent[c].ver, agent[c].have)
    <3> SUFFICES ASSUME agent[c].run PROVE CoversIn(bumped', n, agent[c].ver, agent[c].have)
      OBVIOUS
    <3>1. agent[c].ver <= version[n] /\ CoversIn(bumped, n, agent[c].ver, agent[c].have)
      BY <2>1 DEF HasRoutes, NamesVersions
    <3> SUFFICES ASSUME NEW e \in Edit, EditNode[e] = n, bumped'[e] \in 1..agent[c].ver
                 PROVE  e \in agent[c].have
      BY DEF CoversIn
    <3>2. bumped'[e] = bumped[e]
      BY <3>1, <2>1, <2>2, <2>3
    <3> QED BY <3>1, <3>2 DEF CoversIn
  <2>5. AllGood(bumped', n, queue[c])
    BY <2>1, <2>2, <2>3, GoodLater DEF HasRoutes, NamesVersions
  <2>6. AllGood(bumped', n, down[c])
    BY <2>1, <2>2, <2>3, GoodLater DEF HasRoutes, NamesVersions
  <2> QED BY <2>4, <2>5, <2>6 DEF HasRoutes
<1> QED BY <1>1, <1>2, <1>3, <1>4 DEF ConnFacts

(* What is known of an edit stays true when no version is given and its    *)
(* handler only goes on to its end.                                        *)
LEMMA KeepEdit ==
    ASSUME CInv, ConfigTypes', Later, NEW e \in Edit,
           UNCHANGED <<version, bumped>>,
           payload'[e] = payload[e],
           req'[e] \in {req[e], "done"},
           status'[EditNode[e]] # "absent" /\ e \in committed => e \in committed'
    PROVE  EditFacts(e)'
<1>1. EditFacts(e) /\ EditNode[e] \in Node
  BY EditAssumption DEF CInv, VersionInv
<1>2. status'[EditNode[e]] # "absent" => status[EditNode[e]] # "absent"
  BY <1>1 DEF Later
<1> QED BY <1>1, <1>2 DEF EditFacts

(* A step that gives no version.                                           *)
LEMMA SameVersions ==
    ASSUME CInv, [Next]_vars, UNCHANGED <<version, bumped>> PROVE Later
<1> DEFINE Gone == \A n \in Node : status[n] = "absent" => status'[n] = "absent"
<1>1. Gone
  <2> USE DEF CInv, LifeInv, Typed, TypeOK, NodeKnown, registries, database, Counted, Cleaning
  <2>1. ASSUME NEW c \in Conn, Handshake(c) PROVE Gone
    BY <2>1 DEF Handshake, ReadHello, ProtocolError, Authenticate, AuthFail, RejectedClosed,
       HandshakeClosed, SendSnapshot, SnapshotFails, RegisterSession, SetNodeOnline,
       SetNodeOnlineFails, PublishOnline
  <2>2. ASSUME NEW c \in Conn, Serving(c) \/ Cleanup(c) PROVE Gone
    BY <2>2 DEF Serving, Cleanup, RegisterConn, RegisterPush, ServePeerClosed,
       ServeHeartbeatTimeout, ServeResyncFails, ServePushClosed, UnregisterPush,
       UnregisterConn, UnregisterSession, SetNodeOffline, SetNodeOfflineFails, PublishOffline
  <2>3. CASE Environment
    BY <2>3, NoRestoreAssumption DEF Environment, Connect, Lose, RevokeCredential, DeleteNode,
       RestoreNode, Restart
  <2> QED BY <2>1, <2>2, <2>3 DEF Next, vars
<1>2. version \in [Node -> Nat] /\ bumped \in [Edit -> Nat]
  BY DEF CInv, ConfigTypes
<1> QED BY <1>1, <1>2 DEF Later

(* What the lifecycle does to a connection the configuration does not see. *)
LEMMA SameConn ==
    ASSUME CInv, NEW c \in Conn,
           \/ OtherTaskStep(c)
           \/ CServeEnds(c)
           \/ CSnapshotFails(c) \/ CSendSnapshot(c)
           \/ Connect(c) \/ CLose(c)
    PROVE  /\ node' = node
           /\ \A d \in Conn : /\ pc'[d] \in Early => pc[d] \in Early
                              /\ pc'[d] = "authok" => pc[d] = "authok"
           /\ pc'[c] # "authok" \/ CLose(c)
<1> USE DEF CInv, LifeInv, Typed, TypeOK, Early, Go, registries, database
<1>1. CASE OtherTaskStep(c)
  <2>1. CASE ReadHello(c) \/ ProtocolError(c) \/ AuthFail(c) \/ RejectedClosed(c)
             \/ HandshakeClosed(c) \/ RegisterSession(c) \/ SetNodeOnline(c)
             \/ SetNodeOnlineFails(c) \/ PublishOnline(c) \/ RegisterConn(c)
             \/ RegisterPush(c)
    BY <2>1 DEF ReadHello, ProtocolError, AuthFail, RejectedClosed, HandshakeClosed,
       RegisterSession, SetNodeOnline, SetNodeOnlineFails, PublishOnline, RegisterConn,
       RegisterPush
  <2>2. CASE Cleanup(c)
    BY <2>2 DEF Cleanup, UnregisterPush, UnregisterConn, UnregisterSession, SetNodeOffline,
       SetNodeOfflineFails, PublishOffline
  <2> QED BY <1>1, <2>1, <2>2 DEF OtherTaskStep
<1>2. CASE CServeEnds(c)
  BY <1>2 DEF CServeEnds, ServePeerClosed, ServeHeartbeatTimeout, ServePushClosed,
     ServeResyncFails
<1>3. CASE CSnapshotFails(c) \/ CSendSnapshot(c)
  BY <1>3 DEF CSnapshotFails, CSendSnapshot, SnapshotFails, SendSnapshot
<1>4. CASE Connect(c) \/ CLose(c)
  BY <1>4 DEF Connect, CLose, Lose
<1> QED BY <1>1, <1>2, <1>3, <1>4

(* Connections that a step does not touch.                                 *)
LEMMA KeepConns ==
    ASSUME CInv, ConfigTypes', Later,
           UNCHANGED <<vars, readVer, streams, agent, acked>>
    PROVE  \A c \in Conn : ConnFacts(c)'
  BY KeepConn DEF vars, streams

(* The version of a node's row only follows what it acknowledged.          *)
LEMMA KeepApplied ==
    ASSUME CInv, Later, applied' = applied, ConfigTypes'
    PROVE  (\A n \in Node : applied[n] <= version[n])'
<1> SUFFICES ASSUME NEW n \in Node PROVE applied'[n] <= version'[n]
  OBVIOUS
<1>1. applied[n] <= version[n] /\ version[n] <= version'[n]
  BY DEF CInv, VersionInv, Later
<1> QED BY <1>1 DEF CInv, ConfigTypes

(* The routes table contains what has a version.                           *)
LEMMA RoutesCover ==
    ASSUME CInv, NEW n \in Node, status[n] # "absent", NEW v
    PROVE  CoversIn(bumped, n, v, RoutesOf(n)) /\ RoutesOf(n) \in SUBSET Edit
<1>1. ASSUME NEW e \in Edit, EditNode[e] = n, bumped[e] \in 1..v PROVE e \in RoutesOf(n)
  <2>1. EditFacts(e) /\ bumped[e] \in Nat
    BY DEF CInv, VersionInv, ConfigTypes
  <2>2. bumped[e] >= 1
    BY <1>1, <2>1
  <2> QED BY <1>1, <2>1, <2>2 DEF EditFacts, RoutesOf
<1>2. RoutesOf(n) \in SUBSET Edit
  BY DEF RoutesOf, CInv, ConfigTypes
<1> QED BY <1>1, <1>2 DEF CoversIn

(* The handler writes its row.                                             *)
LEMMA CommitStep ==
    ASSUME CInv, NEW e \in Edit, Commit(e) PROVE ConfigTypes' /\ VersionInv'
<1>1. ConfigTypes'
  BY PathsAssumption DEF CInv, ConfigTypes, Commit, ReqGo, ReqSteps, streams
<1>2. Later
  BY SameVersions DEF Commit
<1>3. \A c \in Conn : ConnFacts(c)'
  BY <1>1, <1>2, KeepConns DEF Commit, vars
<1>4. ASSUME NEW f \in Edit, f # e PROVE EditFacts(f)'
  <2>1. req'[f] = req[f] /\ payload' = payload /\ committed \subseteq committed'
    BY <1>4 DEF Commit, ReqGo, CInv, ConfigTypes
  <2> QED BY <1>1, <1>2, <2>1, KeepEdit DEF Commit
<1>5. EditFacts(e)'
  <2>1. /\ EditFacts(e) /\ req[e] = "idle" /\ req'[e] \in {"bumpSnapshot", "bumpDelta"}
        /\ e \in committed' /\ UNCHANGED <<version, bumped, payload, status>>
    BY PathsAssumption DEF CInv, VersionInv, ConfigTypes, Commit, ReqGo, vars, database
  <2> QED BY <2>1 DEF EditFacts
<1>6. applied' = applied
  BY DEF Commit
<1> QED BY <1>1, <1>2, <1>3, <1>4, <1>5, <1>6, KeepApplied DEF VersionInv

(* It takes the next version.                                              *)
LEMMA BumpStep ==
    ASSUME CInv, NEW e \in Edit, Bump(e) PROVE ConfigTypes' /\ VersionInv'
<1> DEFINE n == EditNode[e]
<1>0. n \in Node /\ version[n] \in Nat
  BY EditAssumption DEF CInv, ConfigTypes
<1>2. /\ req[e] \in {"bumpSnapshot", "bumpDelta"} /\ status[n] # "absent"
      /\ req' = [req EXCEPT ![e] = req'[e]] /\ req'[e] \in {"read", "pushDelta"}
      /\ version' = [version EXCEPT ![n] = version[n] + 1]
      /\ bumped' = [bumped EXCEPT ![e] = version[n] + 1]
      /\ UNCHANGED <<vars, committed, applied, payload, readVer, streams, agent, acked>>
  BY DEF Bump, ReqGo, CInv, ConfigTypes
<1>1. ConfigTypes'
  <2>1. version' \in [Node -> Nat] /\ bumped' \in [Edit -> Nat]
    BY <1>0, <1>2 DEF CInv, ConfigTypes
  <2>2. req' \in [Edit -> ReqSteps]
    BY DEF CInv, ConfigTypes, Bump, ReqGo, ReqSteps
  <2> QED BY <1>2, <2>1, <2>2 DEF CInv, ConfigTypes, streams
<1>3. status' = status
  BY <1>2 DEF vars, database
<1>4. EditFacts(e) /\ bumped[e] = 0 /\ e \in committed
  BY <1>2 DEF CInv, VersionInv, EditFacts
<1>5. Later
  BY <1>0, <1>2, <1>3, <1>4 DEF Later, CInv, ConfigTypes
<1>6. \A c \in Conn : ConnFacts(c)'
  BY <1>1, <1>2, <1>5, KeepConns
<1>7. ASSUME NEW f \in Edit, f # e PROVE EditFacts(f)'
  <2>1. /\ EditFacts(f) /\ EditNode[f] \in Node
        /\ bumped[f] \in Nat /\ bumped'[f] = bumped[f] /\ req'[f] = req[f]
        /\ version[EditNode[f]] \in Nat /\ version'[EditNode[f]] >= version[EditNode[f]]
        /\ version'[EditNode[f]] \in Nat
    BY <1>0, <1>2, <1>5, <1>7, <1>1, EditAssumption DEF CInv, VersionInv, ConfigTypes, Later
  <2>2. bumped'[f] <= version'[EditNode[f]]
    BY <2>1 DEF EditFacts
  <2>3. ASSUME NEW g \in Edit, EditNode[g] = EditNode[f], bumped'[f] >= 1,
               bumped'[g] = bumped'[f]
        PROVE  g = f
    <3>1. CASE g = e
      <4>1. bumped'[g] = version[EditNode[f]] + 1
        BY <1>2, <2>3, <3>1 DEF CInv, ConfigTypes
      <4> QED BY <4>1, <2>1, <2>3 DEF EditFacts
    <3>2. CASE g # e
      BY <1>2, <2>1, <2>3, <3>2 DEF EditFacts, CInv, ConfigTypes
    <3> QED BY <3>1, <3>2
  <2>4. status'[EditNode[f]] # "absent" /\ req'[f] = "pushSnapshot"
            => CoversIn(bumped', EditNode[f], bumped'[f], payload'[f])
    <3> SUFFICES ASSUME status[EditNode[f]] # "absent", req[f] = "pushSnapshot",
                        NEW g \in Edit, EditNode[g] = EditNode[f],
                        bumped'[g] \in 1..bumped[f]
                 PROVE  g \in payload[f]
      BY <1>2, <1>3, <2>1 DEF CoversIn
    <3>1. bumped'[g] = bumped[g]
      <4>1. CASE g = e
        BY <1>2, <2>1, <4>1 DEF EditFacts, CInv, ConfigTypes
      <4> QED BY <1>2, <4>1 DEF CInv, ConfigTypes
    <3> QED BY <2>1, <3>1 DEF EditFacts, CoversIn
  <2> QED BY <1>2, <1>3, <2>1, <2>2, <2>3, <2>4 DEF EditFacts
<1>8. EditFacts(e)'
  <2>1. bumped'[e] = version[n] + 1 /\ version'[n] = version[n] + 1
    BY <1>0, <1>2 DEF CInv, ConfigTypes
  <2>2. ASSUME NEW f \in Edit, EditNode[f] = n, f # e PROVE bumped'[f] # bumped'[e]
    BY <1>0, <1>2, <2>1, <2>2 DEF CInv, VersionInv, EditFacts, ConfigTypes
  <2> QED BY <1>0, <1>2, <1>3, <1>4, <2>1, <2>2 DEF EditFacts
<1> QED BY <1>1, <1>2, <1>5, <1>6, <1>7, <1>8, KeepApplied DEF VersionInv

(* It gives up.                                                            *)
LEMMA GivesUpStep ==
    ASSUME CInv, NEW e \in Edit, RequestGivesUp(e) PROVE ConfigTypes' /\ VersionInv'
<1>1. ConfigTypes'
  BY DEF CInv, ConfigTypes, RequestGivesUp, ReqSteps, streams, dbCfg
<1>2. Later
  BY SameVersions DEF RequestGivesUp, dbCfg
<1>3. \A c \in Conn : ConnFacts(c)'
  BY <1>1, <1>2, KeepConns DEF RequestGivesUp, vars
<1>4. ASSUME NEW f \in Edit PROVE EditFacts(f)'
  <2>1. /\ req'[f] \in {req[f], "done"} /\ payload' = payload
        /\ UNCHANGED <<version, bumped, committed>>
    BY DEF RequestGivesUp, CInv, ConfigTypes, dbCfg
  <2> QED BY <1>1, <1>2, <2>1, KeepEdit
<1>5. applied' = applied
  BY DEF RequestGivesUp, dbCfg
<1> QED BY <1>1, <1>2, <1>3, <1>4, <1>5, KeepApplied DEF VersionInv

(* It reads the routes for its snapshot, after its bump.                   *)
LEMMA ReadStep ==
    ASSUME CInv, NEW e \in Edit, ReadRoutes(e) PROVE ConfigTypes' /\ VersionInv'
<1> DEFINE n == EditNode[e]
<1>0. n \in Node /\ RoutesOf(n) \in SUBSET Edit
  BY EditAssumption DEF RoutesOf, CInv, ConfigTypes
<1>1. ConfigTypes'
  BY <1>0 DEF CInv, ConfigTypes, ReadRoutes, ReqGo, ReqSteps, streams, dbCfg
<1>2. Later
  BY SameVersions DEF ReadRoutes, dbCfg
<1>3. \A c \in Conn : ConnFacts(c)'
  BY <1>1, <1>2, KeepConns DEF ReadRoutes, vars
<1>4. ASSUME NEW f \in Edit, f # e PROVE EditFacts(f)'
  <2>1. /\ req'[f] = req[f] /\ payload'[f] = payload[f]
        /\ UNCHANGED <<version, bumped, committed>>
    BY <1>4 DEF ReadRoutes, ReqGo, CInv, ConfigTypes, dbCfg
  <2> QED BY <1>1, <1>2, <2>1, KeepEdit
<1>5. EditFacts(e)'
  <2>1. /\ EditFacts(e) /\ req[e] = "read" /\ req'[e] = "pushSnapshot"
        /\ payload'[e] = RoutesOf(n)
        /\ UNCHANGED <<version, bumped, committed, status>>
    BY DEF CInv, VersionInv, ConfigTypes, ReadRoutes, ReqGo, vars, database, dbCfg
  <2>2. status[n] # "absent" => CoversIn(bumped, n, bumped[e], RoutesOf(n))
    BY <1>0, RoutesCover
  <2> QED BY <2>1, <2>2 DEF EditFacts
<1>6. applied' = applied
  BY DEF ReadRoutes, dbCfg
<1> QED BY <1>1, <1>2, <1>3, <1>4, <1>5, <1>6, KeepApplied DEF VersionInv

(* What the connections of a node may be sent.                             *)
SendOk(n, m) ==
    /\ m \in DownMsg /\ m.ver <= version[n]
    /\ status[n] # "absent" => GoodMsg(bumped, n, m)

(* The handler pushes a message to the connection that has the channel.    *)
LEMMA PushStep ==
    ASSUME CInv, NEW e \in Edit, NEW m, SendOk(EditNode[e], m), PushTo(e, m),
           UNCHANGED <<vars, dbCfg, bumped, payload, readVer, down, upq, agent, acked>>,
           req' = [req EXCEPT ![e] = "done"]
    PROVE  ConfigTypes' /\ VersionInv'
<1> DEFINE n == EditNode[e]
           c == push[n]
           open == c # None /\ pc[c] = "serve"
<1>0. n \in Node /\ version[n] \in Nat /\ bumped \in [Edit -> Nat]
  BY EditAssumption DEF CInv, ConfigTypes
<1>1. open => c \in Conn /\ node[c] = n /\ queue[c] \in Seq(DownMsg)
  BY <1>0, NoneAssumption DEF CInv, LifeInv, NoDanglingEntry, Live, ConfigTypes
<1>2. queue' = IF open THEN [queue EXCEPT ![c] = Append(queue[c], m)] ELSE queue
  BY DEF PushTo
<1>3. ConfigTypes'
  <2>1. queue' \in [Conn -> Seq(DownMsg)]
    BY <1>1, <1>2 DEF CInv, ConfigTypes, SendOk
  <2>2. req' \in [Edit -> ReqSteps]
    BY DEF CInv, ConfigTypes, ReqSteps
  <2> QED BY <2>1, <2>2 DEF CInv, ConfigTypes, dbCfg
<1>4. Later
  BY SameVersions DEF dbCfg
<1>5. ASSUME NEW d \in Conn PROVE ConnFacts(d)'
  <2>1. CASE ~(open /\ d = c)
    BY <1>1, <1>2, <1>3, <1>4, <2>1, KeepConn DEF vars, CInv, ConfigTypes
  <2>2. CASE open /\ d = c
    <3>1. /\ ConnFacts(d) /\ queue'[d] = Append(queue[d], m) /\ queue[d] \in Seq(DownMsg)
          /\ node[d] = n /\ node[d] # None
          /\ UNCHANGED <<pc, node, status, version>>
      BY <1>0, <1>1, <1>2, <2>2, NoneAssumption
      DEF CInv, VersionInv, vars, dbCfg, ConfigTypes, database
    <3>2. UpTo(version[n], queue'[d])
      BY <3>1, <1>0, AppendUpTo DEF ConnFacts, NamesVersions, SendOk
    <3>3. status[n] # "absent" => AllGood(bumped, n, queue'[d])
      BY <3>1, <1>0, AppendGood DEF ConnFacts, HasRoutes, SendOk
    <3>4. NamesVersions(d)'
      BY <3>1, <3>2 DEF ConnFacts, NamesVersions
    <3>5. status[n] # "absent" => HasRoutes(d)'
      BY <3>1, <3>3 DEF ConnFacts, HasRoutes
    <3> QED BY <3>1, <3>4, <3>5 DEF ConnFacts
  <2> QED BY <2>1, <2>2
<1>6. ASSUME NEW f \in Edit PROVE EditFacts(f)'
  <2>1. /\ req'[f] \in {req[f], "done"} /\ payload' = payload
        /\ UNCHANGED <<version, bumped, committed>>
    BY DEF CInv, ConfigTypes, dbCfg
  <2> QED BY <1>3, <1>4, <2>1, KeepEdit
<1>7. applied' = applied
  BY DEF dbCfg
<1> QED BY <1>3, <1>4, <1>5, <1>6, <1>7, KeepApplied DEF VersionInv

(* A snapshot it read, or the delta of its edit.                           *)
LEMMA PushesStep ==
    ASSUME CInv, NEW e \in Edit, PushSnapshot(e) \/ PushDelta(e)
    PROVE  ConfigTypes' /\ VersionInv'
<1> DEFINE n == EditNode[e]
<1>0. EditFacts(e) /\ bumped[e] \in Nat /\ payload[e] \in SUBSET Edit
  BY DEF CInv, VersionInv, ConfigTypes
<1>1. CASE PushSnapshot(e)
  <2> DEFINE m == Snapshot(bumped[e], payload[e])
  <2>1. req[e] = "pushSnapshot" /\ req' = [req EXCEPT ![e] = "done"]
    BY <1>1 DEF PushSnapshot, ReqGo
  <2>2. SendOk(n, m)
    BY <1>0, <2>1 DEF SendOk, Snapshot, DownMsg, GoodMsg, EditFacts
  <2>3. /\ PushTo(e, m)
        /\ UNCHANGED <<vars, dbCfg, bumped, payload, readVer, down, upq, agent, acked>>
    BY <1>1 DEF PushSnapshot
  <2> HIDE DEF m
  <2> QED BY <2>1, <2>2, <2>3, PushStep
<1>2. CASE PushDelta(e)
  <2> DEFINE m == Update(bumped[e], e)
  <2>1. req[e] = "pushDelta" /\ req' = [req EXCEPT ![e] = "done"]
    BY <1>2 DEF PushDelta, ReqGo
  <2>2. SendOk(n, m)
    BY <1>0, <2>1 DEF SendOk, Update, DownMsg, GoodMsg, EditFacts
  <2>3. /\ PushTo(e, m)
        /\ UNCHANGED <<vars, dbCfg, bumped, payload, readVer, down, upq, agent, acked>>
    BY <1>2 DEF PushDelta
  <2> HIDE DEF m
  <2> QED BY <2>1, <2>2, <2>3, PushStep
<1> QED BY <1>1, <1>2

(* Any step of a handler.                                                  *)
LEMMA RequestKeeps ==
    ASSUME CInv, NEW e \in Edit, Request(e) PROVE ConfigTypes' /\ VersionInv'
  BY CommitStep, BumpStep, GivesUpStep, ReadStep, PushesStep DEF Request

-----------------------------------------------------------------------------
(* Steps of one connection.                                                *)

(* They leave the edits and the other connections alone.                   *)
LEMMA OneConn ==
    ASSUME CInv, ConfigTypes', Later, NEW c \in Conn,
           UNCHANGED <<committed, version, applied, reqVars, node>>,
           \A d \in Conn \ {c} :
               /\ queue'[d] = queue[d] /\ down'[d] = down[d] /\ upq'[d] = upq[d]
               /\ agent'[d] = agent[d] /\ acked'[d] = acked[d] /\ readVer'[d] = readVer[d]
               /\ pc'[d] = pc[d],
           ConnFacts(c)'
    PROVE  VersionInv'
<1>1. ASSUME NEW d \in Conn, d # c PROVE ConnFacts(d)'
  BY <1>1, KeepConn
<1>2. ASSUME NEW f \in Edit PROVE EditFacts(f)'
  BY KeepEdit DEF reqVars
<1> QED BY <1>1, <1>2, KeepApplied DEF VersionInv

(* The facts about a connection that says or hears something.              *)
LEMMA Talks ==
    ASSUME CInv, NEW c \in Conn, node[c] \in Node, node'[c] = node[c],
           UNCHANGED <<version, bumped, status>>,
           pc'[c] \notin Early, pc'[c] = "authok" => readVer'[c] # NoVer,
           NamesVersions(c)',
           status[node[c]] # "absent" => HasRoutes(c)'
    PROVE  ConnFacts(c)'
  BY NoneAssumption DEF ConnFacts, Early

(* What is written to the control stream.                                  *)
LEMMA SendKeeps ==
    ASSUME CInv, NEW c \in Conn, node[c] \in Node, NEW m, SendOk(node[c], m), Send(c, m)
    PROVE  /\ down' \in [Conn -> Seq(DownMsg)]
           /\ \A d \in Conn \ {c} : down'[d] = down[d]
           /\ UpTo(version[node[c]], down'[c])
           /\ status[node[c]] # "absent" => AllGood(bumped, node[c], down'[c])
<1> DEFINE n == node[c]
<1>1. down[c] \in Seq(DownMsg) /\ version[n] \in Nat /\ node[c] # None
  BY NoneAssumption DEF CInv, ConfigTypes
<1>2. /\ UpTo(version[n], down[c])
      /\ status[n] # "absent" => AllGood(bumped, n, down[c])
  BY <1>1 DEF CInv, VersionInv, ConnFacts, NamesVersions, HasRoutes
<1>3. UpTo(version[n], Append(down[c], m))
  BY <1>1, <1>2, AppendUpTo DEF SendOk
<1>4. status[n] # "absent" => AllGood(bumped, n, Append(down[c], m))
  BY <1>1, <1>2, AppendGood DEF SendOk
<1>5. \/ down' = down
      \/ down' = [down EXCEPT ![c] = Append(down[c], m)]
  BY DEF Send
<1>6. Append(down[c], m) \in Seq(DownMsg)
  BY <1>1 DEF SendOk
<1> QED BY <1>2, <1>3, <1>4, <1>5, <1>6 DEF CInv, ConfigTypes

(* A snapshot of a version read before and of routes read now.             *)
LEMMA SnapshotOk ==
    ASSUME CInv, NEW c \in Conn, node[c] \in Node, readVer[c] # NoVer
    PROVE  SendOk(node[c], Snapshot(readVer[c], RoutesOf(node[c])))
<1>1. readVer[c] \in Nat /\ readVer[c] <= version[node[c]]
  BY NoneAssumption DEF CInv, VersionInv, ConnFacts, NamesVersions, ConfigTypes
<1>2. RoutesOf(node[c]) \in SUBSET Edit
  BY DEF RoutesOf, CInv, ConfigTypes
<1>3. status[node[c]] # "absent" => CoversIn(bumped, node[c], readVer[c], RoutesOf(node[c]))
  BY RoutesCover
<1> QED BY <1>1, <1>2, <1>3 DEF SendOk, Snapshot, DownMsg, GoodMsg

(* Authentication reads the version.                                       *)
LEMMA AuthenticateStep ==
    ASSUME CInv, NEW c \in Conn, NEW n \in Node, CAuthenticate(c, n)
    PROVE  ConfigTypes' /\ VersionInv'
<1>1. /\ pc[c] = "auth" /\ pc' = [pc EXCEPT ![c] = "authok"]
      /\ node' = [node EXCEPT ![c] = n] /\ readVer' = [readVer EXCEPT ![c] = version[n]]
      /\ UNCHANGED <<dbCfg, reqVars, streams, agent, acked, status>>
  BY DEF CAuthenticate, Authenticate, Go, database
<1>2. ConfigTypes'
  BY <1>1 DEF CInv, ConfigTypes, dbCfg, reqVars, streams
<1>3. Later
  BY <1>1 DEF Later, CInv, ConfigTypes, dbCfg, reqVars
<1>4. Quiet(c) /\ ConnFacts(c) /\ version[n] \in Nat /\ readVer'[c] = version[n]
  BY <1>1 DEF CInv, VersionInv, ConnFacts, ConfigTypes
<1>5. ConnFacts(c)'
  <2>1. pc'[c] = "authok" /\ node'[c] = n /\ readVer'[c] # NoVer /\ n # None
    BY <1>1, <1>4, NoneAssumption DEF CInv, LifeInv, Typed, TypeOK, NoVer
  <2>2. NamesVersions(c)'
    BY <2>1, <1>1, <1>4, EmptyGood DEF NamesVersions, Quiet, dbCfg, streams
  <2>3. HasRoutes(c)'
    BY <2>1, <1>1, <1>4, EmptyGood DEF HasRoutes, Quiet, streams
  <2> QED BY <2>1, <2>2, <2>3 DEF ConnFacts
<1>6. ASSUME NEW d \in Conn, d # c PROVE ConnFacts(d)'
  <2>1. node'[d] = node[d] /\ pc'[d] = pc[d] /\ readVer'[d] = readVer[d]
    BY <1>1, <1>6 DEF CInv, LifeInv, Typed, TypeOK, ConfigTypes
  <2> QED BY <1>1, <1>2, <1>3, <2>1, KeepConn DEF streams
<1>7. ASSUME NEW e \in Edit PROVE EditFacts(e)'
  BY <1>1, <1>2, <1>3, KeepEdit DEF dbCfg, reqVars
<1> QED BY <1>1, <1>2, <1>3, <1>5, <1>6, <1>7, KeepApplied DEF VersionInv, dbCfg

(* A snapshot is sent, in the handshake or for a resynchronisation.        *)
LEMMA SnapshotStep ==
    ASSUME CInv, NEW c \in Conn, CSendSnapshot(c) \/ ServeResyncSend(c)
    PROVE  ConfigTypes' /\ VersionInv'
<1> DEFINE n == node[c]
           m == Snapshot(readVer[c], RoutesOf(n))
<1>1. /\ pc[c] \in {"authok", "serve"} /\ pc'[c] \in {"register", "serve"}
      /\ \A d \in Conn \ {c} : pc'[d] = pc[d]
      /\ Send(c, m) /\ readVer' = [readVer EXCEPT ![c] = NoVer]
      /\ readVer[c] # NoVer
      /\ UNCHANGED <<dbCfg, reqVars, queue, upq, agent, acked, node, status>>
  BY DEF CSendSnapshot, SendSnapshot, ServeResyncSend, Go, vars, database, CInv, LifeInv,
     Typed, TypeOK, VersionInv, ConnFacts
<1>2. n \in Node /\ ConnFacts(c) /\ n # None
  BY <1>1, NoneAssumption DEF CInv, LifeInv, Typed, NodeKnown, Counted, VersionInv
<1>3. SendOk(n, m)
  BY <1>1, <1>2, SnapshotOk
<1> HIDE DEF m
<1>4. /\ down' \in [Conn -> Seq(DownMsg)]
      /\ \A d \in Conn \ {c} : down'[d] = down[d]
      /\ UpTo(version[n], down'[c])
      /\ status[n] # "absent" => AllGood(bumped, n, down'[c])
  BY <1>1, <1>2, <1>3, SendKeeps
<1>5. ConfigTypes'
  BY <1>1, <1>4 DEF CInv, ConfigTypes, dbCfg, reqVars
<1>6. Later
  BY <1>1 DEF Later, CInv, ConfigTypes, dbCfg, reqVars
<1>7. readVer'[c] = NoVer /\ version[n] \in Nat
  BY <1>1, <1>2 DEF CInv, ConfigTypes
<1>8. NamesVersions(c)'
  <2>1. NoVer <= version[n]
    BY <1>7 DEF NoVer
  <2> QED BY <1>1, <1>2, <1>4, <1>7, <2>1 DEF ConnFacts, NamesVersions, dbCfg
<1>9. status[n] # "absent" => HasRoutes(c)'
  BY <1>1, <1>2, <1>4 DEF ConnFacts, HasRoutes, reqVars
<1>10. ConnFacts(c)'
  BY <1>1, <1>2, <1>8, <1>9, Talks DEF Early, dbCfg, reqVars
<1>11. \A d \in Conn \ {c} : readVer'[d] = readVer[d]
  BY <1>1 DEF CInv, ConfigTypes
<1>12. UNCHANGED <<committed, version, applied, reqVars, node>>
  BY <1>1 DEF dbCfg
<1>13. VersionInv'
  BY <1>1, <1>4, <1>5, <1>6, <1>10, <1>11, <1>12, OneConn
<1> QED BY <1>5, <1>13

(* The task ends before it serves, or at the end of its loop.              *)
LEMMA EndsStep ==
    ASSUME CInv, NEW c \in Conn, CSnapshotFails(c) \/ CServeEnds(c)
    PROVE  ConfigTypes' /\ VersionInv'
<1> DEFINE n == node[c]
<1>1. /\ pc[c] \in {"authok", "serve"} /\ pc'[c] \in {"done", "unpush"}
      /\ \A d \in Conn \ {c} : pc'[d] = pc[d]
      /\ readVer' = [readVer EXCEPT ![c] = NoVer]
      /\ queue' = queue \/ queue' = [queue EXCEPT ![c] = <<>>]
      /\ UNCHANGED <<dbCfg, reqVars, down, upq, agent, acked, node, status>>
  <2> USE DEF CInv, LifeInv, Typed, TypeOK, Go, database
  <2>1. CASE CSnapshotFails(c)
    BY <2>1 DEF CSnapshotFails, SnapshotFails, streams
  <2>2. CASE CServeEnds(c)
    BY <2>2 DEF CServeEnds, ServePeerClosed, ServeHeartbeatTimeout, ServePushClosed,
       ServeResyncFails
  <2> QED BY <2>1, <2>2
<1>2. n \in Node /\ ConnFacts(c) /\ n # None
  BY <1>1, NoneAssumption DEF CInv, LifeInv, Typed, NodeKnown, Counted, VersionInv
<1>3. /\ queue'[c] \in {queue[c], <<>>} /\ queue' \in [Conn -> Seq(DownMsg)]
      /\ \A d \in Conn \ {c} : queue'[d] = queue[d]
  <2>1. queue \in [Conn -> Seq(DownMsg)] /\ <<>> \in Seq(DownMsg)
    BY DEF CInv, ConfigTypes
  <2>2. CASE queue' = queue
    BY <2>1, <2>2
  <2>3. CASE queue' = [queue EXCEPT ![c] = <<>>]
    BY <2>1, <2>3
  <2> QED BY <1>1, <2>2, <2>3
<1>4. /\ UpTo(version[n], queue'[c])
      /\ status[n] # "absent" => AllGood(bumped, n, queue'[c])
  BY <1>2, <1>3, EmptyGood DEF ConnFacts, NamesVersions, HasRoutes
<1>5. ConfigTypes'
  BY <1>1, <1>3 DEF CInv, ConfigTypes, dbCfg, reqVars
<1>6. Later
  BY <1>1 DEF Later, CInv, ConfigTypes, dbCfg, reqVars
<1>7. readVer'[c] = NoVer /\ version[n] \in Nat
  BY <1>1, <1>2 DEF CInv, ConfigTypes
<1>8. NamesVersions(c)'
  <2>1. NoVer <= version[n]
    BY <1>7 DEF NoVer
  <2> QED BY <1>1, <1>2, <1>4, <1>7, <2>1 DEF ConnFacts, NamesVersions, dbCfg
<1>9. status[n] # "absent" => HasRoutes(c)'
  BY <1>1, <1>2, <1>4 DEF ConnFacts, HasRoutes, reqVars
<1>10. ConnFacts(c)'
  BY <1>1, <1>2, <1>8, <1>9, Talks DEF Early, dbCfg, reqVars
<1>11. \A d \in Conn \ {c} : readVer'[d] = readVer[d]
  BY <1>1 DEF CInv, ConfigTypes
<1>12. UNCHANGED <<committed, version, applied, reqVars, node>>
  BY <1>1 DEF dbCfg
<1>13. VersionInv'
  BY <1>1, <1>3, <1>5, <1>6, <1>10, <1>11, <1>12, OneConn
<1> QED BY <1>5, <1>13

(* The control loop writes a pushed message to the stream.                 *)
LEMMA ServePushStep ==
    ASSUME CInv, NEW c \in Conn, ServePush(c) PROVE ConfigTypes' /\ VersionInv'
<1> DEFINE n == node[c]
           m == Head(queue[c])
<1>1. /\ pc[c] = "serve" /\ queue[c] # <<>> /\ Send(c, m)
      /\ queue' = [queue EXCEPT ![c] = Tail(queue[c])]
      /\ UNCHANGED <<vars, dbCfg, reqVars, readVer, upq, agent, acked>>
  BY DEF ServePush, Selecting
<1>2. /\ n \in Node /\ ConnFacts(c) /\ n # None
      /\ queue[c] \in Seq(DownMsg) /\ version[n] \in Nat
  BY <1>1, NoneAssumption DEF CInv, LifeInv, Typed, NodeKnown, Counted, VersionInv,
     ConfigTypes
<1>3. /\ UpTo(version[n], Tail(queue[c])) /\ m.ver <= version[n] /\ m \in DownMsg
      /\ Tail(queue[c]) \in Seq(DownMsg)
  BY <1>1, <1>2, TailUpTo DEF ConnFacts, NamesVersions
<1>4. status[n] # "absent" =>
          AllGood(bumped, n, Tail(queue[c])) /\ GoodMsg(bumped, n, m)
  BY <1>1, <1>2, TailGood DEF ConnFacts, HasRoutes
<1>5. SendOk(n, m)
  BY <1>3, <1>4 DEF SendOk
<1>6. queue'[c] = Tail(queue[c]) /\ \A d \in Conn \ {c} : queue'[d] = queue[d]
  BY <1>1 DEF CInv, ConfigTypes
<1> HIDE DEF m
<1>7. /\ down' \in [Conn -> Seq(DownMsg)]
      /\ \A d \in Conn \ {c} : down'[d] = down[d]
      /\ UpTo(version[n], down'[c])
      /\ status[n] # "absent" => AllGood(bumped, n, down'[c])
  BY <1>1, <1>2, <1>5, SendKeeps
<1>8. ConfigTypes'
  <2>1. queue' \in [Conn -> Seq(DownMsg)]
    BY <1>1, <1>3 DEF CInv, ConfigTypes
  <2> QED BY <1>1, <1>7, <2>1 DEF CInv, ConfigTypes, dbCfg, reqVars
<1>9. Later
  BY <1>1, SameVersions DEF dbCfg, reqVars
<1>10. UNCHANGED <<pc, node, status, committed, version, applied, bumped>>
  BY <1>1 DEF vars, dbCfg, reqVars, database
<1>11. NamesVersions(c)'
  BY <1>1, <1>2, <1>3, <1>6, <1>7, <1>10 DEF ConnFacts, NamesVersions
<1>12. status[n] # "absent" => HasRoutes(c)'
  BY <1>1, <1>2, <1>4, <1>6, <1>7, <1>10 DEF ConnFacts, HasRoutes
<1>13. ConnFacts(c)'
  BY <1>1, <1>2, <1>10, <1>11, <1>12, Talks DEF Early
<1>14. VersionInv'
  BY <1>1, <1>6, <1>7, <1>8, <1>9, <1>10, <1>13, OneConn
<1> QED BY <1>8, <1>14

(* CONFIG_ACK: the version goes to the session the node has now, which may *)
(* be that of another connection of the node, and to the database.         *)
LEMMA ServeAckStep ==
    ASSUME CInv, NEW c \in Conn, ServeAck(c) PROVE ConfigTypes' /\ VersionInv'
<1> DEFINE n == node[c]
           v == Head(upq[c]).ver
           s == sessions[n]
<1>1. /\ pc[c] = "serve" /\ upq[c] # <<>>
      /\ upq' = [upq EXCEPT ![c] = Tail(upq[c])]
      /\ acked' = IF s = None THEN acked ELSE [acked EXCEPT ![s] = v]
      /\ applied' = applied \/ applied' = [applied EXCEPT ![n] = v]
      /\ UNCHANGED <<vars, committed, version, reqVars, readVer, queue, down, agent>>
  BY DEF ServeAck, Selecting
<1>2. /\ n \in Node /\ ConnFacts(c) /\ n # None
      /\ upq[c] \in Seq(UpMsg) /\ version[n] \in Nat
  BY <1>1, NoneAssumption DEF CInv, LifeInv, Typed, NodeKnown, Counted, VersionInv,
     ConfigTypes
<1>3. /\ UpTo(version[n], Tail(upq[c])) /\ v <= version[n] /\ Head(upq[c]) \in UpMsg
      /\ Tail(upq[c]) \in Seq(UpMsg)
  BY <1>1, <1>2, TailUpTo DEF ConnFacts, NamesVersions
<1>4. v \in Nat
  BY <1>3 DEF UpMsg
<1>5. s # None => s \in Conn /\ node[s] = n
  BY <1>2, NoneAssumption DEF CInv, LifeInv, NoDanglingEntry, Live
<1> HIDE DEF v, s
<1>6. /\ \A d \in Conn : acked'[d] = acked[d] \/ (acked'[d] = v /\ node[d] = n)
      /\ acked' \in [Conn -> Nat]
  BY <1>1, <1>4, <1>5 DEF CInv, ConfigTypes
<1>7. /\ upq' \in [Conn -> Seq(UpMsg)] /\ upq'[c] = Tail(upq[c])
      /\ \A d \in Conn \ {c} : upq'[d] = upq[d]
  BY <1>1, <1>3 DEF CInv, ConfigTypes
<1>8. /\ applied' \in [Node -> Nat]
      /\ \A k \in Node : applied'[k] = applied[k] \/ (applied'[k] = v /\ k = n)
  BY <1>1, <1>2, <1>4 DEF CInv, ConfigTypes
<1>9. ConfigTypes'
  BY <1>1, <1>6, <1>7, <1>8 DEF CInv, ConfigTypes, reqVars
<1>10. Later
  BY <1>1, SameVersions DEF reqVars
<1>11. UNCHANGED <<pc, node, status, bumped, payload, req>>
  BY <1>1 DEF vars, reqVars, database
<1>12. ASSUME NEW d \in Conn PROVE ConnFacts(d)'
  <2>1. ConnFacts(d) /\ node[d] \in Node \cup {None}
    BY DEF CInv, VersionInv, LifeInv, Typed, TypeOK
  <2>2. CASE node[d] = None
    <3>1. d # c /\ acked'[d] = acked[d]
      BY <1>2, <1>6, <2>2
    <3> QED BY <1>1, <1>7, <1>9, <1>10, <1>11, <3>1, KeepConn
  <2>3. CASE node[d] # None
    <3>1. NamesVersions(d) /\ acked'[d] <= version[node[d]]
      BY <1>3, <1>6, <2>1, <2>3 DEF ConnFacts, NamesVersions
    <3>2. UpTo(version[node[d]], upq'[d])
      BY <1>3, <1>7, <3>1 DEF NamesVersions
    <3>3. NamesVersions(d)'
      BY <1>1, <1>11, <3>1, <3>2 DEF NamesVersions
    <3>4. status[node[d]] # "absent" => HasRoutes(d)'
      BY <1>1, <1>11, <2>1, <2>3 DEF ConnFacts, HasRoutes
    <3> QED BY <1>1, <1>11, <2>1, <2>3, <3>3, <3>4 DEF ConnFacts
  <2> QED BY <2>2, <2>3
<1>13. ASSUME NEW e \in Edit PROVE EditFacts(e)'
  BY <1>1, <1>9, <1>10, <1>11, KeepEdit
<1>14. ASSUME NEW k \in Node PROVE applied'[k] <= version'[k]
  BY <1>1, <1>3, <1>8 DEF CInv, VersionInv
<1> QED BY <1>9, <1>12, <1>13, <1>14 DEF VersionInv

(* CONFIG_RESYNC reads the version.                                        *)
LEMMA ServeResyncStep ==
    ASSUME CInv, NEW c \in Conn, ServeResync(c) PROVE ConfigTypes' /\ VersionInv'
<1> DEFINE n == node[c]
<1>1. /\ pc[c] = "serve" /\ upq[c] # <<>>
      /\ upq' = [upq EXCEPT ![c] = Tail(upq[c])]
      /\ readVer' = [readVer EXCEPT ![c] = version[n]]
      /\ UNCHANGED <<vars, dbCfg, reqVars, queue, down, agent, acked>>
  BY DEF ServeResync, Selecting
<1>2. /\ n \in Node /\ ConnFacts(c) /\ n # None
      /\ upq[c] \in Seq(UpMsg) /\ version[n] \in Nat
  BY <1>1, NoneAssumption DEF CInv, LifeInv, Typed, NodeKnown, Counted, VersionInv,
     ConfigTypes
<1>3. UpTo(version[n], Tail(upq[c])) /\ Tail(upq[c]) \in Seq(UpMsg)
  BY <1>1, <1>2, TailUpTo DEF ConnFacts, NamesVersions
<1>4. /\ upq' \in [Conn -> Seq(UpMsg)] /\ upq'[c] = Tail(upq[c])
      /\ \A d \in Conn \ {c} : upq'[d] = upq[d]
  BY <1>1, <1>3 DEF CInv, ConfigTypes
<1>5. /\ readVer' \in [Conn -> Nat \cup {NoVer}] /\ readVer'[c] = version[n]
      /\ \A d \in Conn \ {c} : readVer'[d] = readVer[d]
  BY <1>1, <1>2 DEF CInv, ConfigTypes
<1>6. ConfigTypes'
  BY <1>1, <1>4, <1>5 DEF CInv, ConfigTypes, reqVars, dbCfg
<1>7. Later
  BY <1>1, SameVersions DEF reqVars, dbCfg
<1>8. UNCHANGED <<pc, node, status, committed, version, applied, bumped>>
  BY <1>1 DEF vars, dbCfg, reqVars, database
<1>9. NamesVersions(c)'
  BY <1>1, <1>2, <1>3, <1>4, <1>5, <1>8 DEF ConnFacts, NamesVersions
<1>10. status[n] # "absent" => HasRoutes(c)'
  BY <1>1, <1>2, <1>8 DEF ConnFacts, HasRoutes
<1>11. ConnFacts(c)'
  BY <1>1, <1>2, <1>8, <1>9, <1>10, Talks DEF Early
<1>12. VersionInv'
  BY <1>1, <1>4, <1>5, <1>6, <1>7, <1>8, <1>11, OneConn
<1> QED BY <1>6, <1>12

(* The agent takes a snapshot, applies an update, or asks for a resync.    *)
LEMMA AgentKeeps ==
    ASSUME CInv, NEW c \in Conn, AgentRuns(c) PROVE ConfigTypes' /\ VersionInv'
<1> DEFINE n == node[c]
           m == Head(down[c])
           A == [run : BOOLEAN, ver : Nat, have : SUBSET Edit]
<1>1. /\ down[c] # <<>>
      /\ down' = [down EXCEPT ![c] = Tail(down[c])]
      /\ UNCHANGED <<vars, dbCfg, reqVars, readVer, queue, acked>>
      /\ \/ /\ m.type = "snapshot"
            /\ agent' = [agent EXCEPT ![c] = [run |-> TRUE, ver |-> m.ver, have |-> m.have]]
            /\ Reply(c, Ack(m.ver))
         \/ /\ m.type = "update" /\ agent[c].run /\ m.ver = agent[c].ver + 1
            /\ agent' = [agent EXCEPT ![c] = [run |-> TRUE, ver |-> m.ver,
                                              have |-> agent[c].have \cup m.have]]
            /\ Reply(c, Ack(m.ver))
         \/ /\ m.type = "update" /\ agent[c].run
            /\ agent' = agent
            /\ Reply(c, Resync(agent[c].ver))
  BY DEF AgentRuns, AgentSnapshot, AgentUpdate, Contiguous
<1>2. /\ ConnFacts(c) /\ n \in Node \cup {None} /\ n # None
      /\ agent[c] \in A /\ down[c] \in Seq(DownMsg) /\ upq[c] \in Seq(UpMsg)
  BY <1>1 DEF CInv, LifeInv, Typed, TypeOK, VersionInv, ConfigTypes, ConnFacts, Quiet
<1>3. version[n] \in Nat /\ bumped \in [Edit -> Nat] /\ n \in Node
  BY <1>2 DEF CInv, ConfigTypes
<1>4. /\ UpTo(version[n], Tail(down[c])) /\ m.ver <= version[n] /\ m \in DownMsg
      /\ Tail(down[c]) \in Seq(DownMsg)
  BY <1>1, <1>2, <1>3, TailUpTo DEF ConnFacts, NamesVersions
<1>5. status[n] # "absent" => AllGood(bumped, n, Tail(down[c])) /\ GoodMsg(bumped, n, m)
  BY <1>1, <1>2, TailGood DEF ConnFacts, HasRoutes
<1>6. m.ver \in Nat /\ m.have \in SUBSET Edit
  BY <1>4 DEF DownMsg
<1> HIDE DEF m
<1>7. /\ down' \in [Conn -> Seq(DownMsg)] /\ down'[c] = Tail(down[c])
      /\ \A d \in Conn \ {c} : down'[d] = down[d]
  BY <1>1, <1>4 DEF CInv, ConfigTypes
<1>8. /\ agent' \in [Conn -> A]
      /\ \A d \in Conn \ {c} : agent'[d] = agent[d]
  <2>1. /\ agent \in [Conn -> A]
        /\ [run |-> TRUE, ver |-> m.ver, have |-> m.have] \in A
        /\ [run |-> TRUE, ver |-> m.ver, have |-> agent[c].have \cup m.have] \in A
    BY <1>2, <1>6 DEF CInv, ConfigTypes
  <2>2. agent' = agent \/ \E a \in A : agent' = [agent EXCEPT ![c] = a]
    BY <1>1, <2>1
  <2> QED BY <2>1, <2>2
<1>9. /\ agent'[c].ver <= version[n]
      /\ status[n] # "absent" => CoversIn(bumped, n, agent'[c].ver, agent'[c].have)
  <2>1. CASE /\ m.type = "snapshot"
             /\ agent' = [agent EXCEPT ![c] = [run |-> TRUE, ver |-> m.ver, have |-> m.have]]
    <3>1. agent'[c].ver = m.ver /\ agent'[c].have = m.have
      BY <2>1 DEF CInv, ConfigTypes
    <3> QED BY <2>1, <3>1, <1>4, <1>5 DEF GoodMsg
  <2>2. CASE /\ m.type = "update" /\ agent[c].run /\ m.ver = agent[c].ver + 1
             /\ agent' = [agent EXCEPT ![c] = [run |-> TRUE, ver |-> m.ver,
                                               have |-> agent[c].have \cup m.have]]
    <3>1. agent'[c].ver = m.ver /\ agent'[c].have = agent[c].have \cup m.have
      BY <2>2 DEF CInv, ConfigTypes
    <3>2. ASSUME status[n] # "absent", NEW e \in Edit, EditNode[e] = n,
                 bumped[e] \in 1..m.ver
          PROVE  e \in agent[c].have \cup m.have
      <4>1. bumped[e] \in 1..agent[c].ver \/ bumped[e] = m.ver
        BY <1>2, <1>3, <1>6, <2>2, <3>2
      <4> QED BY <4>1, <1>2, <1>5, <2>2, <3>2 DEF ConnFacts, HasRoutes, CoversIn, GoodMsg
    <3> QED BY <3>1, <3>2, <1>4 DEF CoversIn
  <2>3. CASE agent' = agent /\ agent[c].run
    BY <2>3, <1>2 DEF ConnFacts, NamesVersions, HasRoutes
  <2> QED BY <1>1, <2>1, <2>2, <2>3
<1>10. \E r \in UpMsg : r.ver <= version[n] /\ Reply(c, r)
  <2>1. agent[c].run => agent[c].ver <= version[n] /\ agent[c].ver \in Nat
    BY <1>2 DEF ConnFacts, NamesVersions
  <2> QED BY <1>1, <1>4, <1>6, <2>1 DEF UpMsg, Ack, Resync
<1>11. PICK r \in UpMsg : r.ver <= version[n] /\ Reply(c, r)
  BY <1>10
<1>12. /\ upq' = [upq EXCEPT ![c] = Append(upq[c], r)]
       /\ upq' \in [Conn -> Seq(UpMsg)] /\ upq'[c] = Append(upq[c], r)
       /\ \A d \in Conn \ {c} : upq'[d] = upq[d]
  BY <1>2, <1>11 DEF Reply, CInv, ConfigTypes
<1>13. UpTo(version[n], upq'[c])
  BY <1>2, <1>3, <1>11, <1>12, AppendUpTo DEF ConnFacts, NamesVersions
<1>14. ConfigTypes'
  BY <1>1, <1>7, <1>8, <1>12 DEF CInv, ConfigTypes, reqVars, dbCfg
<1>15. Later
  BY <1>1, SameVersions DEF reqVars, dbCfg
<1>16. UNCHANGED <<pc, node, status, committed, version, applied, bumped>>
  BY <1>1 DEF vars, dbCfg, reqVars, database
<1>17. NamesVersions(c)'
  BY <1>1, <1>2, <1>4, <1>7, <1>9, <1>13, <1>16 DEF ConnFacts, NamesVersions
<1>18. status[n] # "absent" => HasRoutes(c)'
  BY <1>1, <1>2, <1>5, <1>7, <1>9, <1>16 DEF ConnFacts, HasRoutes
<1>19. pc'[c] \notin Early /\ (pc'[c] = "authok" => readVer'[c] # NoVer)
  BY <1>1, <1>2, <1>16 DEF ConnFacts, Early
<1>20. ConnFacts(c)'
  BY <1>3, <1>16, <1>17, <1>18, <1>19, Talks
<1>21. VersionInv'
  BY <1>1, <1>7, <1>8, <1>12, <1>14, <1>15, <1>16, <1>20, OneConn
<1> QED BY <1>14, <1>21

(* Steps of the task that only the lifecycle sees, and a new connection.   *)
LEMMA OtherStep ==
    ASSUME CInv, [Next]_vars, NEW c \in Conn,
           OtherTaskStep(c) \/ Connect(c), UNCHANGED cfgVars
    PROVE  ConfigTypes' /\ VersionInv'
<1>1. UNCHANGED <<committed, version, applied, req, bumped, payload, readVer, queue, down,
                  upq, agent, acked>>
  BY DEF cfgVars, dbCfg, reqVars, streams
<1>2. ConfigTypes'
  BY <1>1 DEF CInv, ConfigTypes
<1>3. Later
  BY <1>1, SameVersions
<1>4. ASSUME NEW d \in Conn PROVE ConnFacts(d)'
  BY <1>1, <1>2, <1>3, SameConn, KeepConn
<1>5. ASSUME NEW e \in Edit PROVE EditFacts(e)'
  BY <1>1, <1>2, <1>3, KeepEdit
<1> QED BY <1>1, <1>2, <1>3, <1>4, <1>5, KeepApplied DEF VersionInv

(* Any step of a connection's task.                                        *)
LEMMA TaskKeeps ==
    ASSUME CInv, [Next]_vars, NEW c \in Conn, Task(c) PROVE ConfigTypes' /\ VersionInv'
<1>1. CASE OtherTaskStep(c)
  BY <1>1, OtherStep DEF OtherTaskStep
<1>2. CASE ~OtherTaskStep(c)
  BY <1>2, AuthenticateStep, SnapshotStep, EndsStep, ServePushStep, ServeAckStep,
     ServeResyncStep DEF Task
<1> QED BY <1>1, <1>2

(* The agent's end goes away with its session and what was on its way.     *)
LEMMA LoseStep ==
    ASSUME CInv, NEW c \in Conn, CLose(c) PROVE ConfigTypes' /\ VersionInv'
<1>1. /\ agent' = [agent EXCEPT ![c] = NoSession] /\ down' = [down EXCEPT ![c] = <<>>]
      /\ UNCHANGED <<pc, node, status, committed, version, applied, reqVars, readVer, queue,
                     upq, acked>>
  BY DEF CLose, Lose, database, dbCfg
<1>2. /\ agent' \in [Conn -> [run : BOOLEAN, ver : Nat, have : SUBSET Edit]]
      /\ agent'[c] = NoSession /\ \A d \in Conn \ {c} : agent'[d] = agent[d]
  BY <1>1 DEF NoSession, CInv, ConfigTypes
<1>3. /\ down' \in [Conn -> Seq(DownMsg)] /\ down'[c] = <<>>
      /\ \A d \in Conn \ {c} : down'[d] = down[d]
  BY <1>1 DEF CInv, ConfigTypes
<1>4. ConfigTypes'
  BY <1>1, <1>2, <1>3 DEF CInv, ConfigTypes, reqVars
<1>5. Later
  BY <1>1 DEF Later, CInv, ConfigTypes, reqVars
<1>6. ConnFacts(c)'
  <2>1. ConnFacts(c) /\ ~agent'[c].run /\ bumped' = bumped
    BY <1>1, <1>2 DEF CInv, VersionInv, NoSession, reqVars
  <2>2. (node[c] = None => Quiet(c))'
    BY <1>1, <1>3, <2>1 DEF ConnFacts, Quiet
  <2>3. node[c] # None => NamesVersions(c)'
    BY <1>1, <1>3, <2>1, EmptyGood DEF ConnFacts, NamesVersions
  <2>4. node[c] # None /\ status[node[c]] # "absent" => HasRoutes(c)'
    BY <1>1, <1>3, <2>1, EmptyGood DEF ConnFacts, HasRoutes
  <2> QED BY <1>1, <2>1, <2>2, <2>3, <2>4 DEF ConnFacts
<1>7. VersionInv'
  BY <1>1, <1>2, <1>3, <1>4, <1>5, <1>6, OneConn
<1> QED BY <1>4, <1>7

(* A node is deleted with its routes, or its credential revoked.           *)
LEMMA AdminStep ==
    ASSUME CInv, [Next]_vars, NEW n \in Node,
           CDeleteNode(n) \/ (RevokeCredential(n) /\ UNCHANGED cfgVars)
    PROVE  ConfigTypes' /\ VersionInv'
<1>1. /\ UNCHANGED <<pc, node, version, applied, reqVars, readVer, streams, agent, acked>>
      /\ committed' \subseteq committed
      /\ \A e \in committed : status'[EditNode[e]] # "absent" => e \in committed'
  <2>1. CASE CDeleteNode(n)
    BY <2>1, EditAssumption DEF CDeleteNode, DeleteNode, CInv, ConfigTypes, LifeInv, Typed,
       TypeOK
  <2>2. CASE RevokeCredential(n) /\ UNCHANGED cfgVars
    BY <2>2 DEF RevokeCredential, cfgVars, dbCfg
  <2> QED BY <2>1, <2>2
<1>2. ConfigTypes'
  BY <1>1 DEF CInv, ConfigTypes, reqVars, streams
<1>3. Later
  BY <1>1, SameVersions DEF reqVars
<1>4. ASSUME NEW d \in Conn PROVE ConnFacts(d)'
  BY <1>1, <1>2, <1>3, KeepConn DEF streams
<1>5. ASSUME NEW e \in Edit PROVE EditFacts(e)'
  BY <1>1, <1>2, <1>3, KeepEdit DEF reqVars
<1> QED BY <1>1, <1>2, <1>3, <1>4, <1>5, KeepApplied DEF VersionInv

(* A restart silences every connection and ends every handler.             *)
LEMMA RestartStep ==
    ASSUME CInv, [Next]_vars, CRestart PROVE ConfigTypes' /\ VersionInv'
<1>1. /\ req' = [e \in Edit |-> IF req[e] = "idle" THEN "idle" ELSE "done"]
      /\ readVer' = [c \in Conn |-> NoVer]
      /\ queue' = [c \in Conn |-> <<>>] /\ down' = [c \in Conn |-> <<>>]
      /\ upq' = [c \in Conn |-> <<>>] /\ agent' = [c \in Conn |-> NoSession]
      /\ pc' = [c \in Conn |-> IF pc[c] = "idle" THEN "idle" ELSE "done"]
      /\ UNCHANGED <<committed, version, applied, bumped, payload, acked, node, status>>
  BY DEF CRestart, Restart, dbCfg
<1>2. ConfigTypes'
  <2>1. req' \in [Edit -> ReqSteps] /\ readVer' \in [Conn -> Nat \cup {NoVer}]
    BY <1>1 DEF CInv, ConfigTypes, ReqSteps
  <2>2. /\ queue' \in [Conn -> Seq(DownMsg)] /\ down' \in [Conn -> Seq(DownMsg)]
        /\ upq' \in [Conn -> Seq(UpMsg)]
    BY <1>1
  <2>3. agent' \in [Conn -> [run : BOOLEAN, ver : Nat, have : SUBSET Edit]]
    BY <1>1 DEF NoSession
  <2> QED BY <1>1, <2>1, <2>2, <2>3 DEF CInv, ConfigTypes
<1>3. Later
  BY <1>1, SameVersions
<1>4. ASSUME NEW d \in Conn PROVE ConnFacts(d)'
  <2>1. ConnFacts(d) /\ node[d] \in Node \cup {None} /\ acked[d] \in Nat
    BY DEF CInv, VersionInv, LifeInv, Typed, TypeOK, ConfigTypes
  <2>2. /\ queue'[d] = <<>> /\ down'[d] = <<>> /\ upq'[d] = <<>>
        /\ ~agent'[d].run /\ readVer'[d] = NoVer
        /\ pc'[d] \in {"idle", "done"} /\ (pc'[d] = "idle" => pc[d] = "idle")
    BY <1>1 DEF NoSession
  <2>3. (node[d] = None => Quiet(d))'
    BY <1>1, <2>1, <2>2 DEF ConnFacts, Quiet
  <2>4. node[d] # None => NamesVersions(d)'
    <3>1. node[d] # None => version[node[d]] \in Nat /\ NoVer <= version[node[d]]
      BY <2>1 DEF CInv, ConfigTypes, NoVer
    <3> QED BY <1>1, <2>1, <2>2, <3>1, EmptyGood DEF ConnFacts, NamesVersions
  <2>5. HasRoutes(d)'
    BY <1>1, <2>2, EmptyGood DEF HasRoutes
  <2> QED BY <1>1, <2>1, <2>2, <2>3, <2>4, <2>5 DEF ConnFacts
<1>5. ASSUME NEW e \in Edit PROVE EditFacts(e)'
  <2>1. req'[e] \in {req[e], "done"}
    BY <1>1
  <2> QED BY <1>1, <1>2, <1>3, <2>1, KeepEdit
<1> QED BY <1>1, <1>2, <1>3, <1>4, <1>5, KeepApplied DEF VersionInv

(* The invariant is inductive.                                             *)
LEMMA CInvStep == CInv /\ [CNext]_cvars => CInv'
<1> SUFFICES ASSUME CInv, [CNext]_cvars PROVE CInv'
  OBVIOUS
<1>1. [Next]_vars
  BY LifecycleStep
<1>2. LifeInv'
  BY <1>1, TypeStep, EntryStep DEF CInv, LifeInv
<1>3. ConfigTypes' /\ VersionInv'
  <2>1. ASSUME NEW e \in Edit, Request(e) PROVE ConfigTypes' /\ VersionInv'
    BY <2>1, RequestKeeps
  <2>2. ASSUME NEW c \in Conn, Task(c) \/ AgentRuns(c) PROVE ConfigTypes' /\ VersionInv'
    BY <1>1, <2>2, TaskKeeps, AgentKeeps
  <2>3. CASE CEnvironment
    BY <1>1, <2>3, LoseStep, OtherStep, AdminStep, RestartStep DEF CEnvironment
  <2>4. CASE UNCHANGED cvars
    <3>1. UNCHANGED <<vars, committed, version, applied, req, bumped, payload, readVer,
                      streams, agent, acked>>
      BY <2>4 DEF cvars, cfgVars, dbCfg, reqVars
    <3>2. ConfigTypes' /\ Later
      BY <1>1, <3>1, SameVersions DEF CInv, ConfigTypes, streams
    <3>3. \A c \in Conn : ConnFacts(c)'
      BY <3>1, <3>2, KeepConns
    <3>4. ASSUME NEW e \in Edit PROVE EditFacts(e)'
      BY <3>1, <3>2, KeepEdit
    <3> QED BY <3>1, <3>2, <3>3, <3>4, KeepApplied DEF VersionInv
  <2> QED BY <2>1, <2>2, <2>3, <2>4 DEF CNext
<1> QED BY <1>2, <1>3 DEF CInv

(* It holds at the start.                                                  *)
LEMMA CInvInit == CInit => CInv
<1> SUFFICES ASSUME CInit PROVE CInv
  OBVIOUS
<1>1. LifeInv
  BY InitInv DEF CInit, LifeInv
<1>2. ConfigTypes
  BY DEF CInit, ConfigTypes, ReqSteps, NoSession
<1>3. ASSUME NEW e \in Edit PROVE EditFacts(e)
  BY EditAssumption DEF CInit, EditFacts
<1>4. ASSUME NEW c \in Conn PROVE ConnFacts(c)
  BY DEF CInit, Init, ConnFacts, Quiet, NoSession
<1>5. \A n \in Node : applied[n] <= version[n]
  BY DEF CInit
<1> QED BY <1>1, <1>2, <1>3, <1>4, <1>5 DEF CInv, VersionInv

(* The invariant of ConfigDelivery, for any nodes, connections and edits,  *)
(* both ways of pushing and all faults.                                    *)
THEOREM VersionsAndRoutes == CSpec => []CInv
<1> QED BY CInvInit, CInvStep, PTL DEF CSpec

(* An agent that says it applied version v has every route change up to v. *)
THEOREM AgentsHaveTheirVersion == CSpec => []AgentHasItsVersion
<1>1. CInv => AgentHasItsVersion
  <2> SUFFICES ASSUME CInv, NEW c \in Conn, agent[c].run, status[node[c]] # "absent"
               PROVE  Covers(node[c], agent[c].ver, agent[c].have)
    BY DEF AgentHasItsVersion
  <2>1. ConnFacts(c)
    BY DEF CInv, VersionInv
  <2>2. CoversIn(bumped, node[c], agent[c].ver, agent[c].have)
    BY <2>1 DEF ConnFacts, Quiet, HasRoutes
  <2> QED BY <2>2 DEF Covers, CoversIn
<1> QED BY <1>1, VersionsAndRoutes, PTL

(* No agent, no row and no session names a version the node has not had.   *)
THEOREM NoFutureVersions == CSpec => []NoVersionFromTheFuture
<1>1. CInv => NoVersionFromTheFuture
  <2> SUFFICES ASSUME CInv PROVE NoVersionFromTheFuture
    OBVIOUS
  <2>1. ASSUME NEW c \in Conn, agent[c].run PROVE agent[c].ver <= version[node[c]]
    BY <2>1 DEF CInv, VersionInv, ConnFacts, Quiet, NamesVersions
  <2>2. ASSUME NEW n \in Node, sessions[n] # None PROVE acked[sessions[n]] <= version[n]
    <3>1. sessions[n] \in Conn /\ node[sessions[n]] = n /\ n # None
      BY <2>2, NoneAssumption DEF CInv, LifeInv, NoDanglingEntry, Live
    <3> QED BY <3>1 DEF CInv, VersionInv, ConnFacts, NamesVersions
  <2> QED BY <2>1, <2>2 DEF NoVersionFromTheFuture, CInv, VersionInv
<1> QED BY <1>1, VersionsAndRoutes, PTL
=============================================================================
