--------------------------- MODULE UdpProxyProofs ---------------------------
(***************************************************************************)
(* UdpProxy for any routes, clients and bounds.                            *)
(*                                                                         *)
(* MapsAgree and ReplyToOwner rest on IInv: a loop that has taken an id    *)
(* and not yet told the agent of it is the only one to know the id, and    *)
(* whatever is on the wire, or behind a socket of the agent, names the     *)
(* client the id was given to.                                             *)
(*                                                                         *)
(* CountExact rests on CountInv besides: a session cannot be reaped before *)
(* it is counted, and what the reaper is about to uncount is no longer in  *)
(* the map.  SessionsBounded rests on BoundInv: the sessions of a source   *)
(* and the loops that were let in and have not stored theirs yet are       *)
(* together at most the limit and one for every other loop, since check    *)
(* and increment are separate steps.                                       *)
(***************************************************************************)
EXTENDS UdpProxy, FiniteSetTheorems, TLAPS

(* Loops that have taken an id and have not told the agent of it yet.      *)
Pending(r) == pc[r] \in {"insert", "index", "count", "open"}

(* What a loop knows of the session it is creating.                        *)
LoopFacts(r) ==
    /\ pc[r] \notin {"recv", "dead"} => pkt[r] \in Client
    /\ pc[r] \in {"insert", "index", "count", "open", "send"} => sid[r] \in Id
    /\ Pending(r) => sid[r] < nextId
    /\ pc[r] = "insert" => sessions[KeyOf(r)] = None
    /\ pc[r] = "index" => sessions[KeyOf(r)] = sid[r]
    /\ pc[r] \in {"insert", "index"} => byId[sid[r]] = None
    /\ pc[r] \in {"count", "open"} => byId[sid[r]] \in {KeyOf(r), None}

LoopInv == \A r \in Route : LoopFacts(r)

(* An id belongs to one loop, and is not in sessions before it is put in.  *)
FreshInv ==
    /\ \A q, r \in Route : Pending(q) /\ Pending(r) /\ sid[q] = sid[r] => q = r
    /\ \A k \in Key : sessions[k] # None => sessions[k] < nextId
    /\ \A i \in Id : byId[i] # None => i < nextId
    /\ \A r \in Route : pc[r] = "insert" => \A k \in Key : sessions[k] # sid[r]

(* What the reaper has collected is still there when it removes it.        *)
ReapInv ==
    /\ \A i \in expired : byId[i] # None /\ sessions[byId[i]] = i
    /\ \A i \in stale : byId[i] # None
    /\ reaper \in {"index", "count", "close"} => cur \in [id : Id, key : Key]
    /\ reaper = "index" => byId[cur.id] = cur.key /\ sessions[cur.key] # cur.id

(* The agent knows an id only from the UDP_OPEN of its session.            *)
WireInv ==
    /\ \A i \in Id : sockets[i] # None => i < nextId /\ byId[i] \in {sockets[i], None}
    /\ \A m \in toServer : m.id < nextId /\ byId[m.id] \in {m.owner, None}
    /\ \A j \in 1..Len(ctl) : ctl[j].type = "open" =>
           ctl[j].id < nextId /\ byId[ctl[j].id] \in {ctl[j].key, None}
    /\ \A r \in Route : Pending(r) =>
           /\ sockets[sid[r]] = None
           /\ \A m \in toServer : m.id # sid[r]
           /\ \A j \in 1..Len(ctl) : ctl[j].type = "open" => ctl[j].id # sid[r]

MapInv == TypeOK /\ LoopInv /\ FreshInv /\ ReapInv /\ MapsAgree
IInv == MapInv /\ WireInv

-----------------------------------------------------------------------------

USE UdpBounds, UdpNone, UdpIps

(* Init establishes the invariant.                                         *)
LEMMA InitInv == Init => IInv
<1> SUFFICES ASSUME Init PROVE IInv
    OBVIOUS
<1>1. TypeOK
  <2>1. LoopTypes /\ MapTypes
    BY DEF Init, LoopTypes, MapTypes, LoopSteps
  <2>2. ReaperTypes /\ LinkTypes
    BY DEF Init, ReaperTypes, LinkTypes
  <2> QED
    BY <2>1, <2>2 DEF TypeOK
<1>2. LoopInv /\ FreshInv /\ ReapInv /\ MapsAgree
    BY DEF Init, LoopInv, LoopFacts, FreshInv, ReapInv, MapsAgree, Pending
<1>3. WireInv
    BY DEF Init, WireInv, Pending
<1> QED
    BY <1>1, <1>2, <1>3 DEF IInv, MapInv
(* A step of a receive loop preserves the maps' part.  What a packet that  *)
(* is admitted or dropped has in common:                                   *)
Move(r) ==
    /\ pc[r] \in {"admit", "bucket"}
    /\ \E to \in {"bucket", "get"} : pc' = [pc EXCEPT ![r] = to]
    /\ sources' \in [Ip -> Nat \cup {None}]
    /\ UNCHANGED <<pkt, via, sid, sessions, byId, nextId, stale, reaping, conn, wire>>

Drop(r) ==
    /\ pc[r] \in {"admit", "bucket", "send"}
    /\ Done(r)
    /\ sources' \in [Ip -> Nat \cup {None}]
    /\ stale' \in SUBSET stale
    /\ UNCHANGED <<sessions, byId, nextId, reaping, conn, wire>>

(* A receive loop keeps the two maps inverse to each other at each of its  *)
(* steps.                                                                  *)
LEMMA LoopKeepsMaps ==
    ASSUME MapInv, NEW r \in Route, LoopRuns(r) \/ RecvError(r) \/ \E c \in Client : Receive(r, c)
    PROVE  MapInv'
<1> USE DEF MapInv, TypeOK, LoopTypes, MapTypes, ReaperTypes, LinkTypes, Pending,
            loops, maps, reaping, conn, wire
<1>0. pc[r] \notin {"recv", "dead"} => KeyOf(r) \in Key /\ IpAt(r) \in Ip
    BY DEF LoopInv, LoopFacts, KeyOf, Key, IpAt
<1>1. ASSUME NEW c \in Client, Receive(r, c) PROVE MapInv'
  <2> USE <1>1 DEF Receive, Go
  <2>1. TypeOK'
    BY <1>0 DEF LoopSteps, Id, Key, Control, Pending, KeyOf
  <2>2. LoopInv'
    BY DEF LoopInv, LoopFacts, MapsAgree, ReapInv, FreshInv, LoopSteps, Id, KeyOf
  <2>3. FreshInv'
    BY DEF LoopInv, LoopFacts, FreshInv, MapsAgree, LoopSteps, Id, KeyOf
  <2>4. ReapInv'
    BY DEF LoopInv, LoopFacts, ReapInv, MapsAgree, LoopSteps, KeyOf
  <2>5. MapsAgree'
    BY DEF LoopInv, LoopFacts, FreshInv, ReapInv, MapsAgree, LoopSteps, KeyOf
  <2> QED
    BY <2>1, <2>2, <2>3, <2>4, <2>5 DEF MapInv
<1>2. ASSUME RecvError(r) PROVE MapInv'
  <2> USE <1>2 DEF RecvError, Go
  <2>1. TypeOK'
    BY <1>0 DEF LoopSteps, Id, Key, Control, Pending, KeyOf
  <2>2. LoopInv'
    BY DEF LoopInv, LoopFacts, MapsAgree, ReapInv, FreshInv, LoopSteps, Id, KeyOf
  <2>3. FreshInv'
    BY DEF LoopInv, LoopFacts, FreshInv, MapsAgree, LoopSteps, Id, KeyOf
  <2>4. ReapInv'
    BY DEF LoopInv, LoopFacts, ReapInv, MapsAgree, LoopSteps, KeyOf
  <2>5. MapsAgree'
    BY DEF LoopInv, LoopFacts, FreshInv, ReapInv, MapsAgree, LoopSteps, KeyOf
  <2> QED
    BY <2>1, <2>2, <2>3, <2>4, <2>5 DEF MapInv
<1>3. ASSUME Move(r) PROVE MapInv'
  <2> USE <1>3 DEF Move
  <2>1. TypeOK'
    BY <1>0 DEF LoopSteps, Id, Key, Control, Pending, KeyOf
  <2>2. LoopInv'
    BY DEF LoopInv, LoopFacts, MapsAgree, ReapInv, FreshInv, LoopSteps, Id, KeyOf
  <2>3. FreshInv'
    BY DEF LoopInv, LoopFacts, FreshInv, MapsAgree, LoopSteps, Id, KeyOf
  <2>4. ReapInv'
    BY DEF LoopInv, LoopFacts, ReapInv, MapsAgree, LoopSteps, KeyOf
  <2>5. MapsAgree'
    BY DEF LoopInv, LoopFacts, FreshInv, ReapInv, MapsAgree, LoopSteps, KeyOf
  <2> QED
    BY <2>1, <2>2, <2>3, <2>4, <2>5 DEF MapInv
<1>4. ASSUME GetSession(r) PROVE MapInv'
  <2> USE <1>4 DEF GetSession, Go
  <2>1. TypeOK'
    BY <1>0 DEF LoopSteps, Id, Key, Control, Pending, KeyOf
  <2>2. LoopInv'
    <3> SUFFICES ASSUME NEW q \in Route PROVE LoopFacts(q)'
        BY DEF LoopInv
    <3>1. LoopFacts(q) /\ LoopFacts(r)
        BY DEF LoopInv
    <3>2. KeyOf(q)' = KeyOf(q) /\ (q # r => KeyOf(q) # KeyOf(r))
        BY DEF KeyOf
    <3>3. CASE q = r
        BY <1>0, <3>1, <3>2, <3>3 DEF LoopFacts, FreshInv, LoopSteps, Id
    <3>4. CASE q # r
        BY <1>0, <3>1, <3>2, <3>4 DEF LoopFacts, FreshInv, LoopSteps, Id
    <3> QED
        BY <3>3, <3>4
  <2>3. FreshInv'
    BY DEF LoopInv, LoopFacts, FreshInv, MapsAgree, LoopSteps, Id, KeyOf
  <2>4. ReapInv'
    BY DEF LoopInv, LoopFacts, ReapInv, MapsAgree, LoopSteps, KeyOf
  <2>5. MapsAgree'
    BY DEF LoopInv, LoopFacts, FreshInv, ReapInv, MapsAgree, LoopSteps, KeyOf
  <2> QED
    BY <2>1, <2>2, <2>3, <2>4, <2>5 DEF MapInv
<1>5. ASSUME CreateSession(r) PROVE MapInv'
  <2> USE <1>5 DEF CreateSession, Go
  <2>1. TypeOK'
    BY <1>0 DEF LoopSteps, Id, Key, Control, Pending, KeyOf
  <2>2. LoopInv'
    BY DEF LoopInv, LoopFacts, MapsAgree, ReapInv, FreshInv, LoopSteps, Id, KeyOf
  <2>3. FreshInv'
    <3>1. \A q \in Route : q # r => pc'[q] = pc[q] /\ sid'[q] = sid[q]
        OBVIOUS
    <3>2. \A q \in Route : q # r /\ Pending(q) => sid[q] # nextId
        BY DEF LoopInv, LoopFacts, Id
    <3>3. \A p, q \in Route : Pending(p)' /\ Pending(q)' /\ sid'[p] = sid'[q] => p = q
        BY <3>1, <3>2 DEF FreshInv
    <3>4. \A k \in Key : sessions[k] # nextId
        BY DEF FreshInv, Id
    <3>5. \A q \in Route : pc'[q] = "insert" => \A k \in Key : sessions[k] # sid'[q]
        BY <3>1, <3>4 DEF FreshInv
    <3>6. \A k \in Key : sessions[k] # None => sessions[k] < nextId + 1
        BY DEF FreshInv, Id
    <3>7. \A i \in Id : byId[i] # None => i < nextId + 1
        BY DEF FreshInv, Id
    <3> QED
        BY <3>3, <3>5, <3>6, <3>7 DEF FreshInv
  <2>4. ReapInv'
    BY DEF LoopInv, LoopFacts, ReapInv, MapsAgree, LoopSteps, KeyOf
  <2>5. MapsAgree'
    BY DEF LoopInv, LoopFacts, FreshInv, ReapInv, MapsAgree, LoopSteps, KeyOf
  <2> QED
    BY <2>1, <2>2, <2>3, <2>4, <2>5 DEF MapInv
<1>6. ASSUME InsertSession(r) PROVE MapInv'
  <2> USE <1>6 DEF InsertSession, Go
  <2>1. TypeOK'
    BY <1>0 DEF LoopSteps, Id, Key, Control, Pending, KeyOf
  <2>2. LoopInv'
    <3> SUFFICES ASSUME NEW q \in Route PROVE LoopFacts(q)'
        BY DEF LoopInv
    <3>1. LoopFacts(q) /\ LoopFacts(r)
        BY DEF LoopInv
    <3>2. KeyOf(q)' = KeyOf(q) /\ (q # r => KeyOf(q) # KeyOf(r))
        BY DEF KeyOf
    <3>3. CASE q = r
        BY <1>0, <3>1, <3>2, <3>3 DEF LoopFacts, FreshInv, LoopSteps, Id
    <3>4. CASE q # r
        BY <1>0, <3>1, <3>2, <3>4 DEF LoopFacts, FreshInv, LoopSteps, Id
    <3> QED
        BY <3>3, <3>4
  <2>3. FreshInv'
    BY DEF LoopInv, LoopFacts, FreshInv, MapsAgree, LoopSteps, Id, KeyOf
  <2>4. ReapInv'
    BY DEF LoopInv, LoopFacts, ReapInv, MapsAgree, LoopSteps, KeyOf
  <2>5. MapsAgree'
    BY DEF LoopInv, LoopFacts, FreshInv, ReapInv, MapsAgree, LoopSteps, KeyOf
  <2> QED
    BY <2>1, <2>2, <2>3, <2>4, <2>5 DEF MapInv
<1>7. ASSUME InsertById(r) PROVE MapInv'
  <2> USE <1>7 DEF InsertById, Go
  <2>1. TypeOK'
    BY <1>0 DEF LoopSteps, Id, Key, Control, Pending, KeyOf
  <2>2. LoopInv'
    <3> SUFFICES ASSUME NEW q \in Route PROVE LoopFacts(q)'
        BY DEF LoopInv
    <3>1. LoopFacts(q) /\ LoopFacts(r)
        BY DEF LoopInv
    <3>2. KeyOf(q)' = KeyOf(q) /\ (q # r => KeyOf(q) # KeyOf(r))
        BY DEF KeyOf
    <3>3. CASE q = r
        BY <1>0, <3>1, <3>2, <3>3 DEF LoopFacts, FreshInv, LoopSteps, Id
    <3>4. CASE q # r
        BY <1>0, <3>1, <3>2, <3>4 DEF LoopFacts, FreshInv, LoopSteps, Id
    <3> QED
        BY <3>3, <3>4
  <2>3. FreshInv'
    BY DEF LoopInv, LoopFacts, FreshInv, MapsAgree, LoopSteps, Id, KeyOf
  <2>4. ReapInv'
    BY DEF LoopInv, LoopFacts, ReapInv, MapsAgree, LoopSteps, KeyOf
  <2>5. MapsAgree'
    BY DEF LoopInv, LoopFacts, FreshInv, ReapInv, MapsAgree, LoopSteps, KeyOf
  <2> QED
    BY <2>1, <2>2, <2>3, <2>4, <2>5 DEF MapInv
<1>8. ASSUME CountSession(r) PROVE MapInv'
  <2> USE <1>8 DEF CountSession, Go, Tally
  <2>1. TypeOK'
    BY <1>0 DEF LoopSteps, Id, Key, Control, Pending, KeyOf
  <2>2. LoopInv'
    <3> SUFFICES ASSUME NEW q \in Route PROVE LoopFacts(q)'
        BY DEF LoopInv
    <3>1. LoopFacts(q) /\ LoopFacts(r)
        BY DEF LoopInv
    <3>2. KeyOf(q)' = KeyOf(q) /\ (q # r => KeyOf(q) # KeyOf(r))
        BY DEF KeyOf
    <3>3. CASE q = r
        BY <1>0, <3>1, <3>2, <3>3 DEF LoopFacts, FreshInv, LoopSteps, Id
    <3>4. CASE q # r
        BY <1>0, <3>1, <3>2, <3>4 DEF LoopFacts, FreshInv, LoopSteps, Id
    <3> QED
        BY <3>3, <3>4
  <2>3. FreshInv'
    BY DEF LoopInv, LoopFacts, FreshInv, MapsAgree, LoopSteps, Id, KeyOf
  <2>4. ReapInv'
    BY DEF LoopInv, LoopFacts, ReapInv, MapsAgree, LoopSteps, KeyOf
  <2>5. MapsAgree'
    BY DEF LoopInv, LoopFacts, FreshInv, ReapInv, MapsAgree, LoopSteps, KeyOf
  <2> QED
    BY <2>1, <2>2, <2>3, <2>4, <2>5 DEF MapInv
<1>9. ASSUME PushOpen(r) PROVE MapInv'
  <2> USE <1>9 DEF PushOpen, Go, Push
  <2>1. TypeOK'
    <3>1. [type |-> "open", id |-> sid[r], key |-> KeyOf(r)] \in Control
        BY <1>0 DEF LoopInv, LoopFacts, Control
    <3> QED
        BY <3>1 DEF LoopSteps
  <2>2. LoopInv'
    <3> SUFFICES ASSUME NEW q \in Route PROVE LoopFacts(q)'
        BY DEF LoopInv
    <3>1. LoopFacts(q) /\ LoopFacts(r)
        BY DEF LoopInv
    <3>2. KeyOf(q)' = KeyOf(q) /\ (q # r => KeyOf(q) # KeyOf(r))
        BY DEF KeyOf
    <3>3. CASE q = r
        BY <1>0, <3>1, <3>2, <3>3 DEF LoopFacts, FreshInv, LoopSteps, Id
    <3>4. CASE q # r
        BY <1>0, <3>1, <3>2, <3>4 DEF LoopFacts, FreshInv, LoopSteps, Id
    <3> QED
        BY <3>3, <3>4
  <2>3. FreshInv'
    BY DEF LoopInv, LoopFacts, FreshInv, MapsAgree, LoopSteps, Id, KeyOf
  <2>4. ReapInv'
    BY DEF LoopInv, LoopFacts, ReapInv, MapsAgree, LoopSteps, KeyOf
  <2>5. MapsAgree'
    BY DEF LoopInv, LoopFacts, FreshInv, ReapInv, MapsAgree, LoopSteps, KeyOf
  <2> QED
    BY <2>1, <2>2, <2>3, <2>4, <2>5 DEF MapInv
<1>10. ASSUME Drop(r) PROVE MapInv'
  <2> USE <1>10 DEF Drop, Done
  <2>1. TypeOK'
    BY <1>0 DEF LoopSteps, Id, Key, Control, Pending, KeyOf
  <2>2. LoopInv'
    BY DEF LoopInv, LoopFacts, MapsAgree, ReapInv, FreshInv, LoopSteps, Id, KeyOf
  <2>3. FreshInv'
    BY DEF LoopInv, LoopFacts, FreshInv, MapsAgree, LoopSteps, Id, KeyOf
  <2>4. ReapInv'
    BY DEF LoopInv, LoopFacts, ReapInv, MapsAgree, LoopSteps, KeyOf
  <2>5. MapsAgree'
    BY DEF LoopInv, LoopFacts, FreshInv, ReapInv, MapsAgree, LoopSteps, KeyOf
  <2> QED
    BY <2>1, <2>2, <2>3, <2>4, <2>5 DEF MapInv
<1>11. Admit(r) => Move(r) \/ Drop(r)
    BY DEF Admit, Move, Drop, Go
<1>12. Bucket(r) => Move(r) \/ Drop(r)
    BY <1>0 DEF Bucket, Move, Drop, Go, Tally
<1>13. ASSUME NEW sent \in BOOLEAN, SendDatagram(r, sent) PROVE Drop(r)
    BY <1>13 DEF SendDatagram, Drop
<1> QED
    BY <1>1, <1>2, <1>3, <1>4, <1>5, <1>6, <1>7, <1>8, <1>9, <1>10, <1>11, <1>12, <1>13 DEF LoopRuns

(* A step that leaves loops, maps and reaper alone keeps all but the types.*)
LEMMA UnchangedKeepsMaps ==
    ASSUME MapInv, UNCHANGED <<loops, maps, reaping>>
    PROVE  (LoopInv /\ FreshInv /\ ReapInv /\ MapsAgree)'
BY DEF MapInv, LoopInv, LoopFacts, FreshInv, ReapInv, MapsAgree, Pending, KeyOf,
       loops, maps, reaping

(* A step of the reaper, of the connection or of the agent does so too.    *)
LEMMA OthersKeepMaps ==
    ASSUME MapInv, Reaper \/ Link \/ AgentControl \/ Datagrams
    PROVE  MapInv'
<1> USE DEF MapInv, TypeOK, LoopTypes, MapTypes, ReaperTypes, LinkTypes, Pending,
            loops, maps, reaping, conn, wire
<1>1. ASSUME NEW m \in toServer, HandleDatagram(m) PROVE MapInv'
  <2> USE <1>1 DEF HandleDatagram
  <2>1. TypeOK'
    BY DEF LoopSteps, Id, Key, Control, Pending, KeyOf
  <2>2. LoopInv'
    BY DEF LoopInv, LoopFacts, MapsAgree, ReapInv, FreshInv, LoopSteps, Id, KeyOf
  <2>3. FreshInv'
    BY DEF LoopInv, LoopFacts, FreshInv, MapsAgree, LoopSteps, Id, KeyOf
  <2>4. ReapInv'
    BY DEF LoopInv, LoopFacts, ReapInv, MapsAgree, LoopSteps, KeyOf
  <2>5. MapsAgree'
    BY DEF LoopInv, LoopFacts, FreshInv, ReapInv, MapsAgree, LoopSteps, KeyOf
  <2> QED
    BY <2>1, <2>2, <2>3, <2>4, <2>5 DEF MapInv
<1>2. ASSUME NEW i \in Id, Idle(i) PROVE MapInv'
  <2> USE <1>2 DEF Idle
  <2>1. TypeOK'
    BY DEF LoopSteps, Id, Key, Control, Pending, KeyOf
  <2>2. LoopInv'
    BY DEF LoopInv, LoopFacts, MapsAgree, ReapInv, FreshInv, LoopSteps, Id, KeyOf
  <2>3. FreshInv'
    BY DEF LoopInv, LoopFacts, FreshInv, MapsAgree, LoopSteps, Id, KeyOf
  <2>4. ReapInv'
    BY DEF LoopInv, LoopFacts, ReapInv, MapsAgree, LoopSteps, KeyOf
  <2>5. MapsAgree'
    BY DEF LoopInv, LoopFacts, FreshInv, ReapInv, MapsAgree, LoopSteps, KeyOf
  <2> QED
    BY <2>1, <2>2, <2>3, <2>4, <2>5 DEF MapInv
<1>3. ASSUME Wake PROVE MapInv'
  <2> USE <1>3 DEF Wake
  <2>1. TypeOK'
    BY DEF LoopSteps, Id, Key, Control, Pending, KeyOf
  <2>2. LoopInv'
    BY DEF LoopInv, LoopFacts, MapsAgree, ReapInv, FreshInv, LoopSteps, Id, KeyOf
  <2>3. FreshInv'
    BY DEF LoopInv, LoopFacts, FreshInv, MapsAgree, LoopSteps, Id, KeyOf
  <2>4. ReapInv'
    BY DEF LoopInv, LoopFacts, ReapInv, MapsAgree, LoopSteps, KeyOf
  <2>5. MapsAgree'
    BY DEF LoopInv, LoopFacts, FreshInv, ReapInv, MapsAgree, LoopSteps, KeyOf
  <2> QED
    BY <2>1, <2>2, <2>3, <2>4, <2>5 DEF MapInv
<1>4. ASSUME NEW k \in Key, Scan(k) PROVE MapInv'
  <2> USE <1>4 DEF Scan
  <2>1. TypeOK'
    BY DEF LoopSteps, Id, Key, Control, Pending, KeyOf
  <2>2. LoopInv'
    BY DEF LoopInv, LoopFacts, MapsAgree, ReapInv, FreshInv, LoopSteps, Id, KeyOf
  <2>3. FreshInv'
    BY DEF LoopInv, LoopFacts, FreshInv, MapsAgree, LoopSteps, Id, KeyOf
  <2>4. ReapInv'
    BY DEF LoopInv, LoopFacts, ReapInv, MapsAgree, LoopSteps, KeyOf
  <2>5. MapsAgree'
    BY DEF LoopInv, LoopFacts, FreshInv, ReapInv, MapsAgree, LoopSteps, KeyOf
  <2> QED
    BY <2>1, <2>2, <2>3, <2>4, <2>5 DEF MapInv
<1>5. ASSUME NEW i \in Id, RemoveSession(i) PROVE MapInv'
  <2> USE <1>5 DEF RemoveSession
  <2>1. TypeOK'
    BY DEF LoopSteps, Id, Key, Control, Pending, KeyOf, ReapInv
  <2>2. LoopInv'
    BY DEF LoopInv, LoopFacts, MapsAgree, ReapInv, FreshInv, LoopSteps, Id, KeyOf
  <2>3. FreshInv'
    <3>1. byId[i] \in Key
        BY DEF ReapInv
    <3>2. \A k \in Key : sessions'[k] \in {sessions[k], None}
        BY <3>1
    <3>3. \A r \in Route : pc[r] = "insert" => sid[r] # None
        BY DEF LoopInv, LoopFacts
    <3> QED
        BY <3>2, <3>3 DEF FreshInv
  <2>4. ReapInv'
    BY DEF LoopInv, LoopFacts, ReapInv, MapsAgree, LoopSteps, KeyOf
  <2>5. MapsAgree'
    BY DEF LoopInv, LoopFacts, FreshInv, ReapInv, MapsAgree, LoopSteps, KeyOf
  <2> QED
    BY <2>1, <2>2, <2>3, <2>4, <2>5 DEF MapInv
<1>6. ASSUME RemoveById PROVE MapInv'
  <2> USE <1>6 DEF RemoveById
  <2>1. TypeOK'
    BY DEF LoopSteps, Id, Key, Control, Pending, KeyOf
  <2>2. LoopInv'
    BY DEF LoopInv, LoopFacts, MapsAgree, ReapInv, FreshInv, LoopSteps, Id, KeyOf
  <2>3. FreshInv'
    BY DEF LoopInv, LoopFacts, FreshInv, MapsAgree, LoopSteps, Id, KeyOf
  <2>4. ReapInv'
    BY DEF LoopInv, LoopFacts, ReapInv, MapsAgree, LoopSteps, KeyOf
  <2>5. MapsAgree'
    BY DEF LoopInv, LoopFacts, FreshInv, ReapInv, MapsAgree, LoopSteps, KeyOf
  <2> QED
    BY <2>1, <2>2, <2>3, <2>4, <2>5 DEF MapInv
<1>7. ASSUME Uncount PROVE MapInv'
  <2> USE <1>7 DEF Uncount
  <2>1. TypeOK'
    <3>1. IpOf[cur.key.client] \in Ip
        BY DEF ReapInv, Key
    <3> QED
        BY <3>1
  <2>2. LoopInv'
    BY DEF LoopInv, LoopFacts, MapsAgree, ReapInv, FreshInv, LoopSteps, Id, KeyOf
  <2>3. FreshInv'
    BY DEF LoopInv, LoopFacts, FreshInv, MapsAgree, LoopSteps, Id, KeyOf
  <2>4. ReapInv'
    BY DEF LoopInv, LoopFacts, ReapInv, MapsAgree, LoopSteps, KeyOf
  <2>5. MapsAgree'
    BY DEF LoopInv, LoopFacts, FreshInv, ReapInv, MapsAgree, LoopSteps, KeyOf
  <2> QED
    BY <2>1, <2>2, <2>3, <2>4, <2>5 DEF MapInv
<1>8. ASSUME PushClose PROVE MapInv'
  <2> USE <1>8 DEF PushClose, Push
  <2>1. TypeOK'
    <3>1. [type |-> "close", id |-> cur.id, key |-> cur.key] \in Control
        BY DEF ReapInv, Control
    <3> QED
        BY <3>1
  <2>2. LoopInv'
    BY DEF LoopInv, LoopFacts, MapsAgree, ReapInv, FreshInv, LoopSteps, Id, KeyOf
  <2>3. FreshInv'
    BY DEF LoopInv, LoopFacts, FreshInv, MapsAgree, LoopSteps, Id, KeyOf
  <2>4. ReapInv'
    BY DEF LoopInv, LoopFacts, ReapInv, MapsAgree, LoopSteps, KeyOf
  <2>5. MapsAgree'
    BY DEF LoopInv, LoopFacts, FreshInv, ReapInv, MapsAgree, LoopSteps, KeyOf
  <2> QED
    BY <2>1, <2>2, <2>3, <2>4, <2>5 DEF MapInv
<1>9. ASSUME Retain PROVE MapInv'
  <2> USE <1>9 DEF Retain
  <2>1. TypeOK'
    BY DEF LoopSteps, Id, Key, Control, Pending, KeyOf
  <2>2. LoopInv'
    BY DEF LoopInv, LoopFacts, MapsAgree, ReapInv, FreshInv, LoopSteps, Id, KeyOf
  <2>3. FreshInv'
    BY DEF LoopInv, LoopFacts, FreshInv, MapsAgree, LoopSteps, Id, KeyOf
  <2>4. ReapInv'
    BY DEF LoopInv, LoopFacts, ReapInv, MapsAgree, LoopSteps, KeyOf
  <2>5. MapsAgree'
    BY DEF LoopInv, LoopFacts, FreshInv, ReapInv, MapsAgree, LoopSteps, KeyOf
  <2> QED
    BY <2>1, <2>2, <2>3, <2>4, <2>5 DEF MapInv
<1>10. ASSUME RegisterConn PROVE MapInv'
  <2> USE <1>10 DEF RegisterConn
  <2>1. TypeOK'
    OBVIOUS
  <2> QED
    BY <2>1, UnchangedKeepsMaps
<1>11. ASSUME RegisterPush PROVE MapInv'
  <2> USE <1>11 DEF RegisterPush
  <2>1. TypeOK'
    OBVIOUS
  <2> QED
    BY <2>1, UnchangedKeepsMaps
<1>12. ASSUME LoseAgent PROVE MapInv'
  <2> USE <1>12 DEF LoseAgent, EndSession
  <2>1. TypeOK'
    OBVIOUS
  <2> QED
    BY <2>1, UnchangedKeepsMaps
<1>13. ASSUME UnregisterPush PROVE MapInv'
  <2> USE <1>13 DEF UnregisterPush
  <2>1. TypeOK'
    OBVIOUS
  <2> QED
    BY <2>1, UnchangedKeepsMaps
<1>14. ASSUME UnregisterConn PROVE MapInv'
  <2> USE <1>14 DEF UnregisterConn, EndSession
  <2>1. TypeOK'
    OBVIOUS
  <2> QED
    BY <2>1, UnchangedKeepsMaps
<1>15. ASSUME AgentOpen PROVE MapInv'
  <2> USE <1>15 DEF AgentOpen
  <2>1. TypeOK'
    <3>1. Head(ctl) \in Control /\ Tail(ctl) \in Seq(Control)
        OBVIOUS
    <3> QED
        BY <3>1 DEF Control
  <2> QED
    BY <2>1, UnchangedKeepsMaps
<1>16. ASSUME AgentClose PROVE MapInv'
  <2> USE <1>16 DEF AgentClose
  <2>1. TypeOK'
    <3>1. Head(ctl) \in Control /\ Tail(ctl) \in Seq(Control)
        OBVIOUS
    <3> QED
        BY <3>1 DEF Control
  <2> QED
    BY <2>1, UnchangedKeepsMaps
<1>17. ASSUME NEW i \in Id, AgentReply(i) PROVE MapInv'
  <2> USE <1>17 DEF AgentReply
  <2>1. TypeOK'
    OBVIOUS
  <2> QED
    BY <2>1, UnchangedKeepsMaps
<1> QED
    BY <1>1, <1>2, <1>3, <1>4, <1>5, <1>6, <1>7, <1>8, <1>9, <1>10, <1>11, <1>12, <1>13, <1>14,
       <1>15, <1>16, <1>17 DEF Reaper, Link, AgentControl, Datagrams

(* A step of a receive loop keeps what the agent knows of the ids.         *)
LEMMA LoopKeepsWire ==
    ASSUME IInv, NEW r \in Route, LoopRuns(r) \/ RecvError(r) \/ \E c \in Client : Receive(r, c)
    PROVE  WireInv'
<1> USE DEF IInv, MapInv, TypeOK, LoopTypes, MapTypes, ReaperTypes, LinkTypes, Pending,
            loops, maps, reaping, conn, wire
<1>0. pc[r] \notin {"recv", "dead"} => KeyOf(r) \in Key /\ IpAt(r) \in Ip
    BY DEF LoopInv, LoopFacts, KeyOf, Key, IpAt
<1>1. ASSUME NEW c \in Client, Receive(r, c) PROVE WireInv'
    BY <1>1 DEF Receive, Go, WireInv, LoopInv, LoopFacts, FreshInv, LoopSteps, Id, KeyOf
<1>2. ASSUME RecvError(r) PROVE WireInv'
    BY <1>2 DEF RecvError, Go, WireInv, LoopInv, LoopFacts, FreshInv, LoopSteps, Id, KeyOf
<1>3. ASSUME Move(r) PROVE WireInv'
    BY <1>3 DEF Move, WireInv, LoopInv, LoopFacts, FreshInv, LoopSteps, Id, KeyOf
<1>4. ASSUME GetSession(r) PROVE WireInv'
    BY <1>4 DEF GetSession, Go, WireInv, LoopInv, LoopFacts, FreshInv, LoopSteps, Id, KeyOf
<1>5. ASSUME CreateSession(r) PROVE WireInv'
  <2> USE <1>5 DEF CreateSession, Go
  <2>1. \A q \in Route : q # r => pc'[q] = pc[q] /\ sid'[q] = sid[q]
    OBVIOUS
  <2>2. /\ sid'[r] = nextId /\ nextId \in Id /\ nextId' = nextId + 1
        /\ UNCHANGED <<byId, ctl, toServer, sockets>>
    BY DEF Id
  <2>3. \A i \in Id : i < nextId => i < nextId + 1
    BY DEF Id
  <2>4. /\ sockets[nextId] = None
        /\ \A m \in toServer : m.id # nextId
        /\ \A j \in 1..Len(ctl) : ctl[j].type = "open" => ctl[j].id # nextId
    BY <2>2 DEF WireInv
  <2>5. \A q \in Route : Pending(q)' =>
           /\ sockets[sid'[q]] = None
           /\ \A m \in toServer : m.id # sid'[q]
           /\ \A j \in 1..Len(ctl) : ctl[j].type = "open" => ctl[j].id # sid'[q]
    BY <2>1, <2>2, <2>4 DEF WireInv
  <2>6. \A j \in 1..Len(ctl) : ctl[j] \in Control
    OBVIOUS
  <2>7. \A j \in 1..Len(ctl) : ctl[j].id \in Id
    BY <2>6 DEF Control
  <2>8. \A j \in 1..Len(ctl) : ctl[j].type = "open" =>
            ctl[j].id < nextId + 1 /\ byId[ctl[j].id] \in {ctl[j].key, None}
    BY <2>3, <2>7 DEF WireInv
  <2>9. \A m \in toServer : m.id < nextId + 1 /\ byId[m.id] \in {m.owner, None}
    BY <2>3 DEF WireInv
  <2>10. \A i \in Id : sockets[i] # None => i < nextId + 1 /\ byId[i] \in {sockets[i], None}
    BY <2>3 DEF WireInv
  <2> HIDE <1>5 DEF IInv, MapInv, TypeOK, LoopTypes, MapTypes, ReaperTypes, LinkTypes,
               CreateSession
  <2> QED
    BY <2>2, <2>5, <2>8, <2>9, <2>10 DEF WireInv
<1>6. ASSUME InsertSession(r) PROVE WireInv'
    BY <1>6 DEF InsertSession, Go, WireInv, LoopInv, LoopFacts, FreshInv, LoopSteps, Id, KeyOf
<1>7. ASSUME InsertById(r) PROVE WireInv'
    BY <1>7 DEF InsertById, Go, WireInv, LoopInv, LoopFacts, FreshInv, LoopSteps, Id, KeyOf
<1>8. ASSUME CountSession(r) PROVE WireInv'
    BY <1>8 DEF CountSession, Go, Tally, WireInv, LoopInv, LoopFacts, FreshInv, LoopSteps, Id, KeyOf
<1>9. ASSUME PushOpen(r) PROVE WireInv'
  <2> USE <1>9 DEF PushOpen, Go, Push
  <2> DEFINE m0 == [type |-> "open", id |-> sid[r], key |-> KeyOf(r)]
  <2>1. \A j \in 1..Len(ctl') : ctl'[j] = m0 \/ (j \in 1..Len(ctl) /\ ctl'[j] = ctl[j])
    OBVIOUS
  <2>2. m0.id < nextId /\ byId[m0.id] \in {m0.key, None}
    BY DEF LoopInv, LoopFacts
  <2>3. \A q \in Route : Pending(q)' => q # r /\ Pending(q) /\ sid[q] # sid[r]
    BY DEF FreshInv
  <2>4. m0.id = sid[r]
    OBVIOUS
  <2> HIDE DEF m0
  <2>5. \A j \in 1..Len(ctl') : ctl'[j].type = "open" =>
            ctl'[j].id < nextId /\ byId[ctl'[j].id] \in {ctl'[j].key, None}
    BY <2>1, <2>2 DEF WireInv
  <2>6. \A q \in Route : Pending(q)' =>
            \A j \in 1..Len(ctl') : ctl'[j].type = "open" => ctl'[j].id # sid[q]
    BY <2>1, <2>3, <2>4 DEF WireInv
  <2> QED
    BY <2>3, <2>5, <2>6 DEF WireInv
<1>10. ASSUME Drop(r) PROVE WireInv'
    BY <1>10 DEF Drop, Done, WireInv, LoopInv, LoopFacts, FreshInv, LoopSteps, Id, KeyOf
<1>11. Admit(r) => Move(r) \/ Drop(r)
    BY DEF Admit, Move, Drop, Go
<1>12. Bucket(r) => Move(r) \/ Drop(r)
    BY <1>0 DEF Bucket, Move, Drop, Go, Tally
<1>13. ASSUME NEW sent \in BOOLEAN, SendDatagram(r, sent) PROVE Drop(r)
    BY <1>13 DEF SendDatagram, Drop
<1> QED
    BY <1>1, <1>2, <1>3, <1>4, <1>5, <1>6, <1>7, <1>8, <1>9, <1>10, <1>11, <1>12, <1>13 DEF LoopRuns

(* So does every other step.                                               *)
LEMMA OthersKeepWire ==
    ASSUME IInv, Reaper \/ Link \/ AgentControl \/ Datagrams
    PROVE  WireInv'
<1> USE DEF IInv, MapInv, TypeOK, LoopTypes, MapTypes, ReaperTypes, LinkTypes, Pending,
            loops, maps, reaping, conn, wire
<1>1. ASSUME NEW m \in toServer, HandleDatagram(m) PROVE WireInv'
    BY <1>1 DEF HandleDatagram, WireInv, LoopInv, LoopFacts, FreshInv, LoopSteps, Id, KeyOf
<1>2. ASSUME NEW i \in Id, Idle(i) PROVE WireInv'
    BY <1>2 DEF Idle, WireInv, LoopInv, LoopFacts, FreshInv, LoopSteps, Id, KeyOf
<1>3. ASSUME Wake PROVE WireInv'
    BY <1>3 DEF Wake, WireInv, LoopInv, LoopFacts, FreshInv, LoopSteps, Id, KeyOf
<1>4. ASSUME NEW k \in Key, Scan(k) PROVE WireInv'
    BY <1>4 DEF Scan, WireInv, LoopInv, LoopFacts, FreshInv, LoopSteps, Id, KeyOf
<1>5. ASSUME NEW i \in Id, RemoveSession(i) PROVE WireInv'
    BY <1>5 DEF RemoveSession, WireInv, LoopInv, LoopFacts, FreshInv, LoopSteps, Id, KeyOf
<1>6. ASSUME RemoveById PROVE WireInv'
    BY <1>6 DEF RemoveById, WireInv, LoopInv, LoopFacts, FreshInv, LoopSteps, Id, KeyOf
<1>7. ASSUME Uncount PROVE WireInv'
    BY <1>7 DEF Uncount, WireInv, LoopInv, LoopFacts, FreshInv, LoopSteps, Id, KeyOf
<1>8. ASSUME PushClose PROVE WireInv'
    BY <1>8 DEF PushClose, Push, WireInv, LoopInv, LoopFacts, FreshInv, LoopSteps, Id, KeyOf
<1>9. ASSUME Retain PROVE WireInv'
    BY <1>9 DEF Retain, WireInv, LoopInv, LoopFacts, FreshInv, LoopSteps, Id, KeyOf
<1>10. ASSUME RegisterConn PROVE WireInv'
    BY <1>10 DEF RegisterConn, WireInv, LoopInv, LoopFacts, FreshInv, LoopSteps, Id, KeyOf
<1>11. ASSUME RegisterPush PROVE WireInv'
    BY <1>11 DEF RegisterPush, WireInv, LoopInv, LoopFacts, FreshInv, LoopSteps, Id, KeyOf
<1>12. ASSUME LoseAgent PROVE WireInv'
  <2> USE <1>12 DEF LoseAgent, EndSession
  <2>1. 1..Len(ctl') = {} /\ toServer' = {} /\ \A i \in Id : sockets'[i] = None
    OBVIOUS
  <2>2. \A r \in Route : Pending(r)' => sid'[r] \in Id
    BY DEF LoopInv, LoopFacts
  <2> QED
    BY <2>1, <2>2 DEF WireInv
<1>13. ASSUME UnregisterPush PROVE WireInv'
    BY <1>13 DEF UnregisterPush, WireInv, LoopInv, LoopFacts, FreshInv, LoopSteps, Id, KeyOf
<1>14. ASSUME UnregisterConn PROVE WireInv'
  <2> USE <1>14 DEF UnregisterConn, EndSession
  <2>1. 1..Len(ctl') = {} /\ toServer' = {} /\ \A i \in Id : sockets'[i] = None
    OBVIOUS
  <2>2. \A r \in Route : Pending(r)' => sid'[r] \in Id
    BY DEF LoopInv, LoopFacts
  <2> QED
    BY <2>1, <2>2 DEF WireInv
<1>15. ASSUME AgentOpen PROVE WireInv'
  <2> USE <1>15 DEF AgentOpen
  <2>1. \A j \in 1..Len(ctl') : j + 1 \in 1..Len(ctl) /\ ctl'[j] = ctl[j + 1]
    OBVIOUS
  <2>2. 1 \in 1..Len(ctl) /\ Head(ctl) = ctl[1] /\ Head(ctl).id \in Id /\ Head(ctl).key \in Key
    <3>1. 1 \in 1..Len(ctl) /\ Head(ctl) = ctl[1] /\ Head(ctl) \in Control
        OBVIOUS
    <3> QED
        BY <3>1 DEF Control
  <2>3. \A i \in Id : sockets'[i] = sockets[i] \/ (i = Head(ctl).id /\ sockets'[i] = Head(ctl).key)
    BY <2>2
  <2>4. /\ Head(ctl).id < nextId /\ byId[Head(ctl).id] \in {Head(ctl).key, None}
        /\ \A r \in Route : Pending(r) => sid[r] # Head(ctl).id
    BY <2>2 DEF WireInv
  <2>5. \A i \in Id : sockets'[i] # None => i < nextId /\ byId[i] \in {sockets'[i], None}
    BY <2>3, <2>4 DEF WireInv
  <2>6. \A r \in Route : Pending(r) => sockets'[sid[r]] = None
    BY <2>3, <2>4 DEF WireInv, LoopInv, LoopFacts
  <2> QED
    BY <2>1, <2>5, <2>6 DEF WireInv
<1>16. ASSUME AgentClose PROVE WireInv'
    BY <1>16 DEF AgentClose, WireInv, LoopInv, LoopFacts, FreshInv, LoopSteps, Id, KeyOf
<1>17. ASSUME NEW i \in Id, AgentReply(i) PROVE WireInv'
    BY <1>17 DEF AgentReply, WireInv, LoopInv, LoopFacts, FreshInv, LoopSteps, Id, KeyOf
<1> QED
    BY <1>1, <1>2, <1>3, <1>4, <1>5, <1>6, <1>7, <1>8, <1>9, <1>10, <1>11, <1>12, <1>13, <1>14,
       <1>15, <1>16, <1>17 DEF Reaper, Link, AgentControl, Datagrams

(* The invariant of every behaviour of the UDP proxy: types, maps, loops,  *)
(* reaper and what is on the wire, for any routes, clients and bounds.     *)
THEOREM UdpInvariant == Spec => []IInv
<1>1. Init => IInv
    BY InitInv
<1>2. IInv /\ [Next]_vars => IInv'
  <2> SUFFICES ASSUME IInv, [Next]_vars PROVE IInv'
      OBVIOUS
  <2>1. ASSUME NEW r \in Route, LoopRuns(r) PROVE IInv'
      BY <2>1, LoopKeepsMaps, LoopKeepsWire DEF IInv
  <2>2. CASE Inbound
      BY <2>2, LoopKeepsMaps, LoopKeepsWire DEF IInv, Inbound
  <2>3. CASE Reaper \/ Link \/ AgentControl \/ Datagrams
      BY <2>3, OthersKeepMaps, OthersKeepWire DEF IInv
  <2>4. CASE UNCHANGED vars
      BY <2>4 DEF IInv, MapInv, WireInv, TypeOK, LoopTypes, MapTypes, ReaperTypes, LinkTypes,
         LoopInv, LoopFacts, FreshInv, ReapInv,
                  MapsAgree, Pending, KeyOf, vars, loops, maps, reaping, conn, wire
  <2> QED
      BY <2>1, <2>2, <2>3, <2>4 DEF Next
<1> QED
    BY <1>1, <1>2, PTL DEF Spec

(* sessions and by_id of udp_proxy.rs stay inverse to each other, however  *)
(* creation and reaping interleave (MapsAgree), and every value has its    *)
(* type.                                                                   *)
THEOREM UdpMapsAgree == Spec => [](TypeOK /\ MapsAgree)
<1>1. IInv => TypeOK /\ MapsAgree
    BY DEF IInv, MapInv
<1> QED
    BY <1>1, UdpInvariant, PTL

(* No reply of a target reaches a client other than the one its socket was *)
(* opened for, over reconnections and reaping.                             *)
THEOREM UdpReplyToOwner == Spec => []ReplyToOwner
<1>1. IInv => ReplyToOwner
    BY DEF IInv, WireInv, ReplyToOwner
<1> QED
    BY <1>1, UdpInvariant, PTL

-----------------------------------------------------------------------------
(* The count of a source.                                                  *)

Reaping == reaper \in {"index", "count", "close"}

(* A session is counted before it can be idle, let alone reaped:           *)
(* idle_timeout does not pass within get_or_create_session, and an id is   *)
(* never reused.                                                           *)
CountInv ==
    /\ \A r \in Route : pc[r] = "count" =>
           byId[sid[r]] = KeyOf(r) /\ sid[r] \notin stale \cup expired
    /\ Reaping => /\ cur.id < nextId
                  /\ \A r \in Route : pc[r] \in {"insert", "index", "count"} => sid[r] # cur.id
    /\ reaper = "count" => byId[cur.id] = None

(* Steps that count nothing leave the counted sessions as they are.        *)
LEMMA SameCounted ==
    ASSUME \A q \in Route : /\ pc'[q] = "count" <=> pc[q] = "count"
                            /\ pc[q] = "count" => sid'[q] = sid[q],
           byId' = byId, reaper' = "count" <=> reaper = "count",
           reaper = "count" => cur' = cur
    PROVE  \A p \in Ip : Counted(p)' = Counted(p)
  BY DEF Counted

(* Where neither a count nor what it counts changes, the counts stay       *)
(* exact.                                                                  *)
LEMMA SameTally ==
    ASSUME \A p \in Ip : Tally(p)' = Tally(p) /\ Counted(p)' = Counted(p), CountExact
    PROVE  CountExact'
  BY DEF CountExact

(* One element less.                                                       *)
LEMMA CardRemove ==
    ASSUME NEW S, IsFiniteSet(S), NEW x \in S
    PROVE  IsFiniteSet(S \ {x}) /\ Cardinality(S \ {x}) = Cardinality(S) - 1
  BY FS_RemoveElement

(* One element more.                                                       *)
LEMMA CardAdd ==
    ASSUME NEW S, IsFiniteSet(S), NEW x
    PROVE  IsFiniteSet(S \cup {x}) /\ Cardinality(S \cup {x}) <= Cardinality(S) + 1
<1>1. /\ IsFiniteSet(S \cup {x})
      /\ Cardinality(S \cup {x}) = IF x \in S THEN Cardinality(S) ELSE Cardinality(S) + 1
  BY FS_AddElement
<1>2. Cardinality(S) \in Nat
  BY FS_CardinalityType
<1> QED BY <1>1, <1>2

(* The counted sessions are ids.                                           *)
LEMMA CountedFinite ==
    ASSUME NEW p PROVE IsFiniteSet(Counted(p)) /\ Cardinality(Counted(p)) \in Nat
<1>1. IsFiniteSet(Id)
  BY FS_Interval DEF Id
<1>2. Counted(p) \in SUBSET Id
  BY DEF Counted
<1> QED BY <1>1, <1>2, FS_Subset, FS_CardinalityType

(* Steps of a loop before and after it counts.                             *)
LEMMA LoopKeepsCountInv ==
    ASSUME MapInv, CountInv, NEW r \in Route,
           LoopRuns(r) \/ RecvError(r) \/ \E c \in Client : Receive(r, c)
    PROVE  CountInv'
<1> USE DEF MapInv, TypeOK, LoopTypes, MapTypes, ReaperTypes, Reaping, maps, reaping
<1>0. LoopFacts(r) /\ \A q \in Route : LoopFacts(q)
  BY DEF LoopInv
<1>1. ASSUME pc' = [pc EXCEPT ![r] = pc'[r]], pc'[r] \notin {"insert", "index", "count"},
             \A q \in Route : q # r => sid'[q] = sid[q] /\ pkt'[q] = pkt[q],
             stale' \subseteq stale, UNCHANGED <<byId, nextId, reaper, expired, cur>>
      PROVE  CountInv'
  <2>1. \A q \in Route : pc'[q] \in {"insert", "index", "count"} =>
            q # r /\ pc'[q] = pc[q] /\ sid'[q] = sid[q] /\ KeyOf(q)' = KeyOf(q)
    BY <1>1 DEF KeyOf
  <2> QED BY <1>1, <2>1 DEF CountInv
<1>2. CASE CreateSession(r)
  <2>1. /\ nextId' = nextId + 1 /\ sid'[r] = nextId /\ pc'[r] = "insert"
        /\ UNCHANGED <<byId, reaper, expired, cur, stale, pkt>>
        /\ \A q \in Route : q # r => sid'[q] = sid[q] /\ pc'[q] = pc[q]
    BY <1>2 DEF CreateSession, Go
  <2>2. Reaping => cur.id \in Id /\ cur.id < nextId /\ cur.id < nextId'
    BY <2>1 DEF CountInv, ReapInv, Id
  <2>3. Reaping => nextId # cur.id
    BY <2>2 DEF Id
  <2>4. \A q \in Route : KeyOf(q)' = KeyOf(q)
    BY <2>1 DEF KeyOf
  <2> QED BY <2>1, <2>2, <2>3, <2>4 DEF CountInv
<1>3. CASE InsertSession(r)
  <2>1. /\ pc[r] = "insert" /\ pc'[r] = "index"
        /\ UNCHANGED <<byId, reaper, expired, cur, stale, pkt, sid, nextId>>
        /\ \A q \in Route : q # r => pc'[q] = pc[q]
    BY <1>3 DEF InsertSession, Go
  <2>2. \A q \in Route : KeyOf(q)' = KeyOf(q)
    BY <2>1 DEF KeyOf
  <2> QED BY <2>1, <2>2 DEF CountInv
<1>4. CASE InsertById(r)
  <2>1. /\ pc[r] = "index" /\ pc'[r] = "count" /\ sid[r] \in Id
        /\ byId' = [byId EXCEPT ![sid[r]] = KeyOf(r)] /\ byId[sid[r]] = None
        /\ UNCHANGED <<reaper, expired, cur, stale, pkt, sid, nextId>>
        /\ \A q \in Route : q # r => pc'[q] = pc[q]
    BY <1>0, <1>4 DEF InsertById, Go, LoopFacts
  <2>2. \A q \in Route : KeyOf(q)' = KeyOf(q)
    BY <2>1 DEF KeyOf
  <2>3. sid[r] \notin stale \cup expired
    BY <2>1 DEF ReapInv
  <2>4. \A q \in Route : q # r /\ pc[q] = "count" => sid[q] \in Id /\ sid[q] # sid[r]
    BY <1>0, <2>1 DEF FreshInv, Pending, LoopFacts
  <2> QED BY <2>1, <2>2, <2>3, <2>4 DEF CountInv
<1>5. CASE \E c \in Client : Receive(r, c)
  BY <1>1, <1>5 DEF Receive, Go
<1>6. CASE RecvError(r)
  BY <1>1, <1>6 DEF RecvError, Go
<1>7. CASE Admit(r) \/ Bucket(r)
  BY <1>1, <1>7 DEF Admit, Bucket, Go, Done
<1>8. CASE GetSession(r) \/ CountSession(r) \/ PushOpen(r)
  BY <1>1, <1>8 DEF GetSession, CountSession, PushOpen, Go
<1>9. CASE \E sent \in BOOLEAN : SendDatagram(r, sent)
  BY <1>1, <1>9 DEF SendDatagram, Done
<1> QED BY <1>2, <1>3, <1>4, <1>5, <1>6, <1>7, <1>8, <1>9 DEF LoopRuns

(* Steps of the reaper, and what the others do not touch.                  *)
LEMMA OthersKeepCountInv ==
    ASSUME MapInv, CountInv, Reaper \/ Link \/ AgentControl \/ Datagrams
    PROVE  CountInv'
<1> USE DEF MapInv, TypeOK, LoopTypes, MapTypes, ReaperTypes, Reaping, maps, reaping, loops
<1>0. \A q \in Route : LoopFacts(q)
  BY DEF LoopInv
<1>1. ASSUME UNCHANGED <<pc, pkt, sid>> PROVE \A q \in Route : KeyOf(q)' = KeyOf(q)
  BY <1>1 DEF KeyOf
<1>2. CASE Link \/ AgentControl
  <2>1. UNCHANGED <<loops, maps, reaping>>
    BY <1>2 DEF Link, AgentControl, RegisterConn, RegisterPush, LoseAgent, UnregisterPush,
       UnregisterConn, AgentOpen, AgentClose
  <2> QED BY <1>1, <2>1 DEF CountInv
<1>3. CASE Datagrams
  <2>1. UNCHANGED <<loops, byId, nextId, reaping>>
    BY <1>3 DEF Datagrams, AgentReply, Idle, HandleDatagram
  <2>2. \A q \in Route : pc[q] = "count" => sid[q] \notin stale'
    BY <1>3 DEF CountInv, Datagrams, AgentReply, Idle, HandleDatagram
  <2> QED BY <1>1, <2>1, <2>2 DEF CountInv
<1>4. CASE Wake \/ \E k \in Key : Scan(k)
  <2>1. UNCHANGED <<loops, maps, cur>> /\ ~Reaping /\ ~Reaping'
        /\ expired' \subseteq expired \cup stale
    BY <1>4 DEF Wake, Scan
  <2> QED BY <1>1, <2>1 DEF CountInv
<1>5. ASSUME NEW i \in Id, RemoveSession(i) PROVE CountInv'
  <2>1. /\ UNCHANGED <<loops, byId, nextId, stale>> /\ expired' \subseteq expired
        /\ cur'.id = i /\ i \in expired /\ byId[i] # None /\ reaper' = "index"
    BY <1>5 DEF RemoveSession, ReapInv
  <2>2. \A q \in Route : pc[q] \in {"insert", "index", "count"} => sid[q] # i
    BY <1>0, <2>1 DEF CountInv, LoopFacts
  <2>3. i < nextId
    BY <2>1 DEF FreshInv
  <2> QED BY <1>1, <2>1, <2>2, <2>3 DEF CountInv
<1>6. CASE RemoveById
  <2>1. /\ UNCHANGED <<loops, nextId, expired, cur>> /\ stale' \subseteq stale /\ Reaping
        /\ byId' = [byId EXCEPT ![cur.id] = None] /\ cur.id \in Id
    BY <1>6 DEF RemoveById, ReapInv
  <2>2. \A q \in Route : pc[q] = "count" => sid[q] \in Id /\ byId'[sid[q]] = byId[sid[q]]
    BY <1>0, <2>1 DEF CountInv, LoopFacts
  <2> QED BY <1>1, <2>1, <2>2 DEF CountInv
<1>7. CASE Uncount \/ PushClose \/ Retain
  <2>1. UNCHANGED <<loops, byId, nextId, stale, expired>>
        /\ (Reaping' => Reaping /\ cur' = cur) /\ reaper' # "count"
    BY <1>7 DEF Uncount, PushClose, Retain
  <2> QED BY <1>1, <2>1 DEF CountInv
<1> QED BY <1>2, <1>3, <1>4, <1>5, <1>6, <1>7 DEF Reaper

(* A loop keeps the count exact.                                           *)
LEMMA LoopKeepsCount ==
    ASSUME MapInv, CountInv, CountExact, NEW r \in Route,
           LoopRuns(r) \/ RecvError(r) \/ \E c \in Client : Receive(r, c)
    PROVE  CountExact'
<1> USE DEF MapInv, TypeOK, LoopTypes, MapTypes, ReaperTypes, maps, reaping
<1>0. LoopFacts(r) /\ \A q \in Route : LoopFacts(q)
  BY DEF LoopInv
<1>1. ASSUME pc[r] # "count", pc' = [pc EXCEPT ![r] = pc'[r]], pc'[r] # "count",
             \A q \in Route : q # r => sid'[q] = sid[q],
             UNCHANGED <<byId, reaper, cur>>, \A p \in Ip : Tally(p)' = Tally(p)
      PROVE  CountExact'
  <2>1. \A q \in Route : /\ pc'[q] = "count" <=> pc[q] = "count"
                         /\ pc[q] = "count" => sid'[q] = sid[q]
    BY <1>1
  <2>2. \A p \in Ip : Counted(p)' = Counted(p)
    BY <1>1, <2>1, SameCounted
  <2> QED BY <1>1, <2>2, SameTally
<1>2. ASSUME sources' = sources PROVE \A p \in Ip : Tally(p)' = Tally(p)
  BY <1>2 DEF Tally
<1>3. CASE InsertById(r)
  <2>1. /\ pc[r] = "index" /\ pc' = [pc EXCEPT ![r] = "count"] /\ sid[r] \in Id
        /\ byId' = [byId EXCEPT ![sid[r]] = KeyOf(r)] /\ byId[sid[r]] = None
        /\ UNCHANGED <<reaper, cur, sid, sources>>
    BY <1>0, <1>3 DEF InsertById, Go, LoopFacts
  <2>2. ASSUME NEW p \in Ip PROVE Counted(p)' = Counted(p)
    <3>1. ASSUME NEW i \in Id PROVE i \in Counted(p)' <=> i \in Counted(p)
      <4>1. CASE i = sid[r]
        BY <2>1, <4>1 DEF Counted
      <4>2. CASE i # sid[r]
        <5>1. byId'[i] = byId[i]
          BY <2>1, <4>2
        <5>2. (\E q \in Route : pc'[q] = "count" /\ sid'[q] = i)
                  <=> (\E q \in Route : pc[q] = "count" /\ sid[q] = i)
          BY <2>1, <4>2
        <5> QED BY <2>1, <5>1, <5>2 DEF Counted
      <4> QED BY <4>1, <4>2
    <3> QED BY <3>1 DEF Counted
  <2> QED BY <1>2, <2>1, <2>2, SameTally
<1>4. CASE CountSession(r)
  <2>0. IpAt(r) \in Ip /\ sid[r] \in Id
    BY <1>0, <1>4 DEF CountSession, Go, LoopFacts, IpAt
  <2> PICK p \in Ip, i \in Id : p = IpAt(r) /\ i = sid[r]
    BY <2>0
  <2>1. /\ pc[r] = "count" /\ pc' = [pc EXCEPT ![r] = "open"] /\ i \in Id
        /\ sources' = [sources EXCEPT ![p] = Tally(p) + 1]
        /\ byId[i] = KeyOf(r) /\ pkt[r] \in Client
        /\ UNCHANGED <<reaper, cur, sid, byId>>
    BY <1>0, <1>4 DEF CountSession, Go, LoopFacts, CountInv
  <2>2. p \in Ip /\ IpOf[byId[i].client] = p /\ byId[i] # None
    BY <2>1 DEF IpAt, KeyOf, Key
  <2>3. ~(reaper = "count" /\ cur.id = i)
    BY <2>1 DEF CountInv, Reaping
  <2>4. i \notin Counted(p)
    BY <2>1, <2>3 DEF Counted
  <2>5. \A q \in Route : pc'[q] = "count" => pc[q] = "count" /\ sid[q] # i
    <3>1. \A q \in Route : pc'[q] = "count" => q # r /\ pc[q] = "count"
      BY <2>1
    <3> QED BY <2>1, <3>1 DEF FreshInv, Pending
  <2>6. \A j \in Id : j # i =>
            ((\E q \in Route : pc'[q] = "count" /\ sid'[q] = j)
                <=> (\E q \in Route : pc[q] = "count" /\ sid[q] = j))
    BY <2>1
  <2>7. ASSUME NEW o \in Ip, NEW j \in Id, j # i PROVE j \in Counted(o)' <=> j \in Counted(o)
    BY <2>1, <2>6, <2>7 DEF Counted
  <2>8. i \in Counted(p)'
    BY <2>1, <2>2, <2>5 DEF Counted
  <2>9. ASSUME NEW o \in Ip, o # p PROVE i \notin Counted(o)' /\ i \notin Counted(o)
    BY <2>1, <2>2, <2>3, <2>9 DEF Counted
  <2>10. Counted(p)' = Counted(p) \cup {i}
    <3>1. Counted(p) \subseteq Id /\ Counted(p)' \subseteq Id
      BY DEF Counted
    <3> QED BY <2>1, <2>2, <2>7, <2>8, <3>1
  <2>11. ASSUME NEW o \in Ip, o # p PROVE Counted(o)' = Counted(o)
    <3>1. Counted(o) \subseteq Id /\ Counted(o)' \subseteq Id
      BY DEF Counted
    <3>2. ASSUME NEW j \in Id PROVE j \in Counted(o)' <=> j \in Counted(o)
      BY <2>7, <2>9, <2>11
    <3> QED BY <3>1, <3>2
  <2>12. Tally(p) = Cardinality(Counted(p)) /\ Tally(p) \in Nat
    BY <2>2, CountedFinite DEF CountExact
  <2>13. Cardinality(Counted(p) \cup {i}) = Tally(p) + 1
    <3>1. IsFiniteSet(Counted(p))
      BY CountedFinite
    <3>2. Cardinality(Counted(p) \cup {i}) = Cardinality(Counted(p)) + 1
      BY <2>4, <3>1, FS_AddElement
    <3> QED BY <2>12, <3>2
  <2>14. ASSUME NEW o \in Ip PROVE Tally(o)' = Cardinality(Counted(o)')
    <3>1. CASE o = p
      <4>1. sources'[o] = Tally(p) + 1
        BY <2>1, <3>1
      <4>2. Tally(o)' = Tally(p) + 1
        BY <2>12, <4>1, UdpNoCount DEF Tally
      <4>3. Counted(o)' = Counted(p) \cup {i}
        BY <2>10, <3>1
      <4> QED BY <2>13, <4>2, <4>3
    <3>2. CASE o # p
      <4>1. Tally(o)' = Tally(o)
        BY <2>1, <3>2 DEF Tally
      <4> QED BY <2>11, <3>2, <4>1 DEF CountExact
    <3> QED BY <3>1, <3>2
  <2> QED BY <2>14 DEF CountExact
<1>5. CASE Bucket(r)
  <2>1. /\ sources' = [sources EXCEPT ![IpAt(r)] = Tally(IpAt(r))] /\ IpAt(r) \in Ip
    BY <1>0, <1>5 DEF Bucket, LoopFacts, IpAt
  <2>2. \A p \in Ip : Tally(p)' = Tally(p)
    BY <2>1, UdpNoCount DEF Tally
  <2> QED BY <1>1, <1>5, <2>2 DEF Bucket, Go, Done
<1>6. CASE \E c \in Client : Receive(r, c)
  BY <1>1, <1>2, <1>6 DEF Receive, Go
<1>7. CASE RecvError(r)
  BY <1>1, <1>2, <1>7 DEF RecvError, Go
<1>8. CASE Admit(r)
  BY <1>1, <1>2, <1>8 DEF Admit, Go, Done
<1>9. CASE GetSession(r) \/ CreateSession(r) \/ InsertSession(r) \/ PushOpen(r)
  BY <1>1, <1>2, <1>9 DEF GetSession, CreateSession, InsertSession, PushOpen, Go
<1>10. CASE \E sent \in BOOLEAN : SendDatagram(r, sent)
  BY <1>1, <1>2, <1>10 DEF SendDatagram, Done
<1> QED BY <1>3, <1>4, <1>5, <1>6, <1>7, <1>8, <1>9, <1>10 DEF LoopRuns

(* So do the reaper and the others.                                        *)
LEMMA OthersKeepCount ==
    ASSUME MapInv, CountInv, CountExact, Reaper \/ Link \/ AgentControl \/ Datagrams
    PROVE  CountExact'
<1> USE DEF MapInv, TypeOK, LoopTypes, MapTypes, ReaperTypes, maps, reaping, loops
<1>1. ASSUME UNCHANGED <<pc, sid, byId>>, reaper' # "count", reaper # "count",
             \A p \in Ip : Tally(p)' = Tally(p)
      PROVE  CountExact'
  <2>1. \A p \in Ip : Counted(p)' = Counted(p)
    BY <1>1, SameCounted
  <2> QED BY <1>1, <2>1, SameTally
<1>2. ASSUME sources' = sources PROVE \A p \in Ip : Tally(p)' = Tally(p)
  BY <1>2 DEF Tally
<1>3. CASE Link \/ AgentControl \/ Datagrams
  <2>1. UNCHANGED <<loops, byId, sources, reaping>>
    BY <1>3 DEF Link, AgentControl, RegisterConn, RegisterPush, LoseAgent, UnregisterPush,
       UnregisterConn, AgentOpen, AgentClose, Datagrams, AgentReply, Idle, HandleDatagram
  <2>2. \A p \in Ip : Counted(p)' = Counted(p)
    BY <2>1, SameCounted
  <2> QED BY <1>2, <2>1, <2>2, SameTally
<1>4. CASE Wake \/ (\E k \in Key : Scan(k)) \/ (\E i \in Id : RemoveSession(i)) \/ PushClose
  BY <1>1, <1>2, <1>4 DEF Wake, Scan, RemoveSession, PushClose
<1>5. CASE Retain
  <2>1. \A p \in Ip : Tally(p)' = Tally(p)
    BY <1>5, UdpNoCount DEF Retain, Tally
  <2> QED BY <1>1, <1>5, <2>1 DEF Retain
<1>6. CASE RemoveById
  <2>1. /\ reaper = "index" /\ reaper' = "count" /\ byId' = [byId EXCEPT ![cur.id] = None]
        /\ cur \in [id : Id, key : Key] /\ byId[cur.id] = cur.key
        /\ UNCHANGED <<pc, sid, sources, cur>>
    BY <1>6 DEF RemoveById, ReapInv
  <2>2. ~ \E q \in Route : pc[q] = "count" /\ sid[q] = cur.id
    BY <2>1 DEF CountInv, Reaping
  <2>3. cur.id \in Id /\ cur.key \in Key /\ cur.key # None
    BY <2>1
  <2>4. ASSUME NEW p \in Ip PROVE Counted(p)' = Counted(p)
    <3>1. ASSUME NEW i \in Id PROVE i \in Counted(p)' <=> i \in Counted(p)
      <4>1. CASE i = cur.id
        BY <2>1, <2>2, <2>3, <4>1 DEF Counted
      <4>2. CASE i # cur.id
        BY <2>1, <2>3, <4>2 DEF Counted
      <4> QED BY <4>1, <4>2
    <3> QED BY <3>1 DEF Counted
  <2> QED BY <1>2, <2>1, <2>4, SameTally
<1>7. CASE Uncount
  <2>0. cur \in [id : Id, key : Key] /\ IpOf[cur.key.client] \in Ip /\ cur.id \in Id
    BY <1>7 DEF Uncount, ReapInv, Key
  <2> PICK p \in Ip, i \in Id : p = IpOf[cur.key.client] /\ i = cur.id
    BY <2>0
  <2>1. /\ reaper = "count" /\ reaper' = "close"
        /\ sources' = [sources EXCEPT ![p] =
               IF sources[p] = None \/ sources[p] = 0 THEN sources[p] ELSE sources[p] - 1]
        /\ UNCHANGED <<pc, sid, byId, cur>> /\ cur \in [id : Id, key : Key]
    BY <1>7, <2>0 DEF Uncount
  <2>2. i \in Id /\ cur.key.client \in Client /\ p \in Ip
    BY <2>1 DEF Key
  <2>3. byId[i] = None
    BY <2>1 DEF CountInv
  <2>4. \A o \in Ip : Counted(o)' = Counted(o) \ {i}
    BY <2>1, <2>2, <2>3 DEF Counted
  <2>5. i \in Counted(p) /\ \A o \in Ip : o # p => i \notin Counted(o)
    BY <2>1, <2>2, <2>3 DEF Counted
  <2>6. Tally(p) = Cardinality(Counted(p)) /\ Tally(p) \in Nat /\ IsFiniteSet(Counted(p))
    BY <2>2, CountedFinite DEF CountExact
  <2>7. Tally(p) > 0
    BY <2>5, <2>6, FS_EmptySet
  <2>8. Cardinality(Counted(p) \ {i}) = Tally(p) - 1
    <3>1. IsFiniteSet(Counted(p)) /\ i \in Counted(p)
      BY <2>5, CountedFinite
    <3>2. Cardinality(Counted(p) \ {i}) = Cardinality(Counted(p)) - 1
      BY <3>1, CardRemove, Zenon
    <3> QED BY <2>6, <3>2
  <2>9. ASSUME NEW o \in Ip PROVE Tally(o)' = Cardinality(Counted(o)')
    <3>1. CASE o = p
      <4>1. sources[p] = Tally(p) /\ sources[p] # None
        BY <2>7 DEF Tally
      <4>2. sources'[o] = Tally(p) - 1
        BY <2>1, <2>6, <2>7, <3>1, <4>1
      <4>3. Tally(o)' = Tally(p) - 1
        BY <2>6, <2>7, <4>2, UdpNoCount DEF Tally
      <4> QED BY <2>2, <2>4, <2>8, <3>1, <4>3
    <3>2. CASE o # p
      <4>1. Tally(o)' = Tally(o)
        BY <2>1, <3>2 DEF Tally
      <4>2. Counted(o) \ {i} = Counted(o)
        BY <2>5, <3>2
      <4> QED BY <2>4, <4>1, <4>2 DEF CountExact
    <3> QED BY <3>1, <3>2
  <2> QED BY <2>9 DEF CountExact
<1> QED BY <1>3, <1>4, <1>5, <1>6, <1>7 DEF Reaper

-----------------------------------------------------------------------------
(* The number of sessions of a source.                                     *)

(* The sessions of a source, the loops that may still add one to them, and *)
(* the loops that have added one which is not counted yet.                 *)
SessionsOf(p) == {k \in Key : sessions[k] # None /\ IpOf[k.client] = p}
Adding(p) ==
    {r \in Route : /\ pc[r] \in {"bucket", "get", "insert"} /\ IpAt(r) = p
                   /\ sessions[KeyOf(r)] = None}
Uncounted(p) == {r \in Route : pc[r] \in {"index", "count"} /\ IpAt(r) = p}

(* A loop that was admitted keeps its claim: the sessions and the claims   *)
(* together stay within the limit.  Reaping turns a session into a claim   *)
(* at most (of the loop that was admitted because of it).                  *)
BoundInv ==
    \A p \in Ip :
        Cardinality(SessionsOf(p)) + Cardinality(Adding(p))
            <= MaxSessions + Cardinality(Route) - 1

(* The sets of loops are finite.                                           *)
LEMMA LoopsFinite ==
    ASSUME NEW p
    PROVE  /\ IsFiniteSet(Adding(p)) /\ IsFiniteSet(Uncounted(p))
           /\ Cardinality(Adding(p)) \in Nat /\ Cardinality(Uncounted(p)) \in Nat
           /\ Cardinality(Route) \in Nat
<1>1. Adding(p) \in SUBSET Route /\ Uncounted(p) \in SUBSET Route
  BY DEF Adding, Uncounted
<1> QED BY <1>1, UdpFinite, FS_Subset, FS_CardinalityType

(* The sessions of a source are counted, or their loop is about to.        *)
LEMMA SessionsCounted ==
    ASSUME MapInv, CountInv, NEW p \in Ip
    PROVE  /\ IsFiniteSet(SessionsOf(p)) /\ Cardinality(SessionsOf(p)) \in Nat
           /\ Cardinality(SessionsOf(p))
                <= Cardinality(Counted(p)) + Cardinality(Uncounted(p))
<1> DEFINE S1 == {k \in SessionsOf(p) : sessions[k] \in Counted(p)}
           S2 == SessionsOf(p) \ S1
           f == [k \in S1 |-> sessions[k]]
           g == [k \in S2 |-> k.route]
<1> USE DEF MapInv, TypeOK, LoopTypes, MapTypes
<1>0. \A q \in Route : LoopFacts(q)
  BY DEF LoopInv
<1>1. ASSUME NEW k \in S1 PROVE byId[sessions[k]] = k
  <2>1. /\ k \in Key /\ sessions[k] # None /\ k.route \in Route
        /\ sessions[k] \in Counted(p) /\ sessions[k] \in Id
    BY <1>1 DEF SessionsOf, Key
  <2>2. CASE pc[k.route] = "index" /\ sid[k.route] = sessions[k]
    <3>1. byId[sessions[k]] = None
      BY <1>0, <2>1, <2>2 DEF LoopFacts
    <3>2. reaper = "count" /\ cur.id = sessions[k]
      BY <2>1, <3>1 DEF Counted
    <3> QED BY <2>1, <2>2, <3>2 DEF CountInv, Reaping
  <2> QED BY <2>1, <2>2 DEF MapsAgree
<1>2. f \in Injection(S1, Counted(p))
  BY <1>1 DEF Injection, IsInjective
<1>3. ASSUME NEW k \in S2 PROVE k.route \in Uncounted(p) /\ KeyOf(k.route) = k
  <2>1. /\ k \in Key /\ sessions[k] # None /\ k.route \in Route /\ IpOf[k.client] = p
        /\ sessions[k] \notin Counted(p) /\ sessions[k] \in Id
    BY <1>3 DEF SessionsOf, Key
  <2>2. pc[k.route] \in {"index", "count"} /\ KeyOf(k.route) = k
    <3>1. CASE pc[k.route] = "index" /\ KeyOf(k.route) = k
      BY <3>1
    <3>2. CASE byId[sessions[k]] = k
      <4>1. PICK q \in Route : pc[q] = "count" /\ sid[q] = sessions[k]
        BY <2>1, <3>2 DEF Counted
      <4>2. KeyOf(q) = k
        BY <3>2, <4>1 DEF CountInv
      <4>3. q = k.route
        BY <4>2 DEF KeyOf
      <4> QED BY <4>1, <4>2, <4>3
    <3> QED BY <2>1, <3>1, <3>2 DEF MapsAgree
  <2>3. IpAt(k.route) = p
    BY <2>1, <2>2 DEF IpAt, KeyOf
  <2> QED BY <2>1, <2>2, <2>3 DEF Uncounted
<1>4. g \in Injection(S2, Uncounted(p))
  <2>1. g \in [S2 -> Uncounted(p)]
    BY <1>3
  <2>2. ASSUME NEW j \in S2, NEW k \in S2, g[j] = g[k] PROVE j = k
    <3>1. j.route = k.route
      BY <2>2
    <3> QED BY <1>3, <3>1
  <2> QED BY <2>1, <2>2 DEF Injection, IsInjective
<1> HIDE DEF f, g
<1>5. IsFiniteSet(S1) /\ Cardinality(S1) <= Cardinality(Counted(p))
  BY <1>2, CountedFinite, FS_Injection
<1>6. IsFiniteSet(S2) /\ Cardinality(S2) <= Cardinality(Uncounted(p))
  BY <1>4, LoopsFinite, FS_Injection
<1>7. SessionsOf(p) = S1 \cup S2 /\ S1 \cap S2 = {}
  OBVIOUS
<1> HIDE DEF S1, S2
<1>8. /\ IsFiniteSet(S1 \cup S2)
      /\ Cardinality(S1 \cup S2) = Cardinality(S1) + Cardinality(S2) - Cardinality(S1 \cap S2)
  BY <1>5, <1>6, FS_Union
<1>9. Cardinality({}) = 0 /\ Cardinality(S1) \in Nat /\ Cardinality(S2) \in Nat
  BY <1>5, <1>6, FS_EmptySet, FS_CardinalityType
<1>10. Cardinality(SessionsOf(p)) = Cardinality(S1) + Cardinality(S2)
  BY <1>7, <1>8, <1>9
<1>11. Cardinality(Counted(p)) \in Nat /\ Cardinality(Uncounted(p)) \in Nat
  BY CountedFinite, LoopsFinite
<1> QED BY <1>5, <1>6, <1>7, <1>8, <1>9, <1>10, <1>11

(* A source below its limit has room for one more claim: at worst all the  *)
(* other loops have a claim or a session that is not counted yet.          *)
LEMMA RoomForOne ==
    ASSUME MapInv, CountInv, CountExact, NEW r \in Route, pc[r] = "admit",
           NEW p \in Ip, Tally(p) < MaxSessions
    PROVE  /\ Cardinality(SessionsOf(p)) + Cardinality(Adding(p)) + 1
                <= MaxSessions + Cardinality(Route) - 1
           /\ r \notin Adding(p)
<1> DEFINE A == Adding(p)
           U == Uncounted(p)
<1>1. (A \cup U) \in SUBSET (Route \ {r}) /\ A \cap U = {} /\ r \notin A
  BY DEF Adding, Uncounted
<1>2. IsFiniteSet(A) /\ IsFiniteSet(U) /\ Cardinality(A) \in Nat /\ Cardinality(U) \in Nat
  BY LoopsFinite
<1> HIDE DEF A, U
<1>3. IsFiniteSet(Route \ {r}) /\ Cardinality(Route \ {r}) = Cardinality(Route) - 1
  BY UdpFinite, CardRemove
<1>4. Cardinality(A \cup U) <= Cardinality(Route \ {r})
  BY <1>1, <1>3, FS_Subset
<1>5. Cardinality(A \cup U) = Cardinality(A) + Cardinality(U) - Cardinality(A \cap U)
  BY <1>2, FS_Union
<1>6. Cardinality(A \cap U) = 0
  BY <1>1, FS_EmptySet
<1>7. Cardinality(A) + Cardinality(U) <= Cardinality(Route) - 1
  BY <1>2, <1>3, <1>4, <1>5, <1>6
<1>8. Cardinality(Counted(p)) < MaxSessions /\ Cardinality(Counted(p)) \in Nat
  BY CountedFinite DEF CountExact
<1>9. Cardinality(SessionsOf(p)) <= Cardinality(Counted(p)) + Cardinality(U)
      /\ Cardinality(SessionsOf(p)) \in Nat /\ Cardinality(Route) \in Nat
  BY SessionsCounted, LoopsFinite DEF U
<1>10. Cardinality(SessionsOf(p)) + Cardinality(A) + 1 <= MaxSessions + Cardinality(Route) - 1
  BY <1>2, <1>7, <1>8, <1>9
<1> QED BY <1>1, <1>10 DEF A

(* Sessions and claims together stay within a bound when claims go away.   *)
LEMMA FewerClaims ==
    ASSUME NEW S, NEW A, NEW B \in SUBSET A, IsFiniteSet(S), IsFiniteSet(A), NEW N \in Int,
           Cardinality(S) + Cardinality(A) <= N
    PROVE  Cardinality(S) + Cardinality(B) <= N
<1>1. Cardinality(B) <= Cardinality(A) /\ IsFiniteSet(B)
  BY FS_Subset
<1>2. Cardinality(S) \in Nat /\ Cardinality(A) \in Nat /\ Cardinality(B) \in Nat
  BY <1>1, FS_CardinalityType
<1> QED BY <1>1, <1>2

(* A loop that was let in adds its session.                                *)
LEMMA ClaimTaken ==
    ASSUME NEW S, NEW A, NEW k, k \notin S, NEW r \in A, IsFiniteSet(S), IsFiniteSet(A),
           NEW N \in Int, Cardinality(S) + Cardinality(A) <= N
    PROVE  Cardinality(S \cup {k}) + Cardinality(A \ {r}) <= N
<1>1. Cardinality(S \cup {k}) = Cardinality(S) + 1
  BY FS_AddElement
<1>2. Cardinality(A \ {r}) = Cardinality(A) - 1
  BY CardRemove
<1>3. Cardinality(S) \in Nat /\ Cardinality(A) \in Nat
  BY FS_CardinalityType
<1> QED BY <1>1, <1>2, <1>3

(* The reaper takes a session away while a loop is let in.                 *)
LEMMA SessionReaped ==
    ASSUME NEW S, NEW A, NEW k \in S, NEW r, NEW B \in SUBSET (A \cup {r}), IsFiniteSet(S),
           IsFiniteSet(A), NEW N \in Int, Cardinality(S) + Cardinality(A) <= N
    PROVE  Cardinality(S \ {k}) + Cardinality(B) <= N
<1>1. Cardinality(S \ {k}) = Cardinality(S) - 1
  BY CardRemove
<1>2. /\ IsFiniteSet(A \cup {r})
      /\ Cardinality(A \cup {r}) = IF r \in A THEN Cardinality(A) ELSE Cardinality(A) + 1
  BY FS_AddElement
<1>3. Cardinality(B) <= Cardinality(A \cup {r}) /\ IsFiniteSet(B)
  BY <1>2, FS_Subset
<1>4. Cardinality(S) \in Nat /\ Cardinality(A) \in Nat /\ Cardinality(B) \in Nat
  BY <1>3, FS_CardinalityType
<1> QED BY <1>1, <1>2, <1>3, <1>4

(* Steps that touch no session and let no further loop in.                 *)
LEMMA NoMoreClaims ==
    ASSUME MapInv, CountInv, BoundInv, sessions' = sessions,
           \A q \in Route : pc'[q] \in {"bucket", "get", "insert"} =>
               pc[q] \in {"bucket", "get", "insert"} /\ pkt'[q] = pkt[q]
    PROVE  BoundInv'
<1> SUFFICES ASSUME NEW p \in Ip
             PROVE  Cardinality(SessionsOf(p)') + Cardinality(Adding(p)')
                        <= MaxSessions + Cardinality(Route) - 1
  BY DEF BoundInv
<1>1. SessionsOf(p)' = SessionsOf(p) /\ Adding(p)' \in SUBSET Adding(p)
  BY DEF SessionsOf, Adding, IpAt, KeyOf
<1>2. IsFiniteSet(SessionsOf(p)) /\ IsFiniteSet(Adding(p))
  BY SessionsCounted, LoopsFinite
<1>3. MaxSessions + Cardinality(Route) - 1 \in Int
  BY LoopsFinite
<1>4. Cardinality(SessionsOf(p)) + Cardinality(Adding(p))
          <= MaxSessions + Cardinality(Route) - 1
  BY DEF BoundInv
<1>5. Cardinality(SessionsOf(p)) + Cardinality(Adding(p)')
          <= MaxSessions + Cardinality(Route) - 1
  BY <1>1, <1>2, <1>3, <1>4, FewerClaims
<1> QED BY <1>1, <1>5

(* A loop keeps the bound.                                                 *)
LEMMA LoopKeepsBound ==
    ASSUME MapInv, CountInv, CountExact, BoundInv, NEW r \in Route,
           LoopRuns(r) \/ RecvError(r) \/ \E c \in Client : Receive(r, c)
    PROVE  BoundInv'
<1> DEFINE N == MaxSessions + Cardinality(Route) - 1
<1> USE DEF MapInv, TypeOK, LoopTypes, MapTypes, maps
<1>0. LoopFacts(r) /\ \A q \in Route : LoopFacts(q)
  BY DEF LoopInv
<1>1. N \in Int /\ \A p \in Ip : IsFiniteSet(SessionsOf(p)) /\ IsFiniteSet(Adding(p))
  BY SessionsCounted, LoopsFinite
<1>2. \A p \in Ip : Cardinality(SessionsOf(p)) + Cardinality(Adding(p)) <= N
  BY DEF BoundInv
<1>3. ASSUME pc[r] = "admit", pc' = [pc EXCEPT ![r] = "bucket"],
             UNCHANGED <<pkt, sessions>>,
             sessions[KeyOf(r)] # None \/ Tally(IpAt(r)) < MaxSessions
      PROVE  BoundInv'
  <2> SUFFICES ASSUME NEW p \in Ip
               PROVE  Cardinality(SessionsOf(p)') + Cardinality(Adding(p)') <= N
    BY DEF BoundInv
  <2>1. SessionsOf(p)' = SessionsOf(p) /\ Adding(p)' \in SUBSET (Adding(p) \cup {r})
    BY <1>3 DEF SessionsOf, Adding, IpAt, KeyOf
  <2>2. CASE r \notin Adding(p)'
    <3>1. Adding(p)' \in SUBSET Adding(p)
      BY <2>1, <2>2
    <3>2. Cardinality(SessionsOf(p)) + Cardinality(Adding(p)') <= N
      BY <1>1, <1>2, <3>1, FewerClaims
    <3> QED BY <2>1, <3>2
  <2>3. CASE r \in Adding(p)'
    <3>1. IpAt(r) = p /\ sessions[KeyOf(r)] = None
      BY <1>3, <2>3 DEF Adding, IpAt, KeyOf
    <3>2. Cardinality(SessionsOf(p)) + Cardinality(Adding(p)) + 1 <= N
      BY <1>3, <3>1, RoomForOne
    <3>3. IsFiniteSet(Adding(p) \cup {r})
          /\ Cardinality(Adding(p) \cup {r}) <= Cardinality(Adding(p)) + 1
      <4>1. IsFiniteSet(Adding(p))
        BY <1>1
      <4> QED BY <4>1, CardAdd, Zenon
    <3>4. Cardinality(Adding(p)') <= Cardinality(Adding(p) \cup {r})
          /\ IsFiniteSet(Adding(p)')
      BY <2>1, <3>3, FS_Subset
    <3>5. /\ Cardinality(Adding(p)) \in Nat /\ Cardinality(Adding(p)') \in Nat
          /\ Cardinality(Adding(p) \cup {r}) \in Nat /\ Cardinality(SessionsOf(p)) \in Nat
      BY <1>1, <3>3, <3>4, FS_CardinalityType
    <3>6. Cardinality(SessionsOf(p)) + Cardinality(Adding(p)') <= N
      BY <1>1, <3>2, <3>3, <3>4, <3>5
    <3> QED BY <2>1, <3>6
  <2> QED BY <2>2, <2>3
<1>4. CASE InsertSession(r)
  <2>1. /\ pc[r] = "insert" /\ pc' = [pc EXCEPT ![r] = "index"] /\ sid[r] \in Id
        /\ sessions' = [sessions EXCEPT ![KeyOf(r)] = sid[r]] /\ pkt' = pkt
        /\ sessions[KeyOf(r)] = None /\ pkt[r] \in Client
    BY <1>0, <1>4 DEF InsertSession, Go, LoopFacts
  <2>2. /\ KeyOf(r) \in Key /\ KeyOf(r).client = pkt[r] /\ IpAt(r) \in Ip /\ sid[r] # None
        /\ \A q \in Route : q # r => KeyOf(q) # KeyOf(r)
    BY <2>1 DEF KeyOf, Key, IpAt
  <2> SUFFICES ASSUME NEW p \in Ip
               PROVE  Cardinality(SessionsOf(p)') + Cardinality(Adding(p)') <= N
    BY DEF BoundInv
  <2>3. Adding(p)' \subseteq Adding(p) \ {r}
    <3>1. ASSUME NEW q \in Adding(p)' PROVE q \in Adding(p) /\ q # r
      <4>1. /\ q \in Route /\ pc'[q] \in {"bucket", "get", "insert"}
            /\ IpAt(q) = p /\ sessions'[KeyOf(q)] = None /\ KeyOf(q)' = KeyOf(q)
        BY <2>1 DEF Adding, IpAt, KeyOf
      <4>2. q # r /\ pc[q] = pc'[q]
        BY <2>1, <4>1
      <4>3. pkt[q] \in Client
        BY <1>0, <4>1, <4>2 DEF LoopFacts
      <4>4. KeyOf(q) \in Key /\ KeyOf(q) # KeyOf(r)
        BY <2>2, <4>1, <4>2, <4>3 DEF KeyOf, Key
      <4>5. sessions[KeyOf(q)] = None
        BY <2>1, <2>2, <4>1, <4>4
      <4> QED BY <4>1, <4>2, <4>5 DEF Adding
    <3> QED BY <3>1
  <2>4. CASE p = IpAt(r)
    <3> DEFINE k == KeyOf(r)
    <3>1. r \in Adding(p) /\ k \notin SessionsOf(p)
      BY <2>1, <2>4 DEF Adding, SessionsOf
    <3>2. SessionsOf(p)' = SessionsOf(p) \cup {k}
      BY <2>1, <2>2, <2>4 DEF SessionsOf, IpAt
    <3> HIDE DEF k
    <3>3. Cardinality(SessionsOf(p) \cup {k}) + Cardinality(Adding(p) \ {r}) <= N
      BY <1>1, <1>2, <3>1, ClaimTaken
    <3>4. IsFiniteSet(SessionsOf(p) \cup {k}) /\ IsFiniteSet(Adding(p) \ {r})
      BY <1>1, FS_AddElement, FS_RemoveElement
    <3>5. Cardinality(SessionsOf(p) \cup {k}) + Cardinality(Adding(p)') <= N
      BY <1>1, <2>3, <3>3, <3>4, FewerClaims
    <3> QED BY <3>2, <3>5
  <2>5. CASE p # IpAt(r)
    <3>1. SessionsOf(p)' = SessionsOf(p)
      BY <2>1, <2>2, <2>5 DEF SessionsOf, IpAt
    <3>2. Adding(p)' \in SUBSET Adding(p)
      BY <2>3
    <3>3. Cardinality(SessionsOf(p)) + Cardinality(Adding(p)') <= N
      BY <1>1, <1>2, <3>2, FewerClaims
    <3> QED BY <3>1, <3>3
  <2> QED BY <2>4, <2>5
<1>5. CASE Admit(r)
  <2>1. CASE Done(r)
    BY <1>5, <2>1, NoMoreClaims DEF Admit, Done
  <2>2. CASE ~Done(r)
    BY <1>3, <1>5, <2>2 DEF Admit, Go
  <2> QED BY <2>1, <2>2
<1>6. CASE (\E c \in Client : Receive(r, c)) \/ RecvError(r)
  BY <1>6, NoMoreClaims DEF Receive, RecvError, Go
<1>7. CASE Bucket(r)
  BY <1>7, NoMoreClaims DEF Bucket, Go, Done
<1>8. CASE GetSession(r) \/ CreateSession(r) \/ InsertById(r) \/ CountSession(r) \/ PushOpen(r)
  BY <1>8, NoMoreClaims DEF GetSession, CreateSession, InsertById, CountSession, PushOpen, Go
<1>9. CASE \E sent \in BOOLEAN : SendDatagram(r, sent)
  BY <1>9, NoMoreClaims DEF SendDatagram, Done
<1> QED BY <1>4, <1>5, <1>6, <1>7, <1>8, <1>9 DEF LoopRuns

(* So does the reaper, when it removes a session a loop was admitted for.  *)
LEMMA OthersKeepBound ==
    ASSUME MapInv, CountInv, BoundInv, Reaper \/ Link \/ AgentControl \/ Datagrams
    PROVE  BoundInv'
<1> DEFINE N == MaxSessions + Cardinality(Route) - 1
<1> USE DEF MapInv, TypeOK, LoopTypes, MapTypes, maps, loops
<1>1. N \in Int /\ \A p \in Ip : IsFiniteSet(SessionsOf(p)) /\ IsFiniteSet(Adding(p))
  BY SessionsCounted, LoopsFinite
<1>2. \A p \in Ip : Cardinality(SessionsOf(p)) + Cardinality(Adding(p)) <= N
  BY DEF BoundInv
<1>3. ASSUME NEW i \in Id, RemoveSession(i) PROVE BoundInv'
  <2>0. byId[i] \in Key /\ sessions[byId[i]] = i
    BY <1>3 DEF RemoveSession, ReapInv
  <2> PICK k \in Key : k = byId[i]
    BY <2>0
  <2>1. /\ sessions' = [sessions EXCEPT ![k] = None] /\ sessions[k] # None
        /\ UNCHANGED <<pc, pkt>>
    BY <1>3, <2>0 DEF RemoveSession
  <2> SUFFICES ASSUME NEW p \in Ip
               PROVE  Cardinality(SessionsOf(p)') + Cardinality(Adding(p)') <= N
    BY DEF BoundInv
  <2>2. ASSUME NEW q \in Adding(p)' PROVE q \in Adding(p) \/ (q = k.route /\ p = IpOf[k.client])
    <3>1. /\ q \in Route /\ pc[q] \in {"bucket", "get", "insert"}
          /\ IpAt(q) = p /\ sessions'[KeyOf(q)] = None /\ pkt[q] \in Client
      BY <2>1 DEF Adding, IpAt, KeyOf, LoopInv, LoopFacts
    <3>2. KeyOf(q) \in Key /\ KeyOf(q).route = q /\ IpOf[KeyOf(q).client] = p
      BY <3>1 DEF KeyOf, Key, IpAt
    <3>3. CASE KeyOf(q) = k
      BY <3>2, <3>3
    <3>4. CASE KeyOf(q) # k
      BY <2>1, <3>1, <3>2, <3>4 DEF Adding
    <3> QED BY <3>3, <3>4
  <2>3. CASE p = IpOf[k.client]
    <3>1. k \in SessionsOf(p) /\ SessionsOf(p)' = SessionsOf(p) \ {k}
      BY <2>1, <2>3 DEF SessionsOf
    <3>2. Adding(p)' \in SUBSET (Adding(p) \cup {k.route})
      BY <2>2
    <3>3. Cardinality(SessionsOf(p) \ {k}) + Cardinality(Adding(p)') <= N
      <4>1. /\ k \in SessionsOf(p) /\ IsFiniteSet(SessionsOf(p)) /\ IsFiniteSet(Adding(p))
            /\ N \in Int /\ Cardinality(SessionsOf(p)) + Cardinality(Adding(p)) <= N
        BY <1>1, <1>2, <3>1
      <4> HIDE DEF N
      <4> QED BY <3>2, <4>1, SessionReaped, Zenon
    <3> QED BY <3>1, <3>3
  <2>4. CASE p # IpOf[k.client]
    <3>1. SessionsOf(p)' = SessionsOf(p)
      BY <2>1, <2>4 DEF SessionsOf
    <3>2. Adding(p)' \in SUBSET Adding(p)
      BY <2>2, <2>4
    <3>3. Cardinality(SessionsOf(p)) + Cardinality(Adding(p)') <= N
      BY <1>1, <1>2, <3>2, FewerClaims
    <3> QED BY <3>1, <3>3
  <2> QED BY <2>3, <2>4
<1>4. CASE Link \/ AgentControl \/ Datagrams
  <2>1. UNCHANGED <<loops, sessions>>
    BY <1>4 DEF Link, AgentControl, RegisterConn, RegisterPush, LoseAgent, UnregisterPush,
       UnregisterConn, AgentOpen, AgentClose, Datagrams, AgentReply, Idle, HandleDatagram
  <2> QED BY <2>1, NoMoreClaims
<1>5. CASE Wake \/ (\E k \in Key : Scan(k)) \/ RemoveById \/ Uncount \/ PushClose \/ Retain
  <2>1. UNCHANGED <<loops, sessions>>
    BY <1>5 DEF Wake, Scan, RemoveById, Uncount, PushClose, Retain
  <2> QED BY <2>1, NoMoreClaims
<1> QED BY <1>3, <1>4, <1>5 DEF Reaper

-----------------------------------------------------------------------------

(* What is known of the counts.                                            *)
UdpCounts == MapInv /\ CountInv /\ CountExact /\ BoundInv

(* At the start there is nothing to count.                                 *)
LEMMA CountsInit == Init => UdpCounts
<1> SUFFICES ASSUME Init PROVE CountInv /\ CountExact /\ BoundInv
  BY InitInv DEF IInv, UdpCounts
<1>1. CountInv
  BY DEF Init, CountInv, Reaping
<1>2. ASSUME NEW p \in Ip
      PROVE  Counted(p) = {} /\ SessionsOf(p) = {} /\ Adding(p) = {} /\ Tally(p) = 0
  BY DEF Init, Counted, SessionsOf, Adding, Tally
<1>3. Cardinality({}) = 0
  BY FS_EmptySet
<1>4. CountExact
  BY <1>2, <1>3 DEF CountExact
<1>5. Cardinality(Route) \in Nat /\ Cardinality(Route) # 0
  BY UdpFinite, FS_CardinalityType, FS_EmptySet
<1>6. BoundInv
  <2> SUFFICES ASSUME NEW p \in Ip
               PROVE  Cardinality(SessionsOf(p)) + Cardinality(Adding(p))
                          <= MaxSessions + Cardinality(Route) - 1
    BY DEF BoundInv
  <2>1. Cardinality(SessionsOf(p)) = 0 /\ Cardinality(Adding(p)) = 0
    BY <1>2, <1>3
  <2> QED BY <1>5, <2>1
<1> QED BY <1>1, <1>4, <1>6

(* Every step keeps them.                                                  *)
LEMMA CountsStep == UdpCounts /\ MapInv' /\ [Next]_vars => UdpCounts'
<1> SUFFICES ASSUME UdpCounts, MapInv', [Next]_vars PROVE (CountInv /\ CountExact /\ BoundInv)'
  BY DEF UdpCounts
<1>1. ASSUME NEW r \in Route, LoopRuns(r) \/ RecvError(r) \/ \E c \in Client : Receive(r, c)
      PROVE  (CountInv /\ CountExact /\ BoundInv)'
  BY <1>1, LoopKeepsCountInv, LoopKeepsCount, LoopKeepsBound DEF UdpCounts
<1>2. CASE Reaper \/ Link \/ AgentControl \/ Datagrams
  BY <1>2, OthersKeepCountInv, OthersKeepCount, OthersKeepBound DEF UdpCounts
<1>3. CASE UNCHANGED vars
  <2>1. UNCHANGED <<pc, pkt, sid, sessions, byId, nextId, sources, stale, reaper, expired, cur>>
    BY <1>3 DEF vars, loops, maps, reaping
  <2>2. CountInv'
    BY <2>1 DEF UdpCounts, CountInv, Reaping, KeyOf
  <2>3. \A p \in Ip : Counted(p)' = Counted(p) /\ Tally(p)' = Tally(p)
    BY <2>1 DEF Counted, Tally
  <2>4. CountExact'
    BY <2>3, SameTally DEF UdpCounts
  <2> QED BY <2>1, <2>2, <2>4, NoMoreClaims DEF UdpCounts
<1> QED BY <1>1, <1>2, <1>3 DEF Next, Inbound

(* The counts of all behaviours.                                           *)
THEOREM UdpCounting == Spec => []UdpCounts
<1>1. IInv => MapInv
  BY DEF IInv
<1> QED BY <1>1, CountsInit, CountsStep, UdpInvariant, PTL DEF Spec

(* The count of a source is that of its sessions, whatever the order in    *)
(* which loops create and count, the reaper uncounts, and entries of idle  *)
(* sources are dropped.                                                    *)
THEOREM UdpCountExact == Spec => []CountExact
<1>1. UdpCounts => CountExact
  BY DEF UdpCounts
<1> QED BY <1>1, UdpCounting, PTL

(* A source has at most max_sessions_per_ip sessions and one more for every*)
(* further route.                                                          *)
THEOREM UdpSessionsBounded == Spec => []SessionsBounded
<1>1. UdpCounts => SessionsBounded
  <2> SUFFICES ASSUME UdpCounts, NEW p \in Ip
               PROVE  Cardinality(SessionsOf(p)) <= MaxSessions + Cardinality(Route) - 1
    BY DEF SessionsBounded, SessionsOf
  <2>1. /\ Cardinality(SessionsOf(p)) \in Nat /\ Cardinality(Adding(p)) \in Nat
        /\ Cardinality(Route) \in Nat
    BY SessionsCounted, LoopsFinite DEF UdpCounts
  <2>2. Cardinality(SessionsOf(p)) + Cardinality(Adding(p))
            <= MaxSessions + Cardinality(Route) - 1
    BY DEF UdpCounts, BoundInv
  <2> QED BY <2>1, <2>2
<1> QED BY <1>1, UdpCounting, PTL
=============================================================================
