------------------------------- MODULE UdpProxy -------------------------------
(***************************************************************************)
(* UDP forwarding: UdpProxy of server/src/udp_proxy.rs and UdpSessions of  *)
(* agent/src/udp.rs, for the routes of one node.                           *)
(*                                                                         *)
(* A receive loop per route, the reaper and the datagram reader share four *)
(* maps without a common lock, so they interleave between any two          *)
(* operations on them.  UDP_OPEN and UDP_CLOSE go over the push channel    *)
(* and the control stream, which keep their order; packets go as QUIC      *)
(* datagrams beside it, which keep none and may be lost.                   *)
(*                                                                         *)
(* Connections of the node follow each other here (NodeLifecycle is about  *)
(* their overlap); a UDP session of the server outlives them.              *)
(***************************************************************************)
EXTENDS Integers, Sequences, FiniteSets

CONSTANTS
    Route,          \* UDP routes, each with its listener
    Client,         \* addresses of UDP clients
    Ip, IpOf,       \* their IP addresses
    MaxSessions,    \* max_sessions_per_ip
    MaxId,          \* bounds the run: session ids handed out
    MaxEpoch,       \* bounds the run: connections of the agent
    None,
    Events          \* what happens besides packets of clients

(* reply  targets send packets                                             *)
(* lose   connections of the agent end                                     *)
(* recv   recv_from fails on a listener                                    *)
(* open   the agent does not know the route, or cannot resolve, bind or    *)
(*        connect                                                          *)
ASSUME UdpEvents == Events \subseteq {"reply", "lose", "recv", "open"}
ASSUME UdpBounds == MaxSessions \in Nat /\ MaxId \in Nat /\ MaxEpoch \in Nat
ASSUME UdpFinite == IsFiniteSet(Route) /\ Route # {}
ASSUME UdpIps == IpOf \in [Client -> Ip]

Id == 0..(MaxId - 1)
Key == [client : Client, route : Route]
ASSUME UdpNone == None \notin Id \cup Key \cup Client
ASSUME UdpNoCount == None \notin Nat

VARIABLES
    (* the receive loops *)
    pc,         \* where the loop of a route stands
    pkt,        \* the client of its packet
    via,        \* the connection it took from ConnRegistry
    sid,        \* the session it found or created
    (* the maps of UdpProxy *)
    sessions,   \* (client, route) -> session id
    byId,       \* session id -> (client, route)
    nextId,
    sources,    \* source IP -> its number of sessions, None without an entry
    stale,      \* sessions idle for longer than idle_timeout
    (* the reaper *)
    reaper, todo, expired, cur,
    (* the connection and the agent *)
    link,       \* what the server has registered of the connection
    epoch,      \* its number
    agent,      \* whether the agent's session runs
    ctl,        \* push channel and control stream to the agent
    toServer,   \* datagrams of the agent in flight
    sockets     \* UdpSessions.by_id of the agent

loops == <<pc, pkt, via, sid>>
maps == <<sessions, byId, nextId, sources, stale>>
reaping == <<reaper, todo, expired, cur>>
conn == <<link, epoch, agent>>
wire == <<ctl, toServer, sockets>>
vars == <<loops, maps, reaping, conn, wire>>

LoopSteps == {"recv", "admit", "bucket", "get", "insert", "index", "count",
              "open", "send", "dead"}
Control == [type : {"open", "close"}, id : Id, key : Key]
NoSession == [id |-> None, key |-> None]

LoopTypes ==
    /\ pc \in [Route -> LoopSteps]
    /\ pkt \in [Route -> Client \cup {None}]
    /\ via \in [Route -> 0..MaxEpoch]
    /\ sid \in [Route -> Id \cup {None}]

MapTypes ==
    /\ sessions \in [Key -> Id \cup {None}]
    /\ byId \in [Id -> Key \cup {None}]
    /\ nextId \in 0..MaxId
    /\ sources \in [Ip -> Nat \cup {None}]
    /\ stale \in SUBSET Id

ReaperTypes ==
    /\ reaper \in {"sleep", "scan", "next", "index", "count", "close"}
    /\ todo \in SUBSET Key
    /\ expired \in SUBSET Id
    /\ cur \in [id : Id, key : Key] \cup {NoSession}

LinkTypes ==
    /\ link \in {"down", "registered", "pushing", "unpushed"}
    /\ epoch \in 0..MaxEpoch
    /\ agent \in {"up", "gone"}
    /\ ctl \in Seq(Control)
    /\ toServer \in SUBSET [id : Id, owner : Key]
    /\ sockets \in [Id -> Key \cup {None}]

TypeOK == LoopTypes /\ MapTypes /\ ReaperTypes /\ LinkTypes

Init ==
    /\ pc = [r \in Route |-> "recv"]
    /\ pkt = [r \in Route |-> None]
    /\ via = [r \in Route |-> 0]
    /\ sid = [r \in Route |-> None]
    /\ sessions = [k \in Key |-> None]
    /\ byId = [i \in Id |-> None]
    /\ nextId = 0
    /\ sources = [p \in Ip |-> None]
    /\ stale = {}
    /\ reaper = "sleep" /\ todo = {} /\ expired = {} /\ cur = NoSession
    /\ link = "down" /\ epoch = 0 /\ agent = "gone"
    /\ ctl = <<>> /\ toServer = {}
    /\ sockets = [i \in Id |-> None]

KeyOf(r) == [client |-> pkt[r], route |-> r]
IpAt(r) == IpOf[pkt[r]]
Tally(p) == IF sources[p] = None THEN 0 ELSE sources[p]

Go(r, from, to) ==
    /\ pc[r] = from
    /\ pc' = [pc EXCEPT ![r] = to]

(* The packet is done with.                                                *)
Done(r) ==
    /\ pc' = [pc EXCEPT ![r] = "recv"]
    /\ pkt' = [pkt EXCEPT ![r] = None]
    /\ via' = [via EXCEPT ![r] = 0]
    /\ sid' = [sid EXCEPT ![r] = None]

(* push_message: to the node's channel, if there is one; nobody reads what *)
(* goes to an agent that is gone.                                          *)
Push(m) == ctl' = IF link = "pushing" /\ agent = "up" THEN Append(ctl, m) ELSE ctl

-----------------------------------------------------------------------------
(* forward_to_agent, in the receive loop of a route.                       *)

(* The route is there (UDP routes are not reloaded) and the node has a     *)
(* connection; otherwise, and when it is too large, the packet is dropped. *)
Receive(r, c) ==
    /\ link # "down"
    /\ Go(r, "recv", "admit")
    /\ pkt' = [pkt EXCEPT ![r] = c]
    /\ via' = [via EXCEPT ![r] = epoch]
    /\ UNCHANGED <<sid, maps, reaping, conn, wire>>

(* An error of the socket ends the loop.                                   *)
RecvError(r) ==
    /\ "recv" \in Events
    /\ Go(r, "recv", "dead")
    /\ UNCHANGED <<pkt, via, sid, maps, reaping, conn, wire>>

(* Mutant: the comparison lets one more in.                                *)
AdmitOffByOne(r) ==
    LET admitted == sessions[KeyOf(r)] # None \/ Tally(IpAt(r)) <= MaxSessions
    IN  /\ pc[r] = "admit"
        /\ \/ admitted /\ Go(r, "admit", "bucket") /\ UNCHANGED <<pkt, via, sid>>
           \/ ~admitted /\ Done(r)
        /\ UNCHANGED <<maps, reaping, conn, wire>>

(* admit_packet: a packet that would create a session is dropped when the  *)
(* source has its maximum.  (Only this loop creates the session, so it may *)
(* look for it and read the count in one step.)                            *)
Admit(r) ==
    LET admitted == sessions[KeyOf(r)] # None \/ Tally(IpAt(r)) < MaxSessions
    IN  /\ pc[r] = "admit"
        /\ \/ admitted /\ Go(r, "admit", "bucket") /\ UNCHANGED <<pkt, via, sid>>
           \/ ~admitted /\ Done(r)
        /\ UNCHANGED <<maps, reaping, conn, wire>>

(* The entry of the source is created if need be, and its two buckets have *)
(* tokens or have not.                                                     *)
Bucket(r) ==
    /\ pc[r] = "bucket"
    /\ sources' = [sources EXCEPT ![IpAt(r)] = Tally(IpAt(r))]
    /\ \/ Go(r, "bucket", "get") /\ UNCHANGED <<pkt, via, sid>>
       \/ Done(r)
    /\ UNCHANGED <<sessions, byId, nextId, stale, reaping, conn, wire>>

(* get_or_create_session: the session that is there ...                    *)
GetSession(r) ==
    /\ Go(r, "get", "send")
    /\ sessions[KeyOf(r)] # None
    /\ sid' = [sid EXCEPT ![r] = sessions[KeyOf(r)]]
    /\ UNCHANGED <<pkt, via, maps, reaping, conn, wire>>

(* Mutant: the number of sessions is taken for a new id.                   *)
CreateSessionReused(r) ==
    LET fresh == Cardinality({k \in Key : sessions[k] # None}) IN
    /\ Go(r, "get", "insert")
    /\ sessions[KeyOf(r)] = None
    /\ fresh < MaxId
    /\ sid' = [sid EXCEPT ![r] = fresh]
    /\ stale' = stale \ {fresh}
    /\ UNCHANGED <<pkt, via, sessions, byId, nextId, sources, reaping, conn, wire>>

(* ... or a new one, with next_session_id.fetch_add(1) as its id.          *)
CreateSession(r) ==
    /\ Go(r, "get", "insert")
    /\ sessions[KeyOf(r)] = None
    /\ nextId < MaxId
    /\ sid' = [sid EXCEPT ![r] = nextId]
    /\ nextId' = nextId + 1
    /\ UNCHANGED <<pkt, via, sessions, byId, sources, stale, reaping, conn, wire>>

InsertSession(r) ==
    /\ Go(r, "insert", "index")
    /\ sessions' = [sessions EXCEPT ![KeyOf(r)] = sid[r]]
    /\ UNCHANGED <<pkt, via, sid, byId, nextId, sources, stale, reaping, conn, wire>>

InsertById(r) ==
    /\ Go(r, "index", "count")
    /\ byId' = [byId EXCEPT ![sid[r]] = KeyOf(r)]
    /\ UNCHANGED <<pkt, via, sid, sessions, nextId, sources, stale, reaping, conn, wire>>

(* Mutant: the count of a source whose entry was dropped is lost.          *)
CountSessionIfThere(r) ==
    /\ Go(r, "count", "open")
    /\ sources' = [sources EXCEPT ![IpAt(r)] = IF @ = None THEN None ELSE @ + 1]
    /\ UNCHANGED <<pkt, via, sid, sessions, byId, nextId, stale, reaping, conn, wire>>

(* The entry may have been dropped since the packet was admitted.          *)
CountSession(r) ==
    /\ Go(r, "count", "open")
    /\ sources' = [sources EXCEPT ![IpAt(r)] = Tally(IpAt(r)) + 1]
    /\ UNCHANGED <<pkt, via, sid, sessions, byId, nextId, stale, reaping, conn, wire>>

PushOpen(r) ==
    /\ Go(r, "open", "send")
    /\ Push([type |-> "open", id |-> sid[r], key |-> KeyOf(r)])
    /\ UNCHANGED <<pkt, via, sid, maps, reaping, conn, toServer, sockets>>

(* send_datagram on the connection taken at the beginning.  It fails, or   *)
(* succeeds when that connection is not known to be closed: the session is *)
(* touched, and the agent writes the packet to the session's socket if it  *)
(* arrives and there is one (UdpSessions::handle_datagram).                *)
SendDatagram(r, sent) ==
    /\ pc[r] = "send"
    /\ sent => via[r] = epoch
    /\ Done(r)
    /\ stale' = IF sent THEN stale \ {sid[r]} ELSE stale
    /\ UNCHANGED <<sessions, byId, nextId, sources, reaping, conn, wire>>

-----------------------------------------------------------------------------
(* Agent to client, and the reaper.                                        *)

(* handle_datagram: by_id tells the client; the session is touched.        *)
HandleDatagram(m) ==
    /\ m \in toServer
    /\ toServer' = toServer \ {m}
    /\ stale' = IF byId[m.id] = None THEN stale ELSE stale \ {m.id}
    /\ UNCHANGED <<loops, sessions, byId, nextId, sources, reaping, conn, ctl, sockets>>

(* idle_timeout passes for a session.  It is 60 s: not between the steps   *)
(* of get_or_create_session, which awaits nothing.  The reaper reads the   *)
(* clock once, before it looks at the first session.                       *)
Idle(i) ==
    /\ byId[i] # None /\ i \notin stale
    /\ reaper # "scan"
    /\ \A r \in Route : sid[r] = i => pc[r] \notin {"count", "open"}
    /\ stale' = stale \cup {i}
    /\ UNCHANGED <<loops, sessions, byId, nextId, sources, reaping, conn, wire>>

(* reap_expired: the sessions are looked at one by one ...                 *)
Wake ==
    /\ reaper = "sleep"
    /\ todo' = {k \in Key : sessions[k] # None}
    /\ reaper' = IF todo' = {} THEN "next" ELSE "scan"
    /\ UNCHANGED <<loops, maps, expired, cur, conn, wire>>

(* Mutant: the comparison with idle_timeout is the wrong way round.        *)
ScanActive(k) ==
    /\ reaper = "scan" /\ k \in todo
    /\ todo' = todo \ {k}
    /\ reaper' = IF todo' = {} THEN "next" ELSE "scan"
    /\ expired' = expired \cup ({sessions[k]} \cap {i \in Id \ stale : byId[i] # None})
    /\ UNCHANGED <<loops, maps, cur, conn, wire>>

Scan(k) ==
    /\ reaper = "scan" /\ k \in todo
    /\ todo' = todo \ {k}
    /\ reaper' = IF todo' = {} THEN "next" ELSE "scan"
    /\ expired' = expired \cup ({sessions[k]} \cap stale)
    /\ UNCHANGED <<loops, maps, cur, conn, wire>>

(* ... and the idle ones taken out of both maps, whether or not they have  *)
(* been used since (a UdpSession knows its key), ...                       *)
RemoveSession(i) ==
    /\ reaper = "next" /\ i \in expired
    /\ expired' = expired \ {i}
    /\ cur' = [id |-> i, key |-> byId[i]]
    /\ sessions' = [sessions EXCEPT ![byId[i]] = None]
    /\ reaper' = "index"
    /\ UNCHANGED <<loops, byId, nextId, sources, stale, todo, conn, wire>>

(* Mutant: the entry of the reverse map stays.                             *)
RemoveByIdForgotten ==
    /\ reaper = "index"
    /\ reaper' = "count"
    /\ UNCHANGED <<loops, maps, todo, expired, cur, conn, wire>>

RemoveById ==
    /\ reaper = "index"
    /\ byId' = [byId EXCEPT ![cur.id] = None]
    /\ stale' = stale \ {cur.id}
    /\ reaper' = "count"
    /\ UNCHANGED <<loops, sessions, nextId, sources, todo, expired, cur, conn, wire>>

(* ... taken off the count of their source (checked_sub) ...               *)
Uncount ==
    LET p == IpOf[cur.key.client] IN
    /\ reaper = "count"
    /\ sources' = [sources EXCEPT ![p] = IF @ = None \/ @ = 0 THEN @ ELSE @ - 1]
    /\ reaper' = "close"
    /\ UNCHANGED <<loops, sessions, byId, nextId, stale, todo, expired, cur, conn, wire>>

(* Mutant: the agent is not told.                                          *)
PushCloseForgotten ==
    /\ reaper = "close"
    /\ reaper' = "next" /\ cur' = NoSession
    /\ UNCHANGED <<loops, maps, todo, expired, conn, wire>>

(* ... and closed at the agent.                                            *)
PushClose ==
    /\ reaper = "close"
    /\ Push([type |-> "close", id |-> cur.id, key |-> cur.key])
    /\ reaper' = "next" /\ cur' = NoSession
    /\ UNCHANGED <<loops, maps, todo, expired, conn, toServer, sockets>>

(* Sources without a session are dropped.                                  *)
Retain ==
    /\ reaper = "next" /\ expired = {}
    /\ sources' = [p \in Ip |-> IF sources[p] = 0 THEN None ELSE sources[p]]
    /\ reaper' = "sleep"
    /\ UNCHANGED <<loops, sessions, byId, nextId, stale, todo, expired, cur, conn, wire>>

-----------------------------------------------------------------------------
(* The connection, as far as UDP sees it: conns.register comes before      *)
(* config_sync.register, and config_sync.unregister before                 *)
(* conns.unregister.                                                       *)

RegisterConn ==
    /\ link = "down" /\ epoch < MaxEpoch
    /\ link' = "registered" /\ epoch' = epoch + 1 /\ agent' = "up"
    /\ UNCHANGED <<loops, maps, reaping, wire>>

RegisterPush ==
    /\ link = "registered"
    /\ link' = "pushing"
    /\ UNCHANGED <<loops, maps, reaping, epoch, agent, wire>>

(* The agent's session ends: its sockets are closed, and what is on its    *)
(* way is lost.  The server may not know yet.                              *)
EndSession ==
    /\ agent' = "gone"
    /\ ctl' = <<>> /\ toServer' = {}
    /\ sockets' = [i \in Id |-> None]

LoseAgent ==
    /\ "lose" \in Events
    /\ agent = "up"
    /\ EndSession
    /\ UNCHANGED <<loops, maps, reaping, link, epoch>>

(* The control loop ends, because the agent is gone or seems to be.        *)
UnregisterPush ==
    /\ "lose" \in Events
    /\ link = "pushing"
    /\ link' = "unpushed"
    /\ UNCHANGED <<loops, maps, reaping, epoch, agent, wire>>

UnregisterConn ==
    /\ link = "unpushed"
    /\ link' = "down"
    /\ EndSession
    /\ UNCHANGED <<loops, maps, reaping, epoch>>

-----------------------------------------------------------------------------
(* UdpSessions of the agent.                                               *)

(* UDP_OPEN: a connected socket of its own, unless the id has one.         *)
AgentOpen ==
    /\ ctl # <<>> /\ Head(ctl).type = "open"
    /\ LET m == Head(ctl) IN
       \/ sockets' = [sockets EXCEPT ![m.id] = IF @ = None THEN m.key ELSE @]
       \/ "open" \in Events /\ UNCHANGED sockets
    /\ ctl' = Tail(ctl)
    /\ UNCHANGED <<loops, maps, reaping, conn, toServer>>

AgentClose ==
    /\ ctl # <<>> /\ Head(ctl).type = "close"
    /\ sockets' = [sockets EXCEPT ![Head(ctl).id] = None]
    /\ ctl' = Tail(ctl)
    /\ UNCHANGED <<loops, maps, reaping, conn, toServer>>

(* recv_loop: the target sends something to the socket of a session.       *)
AgentReply(i) ==
    /\ "reply" \in Events
    /\ sockets[i] # None
    /\ toServer' = toServer \cup {[id |-> i, owner |-> sockets[i]]}
    /\ UNCHANGED <<loops, maps, reaping, conn, ctl, sockets>>

-----------------------------------------------------------------------------

LoopRuns(r) ==
    \/ Admit(r) \/ Bucket(r) \/ GetSession(r) \/ CreateSession(r)
    \/ InsertSession(r) \/ InsertById(r) \/ CountSession(r) \/ PushOpen(r)
    \/ \E sent \in BOOLEAN : SendDatagram(r, sent)

Inbound == \E r \in Route : RecvError(r) \/ \E c \in Client : Receive(r, c)

Reaper ==
    \/ Wake
    \/ \E k \in Key : Scan(k)
    \/ \E i \in Id : RemoveSession(i)
    \/ RemoveById
    \/ Uncount
    \/ PushClose
    \/ Retain

Link == RegisterConn \/ RegisterPush \/ LoseAgent \/ UnregisterPush \/ UnregisterConn

AgentControl == AgentOpen \/ AgentClose

Datagrams ==
    \/ \E i \in Id : AgentReply(i) \/ Idle(i)
    \/ \E m \in toServer : HandleDatagram(m)

Next ==
    \/ \E r \in Route : LoopRuns(r)
    \/ Inbound
    \/ Reaper
    \/ Link
    \/ AgentControl
    \/ Datagrams

Spec == Init /\ [][Next]_vars

(* The reaper wakes every REAP_INTERVAL and its steps, those of a loop     *)
(* with a packet, the cleanup of a connection and the agent's control loop *)
(* are taken.  Clients, targets and time need do nothing.                  *)
FairSpec ==
    /\ Spec
    /\ \A r \in Route : WF_vars(LoopRuns(r))
    /\ WF_vars(Reaper)
    /\ WF_vars(UnregisterConn)
    /\ WF_vars(AgentControl)

-----------------------------------------------------------------------------
(* Properties                                                              *)

(* sessions and by_id are inverse to each other, but for the session a     *)
(* loop is about to put into the second map and the one the reaper is      *)
(* about to take out of it: no order of creation and reaping leaves an     *)
(* entry in one of them that nothing leads to.                             *)
MapsAgree ==
    /\ \A k \in Key : sessions[k] # None =>
           \/ byId[sessions[k]] = k
           \/ pc[k.route] = "index" /\ sid[k.route] = sessions[k] /\ KeyOf(k.route) = k
    /\ \A i \in Id : byId[i] # None =>
           sessions[byId[i]] = i \/ (reaper = "index" /\ cur.id = i)

(* The sessions of a source that are in its count: counted by their loop   *)
(* and not yet taken off by the reaper.                                    *)
Counted(p) ==
    {i \in Id :
        \/ /\ byId[i] # None /\ IpOf[byId[i].client] = p
           /\ ~ \E r \in Route : pc[r] = "count" /\ sid[r] = i
        \/ reaper = "count" /\ cur.id = i /\ IpOf[cur.key.client] = p}

(* The count of a source is that of its sessions, although entries are     *)
(* dropped while packets of the source are under way: it never sticks      *)
(* above it, which would lock the source out, and never wraps.             *)
CountExact == \A p \in Ip : Tally(p) = Cardinality(Counted(p))

(* The limit is checked before the session is created, by one loop per     *)
(* route, and not at all for a session that is reaped in between: a source *)
(* exceeds it by at most one session for every further route.              *)
SessionsBounded ==
    \A p \in Ip :
        Cardinality({k \in Key : sessions[k] # None /\ IpOf[k.client] = p})
            <= MaxSessions + Cardinality(Route) - 1

(* A reply of the target reaches the client whose session its socket was   *)
(* opened for, or nobody: ids are not reused while anything of them is     *)
(* left at the agent or on the wire.                                       *)
ReplyToOwner == \A m \in toServer : byId[m.id] \in {m.owner, None}

(* An idle session is reaped unless it is used again.                      *)
IdleIsReaped ==
    \A i \in Id : (i \in stale) ~> (i \notin stale)

(* The socket of a session the server no longer has is closed at the agent,*)
(* by UDP_CLOSE or with the connection.                                    *)
OrphanIsClosed ==
    \A i \in Id : (sockets[i] # None /\ byId[i] = None) ~> (sockets[i] = None)

-----------------------------------------------------------------------------
(* What a comment says and reconnecting refutes.                           *)

(* udp_proxy.rs, at its head: a session is set up per client and route,    *)
(* UDP_OPEN tells the agent, and then every packet is forwarded.  So once  *)
(* the control stream is read to its end and no loop or reaper is at work, *)
(* a connected agent has the sessions of the server.                       *)
SessionIsOpenAtAgent ==
    /\ link = "pushing" /\ agent = "up" /\ ctl = <<>>
    /\ reaper = "sleep" /\ \A r \in Route : pc[r] = "recv"
    => \A i \in Id : sockets[i] = byId[i]
=============================================================================
