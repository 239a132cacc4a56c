---------------------------- MODULE NodeLifecycle ----------------------------
(***************************************************************************)
(* The life of an agent connection on the server: handle_connection and    *)
(* handshake of server/src/quic.rs, with the four places that say a node   *)
(* is online.                                                              *)
(*                                                                         *)
(*   sessions  SessionManager    (crates/tunnel-core/src/session.rs)       *)
(*   conns     ConnRegistry      (server/src/conn_registry.rs)             *)
(*   push      ConfigSync.push   (server/src/config_sync.rs)               *)
(*   status    nodes.status      (crates/tunnel-db/src/lib.rs)             *)
(*                                                                         *)
(* Every connection has a tokio task of its own; the runtime is            *)
(* multi-threaded, so two tasks interleave between any two operations on a *)
(* shared map, not only at an await.  Each action below is one such        *)
(* operation.  All four places are keyed by the node and not by the        *)
(* connection, which is what makes overlapping connections of one node     *)
(* interesting: an agent reconnects as soon as IT sees the old connection  *)
(* fail, the server's task for the old one may notice 45 s later.          *)
(***************************************************************************)
EXTENDS Integers, FiniteSets

CONSTANTS
    Node,   \* node ids
    Conn,   \* accepted QUIC connections; each is used once (bounds the run)
    None,   \* the absent connection, the absent node
    Faults  \* the kinds of failure and of admin action that happen

(* protocol  a peer that sends a wrong frame or a wrong credential         *)
(* db        a statement that fails                                        *)
(* timeout   a connection that is up and silent for heartbeat_timeout      *)
(* revoke    a credential is revoked or expires                            *)
(* delete    a node is deleted                                             *)
(* restore   a deleted node comes back from a backup                       *)
(* restart   the server process ends and starts again                      *)
(* cancel    the client of an API request goes away (used by               *)
(*           ConfigDelivery: the handler's future is dropped at an await)  *)
FaultKinds == {"protocol", "db", "timeout", "revoke", "delete", "restore",
               "restart", "cancel"}

ASSUME FaultsAssumption == Faults \subseteq FaultKinds
ASSUME NoneAssumption == None \notin Node \cup Conn
ASSUME ConnAssumption == IsFiniteSet(Conn)

VARIABLES
    pc,          \* where the task of a connection stands
    up,          \* whether the agent's end of a connection is still there
    node,        \* the node a connection authenticated as
    sessions,    \* node -> the connection whose NodeSession is registered
    conns,       \* node -> the connection the data plane would use
    push,        \* node -> the connection whose push channel is registered
    status,      \* nodes.status; "absent" once the row is deleted
    announced,   \* the last NODE_ONLINE / NODE_OFFLINE event of a node
    nodesOnline, \* the gauges nodes_online and sessions_active, kept equal
    valid,       \* whether a node's runtime credential would authenticate
    lostOffline, \* history: nodes whose last offline write was lost
    carried      \* history: nodes whose 'online' came with the row, from an
                 \* earlier run or a backup, and that no task has written since

registries == <<sessions, conns, push>>
written == <<lostOffline, carried>>
database == <<status, valid, written>>
vars == <<pc, up, node, registries, database, announced, nodesOnline>>

-----------------------------------------------------------------------------
(* The steps of the task, in the order handle_connection takes them.       *)

Handshaking == {"hello", "auth", "authok", "register"}
Counted == {"setonline", "announce", "connreg", "pushreg", "serve",
            "unpush", "unconn", "unsession"}
Cleaning == {"unpush", "unconn", "unsession", "setoffline", "unannounce"}
Steps == Handshaking \cup Counted \cup Cleaning \cup {"idle", "rejected", "done"}

(* Between its own insert into a map and its own removal from it.          *)
HoldsSession == Counted
HoldsConn == {"pushreg", "serve", "unpush", "unconn"}
HoldsPush == {"serve", "unpush"}
(* Between the task's write of 'online' and its write of 'offline'.        *)
HoldsStatus == {"announce", "connreg", "pushreg", "serve",
                "unpush", "unconn", "unsession", "setoffline"}
HoldsAnnounced == {"connreg", "pushreg", "serve", "unpush", "unconn",
                   "unsession", "setoffline", "unannounce"}

Statuses == {"pending", "online", "offline", "disabled", "absent"}

TypeOK ==
    /\ pc \in [Conn -> Steps]
    /\ up \in [Conn -> BOOLEAN]
    /\ node \in [Conn -> Node \cup {None}]
    /\ sessions \in [Node -> Conn \cup {None}]
    /\ conns \in [Node -> Conn \cup {None}]
    /\ push \in [Node -> Conn \cup {None}]
    /\ status \in [Node -> Statuses]
    /\ announced \in [Node -> {"none", "online", "offline"}]
    /\ nodesOnline \in Int
    /\ valid \in [Node -> BOOLEAN]
    /\ lostOffline \in SUBSET Node
    /\ carried \in SUBSET Node

(* A node starts as create_node leaves it, as an earlier run of the server *)
(* left it, or as a snapshot import inserted it: the import copies the     *)
(* status of the backup, and start-up resets none, so 'online' is possible *)
(* though no agent is connected.                                           *)
Init ==
    /\ pc = [c \in Conn |-> "idle"]
    /\ up = [c \in Conn |-> FALSE]
    /\ node = [c \in Conn |-> None]
    /\ sessions = [n \in Node |-> None]
    /\ conns = [n \in Node |-> None]
    /\ push = [n \in Node |-> None]
    /\ status \in [Node -> Statuses \ {"absent"}]
    /\ announced = [n \in Node |-> "none"]
    /\ nodesOnline = 0
    /\ valid = [n \in Node |-> TRUE]
    /\ lostOffline = {}
    /\ carried = {n \in Node : status[n] = "online"}

Go(c, from, to) ==
    /\ pc[c] = from
    /\ pc' = [pc EXCEPT ![c] = to]

-----------------------------------------------------------------------------
(* The agent's end.                                                        *)

(* The QUIC handshake is complete and accept_bi gave the control stream.   *)
Connect(c) ==
    /\ Go(c, "idle", "hello")
    /\ up' = [up EXCEPT ![c] = TRUE]
    /\ UNCHANGED <<node, registries, database, announced, nodesOnline>>

(* The agent closes, crashes, or the path between the two is lost.  The    *)
(* server's task does not change by this: it has to notice.                *)
Lose(c) ==
    /\ up[c]
    /\ up' = [up EXCEPT ![c] = FALSE]
    /\ UNCHANGED <<pc, node, registries, database, announced, nodesOnline>>

-----------------------------------------------------------------------------
(* handshake                                                               *)

(* The first frame is a HELLO of major version 1.                          *)
ReadHello(c) ==
    /\ Go(c, "hello", "auth")
    /\ UNCHANGED <<up, node, registries, database, announced, nodesOnline>>

(* The first or second frame is another one, or HELLO has another major    *)
(* version: AUTH_FAIL PROTOCOL_ERROR, and wait for the peer to close.  A   *)
(* frame that does not decode ends the task at once.                       *)
ProtocolError(c) ==
    /\ "protocol" \in Faults
    /\ pc[c] \in {"hello", "auth"}
    /\ \E to \in {"rejected", "done"} : pc' = [pc EXCEPT ![c] = to]
    /\ UNCHANGED <<up, node, registries, database, announced, nodesOnline>>

(* What authenticate and evaluate accept of the row the credential selects:*)
(* neither revoked nor expired, and the node not disabled.  A deleted node *)
(* has no credential row.                                                  *)
Accepts(n) == valid[n] /\ status[n] \notin {"disabled", "absent"}

Authenticate(c, n) ==
    /\ Accepts(n)
    /\ Go(c, "auth", "authok")
    /\ node' = [node EXCEPT ![c] = n]
    /\ UNCHANGED <<up, registries, database, announced, nodesOnline>>

(* AUTH_FAIL: a credential that selects no row, or a row evaluate refuses, *)
(* or a query that fails.                                                  *)
AuthFail(c) ==
    /\ Faults \cap {"protocol", "db"} # {} \/ \E n \in Node : ~Accepts(n)
    /\ Go(c, "auth", "rejected")
    /\ UNCHANGED <<up, node, registries, database, announced, nodesOnline>>

(* The task of a rejected connection awaits conn.closed().                 *)
RejectedClosed(c) ==
    /\ ~up[c]
    /\ Go(c, "rejected", "done")
    /\ UNCHANGED <<up, node, registries, database, announced, nodesOnline>>

(* The stream ends or breaks while a frame is awaited.                     *)
HandshakeClosed(c) ==
    /\ ~up[c]
    /\ pc[c] \in {"hello", "auth"}
    /\ pc' = [pc EXCEPT ![c] = "done"]
    /\ UNCHANGED <<up, node, registries, database, announced, nodesOnline>>

(* AUTH_OK, then send_snapshot.                                            *)
SendSnapshot(c) ==
    /\ Go(c, "authok", "register")
    /\ UNCHANGED <<up, node, registries, database, announced, nodesOnline>>

(* Either write fails, or the routes cannot be read or parsed: the task    *)
(* returns with nothing registered.                                        *)
SnapshotFails(c) ==
    /\ "db" \in Faults \/ ~up[c]
    /\ Go(c, "authok", "done")
    /\ UNCHANGED <<up, node, registries, database, announced, nodesOnline>>

(* sessions.register replaces the entry of an older connection; the        *)
(* session it returns is dropped.  Both gauges go up.                      *)
RegisterSession(c) ==
    /\ Go(c, "register", "setonline")
    /\ sessions' = [sessions EXCEPT ![node[c]] = c]
    /\ nodesOnline' = nodesOnline + 1
    /\ UNCHANGED <<up, node, conns, push, database, announced>>

(* UPDATE ... SET status = 'online' WHERE id = ?: no row, no change.       *)
SetNodeOnline(c) ==
    /\ Go(c, "setonline", "announce")
    /\ status' = [status EXCEPT ![node[c]] =
                      IF @ = "absent" THEN @ ELSE "online"]
    /\ lostOffline' = lostOffline \ {node[c]}
    /\ carried' = carried \ {node[c]}
    /\ UNCHANGED <<up, node, registries, valid, announced, nodesOnline>>

(* A failed write is only logged.                                          *)
SetNodeOnlineFails(c) ==
    /\ "db" \in Faults
    /\ Go(c, "setonline", "announce")
    /\ UNCHANGED <<up, node, registries, database, announced, nodesOnline>>

PublishOnline(c) ==
    /\ Go(c, "announce", "connreg")
    /\ announced' = [announced EXCEPT ![node[c]] = "online"]
    /\ UNCHANGED <<up, node, registries, database, nodesOnline>>

-----------------------------------------------------------------------------
(* handle_connection, after the handshake                                  *)

RegisterConn(c) ==
    /\ Go(c, "connreg", "pushreg")
    /\ conns' = [conns EXCEPT ![node[c]] = c]
    /\ UNCHANGED <<up, node, sessions, push, database, announced, nodesOnline>>

(* The insert drops the sender of an older connection of the node, whose   *)
(* receiver then reads None once it has read what was queued.              *)
(* (Mutant: the connection is registered once more with its channel.)      *)
RegisterPushAndConn(c) ==
    /\ Go(c, "pushreg", "serve")
    /\ push' = [push EXCEPT ![node[c]] = c]
    /\ conns' = [conns EXCEPT ![node[c]] = c]
    /\ UNCHANGED <<up, node, sessions, database, announced, nodesOnline>>

RegisterPush(c) ==
    /\ Go(c, "pushreg", "serve")
    /\ push' = [push EXCEPT ![node[c]] = c]
    /\ UNCHANGED <<up, node, sessions, conns, database, announced, nodesOnline>>

(* serve_control_stream ends: the stream or the connection is closed, or a *)
(* write to it failed.                                                     *)
(* Mutant: the end of the stream is not noticed while the push channel is  *)
(* there.                                                                  *)
ServePeerClosedUnseen(c) ==
    /\ ~up[c]
    /\ pc[c] = "serve"
    /\ push[node[c]] # c
    /\ Go(c, "serve", "unpush")
    /\ UNCHANGED <<up, node, registries, database, announced, nodesOnline>>

ServePeerClosed(c) ==
    /\ ~up[c]
    /\ Go(c, "serve", "unpush")
    /\ UNCHANGED <<up, node, registries, database, announced, nodesOnline>>

(* ... or no frame came for heartbeat_timeout.                             *)
ServeHeartbeatTimeout(c) ==
    /\ "timeout" \in Faults \/ ~up[c]
    /\ Go(c, "serve", "unpush")
    /\ UNCHANGED <<up, node, registries, database, announced, nodesOnline>>

(* ... or the database failed while answering CONFIG_RESYNC, or has no row *)
(* of the node any more.                                                   *)
ServeResyncFails(c) ==
    /\ Go(c, "serve", "unpush")
    /\ "db" \in Faults \/ status[node[c]] = "absent"
    /\ UNCHANGED <<up, node, registries, database, announced, nodesOnline>>

(* ... or the push channel has lost its sender.                            *)
(* Mutant: the loop returns past the cleanup.                              *)
ServePushClosedReturns(c) ==
    /\ pc[c] = "serve"
    /\ push[node[c]] # c
    /\ Go(c, "serve", "done")
    /\ UNCHANGED <<up, node, registries, database, announced, nodesOnline>>

(* Mutant: a closed push channel is ignored.                               *)
ServePushClosedIgnored(c) == FALSE

ServePushClosed(c) ==
    /\ pc[c] = "serve"
    /\ push[node[c]] # c
    /\ Go(c, "serve", "unpush")
    /\ UNCHANGED <<up, node, registries, database, announced, nodesOnline>>

(* The three removals take whatever entry the node has.                    *)
UnregisterPush(c) ==
    /\ Go(c, "unpush", "unconn")
    /\ push' = [push EXCEPT ![node[c]] = None]
    /\ UNCHANGED <<up, node, sessions, conns, database, announced, nodesOnline>>

UnregisterConn(c) ==
    /\ Go(c, "unconn", "unsession")
    /\ conns' = [conns EXCEPT ![node[c]] = None]
    /\ UNCHANGED <<up, node, sessions, push, database, announced, nodesOnline>>

(* Mutant: the session is kept.                                            *)
UnregisterSessionKeeps(c) ==
    /\ Go(c, "unsession", "setoffline")
    /\ nodesOnline' = nodesOnline - 1
    /\ UNCHANGED <<up, node, registries, database, announced>>

(* Mutant: a task whose session was already removed returns.              *)
UnregisterSessionReturns(c) ==
    /\ Go(c, "unsession", IF sessions[node[c]] = None THEN "done" ELSE "setoffline")
    /\ sessions' = [sessions EXCEPT ![node[c]] = None]
    /\ nodesOnline' = nodesOnline - 1
    /\ UNCHANGED <<up, node, conns, push, database, announced>>

UnregisterSession(c) ==
    /\ Go(c, "unsession", "setoffline")
    /\ sessions' = [sessions EXCEPT ![node[c]] = None]
    /\ nodesOnline' = nodesOnline - 1
    /\ UNCHANGED <<up, node, conns, push, database, announced>>

(* Mutant: a status the schema does not have.                              *)
SetNodeOfflineWrong(c) ==
    /\ Go(c, "setoffline", "unannounce")
    /\ status' = [status EXCEPT ![node[c]] =
                      IF @ = "online" THEN "disconnected" ELSE @]
    /\ lostOffline' = lostOffline \ {node[c]}
    /\ carried' = carried \ {node[c]}
    /\ UNCHANGED <<up, node, registries, valid, announced, nodesOnline>>

(* UPDATE ... SET status = 'offline' WHERE id = ? AND status = 'online'.   *)
SetNodeOffline(c) ==
    /\ Go(c, "setoffline", "unannounce")
    /\ status' = [status EXCEPT ![node[c]] =
                      IF @ = "online" THEN "offline" ELSE @]
    /\ lostOffline' = lostOffline \ {node[c]}
    /\ carried' = carried \ {node[c]}
    /\ UNCHANGED <<up, node, registries, valid, announced, nodesOnline>>

SetNodeOfflineFails(c) ==
    /\ "db" \in Faults
    /\ Go(c, "setoffline", "unannounce")
    /\ lostOffline' = lostOffline \cup {node[c]}
    /\ UNCHANGED <<up, node, registries, status, valid, carried, announced, nodesOnline>>

PublishOffline(c) ==
    /\ Go(c, "unannounce", "done")
    /\ announced' = [announced EXCEPT ![node[c]] = "offline"]
    /\ UNCHANGED <<up, node, registries, database, nodesOnline>>

-----------------------------------------------------------------------------
(* The admin API and the process.                                          *)

(* A credential is revoked, or passes its expires_at.  Neither touches the *)
(* connections that it authenticated.                                      *)
RevokeCredential(n) ==
    /\ "revoke" \in Faults
    /\ valid[n]
    /\ valid' = [valid EXCEPT ![n] = FALSE]
    /\ UNCHANGED <<pc, up, node, registries, status, written, announced, nodesOnline>>

(* DELETE cascades to the credentials; nothing in memory is touched.       *)
DeleteNode(n) ==
    /\ "delete" \in Faults
    /\ status[n] # "absent"
    /\ status' = [status EXCEPT ![n] = "absent"]
    /\ valid' = [valid EXCEPT ![n] = FALSE]
    /\ lostOffline' = lostOffline \ {n}
    /\ carried' = carried \ {n}
    /\ UNCHANGED <<pc, up, node, registries, announced, nodesOnline>>

(* A restore inserts a row that is missing as the backup has it, status    *)
(* included, and with it a credential if the backup holds a usable one.    *)
(* Tasks of connections of the deleted node may still be at work.          *)
RestoreNode(n) ==
    /\ "restore" \in Faults
    /\ status[n] = "absent"
    /\ \E s \in Statuses \ {"absent"} :
           /\ status' = [status EXCEPT ![n] = s]
           /\ carried' = IF s = "online" THEN carried \cup {n} ELSE carried
    /\ \E usable \in BOOLEAN : valid' = [valid EXCEPT ![n] = usable]
    /\ UNCHANGED <<pc, up, node, registries, lostOffline, announced, nodesOnline>>

(* The server process stops (ctrl-c or a crash) and starts again: tasks,   *)
(* maps, gauges and events are gone, the database stays as it was.         *)
Restart ==
    /\ "restart" \in Faults
    /\ \E c \in Conn : pc[c] \notin {"idle", "done"}
    /\ pc' = [c \in Conn |-> IF pc[c] = "idle" THEN "idle" ELSE "done"]
    /\ up' = [c \in Conn |-> FALSE]
    /\ sessions' = [n \in Node |-> None]
    /\ conns' = [n \in Node |-> None]
    /\ push' = [n \in Node |-> None]
    /\ announced' = [n \in Node |-> "none"]
    /\ nodesOnline' = 0
    /\ lostOffline' = lostOffline \cup
           {n \in Node : \E c \in Conn : node[c] = n /\ pc[c] \in HoldsStatus}
    /\ UNCHANGED <<node, status, valid, carried>>

Handshake(c) ==
    \/ ReadHello(c)
    \/ ProtocolError(c)
    \/ \E n \in Node : Authenticate(c, n)
    \/ AuthFail(c)
    \/ RejectedClosed(c)
    \/ HandshakeClosed(c)
    \/ SendSnapshot(c)
    \/ SnapshotFails(c)
    \/ RegisterSession(c)
    \/ SetNodeOnline(c)
    \/ SetNodeOnlineFails(c)
    \/ PublishOnline(c)

Serving(c) ==
    \/ RegisterConn(c)
    \/ RegisterPush(c)
    \/ ServePeerClosed(c)
    \/ ServeHeartbeatTimeout(c)
    \/ ServeResyncFails(c)
    \/ ServePushClosed(c)

Cleanup(c) ==
    \/ UnregisterPush(c)
    \/ UnregisterConn(c)
    \/ UnregisterSession(c)
    \/ SetNodeOffline(c)
    \/ SetNodeOfflineFails(c)
    \/ PublishOffline(c)

Environment ==
    \/ \E c \in Conn : Connect(c) \/ Lose(c)
    \/ \E n \in Node : RevokeCredential(n) \/ DeleteNode(n) \/ RestoreNode(n)
    \/ Restart

Next ==
    \/ \E c \in Conn : Handshake(c) \/ Serving(c) \/ Cleanup(c)
    \/ Environment

(* A task that can run runs: tokio polls every woken task.  Nothing is     *)
(* assumed of the peers, of the admin, of the heartbeat timer firing on a  *)
(* healthy connection, or of a rejected peer closing.                      *)
TaskRuns(c) ==
    \/ SendSnapshot(c) \/ SnapshotFails(c) \/ RegisterSession(c)
    \/ SetNodeOnline(c) \/ SetNodeOnlineFails(c) \/ PublishOnline(c)
    \/ RegisterConn(c) \/ RegisterPush(c)
    \/ HandshakeClosed(c) \/ RejectedClosed(c)
    \/ ServePeerClosed(c) \/ ServePushClosed(c)
    \/ Cleanup(c)

Spec == Init /\ [][Next]_vars
FairSpec == Spec /\ \A c \in Conn : WF_vars(TaskRuns(c))

-----------------------------------------------------------------------------
(* Properties                                                              *)

Live(n, phase) == {c \in Conn : node[c] = n /\ pc[c] \in phase}

(* An entry of sessions, conns or push belongs to a connection of that node*)
(* whose task still has its own removal ahead: no order of registrations   *)
(* and removals by overlapping tasks leaves an entry that nobody removes,  *)
(* and a finished connection is never handed to the data plane.            *)
NoDanglingEntry ==
    \A n \in Node :
        /\ sessions[n] \in Live(n, HoldsSession) \cup {None}
        /\ conns[n] \in Live(n, HoldsConn) \cup {None}
        /\ push[n] \in Live(n, HoldsPush) \cup {None}

(* The gauges equal the number of tasks between their inc and their dec:   *)
(* every way out of handle_connection after the inc passes the dec, so they*)
(* come back to 0 and never go below it.                                   *)
GaugeExact == nodesOnline = Cardinality({c \in Conn : pc[c] \in Counted})

(* status says 'online' only while some task of the node still has its     *)
(* offline write ahead, or for one of two reasons, each of which ends with *)
(* the next status write of the node's tasks: the last offline write was   *)
(* lost (it failed, or the process ended first), or 'online' came with the *)
(* row from an earlier run or a backup.  No order of the writes of         *)
(* overlapping tasks, of a delete and of a restore adds a third.           *)
NoGhostOnline ==
    \A n \in Node :
        status[n] = "online" =>
            n \in lostOffline \cup carried \/ Live(n, HoldsStatus) # {}

(* The last event published for a node is NODE_ONLINE only while some task *)
(* of the node still has NODE_OFFLINE to publish: dashboards that follow   *)
(* the event stream never keep a node online that has no task left.        *)
NoGhostEvent ==
    \A n \in Node : announced[n] = "online" => Live(n, HoldsAnnounced) # {}

(* A connection taken out of the data-plane registry never comes back: once*)
(* its task is past conns.register, no step makes it the node's connection *)
(* again.                                                                  *)
NoResurrection ==
    [][\A n \in Node, c \in Conn :
          pc[c] \in HoldsConn \cup {"unsession", "setoffline", "unannounce", "done"}
          /\ conns[n] # c => conns'[n] # c]_vars

(* A connection that the agent lost while it was served is cleaned up by   *)
(* its task: it leaves every registry and its node is written offline.     *)
LostConnIsCleanedUp ==
    \A c \in Conn : (pc[c] = "serve" /\ ~up[c]) ~> (pc[c] = "done")

(* Two connections of one node are not both served for ever: the push      *)
(* channel of the newer one ends the older one's loop.                     *)
OneServerWins ==
    \A c, d \in Conn :
        c # d => ((pc[c] = "serve" /\ pc[d] = "serve" /\ node[c] = node[d])
                     ~> (pc[c] # "serve" \/ pc[d] # "serve"))

-----------------------------------------------------------------------------
(* What a comment in the code says and overlapping connections refute.     *)

(* Exactly one task of n is between accept and done, and it serves a       *)
(* connection that is up.                                                  *)
ServedAlone(n, c) ==
    /\ node[c] = n /\ pc[c] = "serve" /\ up[c]
    /\ Live(n, Steps \ {"done", "rejected"}) = {c}

(* conn_registry.rs: "on reconnect of a Node the old connection is         *)
(* replaced", "get the Node's current connection (if online)".             *)
ServedConnIsRegistered ==
    \A n \in Node, c \in Conn : ServedAlone(n, c) => conns[n] = c
=============================================================================
