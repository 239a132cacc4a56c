--------------------------- MODULE ConfigDelivery ---------------------------
(***************************************************************************)
(* How a route change reaches the agent: the route handlers of the admin   *)
(* API (server/src/api/routes.rs), ConfigSync (server/src/config_sync.rs), *)
(* the control loop of the server (serve_control_stream in                 *)
(* server/src/quic.rs) and the agent's session (agent/src/session.rs).     *)
(* It extends NodeLifecycle: every action here is an action of that module *)
(* with its effect on the configuration, or leaves the lifecycle alone.    *)
(*                                                                         *)
(* The routes of a node are abstracted to the set of edits they contain.   *)
(* An edit is one create, update, delete, enable or disable of a route, of *)
(* a route of its own (moving a route is an edit of each of its two nodes);*)
(* a snapshot carries the edits committed when it was read, a delta        *)
(* carries one edit.  AUTH_OK, PING and PONG carry no configuration and    *)
(* are left out.                                                           *)
(***************************************************************************)
EXTENDS NodeLifecycle, Sequences

CONSTANTS
    Edit,       \* route changes; each is made once (bounds the run)
    EditNode,   \* the node whose route an edit changes
    Paths       \* the ways an edit is pushed: bump_and_push, which the REST
                \* handlers call, and notify_routes_changed, ConfigSync's own

(* A restore of a deleted node takes its config_version back to that of    *)
(* the backup under agents that may still be connected; it is left out.    *)
ASSUME NoRestoreAssumption == "restore" \notin Faults
ASSUME PathsAssumption == Paths \subseteq {"bumpSnapshot", "bumpDelta"}
ASSUME EditAssumption == EditNode \in [Edit -> Node]

VARIABLES
    committed,  \* edits in the routes table
    version,    \* nodes.config_version
    applied,    \* nodes.applied_config_version
    cfgStatus,  \* nodes.config_status
    req,        \* where the API handler of an edit stands
    bumped,     \* the config_version its bump returned (0: none yet)
    payload,    \* the edits it read for its snapshot
    readVer,    \* the config_version a connection's task read for a snapshot
    queue,      \* the push channel of a connection (unbounded mpsc)
    down, upq,  \* its control stream, to the agent and to the server
    agent,      \* the agent's session on a connection: applied_version, routes
    acked       \* applied_config_version of the connection's NodeSession

dbCfg == <<committed, version, applied, cfgStatus>>
reqVars == <<req, bumped, payload>>
streams == <<queue, down, upq>>
cfgVars == <<dbCfg, reqVars, readVer, streams, agent, acked>>
cvars == <<vars, cfgVars>>

NoVer == -1
Versions == 0..Cardinality(Edit)
ReqSteps == {"idle", "bumpSnapshot", "bumpDelta", "read", "pushSnapshot",
             "pushDelta", "done"}

Snapshot(v, have) == [type |-> "snapshot", ver |-> v, have |-> have]
Update(v, e) == [type |-> "update", ver |-> v, have |-> {e}]
Ack(v) == [type |-> "ack", ver |-> v]
Resync(v) == [type |-> "resync", ver |-> v]

Down == [type : {"snapshot", "update"}, ver : Versions, have : SUBSET Edit]
Up == [type : {"ack", "resync"}, ver : Versions]
NoSession == [run |-> FALSE, ver |-> 0, have |-> {}]

CTypeOK ==
    /\ TypeOK
    /\ committed \in SUBSET Edit
    /\ version \in [Node -> Versions]
    /\ applied \in [Node -> Versions]
    /\ cfgStatus \in [Node -> {"pending", "synced"}]
    /\ req \in [Edit -> ReqSteps]
    /\ bumped \in [Edit -> Versions]
    /\ payload \in [Edit -> SUBSET Edit]
    /\ readVer \in [Conn -> Versions \cup {NoVer}]
    /\ queue \in [Conn -> Seq(Down)]
    /\ down \in [Conn -> Seq(Down)]
    /\ upq \in [Conn -> Seq(Up)]
    /\ agent \in [Conn -> [run : BOOLEAN, ver : Versions, have : SUBSET Edit]]
    /\ acked \in [Conn -> Versions]

CInit ==
    /\ Init
    /\ committed = {}
    /\ version = [n \in Node |-> 0]
    /\ applied = [n \in Node |-> 0]
    /\ cfgStatus = [n \in Node |-> "pending"]
    /\ req = [e \in Edit |-> "idle"]
    /\ bumped = [e \in Edit |-> 0]
    /\ payload = [e \in Edit |-> {}]
    /\ readVer = [c \in Conn |-> NoVer]
    /\ queue = [c \in Conn |-> <<>>]
    /\ down = [c \in Conn |-> <<>>]
    /\ upq = [c \in Conn |-> <<>>]
    /\ agent = [c \in Conn |-> NoSession]
    /\ acked = [c \in Conn |-> 0]

(* list_routes_for_node                                                    *)
RoutesOf(n) == {e \in committed : EditNode[e] = n}

-----------------------------------------------------------------------------
(* The API handler of an edit.                                             *)

ReqGo(e, from, to) ==
    /\ req[e] = from
    /\ req' = [req EXCEPT ![e] = to]

(* The row is written.  The REST handlers go on with bump_and_push (a full *)
(* snapshot); notify_routes_changed is the entry for a delta.              *)
Commit(e) ==
    /\ status[EditNode[e]] # "absent"
    /\ \E to \in Paths : ReqGo(e, "idle", to)
    /\ committed' = committed \cup {e}
    /\ UNCHANGED <<vars, version, applied, cfgStatus, bumped, payload,
                   readVer, streams, agent, acked>>

(* UPDATE ... SET config_version = config_version + 1, config_status =     *)
(* 'pending' ... RETURNING config_version                                  *)
Bump(e) ==
    LET n == EditNode[e] IN
    /\ status[n] # "absent"
    /\ \/ ReqGo(e, "bumpSnapshot", "read")
       \/ ReqGo(e, "bumpDelta", "pushDelta")
    /\ version' = [version EXCEPT ![n] = @ + 1]
    /\ cfgStatus' = [cfgStatus EXCEPT ![n] = "pending"]
    /\ bumped' = [bumped EXCEPT ![e] = version[n] + 1]
    /\ UNCHANGED <<vars, committed, applied, payload, readVer, streams,
                   agent, acked>>

(* The statement fails or finds no row, or the routes cannot be read for   *)
(* the snapshot: a warning, and the handler returns success.  Or the       *)
(* client goes away while one of them is awaited, and the rest of the      *)
(* handler never runs.                                                     *)
RequestGivesUp(e) ==
    /\ \/ Faults \cap {"db", "cancel"} # {}
       \/ status[EditNode[e]] = "absent" /\ req[e] # "read"
    /\ req[e] \in {"bumpSnapshot", "bumpDelta", "read"}
    /\ req' = [req EXCEPT ![e] = "done"]
    /\ UNCHANGED <<vars, dbCfg, bumped, payload, readVer, streams, agent, acked>>

(* push_snapshot reads the routes after the bump ...                       *)
ReadRoutes(e) ==
    /\ ReqGo(e, "read", "pushSnapshot")
    /\ payload' = [payload EXCEPT ![e] = RoutesOf(EditNode[e])]
    /\ UNCHANGED <<vars, dbCfg, bumped, readVer, streams, agent, acked>>

(* ... and sends them, with the version of its own bump, to the node's     *)
(* channel.  No channel, or a receiver that is gone, and nothing is sent.  *)
PushTo(e, m) ==
    LET c == push[EditNode[e]]
        open == c # None /\ pc[c] = "serve"
    IN  queue' = IF open THEN [queue EXCEPT ![c] = Append(@, m)] ELSE queue

PushSnapshot(e) ==
    /\ ReqGo(e, "pushSnapshot", "done")
    /\ PushTo(e, Snapshot(bumped[e], payload[e]))
    /\ UNCHANGED <<vars, dbCfg, bumped, payload, readVer, down, upq, agent, acked>>

PushDelta(e) ==
    /\ ReqGo(e, "pushDelta", "done")
    /\ PushTo(e, Update(bumped[e], e))
    /\ UNCHANGED <<vars, dbCfg, bumped, payload, readVer, down, upq, agent, acked>>

-----------------------------------------------------------------------------
(* The connection's task on the server.                                    *)

(* What is written to a connection that is lost is lost with it.           *)
Send(c, m) == down' = IF up[c] THEN [down EXCEPT ![c] = Append(@, m)] ELSE down

(* The credential query also returns the node's config_version.            *)
CAuthenticate(c, n) ==
    /\ Authenticate(c, n)
    /\ readVer' = [readVer EXCEPT ![c] = version[n]]
    /\ UNCHANGED <<dbCfg, reqVars, streams, agent, acked>>

(* Mutant: the snapshot announces the version the next bump will give.     *)
CSendSnapshotNext(c) ==
    /\ SendSnapshot(c)
    /\ Send(c, Snapshot(readVer[c] + 1, RoutesOf(node[c])))
    /\ readVer' = [readVer EXCEPT ![c] = NoVer]
    /\ UNCHANGED <<dbCfg, reqVars, queue, upq, agent, acked>>

(* The routes are read now, after the version.                             *)
CSendSnapshot(c) ==
    /\ SendSnapshot(c)
    /\ Send(c, Snapshot(readVer[c], RoutesOf(node[c])))
    /\ readVer' = [readVer EXCEPT ![c] = NoVer]
    /\ UNCHANGED <<dbCfg, reqVars, queue, upq, agent, acked>>

CSnapshotFails(c) ==
    /\ SnapshotFails(c)
    /\ readVer' = [readVer EXCEPT ![c] = NoVer]
    /\ UNCHANGED <<dbCfg, reqVars, streams, agent, acked>>

(* The loop is at its select!, not inside the arm of a CONFIG_RESYNC.      *)
Selecting(c) == pc[c] = "serve" /\ readVer[c] = NoVer

(* The arm push_rx.recv().                                                 *)
ServePush(c) ==
    /\ Selecting(c)
    /\ queue[c] # <<>>
    /\ Send(c, Head(queue[c]))
    /\ queue' = [queue EXCEPT ![c] = Tail(@)]
    /\ UNCHANGED <<vars, dbCfg, reqVars, readVer, upq, agent, acked>>

(* CONFIG_ACK: recorded on the session the node has now, then written to   *)
(* the database whatever version it carries.  The write may fail, and is   *)
(* then only logged.  (The agents of this repository always say applied.)  *)
ServeAck(c) ==
    LET n == node[c]
        v == Head(upq[c]).ver
    IN
    /\ Selecting(c)
    /\ upq[c] # <<>> /\ Head(upq[c]).type = "ack"
    /\ upq' = [upq EXCEPT ![c] = Tail(@)]
    /\ acked' = IF sessions[n] = None THEN acked
                                      ELSE [acked EXCEPT ![sessions[n]] = v]
    /\ \/ /\ status[n] = "absent" \/ "db" \in Faults
          /\ UNCHANGED <<applied, cfgStatus>>
       \/ /\ status[n] # "absent"
          /\ applied' = [applied EXCEPT ![n] = v]
          /\ cfgStatus' = [cfgStatus EXCEPT ![n] = "synced"]
    /\ UNCHANGED <<vars, committed, version, reqVars, readVer, queue, down, agent>>

(* CONFIG_RESYNC: the version is read, then the routes.                    *)
ServeResync(c) ==
    /\ Selecting(c)
    /\ upq[c] # <<>> /\ Head(upq[c]).type = "resync"
    /\ status[node[c]] # "absent"
    /\ upq' = [upq EXCEPT ![c] = Tail(@)]
    /\ readVer' = [readVer EXCEPT ![c] = version[node[c]]]
    /\ UNCHANGED <<vars, dbCfg, reqVars, queue, down, agent, acked>>

ServeResyncSend(c) ==
    /\ pc[c] = "serve" /\ readVer[c] # NoVer
    /\ Send(c, Snapshot(readVer[c], RoutesOf(node[c])))
    /\ readVer' = [readVer EXCEPT ![c] = NoVer]
    /\ UNCHANGED <<vars, dbCfg, reqVars, queue, upq, agent, acked>>

(* Mutant: the loop ends without the cleanup of handle_connection.         *)
CServeEndsUnclean(c) ==
    /\ Selecting(c) /\ ~up[c]
    /\ Go(c, "serve", "done")
    /\ queue' = [queue EXCEPT ![c] = <<>>]
    /\ UNCHANGED <<up, node, registries, database, announced, nodesOnline,
                   dbCfg, reqVars, readVer, down, upq, agent, acked>>

(* The ends of the loop drop the receiver with all that is queued.  A      *)
(* closed channel ends the loop only when the queue is empty.              *)
CServeEnds(c) ==
    /\ \/ Selecting(c) /\ (ServePeerClosed(c) \/ ServeHeartbeatTimeout(c))
       \/ Selecting(c) /\ queue[c] = <<>> /\ ServePushClosed(c)
       \/ ~Selecting(c) /\ ServePeerClosed(c)
       \/ /\ ~Selecting(c) \/ (upq[c] # <<>> /\ Head(upq[c]).type = "resync")
          /\ ServeResyncFails(c)
    /\ queue' = [queue EXCEPT ![c] = <<>>]
    /\ readVer' = [readVer EXCEPT ![c] = NoVer]
    /\ UNCHANGED <<dbCfg, reqVars, down, upq, agent, acked>>

(* Steps of the task that do not touch the configuration.                  *)
OtherTaskStep(c) ==
    /\ \/ ReadHello(c) \/ ProtocolError(c) \/ AuthFail(c) \/ RejectedClosed(c)
       \/ HandshakeClosed(c) \/ RegisterSession(c) \/ SetNodeOnline(c)
       \/ SetNodeOnlineFails(c) \/ PublishOnline(c) \/ RegisterConn(c)
       \/ RegisterPush(c) \/ Cleanup(c)
    /\ UNCHANGED cfgVars

-----------------------------------------------------------------------------
(* The agent's session on a connection.                                    *)

(* Mutant: any later version is accepted.                                  *)
LaterVersion(applied_version, m) == m.ver > applied_version

(* apply_config_update accepts only the next version; apply_route_delta    *)
(* then adds the edit to the routes.                                       *)
Contiguous(applied_version, m) == m.ver = applied_version + 1

Reply(c, m) == upq' = [upq EXCEPT ![c] = Append(@, m)]

(* CONFIG_SNAPSHOT, the one of the handshake or a later one: version and   *)
(* routes are replaced and acknowledged.                                   *)
AgentSnapshot(c) ==
    LET m == Head(down[c]) IN
    /\ up[c]
    /\ down[c] # <<>> /\ m.type = "snapshot"
    /\ down' = [down EXCEPT ![c] = Tail(@)]
    /\ agent' = [agent EXCEPT ![c] = [run |-> TRUE, ver |-> m.ver, have |-> m.have]]
    /\ Reply(c, Ack(m.ver))
    /\ UNCHANGED <<vars, dbCfg, reqVars, readVer, queue, acked>>

(* Mutant: an update that leaves a gap is ignored.                         *)
AgentUpdateSilent(c) ==
    LET m == Head(down[c]) IN
    /\ up[c]
    /\ agent[c].run
    /\ down[c] # <<>> /\ m.type = "update"
    /\ down' = [down EXCEPT ![c] = Tail(@)]
    /\ IF Contiguous(agent[c].ver, m)
       THEN /\ agent' = [agent EXCEPT ![c] = [run |-> TRUE, ver |-> m.ver,
                                              have |-> agent[c].have \cup m.have]]
            /\ Reply(c, Ack(m.ver))
       ELSE UNCHANGED <<agent, upq>>
    /\ UNCHANGED <<vars, dbCfg, reqVars, readVer, queue, acked>>

(* CONFIG_UPDATE: the next version is applied and acknowledged, any other  *)
(* is answered with CONFIG_RESYNC and the last version applied.            *)
AgentUpdate(c) ==
    LET m == Head(down[c]) IN
    /\ up[c]
    /\ agent[c].run
    /\ down[c] # <<>> /\ m.type = "update"
    /\ down' = [down EXCEPT ![c] = Tail(@)]
    /\ IF Contiguous(agent[c].ver, m)
       THEN /\ agent' = [agent EXCEPT ![c] = [run |-> TRUE, ver |-> m.ver,
                                              have |-> agent[c].have \cup m.have]]
            /\ Reply(c, Ack(m.ver))
       ELSE /\ Reply(c, Resync(agent[c].ver))
            /\ UNCHANGED agent
    /\ UNCHANGED <<vars, dbCfg, reqVars, readVer, queue, acked>>

(* The session is dropped with its routes; what it sent may still be read. *)
CLose(c) ==
    /\ Lose(c)
    /\ agent' = [agent EXCEPT ![c] = NoSession]
    /\ down' = [down EXCEPT ![c] = <<>>]
    /\ UNCHANGED <<dbCfg, reqVars, readVer, queue, upq, acked>>

-----------------------------------------------------------------------------

(* A restart ends every handler, every task and every connection.          *)
CRestart ==
    /\ Restart
    /\ req' = [e \in Edit |-> IF req[e] = "idle" THEN "idle" ELSE "done"]
    /\ readVer' = [c \in Conn |-> NoVer]
    /\ queue' = [c \in Conn |-> <<>>]
    /\ down' = [c \in Conn |-> <<>>]
    /\ upq' = [c \in Conn |-> <<>>]
    /\ agent' = [c \in Conn |-> NoSession]
    /\ UNCHANGED <<dbCfg, bumped, payload, acked>>

(* Deleting a node deletes its routes with it.                             *)
CDeleteNode(n) ==
    /\ DeleteNode(n)
    /\ committed' = {e \in committed : EditNode[e] # n}
    /\ UNCHANGED <<version, applied, cfgStatus, reqVars, readVer, streams, agent, acked>>

CEnvironment ==
    \/ \E c \in Conn : CLose(c) \/ (Connect(c) /\ UNCHANGED cfgVars)
    \/ \E n \in Node : CDeleteNode(n) \/ (RevokeCredential(n) /\ UNCHANGED cfgVars)
    \/ CRestart

Request(e) ==
    \/ Commit(e)
    \/ Bump(e)
    \/ RequestGivesUp(e)
    \/ ReadRoutes(e)
    \/ PushSnapshot(e)
    \/ PushDelta(e)

Task(c) ==
    \/ \E n \in Node : CAuthenticate(c, n)
    \/ CSendSnapshot(c)
    \/ CSnapshotFails(c)
    \/ ServePush(c)
    \/ ServeAck(c)
    \/ ServeResync(c)
    \/ ServeResyncSend(c)
    \/ CServeEnds(c)
    \/ OtherTaskStep(c)

AgentRuns(c) == AgentSnapshot(c) \/ AgentUpdate(c)

CNext ==
    \/ \E e \in Edit : Request(e)
    \/ \E c \in Conn : Task(c) \/ AgentRuns(c)
    \/ CEnvironment

CSpec == CInit /\ [][CNext]_cvars

(* Requests, tasks and agents run when they can; peers, admins and the     *)
(* heartbeat timer need do nothing.                                        *)
RequestRuns(e) == Bump(e) \/ ReadRoutes(e) \/ PushSnapshot(e) \/ PushDelta(e)
ServerRuns(c) ==
    \/ CSendSnapshot(c) \/ ServePush(c) \/ ServeAck(c)
    \/ ServeResync(c) \/ ServeResyncSend(c)
    \/ CServeEnds(c) /\ (~up[c] \/ push[node[c]] # c)
    \/ OtherTaskStep(c)
CFairSpec ==
    /\ CSpec
    /\ \A e \in Edit : WF_cvars(RequestRuns(e))
    /\ \A c \in Conn : WF_cvars(ServerRuns(c)) /\ WF_cvars(AgentRuns(c))

-----------------------------------------------------------------------------
(* Properties                                                              *)

(* A version and a set of routes go together: the routes contain every     *)
(* edit of the node that was given that version or an earlier one (unless  *)
(* the node was deleted with its routes).                                  *)
Covers(n, v, have) ==
    \A e \in Edit : EditNode[e] = n /\ bumped[e] \in 1..v => e \in have

(* An agent that says it applied version v has every route change up to v, *)
(* whatever the interleaving of handlers that write, bump, read and push,  *)
(* of the snapshot of a handshake that reads version and routes apart, of  *)
(* deltas, gaps and resynchronisations.                                    *)
AgentHasItsVersion ==
    \A c \in Conn :
        agent[c].run /\ status[node[c]] # "absent"
            => Covers(node[c], agent[c].ver, agent[c].have)

(* No agent, no database row and no session ever names a version the node  *)
(* does not have yet.                                                      *)
NoVersionFromTheFuture ==
    /\ \A c \in Conn : agent[c].run => agent[c].ver <= version[node[c]]
    /\ \A n \in Node : applied[n] <= version[n]
    /\ \A n \in Node : sessions[n] # None => acked[sessions[n]] <= version[n]

(* Whatever ConfigSync and the agents do, the connection lifecycle is that *)
(* of NodeLifecycle: its theorems hold here.                               *)
ImplementsLifecycle == Spec

(* What is in a connection's push channel arrives: the agent on that       *)
(* connection gets the edit, through gaps and resynchronisations, unless   *)
(* the connection ends.  (It may lose the edit again: see below.)          *)
Queued(e, c) == \E i \in DOMAIN queue[c] : e \in queue[c][i].have
PushedArrives ==
    \A e \in Edit, c \in Conn :
        Queued(e, c) ~> (e \in agent[c].have \/ ~up[c] \/ pc[c] # "serve")

-----------------------------------------------------------------------------
(* What a comment in the code says and an interleaving refutes.            *)

(* Node n is served by c alone, no handler is at work and nothing is on    *)
(* its way in either direction.                                            *)
Settled(n, c) ==
    /\ ServedAlone(n, c) /\ push[n] = c /\ Selecting(c)
    /\ \A e \in Edit : req[e] \in {"idle", "done"}
    /\ queue[c] = <<>> /\ down[c] = <<>> /\ upq[c] = <<>>

(* routes.rs, bump_and_push: "pushes the full routes to an online agent at *)
(* once (it converges without reconnecting); for an offline Node the       *)
(* version goes up, and the snapshot of the handshake converges it".       *)
SettledAgentIsCurrent ==
    \A n \in Node, c \in Conn :
        Settled(n, c) => agent[c].have = RoutesOf(n)
=============================================================================
