---------------------------- MODULE StreamForward ----------------------------
(***************************************************************************)
(* One inbound stream connection from accept to end, on the server and on  *)
(* the agent: tcp_proxy.rs, http_proxy.rs, https_proxy.rs and              *)
(* tls_passthrough.rs, agent/src/data_plane.rs.  It composes ConnLimiter,  *)
(* whose counter the connection holds a place of while it is forwarded.    *)
(* Bytes are numbered chunks; the first chunk of an HTTP or TLS client is  *)
(* its request head or ClientHello.  Of a terminated TLS connection the    *)
(* chunks are those inside; the rewriting of the head is left out.         *)
(***************************************************************************)
EXTENDS ConnLimiter, AccessRules

CONSTANTS
    MaxChunks,          \* bound on the chunks a client and its target send
    Proto,              \* protocols of the listeners each client may use
    Sources,            \* source addresses
    GlobalRules, RouteRules, Target,    \* the ACL in force, the route's target
    Resolutions,        \* what DNS may answer: sequences of addresses
    AllowTargets, DenyTargets           \* the agent's security configuration

CONSTANT Followed       \* the connections whose bytes are followed
ASSUME FollowedAssumption == Followed \subseteq Client
ASSUME ProtoAssumption == \A c \in Followed : Proto[c] \subseteq {"tcp", "http", "tls"}

VARIABLES
    cx,         \* per client, the state of its connection at both ends
    online      \* ConnRegistry has a connection of the node

fvars == <<vars, cx, online>>

Fresh(p) ==
    [proto |-> p, st |-> IF p = "tcp" THEN "route" ELSE "peek",
     sent |-> 0, fin |-> FALSE, reset |-> FALSE,    \* the client
     taken |-> 0, buf |-> <<>>,         \* read from its socket; read ahead
     upQ |-> <<>>, qfin |-> FALSE,      \* QUIC stream to the agent
     upDone |-> FALSE, dnDone |-> FALSE,            \* halves of copy_duplex
     ag |-> "none", agUp |-> FALSE, agDn |-> FALSE,  \* the agent's task
     got |-> <<>>, eof |-> FALSE,       \* what the target received
     dsent |-> 0, dtaken |-> 0, dfin |-> FALSE, dreset |-> FALSE,
     dnQ |-> <<>>, dqfin |-> FALSE,     \* QUIC stream to the server
     dgot |-> <<>>, deof |-> FALSE,     \* what the client received
     lost |-> FALSE,                    \* its QUIC connection is lost
     cut |-> FALSE]                     \* given up before copying

Closed == [Fresh("tcp") EXCEPT !.st = "none"]

(* Nothing of a connection is kept when both processes are done with it; a *)
(* stream nobody accepted ("deaf") has no task at the agent.               *)
Settled(x) == IF x.st = "none" /\ x.ag \in {"none", "deaf"} THEN Closed ELSE x

ForwardInit ==
    /\ Init
    /\ cx = [c \in Followed |-> Closed]
    /\ online \in BOOLEAN

Gone(c) == cx[c].fin \/ cx[c].reset
TargetGone(c) == cx[c].dfin \/ cx[c].dreset
MayStillSend(c) == cx[c].sent + cx[c].dsent < MaxChunks

-----------------------------------------------------------------------------
(* Clients, targets and the agent's QUIC connection.  A reset discards what*)
(* was not read; what an end sends after it is no longer read is left out, *)
(* and at most one of the two ends resets.                                 *)

Accept(c) ==
    /\ pc[c] = "idle" /\ cx[c] = Closed
    /\ \E p \in Proto[c] : cx' = [cx EXCEPT ![c] = Fresh(p)]
    /\ UNCHANGED <<vars, online>>

ClientActs(c) ==
    /\ cx[c].st # "none" /\ ~Gone(c)
    /\ \/ MayStillSend(c) /\ ~cx[c].upDone /\ cx' = [cx EXCEPT ![c].sent = @ + 1]
       \/ cx' = [cx EXCEPT ![c].fin = TRUE]
       \/ ~cx[c].dreset /\ cx' = [cx EXCEPT ![c].reset = TRUE, ![c].taken = cx[c].sent]
    /\ UNCHANGED <<vars, online>>

TargetActs(c) ==
    /\ cx[c].ag = "copy" /\ ~TargetGone(c)
    /\ \/ MayStillSend(c) /\ ~cx[c].agDn /\ cx' = [cx EXCEPT ![c].dsent = @ + 1]
       \/ cx' = [cx EXCEPT ![c].dfin = TRUE]
       \/ ~cx[c].reset /\ cx' = [cx EXCEPT ![c].dreset = TRUE, ![c].dtaken = cx[c].dsent]
    /\ UNCHANGED <<vars, online>>

(* The control session and the QUIC connection end apart.  The server takes*)
(* the node out of ConnRegistry when its control loop ends (a heartbeat, a *)
(* newer session, an error) and does not close the connection: streams on  *)
(* it go on.                                                               *)
AgentLeaves == online /\ online' = FALSE /\ UNCHANGED <<vars, cx>>

AgentReturns == ~online /\ online' = TRUE /\ UNCHANGED <<vars, cx>>

(* The agent's session ends and its accept task is aborted.  The streams it*)
(* accepted go on and keep the connection open; a stream that was not      *)
(* accepted yet gets neither an answer nor an error.                       *)
SessionEnds(c) ==
    /\ cx[c].ag = "read"
    /\ cx' = [cx EXCEPT ![c] = Settled([@ EXCEPT !.ag = "deaf"])]
    /\ UNCHANGED <<vars, online>>

(* The connection a stream is on, or is to be opened on, is closed or times*)
(* out.  Each task sees that at its own time.                              *)
ConnectionLost(c) ==
    /\ cx[c].st \notin {"none", "peek", "route"} \/ cx[c].ag # "none"
    /\ ~cx[c].lost
    /\ cx' = [cx EXCEPT ![c].lost = TRUE]
    /\ UNCHANGED <<vars, online>>

(* The other streams of the connection use up the number of streams the    *)
(* agent's end allows, or leave room again.                                *)
StreamLimit(c) ==
    /\ \/ cx[c].st = "open" /\ cx' = [cx EXCEPT ![c].st = "blocked"]
       \/ cx[c].st = "blocked" /\ cx' = [cx EXCEPT ![c].st = "open"]
    /\ UNCHANGED <<vars, online>>

-----------------------------------------------------------------------------
(* The server.                                                             *)

(* A connection ends before it has a place: dropped, or on the HTTP path   *)
(* answered with 400, 403, 404 or 429 (answers are left out).              *)
Refuse(c) == cx' = [cx EXCEPT ![c] = Closed]

(* The task of a connection returns: guard and QUIC stream are dropped, and*)
(* dropping the sending side finishes it.  A request that never reached its*)
(* target is answered with 502 on the HTTP path.                           *)
End(c) ==
    /\ DropGuard(c)
    /\ cx' = [cx EXCEPT ![c] = Settled([@ EXCEPT !.st = "none", !.cut = (cx[c].st # "copy"),
                                                 !.qfin = TRUE])]

(* What was read to complete the first chunk stays in the buffer.          *)
TakeFirst(c, proto, next) ==
    /\ cx[c].sent > 0 /\ ~cx[c].reset
    /\ \E k \in 1..cx[c].sent :
        cx' = [cx EXCEPT ![c].buf = [i \in 1..k |-> i], ![c].taken = k,
                         ![c].proto = proto, ![c].st = next]

(* read_head; a head that does not parse is answered with 400.             *)
ReadHead(c) ==
    /\ cx[c].st = "peek" /\ cx[c].proto = "http"
    /\ TakeFirst(c, "http", "route") \/ ((cx[c].sent > 0 \/ Gone(c)) /\ Refuse(c))
    /\ UNCHANGED <<vars, online>>

(* peek_sni: the name of a passthrough route, or the bytes read so far go  *)
(* through the TLS handshake and the requests inside to handle_http.       *)
PeekSni(c) ==
    /\ cx[c].st = "peek" /\ cx[c].proto = "tls"
    /\ \/ TakeFirst(c, "passthrough", "route")
       \/ cx[c].sent > 0 /\ ~Gone(c) /\ cx' = [cx EXCEPT ![c].proto = "http"]
       \/ (cx[c].sent > 0 \/ Gone(c)) /\ Refuse(c)
    /\ UNCHANGED <<vars, online>>

(* Route lookup and ACL; TCP and passthrough look for the agent's          *)
(* connection before they ask for a place, HTTP after.                     *)
Route(c) ==
    /\ cx[c].st = "route"
    /\ \E found \in BOOLEAN, src \in Sources :
        LET allowed == AclAllows(GlobalRules, RouteRules, src, Target)
            passes == found /\ allowed /\ (cx[c].proto # "http" => online)
        IN IF passes
           THEN Arrive(c) /\ cx' = [cx EXCEPT ![c].st = "limit", ![c].lost = FALSE]
           ELSE Refuse(c) /\ UNCHANGED vars
    /\ UNCHANGED online

(* try_acquire (ConnLimiter): a refused connection is dropped, or 429.     *)
Acquire(c) ==
    /\ cx[c].st = "limit"
    /\ \/ FetchAdd(c) /\ UNCHANGED cx
       \/ Rollback(c) /\ Refuse(c)
    /\ UNCHANGED online

(* HTTP looks the connection up only now, with the place in hand.          *)
GetConn(c) ==
    /\ cx[c].st = "limit" /\ pc[c] = "held"
    /\ IF cx[c].proto = "http"
       THEN \/ online /\ cx' = [cx EXCEPT ![c].st = "open", ![c].lost = FALSE] /\ UNCHANGED vars
            \/ ~online /\ End(c)
       ELSE cx' = [cx EXCEPT ![c].st = "open"] /\ UNCHANGED vars
    /\ UNCHANGED online

(* open_bi and OPEN_TCP.  At the agent's stream limit open_bi waits, on no *)
(* path with a deadline, until there is room or the connection is lost.    *)
(* Nothing tells the server that the agent accepts no streams any more.    *)
OpenStream(c) ==
    /\ \/ /\ cx[c].st = "open" /\ ~cx[c].lost
          /\ \E a \in {"read", "deaf"} :
                cx' = [cx EXCEPT ![c].st = "wait", ![c].upQ = <<"OPEN_TCP">>, ![c].ag = a]
          /\ UNCHANGED vars
       \/ cx[c].st \in {"open", "blocked"} /\ cx[c].lost /\ End(c)
    /\ UNCHANGED online

(* read_frame of the answer takes exactly one frame.  The HTTP path alone  *)
(* has a deadline; no path looks at the client meanwhile.                  *)
AwaitAnswer(c) ==
    /\ cx[c].st = "wait"
    /\ \/ /\ cx[c].dnQ # <<>>
          /\ IF Head(cx[c].dnQ) = "OPEN_OK"
             THEN /\ cx' = [cx EXCEPT ![c].dnQ = Tail(@),
                                      ![c].st = IF cx[c].proto = "http" THEN "head" ELSE "copy"]
                  /\ UNCHANGED vars
             ELSE End(c)
       \/ (cx[c].lost \/ (cx[c].dnQ = <<>> /\ cx[c].dqfin)) /\ End(c)
       \/ cx[c].proto = "http" /\ End(c)       \* OPEN_TIMEOUT
    /\ UNCHANGED online

(* Mutant: the body bytes that came along with the head are forgotten.     *)
WriteHeadOnly(c) ==
    /\ cx[c].st = "head"
    /\ IF cx[c].lost THEN End(c)
       ELSE /\ cx' = [cx EXCEPT ![c].upQ = Append(@, 1), ![c].buf = <<>>, ![c].st = "copy"]
            /\ UNCHANGED vars
    /\ UNCHANGED online

(* The rewritten head and the body bytes that were read along with it.     *)
WriteHead(c) ==
    /\ cx[c].st = "head"
    /\ IF cx[c].lost THEN End(c)
       ELSE /\ cx' = [cx EXCEPT ![c].upQ = @ \o cx[c].buf, ![c].buf = <<>>, ![c].st = "copy"]
            /\ UNCHANGED vars
    /\ UNCHANGED online

(* copy_duplex, client to QUIC: the buffer of a passthrough connection     *)
(* first; at the end of input, and on any error, the stream is finished.   *)
CopyUp(c) ==
    LET more == cx[c].buf # <<>> \/ cx[c].taken < cx[c].sent
        refused == cx[c].lost \/ cx[c].agUp \/ cx[c].ag = "none"
    IN
    /\ cx[c].st = "copy" /\ ~cx[c].upDone
    /\ \/ /\ more /\ ~refused
          /\ IF cx[c].buf # <<>>
             THEN cx' = [cx EXCEPT ![c].buf = Tail(@), ![c].upQ = Append(@, Head(cx[c].buf))]
             ELSE cx' = [cx EXCEPT ![c].taken = @ + 1, ![c].upQ = Append(@, cx[c].taken + 1)]
       \/ /\ (more /\ refused) \/ (~more /\ Gone(c))
          /\ cx' = [cx EXCEPT ![c].upDone = TRUE, ![c].qfin = TRUE]
    /\ UNCHANGED <<vars, online>>

(* copy_duplex, QUIC to client: at the end the client's side is shut down. *)
CopyDown(c) ==
    /\ cx[c].st = "copy" /\ ~cx[c].dnDone
    /\ \/ /\ cx[c].dnQ # <<>> /\ ~cx[c].reset
          /\ cx' = [cx EXCEPT ![c].dnQ = Tail(@), ![c].dgot = Append(@, Head(cx[c].dnQ))]
       \/ /\ cx[c].lost \/ (cx[c].dnQ = <<>> /\ cx[c].dqfin) \/ (cx[c].dnQ # <<>> /\ cx[c].reset)
          /\ cx' = [cx EXCEPT ![c].dnDone = TRUE, ![c].deof = ~cx[c].reset, ![c].dnQ = <<>>]
    /\ UNCHANGED <<vars, online>>

(* Both halves are joined: the place is given back when both have ended.   *)
CopyEnds(c) ==
    /\ cx[c].st = "copy" /\ cx[c].upDone /\ cx[c].dnDone
    /\ End(c)
    /\ UNCHANGED online

-----------------------------------------------------------------------------
(* The agent: handle_data_stream.                                          *)

AgentOpen(c) ==
    /\ cx[c].ag = "read"
    /\ IF cx[c].lost THEN cx' = [cx EXCEPT ![c] = Settled([@ EXCEPT !.ag = "none"])]
       ELSE cx' = [cx EXCEPT ![c].upQ = Tail(@), ![c].ag = "dial"]
    /\ UNCHANGED <<vars, online>>


(* The policy, then connect within CONNECT_TIMEOUT; the answer is one frame*)
(* and a failure finishes the stream.                                      *)
AgentDial(c) ==
    /\ cx[c].ag = "dial"
    /\ \E addrs \in Resolutions, connected \in BOOLEAN :
        cx' = IF cx[c].lost THEN [cx EXCEPT ![c] = Settled([@ EXCEPT !.ag = "none"])]
              ELSE IF connected /\ ResolveTarget(AllowTargets, DenyTargets, addrs) # <<>>
              THEN [cx EXCEPT ![c].ag = "copy", ![c].dnQ = <<"OPEN_OK">>]
              ELSE [cx EXCEPT ![c] = Settled([@ EXCEPT !.ag = "none", !.dnQ = <<"OPEN_FAIL">>,
                                                       !.dqfin = TRUE])]
    /\ UNCHANGED <<vars, online>>

AgentCopyUp(c) ==
    /\ cx[c].ag = "copy" /\ ~cx[c].agUp
    /\ \/ /\ cx[c].upQ # <<>> /\ ~cx[c].dreset
          /\ cx' = [cx EXCEPT ![c].upQ = Tail(@), ![c].got = Append(@, Head(cx[c].upQ))]
       \/ /\ cx[c].lost \/ (cx[c].upQ = <<>> /\ cx[c].qfin) \/ (cx[c].upQ # <<>> /\ cx[c].dreset)
          /\ cx' = [cx EXCEPT ![c].agUp = TRUE, ![c].eof = ~cx[c].dreset, ![c].upQ = <<>>]
    /\ UNCHANGED <<vars, online>>

AgentCopyDown(c) ==
    LET more == cx[c].dtaken < cx[c].dsent
        refused == cx[c].lost \/ cx[c].dnDone \/ cx[c].st = "none"
    IN
    /\ cx[c].ag = "copy" /\ ~cx[c].agDn
    /\ \/ /\ more /\ ~refused
          /\ cx' = [cx EXCEPT ![c].dtaken = @ + 1, ![c].dnQ = Append(@, cx[c].dtaken + 1)]
       \/ /\ (more /\ refused) \/ (~more /\ TargetGone(c))
          /\ cx' = [cx EXCEPT ![c].agDn = TRUE, ![c].dqfin = TRUE]
    /\ UNCHANGED <<vars, online>>

AgentEnds(c) ==
    /\ cx[c].ag = "copy" /\ cx[c].agUp /\ cx[c].agDn
    /\ cx' = [cx EXCEPT ![c] = Settled([@ EXCEPT !.ag = "none"])]
    /\ UNCHANGED <<vars, online>>

-----------------------------------------------------------------------------
ServerTask(c) ==
    \/ ReadHead(c) \/ PeekSni(c) \/ Route(c) \/ Acquire(c) \/ GetConn(c) \/ OpenStream(c)
    \/ AwaitAnswer(c) \/ WriteHead(c) \/ CopyUp(c) \/ CopyDown(c) \/ CopyEnds(c)
AgentTask(c) ==
    AgentOpen(c) \/ AgentDial(c) \/ AgentCopyUp(c) \/ AgentCopyDown(c) \/ AgentEnds(c)

(* The other connections of the route only take and give back places.      *)
OtherConnection(c) ==
    /\ Arrive(c) \/ FetchAdd(c) \/ Rollback(c) \/ DropGuard(c)
    /\ UNCHANGED <<cx, online>>

ForwardNext ==
    \/ \E c \in Client \ Followed : OtherConnection(c)
    \/ \E c \in Followed : \/ Accept(c) \/ ClientActs(c) \/ TargetActs(c)
                           \/ SessionEnds(c) \/ ConnectionLost(c) \/ StreamLimit(c)
                           \/ ServerTask(c) \/ AgentTask(c)
    \/ AgentLeaves \/ AgentReturns
    \/ SetLimit /\ UNCHANGED <<cx, online>>

ForwardSpec == ForwardInit /\ [][ForwardNext]_fvars

(* The tasks run; nothing is assumed of clients, targets and the network.  *)
FairForward ==
    /\ ForwardSpec
    /\ \A c \in Followed : WF_fvars(ServerTask(c)) /\ WF_fvars(AgentTask(c))

-----------------------------------------------------------------------------
(* Properties                                                              *)

Counting(s) == \A i \in 1..Len(s) : s[i] = i

(* Through two processes, the chunk that was read ahead, the frames in     *)
(* front and half-closes, each end receives the other's bytes in order and *)
(* nothing else; and when it sees the end of the stream it has them all,   *)
(* unless an end was reset, the tunnel was lost or the request given up.   *)
BytesInOrder ==
    \A c \in Followed :
        LET clean == ~cx[c].reset /\ ~cx[c].dreset /\ ~cx[c].lost /\ ~cx[c].cut IN
        /\ Counting(cx[c].got) /\ Counting(cx[c].dgot)
        /\ cx[c].eof /\ clean => cx[c].fin /\ Len(cx[c].got) = cx[c].sent
        /\ cx[c].deof /\ clean => cx[c].dfin /\ Len(cx[c].dgot) = cx[c].dsent

(* The states in which a connection may hold its place for ever.           *)
StreamLimitReached(c) == cx[c].st \in {"open", "blocked"} /\ ~cx[c].lost
NeverAccepted(c) ==
    cx[c].st = "wait" /\ cx[c].proto # "http" /\ cx[c].ag = "deaf" /\ ~cx[c].lost
StillInUse(c) == cx[c].st = "copy" /\ ~(Gone(c) /\ (TargetGone(c) \/ cx[c].lost))

=============================================================================
