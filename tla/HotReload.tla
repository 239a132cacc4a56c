------------------------------ MODULE HotReload ------------------------------
(***************************************************************************)
(* How a route change reaches the data plane of the server itself:         *)
(*                                                                         *)
(*   the route handlers      server/src/api/routes.rs                      *)
(*   ConfigManager           server/src/config.rs                          *)
(*   the reconcile task      server/src/main.rs                            *)
(*   HostTable, RouteTable   server/src/route.rs                           *)
(*   TcpProxy                server/src/tcp_proxy.rs                       *)
(*                                                                         *)
(* Handlers run concurrently; each writes the database, loads all routes   *)
(* and replaces the snapshot.  A single task takes the broadcasts and      *)
(* reconciles the two tables and the TCP listeners, each of which has an   *)
(* accept loop of its own.                                                 *)
(*                                                                         *)
(* A slot is a listen address of TCP routes or a host name of HTTP(S)      *)
(* ones.  UDP routes are not hot-reloaded and are left out.                *)
(***************************************************************************)
EXTENDS Integers, FiniteSets

CONSTANTS
    Route,          \* route ids
    TcpSlot,        \* listen addresses
    HttpSlot,       \* host names
    Node,           \* the node of a row; stands for what else the row says
    Req,            \* API requests; each is made once (bounds the run)
    Client,         \* inbound TCP connections; each may come again
    None,
    Capacity,       \* of the broadcast channel: 16 in ConfigManager::new
    Faults,         \* the failures and other admin actions that happen
    StartDisabled   \* whether the server may start with disabled routes

(* db      a statement of a request fails                                  *)
(* cancel  the client of a request goes away, its handler is dropped       *)
(* bind    the listen address is taken by another process                  *)
(* accept  accept(2) fails (no file descriptors, aborted connection)       *)
(* delete  a node is deleted                                               *)
(* import  a configuration snapshot is imported or restored                *)
ASSUME ReloadFaults ==
    Faults \subseteq {"db", "cancel", "bind", "accept", "delete", "import"}
ASSUME SlotsDisjoint == TcpSlot \cap HttpSlot = {}
ASSUME CapacityAssumption == Capacity \in Nat \ {0}
ASSUME StartDisabledAssumption == StartDisabled \in BOOLEAN

Slot == TcpSlot \cup HttpSlot
Row == [slot : Slot, on : BOOLEAN, node : Node]
Entry == [id : Route, on : BOOLEAN, node : Node]

ASSUME NoRowAssumption == None \notin Row \cup Entry \cup Route \cup Slot

VARIABLES
    db,         \* the routes table: route -> row or None
    nodes,      \* the nodes table
    snapshot,   \* ConfigManager.snapshot
    pending,    \* broadcasts the reconcile task has not received
    step,       \* where the handler of a request stands
    change,     \* the statement it is about to execute
    loaded,     \* what its ConfigManager::load read
    pc,         \* where the reconcile task stands
    cur,        \* the snapshot it is reconciling
    todo,       \* the slots its present loop has ahead
    at,         \* the slot it is working on
    hostTable, routeTable,
    listeners,  \* TcpProxy.listeners
    loop,       \* the accept loop of an address
    client      \* an inbound connection

request == <<step, change, loaded>>
config == <<db, nodes, snapshot, pending>>
task == <<pc, cur, todo, at>>
tables == <<hostTable, routeTable, listeners>>
vars == <<config, request, task, tables, loop, client>>

Config == [Route -> Row \cup {None}]
Operations == {"create", "update", "delete", "enable", "disable"}
NoChange == [op |-> None, route |-> None, row |-> None]

TypeOK ==
    /\ db \in Config
    /\ nodes \in SUBSET Node
    /\ snapshot \in Config
    /\ pending \in Nat
    /\ step \in [Req -> {"idle", "write", "load", "replace", "done"}]
    /\ change \in [Req -> [op : Operations \cup {None}, route : Route \cup {None},
                           row : Row \cup {None}]]
    /\ loaded \in [Req -> Config \cup {None}]
    /\ pc \in {"recv", "hosts", "remove", "drain", "update", "reinsert", "add",
               "bind", "dead"}
    /\ cur \in Config
    /\ todo \in SUBSET Slot
    /\ at \in TcpSlot \cup {None}
    /\ hostTable \in [HttpSlot -> Entry \cup {None}]
    /\ routeTable \in [TcpSlot -> Entry \cup {None}]
    /\ listeners \in SUBSET TcpSlot
    /\ loop \in [TcpSlot -> {"none", "running", "draining"}]
    /\ client \in [Client -> [slot : TcpSlot, entry : Entry,
                              st : {"picked", "open"}, counted : BOOLEAN] \cup {None}]

-----------------------------------------------------------------------------
(* Configurations                                                          *)

At(s, x) == {r \in Route : s[r] # None /\ s[r].slot = x}
EntryOf(s, r) == [id |-> r, on |-> s[r].on, node |-> s[r].node]

(* validate: no two routes share a listen address or a host name.          *)
Valid(s) ==
    \A r, q \in Route :
        r # q /\ s[r] # None /\ s[q] # None => s[r].slot # s[q].slot

(* The slots of a kind that an enabled route wants.                        *)
Desired(s, kind) == {x \in kind : \E r \in At(s, x) : s[r].on}
EntryAt(s, x) == EntryOf(s, CHOOSE r \in At(s, x) : TRUE)

-----------------------------------------------------------------------------

(* main: the snapshot is loaded and validated; every route goes into a     *)
(* table, enabled or not; enabled TCP routes are bound.                    *)
Init ==
    /\ db \in Config /\ Valid(db)
    /\ ~StartDisabled => \A r \in Route : db[r] # None => db[r].on
    /\ nodes = Node
    /\ snapshot = db
    /\ pending = 0
    /\ step = [q \in Req |-> "idle"]
    /\ change = [q \in Req |-> NoChange]
    /\ loaded = [q \in Req |-> None]
    /\ pc = "recv" /\ cur = db /\ todo = {} /\ at = None
    /\ hostTable = [x \in HttpSlot |-> IF At(db, x) = {} THEN None ELSE EntryAt(db, x)]
    /\ routeTable = [x \in TcpSlot |-> IF At(db, x) = {} THEN None ELSE EntryAt(db, x)]
    /\ listeners = Desired(db, TcpSlot)
    /\ loop = [x \in TcpSlot |-> IF x \in listeners THEN "running" ELSE "none"]
    /\ client = [p \in Client |-> None]

-----------------------------------------------------------------------------
(* The handlers.  What they do between the write and the reload for the    *)
(* agents is ConfigDelivery.                                               *)

(* create_route and update_route: check_conflicts finds the node and no    *)
(* other route at the slot.  A created route has a fresh id.               *)
CheckConflicts(q, r, row) ==
    /\ step[q] = "idle"
    /\ row.node \in nodes
    /\ At(db, row.slot) \subseteq {r}
    /\ db[r] = None => \A p \in Req : change[p].route # r
    /\ step' = [step EXCEPT ![q] = "write"]
    /\ change' = [change EXCEPT ![q] =
                      [op |-> IF db[r] = None THEN "create" ELSE "update",
                       route |-> r, row |-> row]]
    /\ UNCHANGED <<config, loaded, task, tables, loop, client>>

(* delete_route and set_enabled: get_route finds the route.                *)
GetRoute(q, r, op) ==
    /\ step[q] = "idle"
    /\ db[r] # None
    /\ step' = [step EXCEPT ![q] = "write"]
    /\ change' = [change EXCEPT ![q] = [op |-> op, route |-> r, row |-> None]]
    /\ UNCHANGED <<config, loaded, task, tables, loop, client>>

(* What the statement makes of a row: INSERT, or UPDATE and DELETE of the  *)
(* row with this id, which do nothing if it has been deleted meanwhile.    *)
Written(c, old) ==
    CASE c.op = "create" -> c.row
      [] c.op = "update" -> IF old = None THEN None ELSE c.row
      [] c.op = "delete" -> None
      [] c.op = "enable" -> IF old = None THEN None ELSE [old EXCEPT !.on = TRUE]
      [] c.op = "disable" -> IF old = None THEN None ELSE [old EXCEPT !.on = FALSE]

(* The foreign key of the row's node holds when the statement is executed. *)
Write(q) ==
    LET c == change[q] IN
    /\ step[q] = "write"
    /\ c.row # None => c.row.node \in nodes
    /\ db' = [db EXCEPT ![c.route] = Written(c, @)]
    /\ step' = [step EXCEPT ![q] = "load"]
    /\ UNCHANGED <<nodes, snapshot, pending, change, loaded, task, tables, loop, client>>

(* reload: load ...                                                        *)
Load(q) ==
    /\ step[q] = "load"
    /\ loaded' = [loaded EXCEPT ![q] = db]
    /\ step' = [step EXCEPT ![q] = "replace"]
    /\ UNCHANGED <<config, change, task, tables, loop, client>>

(* Mutant: the configuration is not validated.                             *)
ReplaceUnchecked(q) ==
    /\ step[q] = "replace"
    /\ step' = [step EXCEPT ![q] = "done"]
    /\ snapshot' = loaded[q] /\ pending' = pending + 1
    /\ UNCHANGED <<db, nodes, change, loaded, task, tables, loop, client>>

(* ... validate, replace, broadcast; an invalid configuration is logged.   *)
Replace(q) ==
    /\ step[q] = "replace"
    /\ step' = [step EXCEPT ![q] = "done"]
    /\ IF Valid(loaded[q])
       THEN snapshot' = loaded[q] /\ pending' = pending + 1
       ELSE UNCHANGED <<snapshot, pending>>
    /\ UNCHANGED <<db, nodes, change, loaded, task, tables, loop, client>>

(* A statement fails, for one because the node is gone, or the handler is  *)
(* dropped while it awaits one.                                            *)
RequestFails(q) ==
    LET row == change[q].row IN
    /\ step[q] \in {"write", "load"}
    /\ \/ Faults \cap {"db", "cancel"} # {}
       \/ step[q] = "write" /\ row # None /\ row.node \notin nodes
    /\ step' = [step EXCEPT ![q] = "done"]
    /\ UNCHANGED <<config, change, loaded, task, tables, loop, client>>

-----------------------------------------------------------------------------
(* Two admin actions change the routes and do not reload.                  *)

(* delete_node: the routes go with their node.                             *)
DeleteNode(n) ==
    /\ "delete" \in Faults
    /\ n \in nodes
    /\ nodes' = nodes \ {n}
    /\ db' = [r \in Route |-> IF db[r] # None /\ db[r].node = n THEN None ELSE db[r]]
    /\ UNCHANGED <<snapshot, pending, request, task, tables, loop, client>>

(* restore and import insert a route whose id is not there, whatever its   *)
(* slot.  (A snapshot brings the nodes its routes refer to.)               *)
ImportRoute(r, row) ==
    /\ "import" \in Faults
    /\ db[r] = None
    /\ \A p \in Req : step[p] = "write" /\ change[p].op = "create" => change[p].route # r
    /\ db' = [db EXCEPT ![r] = row]
    /\ nodes' = nodes \cup {row.node}
    /\ UNCHANGED <<snapshot, pending, request, task, tables, loop, client>>

-----------------------------------------------------------------------------
(* The reconcile task of main: HostTable::reconcile, TcpProxy::reconcile.  *)
(* Only this task writes the tables, so each loop's slots can be computed  *)
(* when the loop begins.                                                   *)

(* rx.recv() is Err(Lagged) once more than Capacity broadcasts wait: the   *)
(* while loop ends.                                                        *)
Lagged ==
    /\ pc = "recv"
    /\ pending > Capacity
    /\ pc' = "dead"
    /\ UNCHANGED <<config, request, cur, todo, at, tables, loop, client>>

(* Mutant: a second broadcast is taken with the first.                     *)
ReceiveTwo ==
    /\ pc = "recv"
    /\ pending \in 1..Capacity
    /\ pending' = pending - 2
    /\ cur' = snapshot
    /\ hostTable' = [x \in HttpSlot |-> None]
    /\ pc' = "hosts" /\ todo' = Desired(snapshot, HttpSlot)
    /\ UNCHANGED <<db, nodes, snapshot, request, at, routeTable, listeners, loop, client>>

(* Mutant: the host table is not cleared.                                  *)
ReceiveKeepsHosts ==
    /\ pc = "recv"
    /\ pending \in 1..Capacity
    /\ pending' = pending - 1
    /\ cur' = snapshot
    /\ pc' = "hosts" /\ todo' = Desired(snapshot, HttpSlot)
    /\ UNCHANGED <<db, nodes, snapshot, request, at, tables, loop, client>>

(* The snapshot is read and the host table cleared ...                     *)
Receive ==
    /\ pc = "recv"
    /\ pending \in 1..Capacity
    /\ pending' = pending - 1
    /\ cur' = snapshot
    /\ hostTable' = [x \in HttpSlot |-> None]
    /\ pc' = "hosts" /\ todo' = Desired(snapshot, HttpSlot)
    /\ UNCHANGED <<db, nodes, snapshot, request, at, routeTable, listeners, loop, client>>

(* ... and filled again.                                                   *)
InsertHost(x) ==
    /\ pc = "hosts" /\ x \in todo
    /\ hostTable' = [hostTable EXCEPT ![x] = EntryAt(cur, x)]
    /\ todo' = todo \ {x}
    /\ UNCHANGED <<config, request, pc, cur, at, routeTable, listeners, loop, client>>

(* Mutant: the addresses that stay keep their entries.                     *)
NextLoopNoUpdate ==
    /\ todo = {}
    /\ \/ pc = "hosts" /\ pc' = "remove" /\ todo' = listeners \ Desired(cur, TcpSlot)
       \/ pc = "remove" /\ pc' = "add" /\ todo' = Desired(cur, TcpSlot) \ listeners
       \/ pc = "add" /\ pc' = "recv" /\ todo' = {}
    /\ UNCHANGED <<config, request, cur, at, tables, loop, client>>

(* A loop of the task has ended; the next one begins.                      *)
NextLoop ==
    /\ todo = {}
    /\ \/ pc = "hosts" /\ pc' = "remove" /\ todo' = listeners \ Desired(cur, TcpSlot)
       \/ pc = "remove" /\ pc' = "update" /\ todo' = listeners \cap Desired(cur, TcpSlot)
       \/ pc = "update" /\ pc' = "add" /\ todo' = Desired(cur, TcpSlot) \ listeners
       \/ pc = "add" /\ pc' = "recv" /\ todo' = {}
    /\ UNCHANGED <<config, request, cur, at, tables, loop, client>>

(* Mutant: the accept loop is not told.                                    *)
DrainSilently(x) ==
    /\ pc = "remove" /\ x \in todo
    /\ listeners' = listeners \ {x}
    /\ pc' = "drain" /\ at' = x
    /\ UNCHANGED <<config, request, cur, todo, hostTable, routeTable, loop, client>>

(* drain_listener: out of the map, the accept loop is told ...             *)
DrainSignal(x) ==
    /\ pc = "remove" /\ x \in todo
    /\ listeners' = listeners \ {x}
    /\ loop' = [loop EXCEPT ![x] = IF @ = "running" THEN "draining" ELSE @]
    /\ pc' = "drain" /\ at' = x
    /\ UNCHANGED <<config, request, cur, todo, hostTable, routeTable, client>>

(* The connections in the listener's counter active.                       *)
Active(x) == {p \in Client : client[p] # None /\ client[p].slot = x
                             /\ client[p].st = "open" /\ client[p].counted}

(* Mutant: no deadline.                                                    *)
DrainNoDeadline(timeout) ==
    /\ pc = "drain"
    /\ Active(at) = {}
    /\ routeTable' = [routeTable EXCEPT ![at] = None]
    /\ pc' = "remove" /\ todo' = todo \ {at}
    /\ UNCHANGED <<config, request, cur, at, hostTable, listeners, loop, client>>

(* ... and the counter is polled until it is 0 or DRAIN_TIMEOUT has passed;*)
(* then the route is removed.  The counter goes with the listener.         *)
DrainEnds(timeout) ==
    /\ pc = "drain"
    /\ ~timeout => Active(at) = {}
    /\ routeTable' = [routeTable EXCEPT ![at] = None]
    /\ client' = [p \in Client |->
                    IF client[p] # None /\ client[p].slot = at
                    THEN [client[p] EXCEPT !.counted = FALSE] ELSE client[p]]
    /\ pc' = "remove" /\ todo' = todo \ {at}
    /\ UNCHANGED <<config, request, cur, at, hostTable, listeners, loop>>

(* The entry of an address that stays is removed ...                       *)
UpdateRemove(x) ==
    /\ pc = "update" /\ x \in todo
    /\ routeTable' = [routeTable EXCEPT ![x] = None]
    /\ pc' = "reinsert" /\ at' = x
    /\ UNCHANGED <<config, request, cur, todo, hostTable, listeners, loop, client>>

(* ... and inserted again.                                                 *)
UpdateInsert ==
    /\ pc = "reinsert"
    /\ routeTable' = [routeTable EXCEPT ![at] = EntryAt(cur, at)]
    /\ pc' = "update" /\ todo' = todo \ {at}
    /\ UNCHANGED <<config, request, cur, at, hostTable, listeners, loop, client>>

(* A new address: RouteTable::insert ...                                   *)
AddInsert(x) ==
    /\ pc = "add" /\ x \in todo
    /\ routeTable[x] = None
    /\ routeTable' = [routeTable EXCEPT ![x] = EntryAt(cur, x)]
    /\ pc' = "bind" /\ at' = x
    /\ UNCHANGED <<config, request, cur, todo, hostTable, listeners, loop, client>>

(* ... which fails with DuplicateListen if there is an entry, and with it  *)
(* all of reconcile.                                                       *)
AddDuplicate(x) ==
    /\ pc = "add" /\ x \in todo
    /\ routeTable[x] # None
    /\ pc' = "recv" /\ todo' = {}
    /\ UNCHANGED <<config, request, cur, at, tables, loop, client>>

(* Mutant: reconcile is done with the first new listener.                  *)
BindListenerReturns ==
    /\ pc = "bind"
    /\ loop[at] = "none"
    /\ listeners' = listeners \cup {at}
    /\ loop' = [loop EXCEPT ![at] = "running"]
    /\ pc' = "recv" /\ todo' = {}
    /\ UNCHANGED <<config, request, cur, at, hostTable, routeTable, client>>

(* bind_listener succeeds and the accept loop is spawned ...               *)
BindListener ==
    /\ pc = "bind"
    /\ loop[at] = "none"
    /\ listeners' = listeners \cup {at}
    /\ loop' = [loop EXCEPT ![at] = "running"]
    /\ pc' = "add" /\ todo' = todo \ {at}
    /\ UNCHANGED <<config, request, cur, at, hostTable, routeTable, client>>

(* ... or fails, because of another process or because the old accept loop *)
(* has not run yet and still has the socket: reconcile returns, the route  *)
(* stays in the table.                                                     *)
BindFails ==
    /\ pc = "bind"
    /\ "bind" \in Faults \/ loop[at] # "none"
    /\ pc' = "recv" /\ todo' = {}
    /\ UNCHANGED <<config, request, cur, at, tables, loop, client>>

Reconcile ==
    \/ Lagged
    \/ Receive
    \/ \E x \in HttpSlot : InsertHost(x)
    \/ NextLoop
    \/ \E x \in TcpSlot : DrainSignal(x) \/ UpdateRemove(x) \/ AddInsert(x) \/ AddDuplicate(x)
    \/ \E timeout \in BOOLEAN : DrainEnds(timeout)
    \/ UpdateInsert
    \/ BindListener
    \/ BindFails

-----------------------------------------------------------------------------
(* The accept loop of an address.  Its select! has no order: a connection  *)
(* may still be accepted after the drain signal.                           *)

Picked(x) == {p \in Client : client[p] # None /\ client[p].slot = x
                             /\ client[p].st = "picked"}

(* drain_listener still polls the counter of the loop of x.                *)
Draining(x) == pc = "drain" /\ at = x

(* A connection is accepted and the route looked up.  Without a route, or  *)
(* refused by ACL, registry or limiter, it is dropped.                     *)
Accept(p, x) ==
    /\ loop[x] # "none" /\ Picked(x) = {}
    /\ client[p] = None
    /\ routeTable[x] # None
    /\ client' = [client EXCEPT ![p] = [slot |-> x, entry |-> routeTable[x],
                                        st |-> "picked",
                                        counted |-> loop[x] = "running" \/ Draining(x)]]
    /\ UNCHANGED <<config, request, task, tables, loop>>

(* active.fetch_add(1), and the forwarding task is spawned.                *)
Start(p) ==
    /\ client[p] # None /\ client[p].st = "picked"
    /\ client' = [client EXCEPT ![p] = [client[p] EXCEPT !.st = "open"]]
    /\ UNCHANGED <<config, request, task, tables, loop>>

(* The connection ends: ActiveGuard is dropped.                            *)
Close(p) ==
    /\ client[p] # None /\ client[p].st = "open"
    /\ client' = [client EXCEPT ![p] = None]
    /\ UNCHANGED <<config, request, task, tables, loop>>

(* drain_rx.changed(): the loop ends and its socket is closed.             *)
LoopStops(x) ==
    /\ loop[x] = "draining" /\ Picked(x) = {}
    /\ loop' = [loop EXCEPT ![x] = "none"]
    /\ UNCHANGED <<config, request, task, tables, client>>

(* accept fails: the loop ends, the listener stays in the map.             *)
AcceptError(x) ==
    /\ "accept" \in Faults
    /\ loop[x] # "none" /\ Picked(x) = {}
    /\ loop' = [loop EXCEPT ![x] = "none"]
    /\ UNCHANGED <<config, request, task, tables, client>>

-----------------------------------------------------------------------------

Handler(q) ==
    \/ \E r \in Route, row \in Row : CheckConflicts(q, r, row)
    \/ Write(q)
    \/ \E r \in Route, op \in {"delete", "enable", "disable"} : GetRoute(q, r, op)
    \/ Load(q)
    \/ Replace(q)
    \/ RequestFails(q)

Inbound ==
    \/ \E p \in Client : Start(p) \/ Close(p) \/ (\E x \in TcpSlot : Accept(p, x))
    \/ \E x \in TcpSlot : LoopStops(x) \/ AcceptError(x)

Admin ==
    \/ \E n \in Node : DeleteNode(n)
    \/ \E r \in Route, row \in Row : ImportRoute(r, row)

Next == (\E q \in Req : Handler(q)) \/ Admin \/ Reconcile \/ Inbound

Spec == Init /\ [][Next]_vars

(* Handlers that have begun, the reconcile task and the accept loops run;  *)
(* the drain deadline passes.  No request has to come and no connection    *)
(* has to end.                                                             *)
FairSpec ==
    /\ Spec
    /\ \A q \in Req : WF_vars(Write(q) \/ Load(q) \/ Replace(q) \/ RequestFails(q))
    /\ WF_vars(Reconcile)
    /\ \A x \in TcpSlot : WF_vars(LoopStops(x))
    /\ \A p \in Client : WF_vars(Start(p))

-----------------------------------------------------------------------------
(* Properties                                                              *)

(* Nothing disabled is served over TCP: a connection that is accepted,     *)
(* even by a loop that is being drained or while the tables are being      *)
(* rewritten, was accepted under an enabled row of its own listen address. *)
ServedRowWasEnabled ==
    \A p \in Client : client[p] # None => client[p].entry.on

(* The reconcile task has nothing to do and knows of nothing to do.        *)
Quiet == pc = "recv" /\ pending = 0

(* When the reconcile task is quiet, every enabled host name leads to its  *)
(* row of the snapshot and no other one to an enabled row (main puts the   *)
(* disabled ones there too, where they stay until the first reload).       *)
QuietHostsAreCurrent ==
    Quiet => \A x \in HttpSlot :
        IF x \in Desired(snapshot, HttpSlot)
        THEN hostTable[x] = EntryAt(snapshot, x)
        ELSE hostTable[x] = None \/ ~hostTable[x].on

(* ... and no address listens that the snapshot does not want, and every   *)
(* listener serves the row of the snapshot: no reconcile that was aborted  *)
(* half way, or overtaken by other reloads while it drained, leaves a      *)
(* deleted, disabled or outdated route in service.                         *)
QuietListenersAreCurrent ==
    Quiet => \A x \in listeners :
        x \in Desired(snapshot, TcpSlot) /\ routeTable[x] = EntryAt(snapshot, x)

(* ... and every enabled address of the snapshot listens, unless one of    *)
(* them is blocked: its entry is in the table and nobody listens there.    *)
(* Such an entry is what a failed bind leaves, also a bind that came too   *)
(* soon after a drain, and what main puts there for a route that is        *)
(* disabled at startup; reconcile then ends at the blocked address, and    *)
(* other new routes stay unbound with it.  Nothing else, no overtaken      *)
(* reload and no drain, loses a route that should be served.               *)
Blocked(x) == x \notin listeners /\ routeTable[x] # None
QuietWantedListen ==
    Quiet /\ ~(\E x \in Desired(snapshot, TcpSlot) : Blocked(x))
        => Desired(snapshot, TcpSlot) \subseteq listeners

(* A listener that was told to drain takes no new connection once its loop *)
(* has seen the signal, until the address is bound again: an accept loop   *)
(* runs only for an address of the listener map, or is about to stop.      *)
LoopIsOwned ==
    \A x \in TcpSlot :
        /\ loop[x] = "running" => x \in listeners
        /\ x \in listeners => loop[x] # "draining"

(* The data plane catches up with the last reload: no drain, however long  *)
(* its connections live, keeps the reconcile task from the broadcasts that *)
(* wait, as long as they do not overflow the channel.                      *)
CatchesUp == <>[](Quiet \/ pc = "dead")

-----------------------------------------------------------------------------
(* What a comment says and the code does not do.                           *)

(* config.rs: "a frame is broadcast after every replace, with which the    *)
(* subscriber hot-reloads".                                                *)
KeepsReloading == pc # "dead"
=============================================================================
