--------------------------- MODULE HotReloadProofs ---------------------------
(***************************************************************************)
(* Proofs about HotReload, for every number of routes, slots, requests and *)
(* connections, every channel capacity, with and without faults.           *)
(***************************************************************************)
EXTENDS HotReload, TLAPS

Wanted == Desired(cur, TcpSlot)

(* What the loops of reconcile have ahead, and what they have left behind. *)
TaskInv ==
    /\ Valid(snapshot) /\ Valid(cur)
    /\ \A q \in Req : step[q] = "write" => change[q].op \in Operations /\ change[q].route \in Route
    /\ \A q \in Req : step[q] = "replace" => loaded[q] \in Config
    /\ pending = 0 => cur = snapshot
    /\ pc = "hosts" => todo \subseteq Desired(cur, HttpSlot)
    /\ pc \in {"remove", "drain"} => todo \subseteq TcpSlot /\ listeners \ Wanted \subseteq todo
    /\ pc \in {"update", "reinsert"} => todo \subseteq Wanted
    /\ pc \in {"update", "reinsert", "add", "bind", "recv"} => listeners \subseteq Wanted
    /\ pc \in {"add", "bind"} => todo \subseteq Wanted \ listeners
    /\ pc \in {"drain", "reinsert", "bind"} => at \in todo
    /\ pc = "drain" => at \notin listeners

(* The rows behind the listeners.                                          *)
RowInv ==
    /\ pc \in {"update", "reinsert"} =>
          \A x \in listeners \ todo : routeTable[x] = EntryAt(cur, x)
    /\ pc \in {"add", "bind", "recv"} =>
          \A x \in listeners : routeTable[x] = EntryAt(cur, x)
    /\ pc = "bind" => routeTable[at] = EntryAt(cur, at)
    /\ \A x \in TcpSlot :
          loop[x] # "none" /\ routeTable[x] # None => routeTable[x].on

(* The new listeners: what is missing is ahead of the loop, or it ended at *)
(* a blocked address.                                                      *)
AddInv ==
    /\ pc \in {"add", "bind"} => Wanted \ listeners \subseteq todo
    /\ pc = "bind" => Blocked(at)
    /\ pc = "recv" /\ ~(\E x \in Wanted : Blocked(x)) => Wanted \subseteq listeners

(* The host table: being filled, or as the last reconcile (or the startup, *)
(* which keeps disabled rows) left it.                                     *)
HostInv ==
    \A x \in HttpSlot :
        IF x \in Desired(cur, HttpSlot)
        THEN (pc = "hosts" /\ x \in todo) \/ hostTable[x] = EntryAt(cur, x)
        ELSE hostTable[x] = None \/ ~hostTable[x].on

-----------------------------------------------------------------------------
(* Configurations                                                          *)

(* The entry of a slot that is wanted is that of an enabled route.         *)
LEMMA EntryWanted ==
    ASSUME NEW s \in Config, Valid(s), NEW kind \in SUBSET Slot,
           NEW x \in Desired(s, kind)
    PROVE  EntryAt(s, x) \in Entry /\ EntryAt(s, x).on
<1>1. PICK r \in At(s, x) : s[r].on
  BY DEF Desired
<1>2. (CHOOSE q \in At(s, x) : TRUE) \in At(s, x)
  BY <1>1
<1>3. (CHOOSE q \in At(s, x) : TRUE) = r
  BY <1>1, <1>2, NoRowAssumption DEF At, Valid
<1>4. s[r] \in Row
  BY <1>1 DEF At, Config
<1> QED
  BY <1>1, <1>3, <1>4 DEF EntryAt, EntryOf, Entry, Row, At

(* The entry of a slot that some route has is an entry.                    *)
LEMMA EntryPresent ==
    ASSUME NEW s \in Config, NEW x \in Slot, At(s, x) # {}
    PROVE  EntryAt(s, x) \in Entry
<1>1. PICK r \in At(s, x) : r = CHOOSE q \in At(s, x) : TRUE
  OBVIOUS
<1>2. r \in Route /\ s[r] \in Row
  BY <1>1 DEF At, Config
<1> QED
  BY <1>1, <1>2 DEF EntryAt, EntryOf, Entry, Row

(* What a statement leaves of a row is a row or nothing.                   *)
LEMMA WrittenRow ==
    ASSUME NEW c \in [op : Operations \cup {None}, route : Route \cup {None},
                      row : Row \cup {None}],
           c.op \in Operations, NEW old \in Row \cup {None}
    PROVE  Written(c, old) \in Row \cup {None}
<1>1. ASSUME NEW on \in BOOLEAN, old # None PROVE [old EXCEPT !.on = on] \in Row
  BY <1>1 DEF Row
<1> QED
  BY <1>1 DEF Written, Operations

(* The slots a snapshot asks for are slots of the kind.                    *)
LEMMA DesiredSlots ==
    ASSUME NEW s, NEW kind
    PROVE  Desired(s, kind) \subseteq kind
BY DEF Desired

-----------------------------------------------------------------------------
(* Types                                                                   *)

(* The tables main fills at startup have their types.                      *)
LEMMA TypeInit == Init => TypeOK
<1> SUFFICES ASSUME Init PROVE TypeOK
  OBVIOUS
<1> USE DEF Init
<1>1. hostTable \in [HttpSlot -> Entry \cup {None}]
  BY EntryPresent DEF Slot
<1>2. routeTable \in [TcpSlot -> Entry \cup {None}]
  BY EntryPresent DEF Slot
<1>3. listeners \in SUBSET TcpSlot
  BY DesiredSlots
<1> QED
  BY <1>1, <1>2, <1>3 DEF TypeOK, NoChange

(* Every step of the pipeline keeps the types.                             *)
LEMMA TypeStep == TypeOK /\ TaskInv /\ [Next]_vars => TypeOK'
<1> SUFFICES ASSUME TypeOK, TaskInv, [Next]_vars PROVE TypeOK'
  OBVIOUS
<1> USE DEF TypeOK
<1>1. ASSUME NEW q \in Req, NEW r \in Route, NEW row \in Row, CheckConflicts(q, r, row)
      PROVE  TypeOK'
  BY <1>1 DEF CheckConflicts, config, task, tables, Operations
<1>2. ASSUME NEW q \in Req, Write(q) PROVE TypeOK'
  <2>1. change[q].op \in Operations /\ change[q].route \in Route
    BY <1>2 DEF Write, TaskInv
  <2>2. Written(change[q], db[change[q].route]) \in Row \cup {None}
    BY <2>1, WrittenRow DEF Config
  <2>3. db' \in Config
    BY <1>2, <2>1, <2>2 DEF Write, Config
  <2> QED
    BY <1>2, <2>3 DEF Write, task, tables
<1>3. ASSUME NEW q \in Req, NEW r \in Route, NEW op \in {"delete", "enable", "disable"},
             GetRoute(q, r, op)
      PROVE  TypeOK'
  BY <1>3 DEF GetRoute, config, task, tables, Operations
<1>4. CASE Admin
  <2>1. ASSUME NEW n \in Node, DeleteNode(n) PROVE TypeOK'
    BY <2>1 DEF DeleteNode, Config, request, task, tables
  <2>2. ASSUME NEW r \in Route, NEW row \in Row, ImportRoute(r, row) PROVE TypeOK'
    BY <2>2 DEF ImportRoute, Config, Row, request, task, tables
  <2> QED
    BY <1>4, <2>1, <2>2 DEF Admin
<1>5. ASSUME NEW q \in Req, Load(q) PROVE TypeOK'
  BY <1>5 DEF Load, config, task, tables
<1>6. ASSUME NEW q \in Req, Replace(q) PROVE TypeOK'
  <2>1. snapshot' \in Config /\ pending' \in Nat
    <3>1. CASE Valid(loaded[q])
      BY <1>6, <3>1 DEF Replace, TaskInv
    <3>2. CASE ~Valid(loaded[q])
      BY <1>6, <3>2 DEF Replace
    <3> QED
      BY <3>1, <3>2
  <2> QED
    BY <1>6, <2>1 DEF Replace, task, tables
<1>7. ASSUME NEW q \in Req, RequestFails(q) PROVE TypeOK'
  BY <1>7 DEF RequestFails, config, task, tables
<1>8. CASE Lagged
  BY <1>8 DEF Lagged, config, request, tables
<1>9. CASE Receive
  BY <1>9, DesiredSlots DEF Receive, request, Slot
<1>10. ASSUME NEW x \in HttpSlot, InsertHost(x) PROVE TypeOK'
  <2>1. EntryAt(cur, x) \in Entry
    BY <1>10, EntryWanted, HttpSlot \in SUBSET Slot DEF InsertHost, TaskInv, Slot
  <2> QED
    BY <1>10, <2>1 DEF InsertHost, config, request
<1>11. CASE NextLoop
  BY <1>11, DesiredSlots DEF NextLoop, config, request, tables, Slot
<1>12. ASSUME NEW x \in TcpSlot, DrainSignal(x) PROVE TypeOK'
  BY <1>12 DEF DrainSignal, config, request
<1>13. ASSUME NEW timeout \in BOOLEAN, DrainEnds(timeout) PROVE TypeOK'
  <2>1. client' \in [Client -> [slot : TcpSlot, entry : Entry, st : {"picked", "open"},
                                counted : BOOLEAN] \cup {None}]
    <3> DEFINE C == [slot : TcpSlot, entry : Entry, st : {"picked", "open"}, counted : BOOLEAN]
    <3>1. \A p \in Client : client[p] # None => [client[p] EXCEPT !.counted = FALSE] \in C
      <4>1. ASSUME NEW c \in C PROVE [c EXCEPT !.counted = FALSE] \in C
        OBVIOUS
      <4> QED
        BY <4>1
    <3> QED
      BY <1>13, <3>1 DEF DrainEnds
  <2> QED
    BY <1>13, <2>1 DEF DrainEnds, config, request
<1>14. ASSUME NEW x \in TcpSlot, UpdateRemove(x) PROVE TypeOK'
  BY <1>14 DEF UpdateRemove, config, request
<1>15. CASE UpdateInsert
  <2>1. EntryAt(cur, at) \in Entry
    BY <1>15, EntryWanted, TcpSlot \in SUBSET Slot DEF UpdateInsert, TaskInv, Wanted, Slot
  <2> QED
    BY <1>15, <2>1 DEF UpdateInsert, config, request
<1>16. ASSUME NEW x \in TcpSlot, AddInsert(x) PROVE TypeOK'
  <2>1. EntryAt(cur, x) \in Entry
    BY <1>16, EntryWanted, TcpSlot \in SUBSET Slot DEF AddInsert, TaskInv, Wanted, Slot
  <2> QED
    BY <1>16, <2>1 DEF AddInsert, config, request
<1>17. ASSUME NEW x \in TcpSlot, AddDuplicate(x) PROVE TypeOK'
  BY <1>17 DEF AddDuplicate, config, request, tables
<1>18. CASE BindListener
  <2>1. at \in TcpSlot
    BY <1>18, DesiredSlots DEF BindListener, TaskInv, Wanted
  <2> QED
    BY <1>18, <2>1 DEF BindListener, config, request
<1>19. CASE BindFails
  BY <1>19 DEF BindFails, config, request, tables
<1>20. CASE Inbound
  <2>1. ASSUME NEW p \in Client, NEW x \in TcpSlot, Accept(p, x) PROVE TypeOK'
    BY <2>1 DEF Accept, config, request, task, tables, Draining
  <2>2. ASSUME NEW p \in Client, Start(p) PROVE TypeOK'
    BY <2>2 DEF Start, config, request, task, tables
  <2>3. ASSUME NEW p \in Client, Close(p) PROVE TypeOK'
    BY <2>3 DEF Close, config, request, task, tables
  <2>4. ASSUME NEW x \in TcpSlot, LoopStops(x) \/ AcceptError(x) PROVE TypeOK'
    BY <2>4 DEF LoopStops, AcceptError, config, request, task, tables
  <2> QED
    BY <1>20, <2>1, <2>2, <2>3, <2>4 DEF Inbound
<1>21. CASE UNCHANGED vars
  BY <1>21 DEF vars, config, request, task, tables
<1> QED
  BY <1>1, <1>2, <1>3, <1>4, <1>5, <1>6, <1>7, <1>8, <1>9, <1>10, <1>11, <1>12,
     <1>13, <1>14, <1>15, <1>16, <1>17, <1>18, <1>19, <1>20, <1>21
  DEF Next, Handler, Reconcile

-----------------------------------------------------------------------------
(* The reconcile task                                                      *)

(* The parts of TaskInv and RowInv that only the task itself can disturb.  *)
LEMMA TaskUntouched ==
    ASSUME TypeOK, TaskInv, RowInv, UNCHANGED <<task, tables, loop>>,
           Valid(snapshot'), pending' = 0 => pending = 0 /\ snapshot' = snapshot,
           \A q \in Req : step'[q] = "write" => change'[q].op \in Operations
                                              /\ change'[q].route \in Route,
           \A q \in Req : step'[q] = "replace" => loaded'[q] \in Config
    PROVE  TaskInv' /\ RowInv'
BY DEF TaskInv, RowInv, Wanted, task, tables

(* At startup the task has nothing to do and serves the rows it loaded.    *)
LEMMA TaskInit == Init => TaskInv /\ RowInv
<1> SUFFICES ASSUME Init PROVE TaskInv /\ RowInv
  OBVIOUS
<1>1. TypeOK
  BY TypeInit
<1>2. TaskInv
  BY DEF Init, TaskInv, Wanted
<1>3. \A x \in listeners : routeTable[x] = EntryAt(cur, x) /\ routeTable[x].on
  BY <1>1, EntryWanted, TcpSlot \in SUBSET Slot DEF Init, Desired, Slot
<1>4. RowInv
  BY <1>2, <1>3 DEF Init, RowInv
<1> QED
  BY <1>2, <1>4

(* Every step keeps what the reconcile task knows and the rows it serves.  *)
LEMMA TaskStep == TypeOK /\ TaskInv /\ RowInv /\ [Next]_vars => TaskInv' /\ RowInv'
<1> SUFFICES ASSUME TypeOK, TaskInv, RowInv, [Next]_vars PROVE TaskInv' /\ RowInv'
  OBVIOUS
<1>a. Wanted \in SUBSET TcpSlot
  BY DesiredSlots DEF Wanted
<1>b. \A x \in Wanted : EntryAt(cur, x) \in Entry /\ EntryAt(cur, x).on
  BY EntryWanted, TcpSlot \in SUBSET Slot DEF TypeOK, TaskInv, Wanted, Slot
<1>1. ASSUME NEW q \in Req, Handler(q) PROVE TaskInv' /\ RowInv'
  <2>1. UNCHANGED <<task, tables, loop>>
    BY <1>1 DEF Handler, CheckConflicts, GetRoute, Write, Load, Replace, RequestFails
  <2>2. Valid(snapshot') /\ (pending' = 0 => pending = 0 /\ snapshot' = snapshot)
    <3>1. CASE Replace(q) /\ Valid(loaded[q])
      BY <3>1 DEF Replace, TypeOK
    <3>2. CASE ~(Replace(q) /\ Valid(loaded[q]))
      <4>1. snapshot' = snapshot /\ pending' = pending
        BY <1>1, <3>2 DEF Handler, CheckConflicts, GetRoute, Write, Load,
                          Replace, RequestFails, config
      <4> QED
        BY <4>1 DEF TaskInv, Valid
    <3> QED
      BY <3>1, <3>2
  <2>3. ASSUME NEW p \in Req, step'[p] = "replace" PROVE loaded'[p] \in Config
    <3>1. CASE Load(q)
      BY <2>3, <3>1 DEF Load, TypeOK, TaskInv
    <3>2. CASE ~Load(q)
      BY <1>1, <2>3, <3>2 DEF Handler, CheckConflicts, GetRoute, Write,
                              Replace, RequestFails, TypeOK, TaskInv
    <3> QED
      BY <3>1, <3>2
  <2>4. ASSUME NEW p \in Req, step'[p] = "write"
        PROVE  change'[p].op \in Operations /\ change'[p].route \in Route
    <3>1. ASSUME NEW r \in Route, NEW row \in Row, CheckConflicts(q, r, row)
          PROVE  change'[p].op \in Operations /\ change'[p].route \in Route
      BY <2>4, <3>1 DEF CheckConflicts, TypeOK, TaskInv, Operations
    <3>2. ASSUME NEW r \in Route, NEW op \in {"delete", "enable", "disable"}, GetRoute(q, r, op)
          PROVE  change'[p].op \in Operations /\ change'[p].route \in Route
      BY <2>4, <3>2 DEF GetRoute, TypeOK, TaskInv, Operations
    <3>3. CASE Write(q) \/ Load(q) \/ Replace(q) \/ RequestFails(q)
      BY <2>4, <3>3 DEF Write, Load, Replace, RequestFails, TypeOK, TaskInv
    <3> QED
      BY <1>1, <3>1, <3>2, <3>3 DEF Handler
  <2> QED
    BY <2>1, <2>2, <2>3, <2>4, TaskUntouched
<1>2. CASE Inbound
  <2>1. UNCHANGED <<config, request, task, tables>> /\ \A x \in TcpSlot : loop'[x] = "none" \/ loop'[x] = loop[x]
    BY <1>2 DEF Inbound, Accept, Start, Close, LoopStops, AcceptError, TypeOK
  <2> QED
    BY <2>1 DEF TaskInv, RowInv, Wanted, config, request, task, tables, Valid
<1>3. CASE Lagged
  BY <1>3 DEF Lagged, TaskInv, RowInv, Wanted, config, request, tables
<1>4. CASE Receive
  BY <1>4 DEF Receive, TaskInv, RowInv, Wanted, request
<1>5. ASSUME NEW x \in HttpSlot, InsertHost(x) PROVE TaskInv' /\ RowInv'
  BY <1>5 DEF InsertHost, TaskInv, RowInv, Wanted, config, request
<1>6. CASE NextLoop
  <2>1. TaskInv'
    BY <1>6 DEF NextLoop, TaskInv, TypeOK, Wanted, config, request, tables
  <2>2. RowInv'
    BY <1>6 DEF NextLoop, TaskInv, RowInv, Wanted, config, request, tables
  <2> QED
    BY <2>1, <2>2
<1>7. ASSUME NEW x \in TcpSlot, DrainSignal(x) PROVE TaskInv' /\ RowInv'
  BY <1>7 DEF DrainSignal, TaskInv, RowInv, Wanted, config, request, TypeOK
<1>8. ASSUME NEW timeout \in BOOLEAN, DrainEnds(timeout) PROVE TaskInv' /\ RowInv'
  BY <1>8 DEF DrainEnds, TaskInv, RowInv, Wanted, config, request, TypeOK
<1>9. ASSUME NEW x \in TcpSlot, UpdateRemove(x) PROVE TaskInv' /\ RowInv'
  BY <1>9 DEF UpdateRemove, TaskInv, RowInv, Wanted, config, request, TypeOK
<1>10. CASE UpdateInsert
  <2>1. at \in Wanted
    BY <1>10 DEF UpdateInsert, TaskInv
  <2> QED
    BY <1>10, <2>1, <1>a, <1>b DEF UpdateInsert, TaskInv, RowInv, Wanted, config, request, TypeOK
<1>11. ASSUME NEW x \in TcpSlot, AddInsert(x) PROVE TaskInv' /\ RowInv'
  <2>1. x \in Wanted \ listeners
    BY <1>11 DEF AddInsert, TaskInv
  <2> QED
    BY <1>11, <2>1, <1>b DEF AddInsert, TaskInv, RowInv, Wanted, config, request, TypeOK
<1>12. ASSUME NEW x \in TcpSlot, AddDuplicate(x) PROVE TaskInv' /\ RowInv'
  BY <1>12 DEF AddDuplicate, TaskInv, RowInv, Wanted, config, request, tables
<1>13. CASE BindListener
  <2>1. at \in Wanted \ listeners
    BY <1>13 DEF BindListener, TaskInv
  <2> QED
    BY <1>13, <2>1, <1>a, <1>b DEF BindListener, TaskInv, RowInv, Wanted, config, request, TypeOK
<1>14. CASE BindFails
  BY <1>14 DEF BindFails, TaskInv, RowInv, Wanted, config, request, tables
<1>15. CASE Admin
  BY <1>15, TaskUntouched DEF Admin, DeleteNode, ImportRoute, TaskInv, request
<1>16. CASE UNCHANGED vars
  BY <1>16 DEF vars, config, request, task, tables, TaskInv, RowInv, Wanted
<1> QED
  BY <1>1, <1>2, <1>3, <1>4, <1>5, <1>6, <1>7, <1>8, <1>9, <1>10, <1>11, <1>12,
     <1>13, <1>14, <1>15, <1>16
  DEF Next, Reconcile

-----------------------------------------------------------------------------
(* New listeners                                                           *)

(* At startup every enabled address listens.                               *)
LEMMA AddInit == Init => AddInv
BY DEF Init, AddInv, Wanted

(* Every step leaves a missing listener ahead of the loop, or explained.   *)
LEMMA AddStep == TypeOK /\ TaskInv /\ RowInv /\ AddInv /\ [Next]_vars => AddInv'
<1> SUFFICES ASSUME TypeOK, TaskInv, RowInv, AddInv, [Next]_vars PROVE AddInv'
  OBVIOUS
<1>a. Wanted \in SUBSET TcpSlot
  BY DesiredSlots DEF Wanted
<1>b. \A x \in Wanted : EntryAt(cur, x) \in Entry
  BY EntryWanted, TcpSlot \in SUBSET Slot DEF TypeOK, TaskInv, Wanted, Slot
<1>1. CASE NextLoop
  BY <1>1 DEF NextLoop, AddInv, Wanted, Blocked, tables
<1>2. ASSUME NEW x \in TcpSlot, AddInsert(x) PROVE AddInv'
  <2>1. x \in Wanted \ listeners /\ EntryAt(cur, x) # None
    BY <1>2, <1>b, NoRowAssumption DEF AddInsert, TaskInv
  <2> QED
    BY <1>2, <2>1 DEF AddInsert, AddInv, Wanted, Blocked, TypeOK
<1>3. ASSUME NEW x \in TcpSlot, AddDuplicate(x) PROVE AddInv'
  BY <1>3 DEF AddDuplicate, AddInv, TaskInv, Wanted, Blocked, tables
<1>4. CASE BindListener
  BY <1>4 DEF BindListener, AddInv, Wanted, Blocked
<1>5. CASE BindFails
  BY <1>5 DEF BindFails, AddInv, TaskInv, Wanted, Blocked, tables
<1>6. CASE pc' \notin {"add", "bind", "recv"}
  BY <1>6 DEF AddInv
<1>7. CASE UNCHANGED <<pc, cur, todo, at, routeTable, listeners>>
  BY <1>7 DEF AddInv, Wanted, Blocked
<1> QED
  BY <1>1, <1>2, <1>3, <1>4, <1>5, <1>6, <1>7
  DEF Next, vars, config, request, task, tables, Handler, CheckConflicts, GetRoute,
      Write, Load, Replace, RequestFails, Admin, DeleteNode, ImportRoute, Reconcile, Lagged,
      Receive, InsertHost, DrainSignal, DrainEnds, UpdateRemove, UpdateInsert, Inbound, Accept,
      Start, Close, LoopStops, AcceptError

-----------------------------------------------------------------------------
(* The host table                                                          *)

(* At startup the host table has the enabled hosts, and disabled ones      *)
(* beside them.                                                            *)
LEMMA HostInit == Init => HostInv
<1> SUFFICES ASSUME Init, NEW x \in HttpSlot
             PROVE  IF x \in Desired(cur, HttpSlot)
                    THEN (pc = "hosts" /\ x \in todo) \/ hostTable[x] = EntryAt(cur, x)
                    ELSE hostTable[x] = None \/ ~hostTable[x].on
  BY DEF HostInv
<1>1. CASE x \in Desired(cur, HttpSlot)
  BY <1>1 DEF Init, Desired
<1>2. CASE x \notin Desired(cur, HttpSlot) /\ At(db, x) # {}
  <2>1. PICK r \in At(db, x) : r = CHOOSE q \in At(db, x) : TRUE
    BY <1>2
  <2>2. ~db[r].on
    BY <1>2, <2>1 DEF Init, Desired
  <2>3. hostTable[x] = EntryOf(db, r)
    BY <1>2, <2>1 DEF Init, EntryAt
  <2> QED
    BY <1>2, <2>2, <2>3 DEF EntryOf
<1>3. CASE At(db, x) = {}
  BY <1>3 DEF Init, Desired
<1> QED
  BY <1>1, <1>2, <1>3

(* Every step keeps the host table in line with what the task has still to *)
(* do.                                                                     *)
LEMMA HostStep == TypeOK /\ TaskInv /\ HostInv /\ [Next]_vars => HostInv'
<1> SUFFICES ASSUME TypeOK, TaskInv, HostInv, [Next]_vars PROVE HostInv'
  OBVIOUS
<1>1. CASE Receive
  BY <1>1 DEF Receive, HostInv
<1>2. ASSUME NEW x \in HttpSlot, InsertHost(x) PROVE HostInv'
  BY <1>2 DEF InsertHost, HostInv, TaskInv, TypeOK
<1>3. CASE NextLoop
  BY <1>3 DEF NextLoop, HostInv, tables
<1>4. CASE pc # "hosts" /\ UNCHANGED <<cur, hostTable>>
  BY <1>4 DEF HostInv
<1>5. CASE UNCHANGED <<pc, cur, todo, hostTable>>
  BY <1>5 DEF HostInv
<1> QED
  BY <1>1, <1>2, <1>3, <1>4, <1>5
  DEF Next, vars, config, request, task, tables, Handler, CheckConflicts, GetRoute,
      Write, Load, Replace, RequestFails, Admin, DeleteNode, ImportRoute, Reconcile, Lagged, DrainSignal,
      DrainEnds, UpdateRemove, UpdateInsert, AddInsert, AddDuplicate, BindListener,
      BindFails, Inbound, Accept, Start, Close, LoopStops, AcceptError

-----------------------------------------------------------------------------
(* Accept loops and connections                                            *)

(* At startup every accept loop belongs to a listener and nothing is       *)
(* accepted.                                                               *)
LEMMA LoopInit == Init => LoopIsOwned /\ ServedRowWasEnabled
BY DEF Init, LoopIsOwned, ServedRowWasEnabled

(* Every step leaves each accept loop owned or told to stop.               *)
LEMMA LoopStep == TypeOK /\ TaskInv /\ LoopIsOwned /\ [Next]_vars => LoopIsOwned'
<1> SUFFICES ASSUME TypeOK, TaskInv, LoopIsOwned, [Next]_vars PROVE LoopIsOwned'
  OBVIOUS
<1>1. ASSUME NEW x \in TcpSlot, DrainSignal(x) PROVE LoopIsOwned'
  BY <1>1 DEF DrainSignal, LoopIsOwned, TypeOK
<1>2. CASE BindListener
  <2>1. at \in TcpSlot
    BY <1>2, DesiredSlots DEF BindListener, TaskInv, Wanted
  <2> QED
    BY <1>2, <2>1 DEF BindListener, LoopIsOwned, TypeOK
<1>3. ASSUME NEW x \in TcpSlot, LoopStops(x) \/ AcceptError(x) PROVE LoopIsOwned'
  BY <1>3 DEF LoopStops, AcceptError, LoopIsOwned, TypeOK, tables
<1>4. CASE UNCHANGED <<listeners, loop>>
  BY <1>4 DEF LoopIsOwned
<1> QED
  BY <1>1, <1>2, <1>3, <1>4
  DEF Next, vars, config, request, task, tables, Handler, CheckConflicts, GetRoute,
      Write, Load, Replace, RequestFails, Admin, DeleteNode, ImportRoute, Reconcile, Lagged, Receive,
      InsertHost, NextLoop, DrainEnds, UpdateRemove, UpdateInsert, AddInsert,
      AddDuplicate, BindFails, Inbound, Accept, Start, Close

(* A connection takes the row of the table; none that listens is disabled. *)
LEMMA ServedStep ==
    TypeOK /\ RowInv /\ ServedRowWasEnabled /\ [Next]_vars => ServedRowWasEnabled'
<1> SUFFICES ASSUME TypeOK, RowInv, ServedRowWasEnabled, [Next]_vars
             PROVE  ServedRowWasEnabled'
  OBVIOUS
<1>1. ASSUME NEW p \in Client, NEW x \in TcpSlot, Accept(p, x) PROVE ServedRowWasEnabled'
  BY <1>1 DEF Accept, RowInv, ServedRowWasEnabled, TypeOK
<1>2. ASSUME NEW p \in Client, Start(p) \/ Close(p) PROVE ServedRowWasEnabled'
  BY <1>2 DEF Start, Close, ServedRowWasEnabled, TypeOK
<1>3. ASSUME NEW timeout \in BOOLEAN, DrainEnds(timeout) PROVE ServedRowWasEnabled'
  BY <1>3 DEF DrainEnds, ServedRowWasEnabled, TypeOK
<1>4. CASE UNCHANGED client
  BY <1>4 DEF ServedRowWasEnabled
<1> QED
  BY <1>1, <1>2, <1>3, <1>4
  DEF Next, vars, Handler, CheckConflicts, GetRoute, Write, Load,
      Replace, RequestFails, Admin, DeleteNode, ImportRoute, Reconcile, Lagged, Receive, InsertHost, NextLoop,
      DrainSignal, UpdateRemove, UpdateInsert, AddInsert, AddDuplicate, BindListener,
      BindFails, Inbound, LoopStops, AcceptError

-----------------------------------------------------------------------------

(* Types, the loops of reconcile, rows and accept loops, as one invariant  *)
(* of the specification.                                                   *)
LEMMA Invariance ==
    Spec => [](TypeOK /\ TaskInv /\ RowInv /\ AddInv /\ HostInv /\ LoopIsOwned /\ ServedRowWasEnabled)
<1> DEFINE IInv == TypeOK /\ TaskInv /\ RowInv /\ AddInv /\ HostInv /\ LoopIsOwned /\ ServedRowWasEnabled
<1>1. Init => IInv
  BY TypeInit, TaskInit, AddInit, HostInit, LoopInit
<1>2. IInv /\ [Next]_vars => IInv'
  BY TypeStep, TaskStep, AddStep, HostStep, LoopStep, ServedStep
<1> QED
  BY <1>1, <1>2, PTL DEF Spec

(* The handlers, the reconcile task and the accept loops keep to their     *)
(* types, whatever fails.                                                  *)
THEOREM TypeCorrect == Spec => []TypeOK
BY Invariance, PTL

(* accept_loop never takes a connection under a disabled row, at any point *)
(* of a reconcile or a drain.                                              *)
THEOREM OnlyEnabledRowsAreServed == Spec => []ServedRowWasEnabled
BY Invariance, PTL

(* drain_listener leaves no accept loop behind that was not told to stop.  *)
THEOREM LoopsAreOwned == Spec => []LoopIsOwned
BY Invariance, PTL

(* TcpProxy::reconcile, aborted or not, leaves no listener on a deleted,   *)
(* disabled or outdated route once no broadcast waits.                     *)
THEOREM QuietListeners == Spec => []QuietListenersAreCurrent
<1>1. TaskInv /\ RowInv => QuietListenersAreCurrent
  BY DEF TaskInv, RowInv, QuietListenersAreCurrent, Quiet, Wanted
<1> QED
  BY Invariance, <1>1, PTL

(* TcpProxy::reconcile binds every enabled address that is not there yet,  *)
(* unless it ends at one whose entry an earlier failure or the startup     *)
(* left in the table.                                                      *)
THEOREM QuietWanted == Spec => []QuietWantedListen
<1>1. TaskInv /\ AddInv => QuietWantedListen
  BY DEF TaskInv, AddInv, QuietWantedListen, Quiet, Wanted
<1> QED
  BY Invariance, <1>1, PTL

(* HostTable::reconcile: once no broadcast waits, every enabled host name  *)
(* leads to its row of the snapshot and no other one to an enabled row.    *)
THEOREM QuietHosts == Spec => []QuietHostsAreCurrent
<1>1. TaskInv /\ HostInv => QuietHostsAreCurrent
  BY DEF TaskInv, HostInv, QuietHostsAreCurrent, Quiet
<1> QED
  BY Invariance, <1>1, PTL
=============================================================================
