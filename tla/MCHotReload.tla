----------------------------- MODULE MCHotReload -----------------------------
(* Small instances of HotReload.                                           *)
EXTENDS HotReload, TLC

(* Route ids are interchangeable, and so are requests, addresses and nodes *)
(* (EntryAt chooses among the routes of one slot, of which a valid         *)
(* configuration has one); used by the runs without liveness.              *)
Symmetry ==
    Permutations(Route) \cup Permutations(Req) \cup Permutations(TcpSlot) \cup Permutations(Node)
=============================================================================
