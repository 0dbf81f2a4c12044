----------------------------- MODULE RestoreOnce -----------------------------
(***************************************************************************)
(* What a cloud restore promises: for each content at most one item ever   *)
(* appears in the cloud, and the id the program records for it is that     *)
(* item's, recorded once and for good.                                     *)
(***************************************************************************)
CONSTANTS Ops, CloudIds, None

VARIABLES
    items,     \* per operation the items in the cloud
    recorded   \* per operation the id recorded for it, or None

once == <<items, recorded>>

Init ==
    /\ items = [op \in Ops |-> {}]
    /\ recorded = [op \in Ops |-> None]

(* The one item appears.                                                   *)
Create(op, i) ==
    /\ items[op] = {}
    /\ \A o \in Ops : i \notin items[o]
    /\ items' = [items EXCEPT ![op] = {i}]
    /\ UNCHANGED recorded

(* Its id is recorded.                                                     *)
Record(op, i) ==
    /\ i \in items[op]
    /\ recorded[op] = None
    /\ recorded' = [recorded EXCEPT ![op] = i]
    /\ UNCHANGED items

Next == \E op \in Ops, i \in CloudIds : Create(op, i) \/ Record(op, i)

Spec == Init /\ [][Next]_once
==============================================================================
