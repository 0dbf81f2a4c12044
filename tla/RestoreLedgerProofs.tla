-------------------------- MODULE RestoreLedgerProofs --------------------------
(***************************************************************************)
(* Proofs about RestoreLedger for any number of operations, workers, cloud *)
(* ids and faults.                                                         *)
(***************************************************************************)
EXTENDS RestoreLedger, TLAPS

Unlocked == {"idle", "open"}
Open     == {"committing", "failed_after_graph_commit"}

(* A worker inside a restore has its operation and its payload, and past   *)
(* the create or a successful probe it has an id.                          *)
PlaceOK(p) ==
    /\ pc[p] \notin Unlocked \cup {"next"} => cur[p] \in Ops /\ payload[p] \in Ops
    /\ pc[p] = "open" /\ ~boot[p] => cur[p] \in Ops /\ payload[p] \in Ops
    /\ pc[p] \in {"landed", "commit", "answer"} => id[p] \in CloudIds

(* TypeOK with what makes it inductive.                                    *)
TypeInv == TypeOK /\ \A p \in Workers : PlaceOK(p)

(* What the ledger row of an operation says about the cloud: a create can  *)
(* only have happened once committing is recorded, and the id is recorded  *)
(* exactly when the row is committed.                                      *)
RowOK(op) ==
    /\ ledger[op].state = "none" => ~ledger[op].marker
    /\ cloud[op] # {} => ledger[op].state \in Open \cup {"committed"}
    /\ IF ledger[op].state = "committed"
         THEN ledger[op].newCloudId \in cloud[op]
         ELSE ledger[op].newCloudId = None
    /\ \A i, j \in cloud[op] : i = j
    /\ answers[op] \subseteq {ledger[op].newCloudId}

(* What a worker knows at each place: between the probe and the POST of an *)
(* operation without server-side de-duplication the cloud holds nothing.   *)
WorkerOK(p) ==
    /\ pc[p] \notin Unlocked <=> lock = p
    /\ pc[p] = "preflight" => ledger[cur[p]].state = "pending"
    /\ pc[p] = "committing" => ledger[cur[p]].state = "preflight_checked"
    /\ pc[p] \in {"probe", "resume"} =>
         ledger[cur[p]].state \in RestoreState \ {"committed", "cancelled"}
    /\ pc[p] = "resume" /\ id[p] = None /\ cur[p] \notin TransactionIdOps =>
         cloud[cur[p]] = {}
    /\ pc[p] = "resume" /\ id[p] # None => id[p] \in cloud[cur[p]]
    /\ pc[p] \in {"create", "await"} =>
         /\ ledger[cur[p]].state = "committing"
         /\ cur[p] \notin TransactionIdOps => cloud[cur[p]] = {}
    /\ pc[p] \in {"landed", "commit"} =>
         /\ ledger[cur[p]].state \in Open
         /\ id[p] \in cloud[cur[p]]
    /\ pc[p] = "answer" =>
         /\ ledger[cur[p]].state = "committed"
         /\ id[p] = ledger[cur[p]].newCloudId

NothingLate == late = [op \in Ops |-> [content \in Ops |-> 0]]

(* The inductive invariant.                                                *)
IInv ==
    /\ TypeInv
    /\ NothingLate
    /\ \A op \in Ops : RowOK(op)
    /\ \A p \in Workers : WorkerOK(p)

-----------------------------------------------------------------------------
(* What stays the same keeps its type.                                     *)
LEMMA SameTypes ==
    /\ DbType /\ UNCHANGED dbVars => DbType'
    /\ CloudType /\ UNCHANGED cloudVars => CloudType'
    /\ OtherType /\ UNCHANGED otherVars => OtherType'
    /\ WorkType /\ UNCHANGED workVars => WorkType'
BY DEF DbType, CloudType, OtherType, WorkType, dbVars, cloudVars, otherVars, workVars

(* A transaction of the store leaves the ledger and the audit trail typed. *)
LEMMA TransitionType ==
    ASSUME DbType, NEW op \in Ops, NEW to,
           NEW newId \in CloudIds \cup {None}, NEW mark \in BOOLEAN,
           transition_restore(op, to, newId, mark)
    PROVE  /\ ledger' \in [Ops -> Row]
           /\ steps' \in [Ops -> Steps]
           /\ durable' = durable
<1>1. to \in RestoreState
  BY DEF transition_restore, can_transition_to, RestoreState
<1>2. ledger' \in [Ops -> Row]
  BY <1>1 DEF DbType, transition_restore, Row
<1>3. <<ledger[op].state, to>> \in (RestoreState \cup {"none"}) \X RestoreState
  BY <1>1 DEF DbType, Row
<1>4. Append(steps[op], <<ledger[op].state, to>>) \in Steps
  BY <1>3 DEF DbType, Steps
<1>5. steps' \in [Ops -> Steps]
  BY <1>4 DEF DbType, transition_restore
<1> QED
  BY <1>2, <1>5 DEF transition_restore

(* A new row is well typed.                                                *)
LEMMA CreateType ==
    ASSUME DbType, NEW op \in Ops, create_restore_operation(op)
    PROVE  DbType'
<1>1. [NoRow EXCEPT !.state = "pending"] \in Row
  BY ConstantsAssumption DEF NoRow, Row, RestoreState
<1>2. <<<<"none", "pending">>>> \in Steps
  BY DEF Steps, RestoreState
<1> QED
  BY <1>1, <1>2 DEF DbType, create_restore_operation

(* An item that lands keeps the cloud typed.                               *)
LEMMA StoreType ==
    ASSUME CloudType, NEW op \in Ops, NEW content \in Ops, NEW i \in CloudIds,
           Store(op, content, i)
    PROVE  /\ cloud' \in [Ops -> SUBSET CloudIds]
           /\ window' \in [Ops -> SUBSET CloudIds]
           /\ carries' \in [CloudIds -> Ops \cup {None}]
<1>1. cloud' \in [Ops -> SUBSET CloudIds] /\ carries' \in [CloudIds -> Ops \cup {None}]
  BY DEF CloudType, Store
<1>2. (IF op \in TransactionIdOps THEN {i} ELSE window[op]) \in SUBSET CloudIds
  BY DEF CloudType
<1>3. window' \in [Ops -> SUBSET CloudIds]
  BY <1>2 DEF CloudType, Store
<1> QED
  BY <1>1, <1>3

(* Giving up on a POST keeps the abandoned ones typed.                     *)
LEMMA AbandonType ==
    ASSUME CloudType, NEW p \in Workers, Abandon(p)
    PROVE  late' \in [Ops -> [Ops -> Nat]]
<1>1. late \in [Ops -> [Ops -> Nat]]
  BY DEF CloudType
<1>2. CASE UNCHANGED late
  BY <1>1, <1>2
<1>3. CASE late' = [late EXCEPT ![cur[p]][payload[p]] = @ + 1]
  <2>1. ASSUME NEW op \in Ops PROVE [late[op] EXCEPT ![payload[p]] = @ + 1] \in [Ops -> Nat]
    <3>1. late[op] \in [Ops -> Nat]
      BY <1>1
    <3>2. PICK f \in [Ops -> Nat] : f = late[op]
      BY <3>1
    <3>3. \A c \in Ops : f[c] + 1 \in Nat
      OBVIOUS
    <3>4. [f EXCEPT ![payload[p]] = @ + 1] \in [Ops -> Nat]
      BY <3>3
    <3> QED
      BY <3>2, <3>4
  <2>2. late' = [op \in Ops |-> IF op = cur[p] THEN [late[op] EXCEPT ![payload[p]] = @ + 1]
                                             ELSE late[op]]
    BY <1>1, <1>3
  <2> QED
    BY <1>1, <2>1, <2>2
<1> QED
  BY <1>2, <1>3 DEF Abandon

(* The type invariant with the workers' places is inductive, in any of the *)
(* fault models.                                                           *)
LEMMA TypeStep == TypeInv /\ [Next]_vars => TypeInv'
<1> SUFFICES ASSUME TypeInv, [Next]_vars PROVE TypeInv'
  OBVIOUS
<1> USE ConstantsAssumption
<1>ty. DbType /\ CloudType /\ WorkType /\ OtherType /\ faults \in 0..MaxFaults
  BY DEF TypeInv, TypeOK
<1>pl. \A p \in Workers : PlaceOK(p)
  BY DEF TypeInv
<1> DEFINE Rest == DbType' /\ CloudType' /\ OtherType' /\ faults' \in 0..MaxFaults
           Work1 == WorkType' /\ \A q \in Workers : PlaceOK(q)'
<1>goal. Rest /\ Work1 => TypeInv'
  BY DEF TypeInv, TypeOK
<1>1. ASSUME NEW p \in Workers, NEW op \in Ops, Request(p, op) PROVE TypeInv'
  <2>1. Rest
    BY <1>1, <1>ty, SameTypes DEF Request
  <2>2. Work1
    BY <1>1, <1>ty, <1>pl DEF WorkType, PlaceOK, Unlocked, Pcs, Request
  <2> QED
    BY <2>1, <2>2, <1>goal
<1>2. ASSUME NEW p \in Workers, NEW svc \in Services, StartBoot(p, svc) PROVE TypeInv'
  <2>1. Rest
    BY <1>2, <1>ty, SameTypes DEF StartBoot
  <2>2. Work1
    BY <1>2, <1>ty, <1>pl DEF WorkType, PlaceOK, Unlocked, Pcs, StartBoot, Services
  <2> QED
    BY <2>1, <2>2, <1>goal
<1>3. ASSUME NEW p \in Workers, OpenStore(p) PROVE TypeInv'
  <2>1. Rest
    BY <1>3, <1>ty, SameTypes DEF OpenStore
  <2>2. Work1
    BY <1>3, <1>ty, <1>pl DEF WorkType, PlaceOK, Unlocked, Pcs, OpenStore
  <2> QED
    BY <2>1, <2>2, <1>goal
<1>4. ASSUME NEW p \in Workers, OpenFails(p) PROVE TypeInv'
  <2>1. Rest
    BY <1>4, <1>ty, SameTypes DEF OpenFails
  <2>2. Work1
    BY <1>4, <1>ty, <1>pl DEF WorkType, PlaceOK, Unlocked, Pcs, OpenFails
  <2> QED
    BY <2>1, <2>2, <1>goal
<1>5. ASSUME NEW p \in Workers, LookupCommitted(p) PROVE TypeInv'
  <2>1. Rest
    BY <1>5, <1>ty, SameTypes DEF LookupCommitted
  <2>2. Work1
    <3>1. ledger[cur[p]].newCloudId \in CloudIds \cup {None}
      BY <1>5, <1>ty, <1>pl DEF DbType, Row, PlaceOK, Unlocked, LookupCommitted
    <3> QED
      BY <1>5, <1>ty, <1>pl, <3>1
      DEF WorkType, PlaceOK, Unlocked, Pcs, LookupCommitted, Goto, Finish
  <2> QED
    BY <2>1, <2>2, <1>goal
<1>6. ASSUME NEW p \in Workers, LookupInterrupted(p) PROVE TypeInv'
  <2>1. Rest
    BY <1>6, <1>ty, SameTypes DEF LookupInterrupted
  <2>2. Work1
    BY <1>6, <1>ty, <1>pl DEF WorkType, PlaceOK, Unlocked, Pcs, LookupInterrupted, Goto, Finish
  <2> QED
    BY <2>1, <2>2, <1>goal
<1>7. ASSUME NEW p \in Workers, NEW op \in Ops, NextPending(p, op) PROVE TypeInv'
  <2>1. Rest
    BY <1>7, <1>ty, SameTypes DEF NextPending
  <2>2. Work1
    <3>1. archived[SourceOf[op]] \in Ops
      BY <1>ty DEF OtherType
    <3> QED
      BY <1>7, <1>ty, <1>pl, <3>1 DEF WorkType, PlaceOK, Unlocked, Pcs, NextPending
  <2> QED
    BY <2>1, <2>2, <1>goal
<1>8. ASSUME NEW p \in Workers, BootDone(p) PROVE TypeInv'
  <2>1. Rest
    BY <1>8, <1>ty, SameTypes DEF BootDone
  <2>2. Work1
    BY <1>8, <1>ty, <1>pl DEF WorkType, PlaceOK, Unlocked, Pcs, BootDone
  <2> QED
    BY <2>1, <2>2, <1>goal
<1>9. ASSUME NEW p \in Workers, Probe(p) PROVE TypeInv'
  <2>1. Rest
    BY <1>9, <1>ty, SameTypes DEF Probe
  <2>2. Work1
    <3>1. find_by_marker(cur[p]) \subseteq CloudIds
      BY <1>9, <1>ty, <1>pl DEF CloudType, PlaceOK, Unlocked, Probe, find_by_marker
    <3> QED
      BY <1>9, <1>ty, <1>pl, <3>1 DEF WorkType, PlaceOK, Unlocked, Pcs, Probe, Goto
  <2> QED
    BY <2>1, <2>2, <1>goal
<1>10. ASSUME NEW p \in Workers, Resumed(p) PROVE TypeInv'
  <2>1. Rest
    BY <1>10, <1>ty, SameTypes DEF Resumed
  <2>2. Work1
    BY <1>10, <1>ty, <1>pl DEF WorkType, PlaceOK, Unlocked, Pcs, Resumed, Goto
  <2> QED
    BY <2>1, <2>2, <1>goal
<1>11. ASSUME NEW p \in Workers, Send(p) PROVE TypeInv'
  <2>1. Rest
    BY <1>11, <1>ty, SameTypes DEF Send
  <2>2. Work1
    BY <1>11, <1>ty, <1>pl DEF WorkType, PlaceOK, Unlocked, Pcs, Send, Goto
  <2> QED
    BY <2>1, <2>2, <1>goal
<1>12. ASSUME NEW p \in Workers, Reply(p) PROVE TypeInv'
  <2>1. Rest
    BY <1>12, <1>ty, SameTypes DEF Reply
  <2>2. Work1
    BY <1>12, <1>ty, <1>pl DEF WorkType, PlaceOK, Unlocked, Pcs, Reply, Goto
  <2> QED
    BY <2>1, <2>2, <1>goal
<1>13. ASSUME NEW p \in Workers, PatchFails(p) PROVE TypeInv'
  <2>1. Rest
    BY <1>13, <1>ty, SameTypes DEF PatchFails, Fault
  <2>2. Work1
    BY <1>13, <1>ty, <1>pl DEF WorkType, PlaceOK, Unlocked, Pcs, PatchFails, Finish
  <2> QED
    BY <2>1, <2>2, <1>goal
<1>14. ASSUME NEW p \in Workers, Answer(p) PROVE TypeInv'
  <2>1. Rest
    <3>1. OtherType'
      BY <1>14, <1>ty, <1>pl DEF Answer, OtherType, PlaceOK, Unlocked
    <3> QED
      BY <1>14, <1>ty, <3>1, SameTypes DEF Answer
  <2>2. Work1
    BY <1>14, <1>ty, <1>pl DEF WorkType, PlaceOK, Unlocked, Pcs, Answer, Finish
  <2> QED
    BY <2>1, <2>2, <1>goal
<1>15. ASSUME NEW p \in Workers, CallFails(p) PROVE TypeInv'
  <2>1. Rest
    <3>1. CloudType'
      BY <1>15, <1>ty, AbandonType DEF CallFails, CloudType
    <3> QED
      BY <1>15, <1>ty, <3>1, SameTypes DEF CallFails, Fault
  <2>2. Work1
    BY <1>15, <1>ty, <1>pl DEF WorkType, PlaceOK, Unlocked, Pcs, CallFails, Finish
  <2> QED
    BY <2>1, <2>2, <1>goal
<1>16. ASSUME NEW p \in Workers, Crash(p) PROVE TypeInv'
  <2>1. Rest
    <3>1. CloudType'
      BY <1>16, <1>ty, AbandonType DEF Crash, CloudType
    <3> QED
      BY <1>16, <1>ty, <3>1, SameTypes DEF Crash, Fault
  <2>2. Work1
    BY <1>16, <1>ty, <1>pl DEF WorkType, PlaceOK, Unlocked, Pcs, Crash
  <2> QED
    BY <2>1, <2>2, <1>goal
<1>17. ASSUME NEW p \in Workers, Land(p) PROVE TypeInv'
  <2>0. PICK i \in Landing(cur[p]) :
          Store(cur[p], payload[p], i) /\ id' = [id EXCEPT ![p] = i]
    BY <1>17 DEF Land
  <2>i. cur[p] \in Ops /\ payload[p] \in Ops /\ i \in CloudIds
    BY <1>17, <1>ty, <1>pl, <2>0 DEF Land, Landing, CloudType, PlaceOK, Unlocked
  <2>1. Rest
    <3>1. CloudType'
      BY <1>17, <1>ty, <2>0, <2>i, StoreType DEF CloudType, Land
    <3> QED
      BY <1>17, <1>ty, <3>1, SameTypes DEF Land
  <2>2. Work1
    BY <1>17, <1>ty, <1>pl, <2>0, <2>i
    DEF WorkType, PlaceOK, Unlocked, Pcs, Land, Goto
  <2> QED
    BY <2>1, <2>2, <1>goal
<1>18. ASSUME NEW p \in Workers, LookupFresh(p) PROVE TypeInv'
  <2>1. Rest
    <3>1. DbType'
      BY <1>18, <1>ty, <1>pl, CreateType DEF LookupFresh, PlaceOK, Unlocked
    <3> QED
      BY <1>18, <1>ty, <3>1, SameTypes DEF LookupFresh
  <2>2. Work1
    BY <1>18, <1>ty, <1>pl DEF WorkType, PlaceOK, Unlocked, Pcs, LookupFresh, Goto
  <2> QED
    BY <2>1, <2>2, <1>goal
<1>19. ASSUME NEW p \in Workers, Preflight(p) PROVE TypeInv'
  <2>1. Rest
    <3>1. transition_restore(cur[p], "preflight_checked", None, TRUE)
      BY <1>19 DEF Preflight
    <3>2. cur[p] \in Ops /\ None \in CloudIds \cup {None}
      BY <1>19, <1>ty, <1>pl DEF Preflight, PlaceOK, Unlocked, WorkType
    <3>3. DbType'
      BY <1>ty, <3>1, <3>2, TransitionType DEF DbType
    <3> QED
      BY <1>19, <1>ty, <3>3, SameTypes DEF Preflight
  <2>2. Work1
    BY <1>19, <1>ty, <1>pl DEF WorkType, PlaceOK, Unlocked, Pcs, Preflight, Goto
  <2> QED
    BY <2>1, <2>2, <1>goal
<1>20. ASSUME NEW p \in Workers, Committing(p) PROVE TypeInv'
  <2>1. Rest
    <3>1. transition_restore(cur[p], "committing", None, FALSE)
      BY <1>20 DEF Committing
    <3>2. cur[p] \in Ops /\ None \in CloudIds \cup {None}
      BY <1>20, <1>ty, <1>pl DEF Committing, PlaceOK, Unlocked, WorkType
    <3>3. DbType'
      BY <1>ty, <3>1, <3>2, TransitionType DEF DbType
    <3> QED
      BY <1>20, <1>ty, <3>3, SameTypes DEF Committing
  <2>2. Work1
    BY <1>20, <1>ty, <1>pl DEF WorkType, PlaceOK, Unlocked, Pcs, Committing, Goto
  <2> QED
    BY <2>1, <2>2, <1>goal
<1>21. ASSUME NEW p \in Workers, Resume(p) PROVE TypeInv'
  <2>1. Rest
    <3>1. transition_restore(cur[p], ResumeTarget(ledger[cur[p]].state, id[p]), None, FALSE)
      BY <1>21 DEF Resume
    <3>2. cur[p] \in Ops /\ None \in CloudIds \cup {None}
      BY <1>21, <1>ty, <1>pl DEF Resume, PlaceOK, Unlocked, WorkType
    <3>3. DbType'
      BY <1>ty, <3>1, <3>2, TransitionType DEF DbType
    <3> QED
      BY <1>21, <1>ty, <3>3, SameTypes DEF Resume
  <2>2. Work1
    BY <1>21, <1>ty, <1>pl DEF WorkType, PlaceOK, Unlocked, Pcs, Resume, workVars
  <2> QED
    BY <2>1, <2>2, <1>goal
<1>22. ASSUME NEW p \in Workers, Commit(p) PROVE TypeInv'
  <2>1. Rest
    <3>1. transition_restore(cur[p], "committed", id[p], FALSE)
      BY <1>22 DEF Commit
    <3>2. cur[p] \in Ops /\ id[p] \in CloudIds \cup {None}
      BY <1>22, <1>ty, <1>pl DEF Commit, PlaceOK, Unlocked, WorkType
    <3>3. DbType'
      BY <1>ty, <3>1, <3>2, TransitionType DEF DbType
    <3> QED
      BY <1>22, <1>ty, <3>3, SameTypes DEF Commit
  <2>2. Work1
    BY <1>22, <1>ty, <1>pl DEF WorkType, PlaceOK, Unlocked, Pcs, Commit, Goto, Finish
  <2> QED
    BY <2>1, <2>2, <1>goal
<1>23. ASSUME NEW op \in Ops, NEW content \in Ops, LandLate(op, content)
       PROVE TypeInv'
  <2>1. PICK i \in Landing(op) : Store(op, content, i)
    BY <1>23 DEF LandLate
  <2>2. i \in CloudIds
    BY <1>ty, <2>1 DEF Landing, CloudType
  <2>3. CloudType'
    BY <1>23, <1>ty, <2>1, <2>2, StoreType DEF CloudType, LandLate
  <2>4. UNCHANGED workVars
    BY <1>23 DEF LandLate
  <2>5. Rest
    BY <1>23, <1>ty, <2>3, SameTypes DEF LandLate
  <2>6. Work1
    BY <1>ty, <1>pl, <2>4, SameTypes DEF workVars, PlaceOK
  <2> QED
    BY <2>5, <2>6, <1>goal
<1>24. ASSUME NEW op \in Ops, Resync(op) PROVE TypeInv'
  <2>1. Rest
    <3>1. OtherType'
      BY <1>24, <1>ty DEF OtherType, Resync
    <3> QED
      BY <1>24, <1>ty, <3>1, SameTypes DEF Resync
  <2>2. UNCHANGED workVars
    BY <1>24 DEF Resync
  <2>3. Work1
    BY <1>ty, <1>pl, <2>2, SameTypes DEF workVars, PlaceOK
  <2> QED
    BY <2>1, <2>3, <1>goal
<1>25. CASE Checkpoint
  <2>1. Rest
    <3>1. DbType'
      BY <1>25, <1>ty DEF DbType, Checkpoint
    <3> QED
      BY <1>25, <1>ty, <3>1, SameTypes DEF Checkpoint
  <2>2. UNCHANGED workVars
    BY <1>25 DEF Checkpoint
  <2>3. Work1
    BY <1>ty, <1>pl, <2>2, SameTypes DEF workVars, PlaceOK
  <2> QED
    BY <2>1, <2>3, <1>goal
<1>26. CASE PowerFail
  <2>1. Rest
    <3>1. DbType'
      BY <1>26, <1>ty DEF DbType, PowerFail
    <3> QED
      BY <1>26, <1>ty, <3>1, SameTypes DEF PowerFail, Fault
  <2>2. Work1
    BY <1>26, <1>ty DEF WorkType, PlaceOK, Unlocked, Pcs, PowerFail
  <2> QED
    BY <2>1, <2>2, <1>goal
<1>28. ASSUME NEW op \in Ops, ForgetTransaction(op) PROVE TypeInv'
  <2>1. Rest
    <3>1. CloudType'
      BY <1>28, <1>ty DEF CloudType, ForgetTransaction
    <3> QED
      BY <1>28, <1>ty, <3>1, SameTypes DEF ForgetTransaction, Fault
  <2>2. UNCHANGED workVars
    BY <1>28 DEF ForgetTransaction
  <2>3. Work1
    BY <1>ty, <1>pl, <2>2, SameTypes DEF workVars, PlaceOK
  <2> QED
    BY <2>1, <2>3, <1>goal
<1>27. CASE UNCHANGED vars
  <2>1. /\ UNCHANGED dbVars /\ UNCHANGED cloudVars /\ UNCHANGED otherVars
        /\ UNCHANGED workVars /\ UNCHANGED faults
    BY <1>27 DEF vars, dbVars, cloudVars, otherVars, workVars
  <2>2. Work1
    BY <1>ty, <1>pl, <2>1, SameTypes DEF workVars, PlaceOK
  <2> QED
    BY <1>ty, <2>1, <2>2, <1>goal, SameTypes
<1> QED
  BY <1>1, <1>2, <1>3, <1>4, <1>5, <1>6, <1>7, <1>8, <1>9, <1>10, <1>11, <1>12, <1>13, <1>14, <1>15, <1>16, <1>17, <1>18, <1>19, <1>20, <1>21, <1>22, <1>23, <1>24, <1>25, <1>26, <1>27, <1>28
  DEF Next, Work

(* The program starts well typed.                                          *)
LEMMA InitType == Init => TypeInv
<1> SUFFICES ASSUME Init PROVE TypeInv
  OBVIOUS
<1>1. <<>> \in Steps
  BY DEF Steps
<1>2. NoRow \in Row
  BY DEF Row, NoRow
<1>3. DbType
  BY <1>1, <1>2 DEF Init, DbType
<1>4. CloudType /\ OtherType /\ WorkType
  BY DEF Init, CloudType, OtherType, WorkType, Pcs
<1> QED
  BY <1>3, <1>4, ConstantsAssumption DEF Init, TypeInv, TypeOK, PlaceOK, Unlocked

(* In every reachable state every variable has its type.                   *)
THEOREM TypeCorrect == Spec => []TypeOK
<1>1. TypeInv => TypeOK
  BY DEF TypeInv
<1> QED
  BY <1>1, InitType, TypeStep, PTL DEF Spec

-----------------------------------------------------------------------------
(* The cloud changes by a POST that lands, and only grows; what it         *)
(* remembers of transactionIds changes with it or when a window ends.      *)
Landed(op, i) ==
    /\ cloud' = [cloud EXCEPT ![op] = @ \cup {i}]
    /\ window' = [window EXCEPT ![op] = IF op \in TransactionIdOps THEN {i} ELSE @]

LEMMA CloudGrows ==
    ASSUME TypeInv, [Next]_vars
    PROVE  \/ UNCHANGED <<cloud, window>>
           \/ \E op \in Ops : \E i \in Landing(op) : Landed(op, i)
           \/ \E op \in Ops : ForgetTransaction(op)
<1>1. ASSUME NEW p \in Workers, NEW op \in Ops, Request(p, op) \/ NextPending(p, op)
      PROVE UNCHANGED <<cloud, window>>
  BY <1>1 DEF Request, NextPending, cloudVars
<1>2. ASSUME NEW p \in Workers, NEW svc \in Services, StartBoot(p, svc)
      PROVE UNCHANGED <<cloud, window>>
  BY <1>2 DEF StartBoot, cloudVars
<1>3. ASSUME NEW p \in Workers,
             \/ OpenStore(p) \/ OpenFails(p) \/ LookupFresh(p) \/ LookupCommitted(p)
             \/ LookupInterrupted(p) \/ BootDone(p) \/ Preflight(p) \/ Committing(p)
             \/ Probe(p) \/ Resume(p) \/ Resumed(p)
      PROVE UNCHANGED <<cloud, window>>
  BY <1>3 DEF OpenStore, OpenFails, LookupFresh, LookupCommitted, LookupInterrupted,
     BootDone, Preflight, Committing, Probe, Resume, Resumed, cloudVars
<1>4. ASSUME NEW p \in Workers,
             \/ Send(p) \/ Reply(p) \/ Commit(p) \/ Answer(p)
             \/ CallFails(p) \/ PatchFails(p) \/ Crash(p)
      PROVE UNCHANGED <<cloud, window>>
  BY <1>4 DEF Send, Reply, Commit, Answer, CallFails, PatchFails, Crash, cloudVars
<1>5. ASSUME NEW p \in Workers, Land(p)
      PROVE \E op \in Ops : \E i \in Landing(op) : Landed(op, i)
  <2>1. cur[p] \in Ops
    BY <1>5 DEF TypeInv, PlaceOK, Unlocked, Land
  <2> QED
    BY <1>5, <2>1 DEF Land, Store, Landed
<1>6. ASSUME NEW op \in Ops, NEW content \in Ops, LandLate(op, content)
      PROVE \E i \in Landing(op) : Landed(op, i)
  BY <1>6 DEF LandLate, Store, Landed
<1>7. ASSUME NEW op \in Ops, Resync(op) PROVE UNCHANGED <<cloud, window>>
  BY <1>7 DEF Resync, cloudVars
<1>8. CASE Checkpoint \/ PowerFail
  BY <1>8 DEF Checkpoint, PowerFail, cloudVars
<1>9. CASE UNCHANGED vars
  BY <1>9 DEF vars
<1> QED
  BY <1>1, <1>2, <1>3, <1>4, <1>5, <1>6, <1>7, <1>8, <1>9 DEF Next, Work

(* While no window ends, the server remembers exactly the calendar events  *)
(* there are, and one transactionId has at most one.                       *)
WindowInv ==
    \A op \in Ops :
      /\ window[op] = IF op \in TransactionIdOps THEN cloud[op] ELSE {}
      /\ op \in TransactionIdOps => \A i, j \in cloud[op] : i = j

LEMMA WindowStep ==
    ASSUME ~WindowEnds \/ TransactionIdOps = {}, TypeInv, WindowInv, [Next]_vars
    PROVE  WindowInv'
<1>ty. CloudType
  BY DEF TypeInv, TypeOK
<1>1. CASE UNCHANGED <<cloud, window>>
  BY <1>1 DEF WindowInv
<1>2. ASSUME NEW op \in Ops, NEW i \in Landing(op), Landed(op, i) PROVE WindowInv'
  <2>1. op \in TransactionIdOps => cloud'[op] = {i} /\ window'[op] = {i}
    BY <1>2, <1>ty DEF Landing, Landed, CloudType, WindowInv
  <2>2. op \notin TransactionIdOps => window'[op] = {}
    BY <1>2, <1>ty DEF Landed, CloudType, WindowInv
  <2>3. \A o \in Ops : o # op => cloud'[o] = cloud[o] /\ window'[o] = window[o]
    BY <1>2, <1>ty DEF Landed, CloudType
  <2> QED
    BY <2>1, <2>2, <2>3 DEF WindowInv
<1>3. \A op \in Ops : ~ForgetTransaction(op)
  BY DEF ForgetTransaction, WindowInv
<1> QED
  BY <1>1, <1>2, <1>3, CloudGrows

(* A row whose operation, cloud items and answers do not change stays      *)
(* right.                                                                  *)
LEMMA RowSame ==
    ASSUME NEW op \in Ops, RowOK(op), ledger'[op] = ledger[op],
           cloud'[op] = cloud[op], answers'[op] = answers[op]
    PROVE  RowOK(op)'
BY DEF RowOK

(* A worker that does not move stays right when another one moves without  *)
(* touching the rows, ...                                                  *)
LEMMA BystanderSame ==
    ASSUME NEW q \in Workers, WorkerOK(q), ledger' = ledger, cloud' = cloud,
           pc'[q] = pc[q], cur'[q] = cur[q], id'[q] = id[q], lock' = q <=> lock = q
    PROVE  WorkerOK(q)'
BY DEF WorkerOK

(* ... or when it does not hold the lock, whatever the holder does.        *)
LEMMA BystanderUnlocked ==
    ASSUME NEW q \in Workers, pc[q] \in Unlocked, pc'[q] = pc[q], lock' # q
    PROVE  WorkerOK(q)'
BY DEF WorkerOK, Unlocked

(* The invariant that makes a restore happen at most once is inductive     *)
(* when an abandoned POST never lands, the WAL is never lost, and the      *)
(* server remembers the transactionIds it has seen.                        *)
LEMMA OnceStep ==
    ASSUME ~LateLanding, ~PowerLoss, ~WindowEnds \/ TransactionIdOps = {},
           WindowInv, IInv, [Next]_vars
    PROVE  IInv'
<1> USE ConstantsAssumption
<1>ty. /\ TypeInv /\ TypeInv' /\ DbType /\ CloudType /\ WorkType /\ OtherType
       /\ CloudType'
  BY TypeStep DEF IInv, TypeInv, TypeOK
<1>pl. \A p \in Workers : PlaceOK(p) /\ PlaceOK(p)' /\ WorkerOK(p)
  BY <1>ty DEF IInv, TypeInv
<1>row. \A op \in Ops : RowOK(op)
  BY DEF IInv
<1>late. NothingLate
  BY DEF IInv
<1>alone. \A p, q \in Workers : pc[p] \notin Unlocked /\ p # q =>
            pc[q] \in Unlocked /\ lock = p /\ lock # q
  BY <1>pl DEF WorkerOK
<1> DEFINE Rows == \A o \in Ops : RowOK(o)'
           All  == \A q \in Workers : WorkerOK(q)'
<1>goal. NothingLate' /\ Rows /\ All => IInv'
  BY <1>ty DEF IInv
<1>1. ASSUME NEW p \in Workers, NEW op \in Ops, Request(p, op) PROVE IInv'
  <2>1. NothingLate'
    BY <1>1, <1>late DEF NothingLate, Request, cloudVars
  <2>0. ledger' = ledger /\ cloud' = cloud /\ answers' = answers
    BY <1>1 DEF Request, dbVars, cloudVars, otherVars
  <2>2. Rows
    BY <2>0, <1>row, RowSame
  <2>3. All
    <3>1. WorkerOK(p)'
      BY <1>1, <2>0, <1>ty, <1>pl DEF WorkerOK, PlaceOK, Unlocked, WorkType, Request
    <3>2. ASSUME NEW q \in Workers, q # p PROVE WorkerOK(q)'
      <4>1. pc'[q] = pc[q] /\ cur'[q] = cur[q] /\ id'[q] = id[q]
        BY <1>1, <1>ty, <3>2 DEF WorkType, Request
      <4>2. lock' = q <=> lock = q
        BY <1>1, <1>ty, <1>pl, <3>2 DEF WorkType, WorkerOK, Unlocked, Request
      <4> QED
        BY <2>0, <4>1, <4>2, <1>pl, BystanderSame
    <3> QED
      BY <3>1, <3>2
  <2> QED
    BY <2>1, <2>2, <2>3, <1>goal
<1>2. ASSUME NEW p \in Workers, NEW svc \in Services, StartBoot(p, svc) PROVE IInv'
  <2>1. NothingLate'
    BY <1>2, <1>late DEF NothingLate, StartBoot, cloudVars
  <2>0. ledger' = ledger /\ cloud' = cloud /\ answers' = answers
    BY <1>2 DEF StartBoot, dbVars, cloudVars, otherVars
  <2>2. Rows
    BY <2>0, <1>row, RowSame
  <2>3. All
    <3>1. WorkerOK(p)'
      BY <1>2, <2>0, <1>ty, <1>pl DEF WorkerOK, PlaceOK, Unlocked, WorkType, StartBoot
    <3>2. ASSUME NEW q \in Workers, q # p PROVE WorkerOK(q)'
      <4>1. pc'[q] = pc[q] /\ cur'[q] = cur[q] /\ id'[q] = id[q]
        BY <1>2, <1>ty, <3>2 DEF WorkType, StartBoot
      <4>2. lock' = q <=> lock = q
        BY <1>2, <1>ty, <1>pl, <3>2 DEF WorkType, WorkerOK, Unlocked, StartBoot
      <4> QED
        BY <2>0, <4>1, <4>2, <1>pl, BystanderSame
    <3> QED
      BY <3>1, <3>2
  <2> QED
    BY <2>1, <2>2, <2>3, <1>goal
<1>3. ASSUME NEW p \in Workers, OpenStore(p) PROVE IInv'
  <2>1. NothingLate'
    BY <1>3, <1>late DEF NothingLate, OpenStore, cloudVars
  <2>0. ledger' = ledger /\ cloud' = cloud /\ answers' = answers
    BY <1>3 DEF OpenStore, dbVars, cloudVars, otherVars
  <2>2. Rows
    BY <2>0, <1>row, RowSame
  <2>3. All
    <3>1. WorkerOK(p)'
      BY <1>3, <2>0, <1>ty, <1>pl DEF WorkerOK, PlaceOK, Unlocked, WorkType, OpenStore
    <3>2. ASSUME NEW q \in Workers, q # p PROVE WorkerOK(q)'
      <4>1. pc'[q] = pc[q] /\ cur'[q] = cur[q] /\ id'[q] = id[q]
        BY <1>3, <1>ty, <3>2 DEF WorkType, OpenStore
      <4>2. lock' = q <=> lock = q
        BY <1>3, <1>ty, <1>pl, <3>2 DEF WorkType, WorkerOK, Unlocked, OpenStore
      <4> QED
        BY <2>0, <4>1, <4>2, <1>pl, BystanderSame
    <3> QED
      BY <3>1, <3>2
  <2> QED
    BY <2>1, <2>2, <2>3, <1>goal
<1>4. ASSUME NEW p \in Workers, OpenFails(p) PROVE IInv'
  <2>1. NothingLate'
    BY <1>4, <1>late DEF NothingLate, OpenFails, cloudVars
  <2>0. ledger' = ledger /\ cloud' = cloud /\ answers' = answers
    BY <1>4 DEF OpenFails, dbVars, cloudVars, otherVars
  <2>2. Rows
    BY <2>0, <1>row, RowSame
  <2>3. All
    <3>1. WorkerOK(p)'
      BY <1>4, <2>0, <1>ty, <1>pl DEF WorkerOK, PlaceOK, Unlocked, WorkType, OpenFails
    <3>2. ASSUME NEW q \in Workers, q # p PROVE WorkerOK(q)'
      <4>1. pc'[q] = pc[q] /\ cur'[q] = cur[q] /\ id'[q] = id[q]
        BY <1>4, <1>ty, <3>2 DEF WorkType, OpenFails
      <4>2. lock' = q <=> lock = q
        BY <1>4, <1>ty, <1>pl, <3>2 DEF WorkType, WorkerOK, Unlocked, OpenFails
      <4> QED
        BY <2>0, <4>1, <4>2, <1>pl, BystanderSame
    <3> QED
      BY <3>1, <3>2
  <2> QED
    BY <2>1, <2>2, <2>3, <1>goal
<1>5. ASSUME NEW p \in Workers, LookupCommitted(p) PROVE IInv'
  <2>1. NothingLate'
    BY <1>5, <1>late DEF NothingLate, LookupCommitted, cloudVars
  <2>0. ledger' = ledger /\ cloud' = cloud /\ answers' = answers
    BY <1>5 DEF LookupCommitted, dbVars, cloudVars, otherVars
  <2>2. Rows
    BY <2>0, <1>row, RowSame
  <2>3. All
    <3>1. WorkerOK(p)'
      BY <1>5, <2>0, <1>ty, <1>pl DEF WorkerOK, PlaceOK, Unlocked, WorkType, LookupCommitted, Goto, Finish
    <3>2. ASSUME NEW q \in Workers, q # p PROVE WorkerOK(q)'
      <4>1. pc'[q] = pc[q] /\ cur'[q] = cur[q] /\ id'[q] = id[q]
        BY <1>5, <1>ty, <3>2 DEF WorkType, LookupCommitted, Goto, Finish
      <4>2. lock' = q <=> lock = q
        BY <1>5, <1>ty, <1>pl, <3>2 DEF WorkType, WorkerOK, Unlocked, LookupCommitted, Goto, Finish
      <4> QED
        BY <2>0, <4>1, <4>2, <1>pl, BystanderSame
    <3> QED
      BY <3>1, <3>2
  <2> QED
    BY <2>1, <2>2, <2>3, <1>goal
<1>6. ASSUME NEW p \in Workers, LookupInterrupted(p) PROVE IInv'
  <2>1. NothingLate'
    BY <1>6, <1>late DEF NothingLate, LookupInterrupted, cloudVars
  <2>0. ledger' = ledger /\ cloud' = cloud /\ answers' = answers
    BY <1>6 DEF LookupInterrupted, dbVars, cloudVars, otherVars
  <2>2. Rows
    BY <2>0, <1>row, RowSame
  <2>3. All
    <3>1. WorkerOK(p)'
      BY <1>6, <2>0, <1>ty, <1>pl, <1>row DEF WorkerOK, PlaceOK, Unlocked, WorkType, LookupInterrupted, Goto, Finish, NeedsProbe, is_terminal, RowOK, DbType, Row, RestoreState
    <3>2. ASSUME NEW q \in Workers, q # p PROVE WorkerOK(q)'
      <4>1. pc'[q] = pc[q] /\ cur'[q] = cur[q] /\ id'[q] = id[q]
        BY <1>6, <1>ty, <3>2 DEF WorkType, LookupInterrupted, Goto, Finish
      <4>2. lock' = q <=> lock = q
        BY <1>6, <1>ty, <1>pl, <3>2 DEF WorkType, WorkerOK, Unlocked, LookupInterrupted, Goto, Finish
      <4> QED
        BY <2>0, <4>1, <4>2, <1>pl, BystanderSame
    <3> QED
      BY <3>1, <3>2
  <2> QED
    BY <2>1, <2>2, <2>3, <1>goal
<1>7. ASSUME NEW p \in Workers, NEW op \in Ops, NextPending(p, op) PROVE IInv'
  <2>1. NothingLate'
    BY <1>7, <1>late DEF NothingLate, NextPending, cloudVars
  <2>0. ledger' = ledger /\ cloud' = cloud /\ answers' = answers
    BY <1>7 DEF NextPending, dbVars, cloudVars, otherVars
  <2>2. Rows
    BY <2>0, <1>row, RowSame
  <2>3. All
    <3>1. WorkerOK(p)'
      <4>0. pc[p] = "next" /\ lock = p /\ lock' = lock
        BY <1>7, <1>pl DEF NextPending, WorkerOK, Unlocked
      <4>1. CASE NeedsProbe(ledger[op])
        <5>1. pc'[p] = "probe" /\ cur'[p] = op
          BY <1>7, <1>ty, <4>1 DEF NextPending, WorkType
        <5>2. ledger[op].state \in RestoreState \ {"committed", "cancelled"}
          BY <4>1, <1>ty, <1>row DEF NeedsProbe, is_terminal, RowOK, DbType, Row
        <5> QED
          BY <2>0, <4>0, <5>1, <5>2 DEF WorkerOK, Unlocked
      <4>2. CASE ~NeedsProbe(ledger[op])
        <5>1. pc'[p] = "next"
          BY <1>7, <4>0, <4>2 DEF NextPending
        <5> QED
          BY <4>0, <5>1 DEF WorkerOK, Unlocked
      <4> QED
        BY <4>1, <4>2
    <3>2. ASSUME NEW q \in Workers, q # p PROVE WorkerOK(q)'
      <4>1. pc'[q] = pc[q] /\ cur'[q] = cur[q] /\ id'[q] = id[q]
        BY <1>7, <1>ty, <3>2 DEF WorkType, NextPending
      <4>2. lock' = q <=> lock = q
        BY <1>7, <1>ty, <1>pl, <3>2 DEF WorkType, WorkerOK, Unlocked, NextPending
      <4> QED
        BY <2>0, <4>1, <4>2, <1>pl, BystanderSame
    <3> QED
      BY <3>1, <3>2
  <2> QED
    BY <2>1, <2>2, <2>3, <1>goal
<1>8. ASSUME NEW p \in Workers, BootDone(p) PROVE IInv'
  <2>1. NothingLate'
    BY <1>8, <1>late DEF NothingLate, BootDone, cloudVars
  <2>0. ledger' = ledger /\ cloud' = cloud /\ answers' = answers
    BY <1>8 DEF BootDone, dbVars, cloudVars, otherVars
  <2>2. Rows
    BY <2>0, <1>row, RowSame
  <2>3. All
    <3>1. WorkerOK(p)'
      BY <1>8, <2>0, <1>ty, <1>pl DEF WorkerOK, PlaceOK, Unlocked, WorkType, BootDone
    <3>2. ASSUME NEW q \in Workers, q # p PROVE WorkerOK(q)'
      <4>1. pc'[q] = pc[q] /\ cur'[q] = cur[q] /\ id'[q] = id[q]
        BY <1>8, <1>ty, <3>2 DEF WorkType, BootDone
      <4>2. lock' = q <=> lock = q
        BY <1>8, <1>ty, <1>pl, <3>2 DEF WorkType, WorkerOK, Unlocked, BootDone
      <4> QED
        BY <2>0, <4>1, <4>2, <1>pl, BystanderSame
    <3> QED
      BY <3>1, <3>2
  <2> QED
    BY <2>1, <2>2, <2>3, <1>goal
<1>9. ASSUME NEW p \in Workers, Probe(p) PROVE IInv'
  <2>1. NothingLate'
    BY <1>9, <1>late DEF NothingLate, Probe, cloudVars
  <2>0. ledger' = ledger /\ cloud' = cloud /\ answers' = answers
    BY <1>9 DEF Probe, dbVars, cloudVars, otherVars
  <2>2. Rows
    BY <2>0, <1>row, RowSame
  <2>3. All
    <3>1. WorkerOK(p)'
      <4>o. PICK op \in Ops : op = cur[p]
        BY <1>9, <1>pl DEF Probe, PlaceOK, Unlocked
      <4>0. /\ pc'[p] = "resume" /\ cur'[p] = op
            /\ lock = p /\ lock' = lock
            /\ ledger[op].state \in RestoreState \ {"committed", "cancelled"}
        BY <1>9, <1>ty, <1>pl, <4>o DEF Probe, Goto, WorkType, WorkerOK, Unlocked
      <4>1. \/ id'[p] = None /\ find_by_marker(op) = {}
            \/ id'[p] \in cloud[op]
        BY <1>9, <1>ty, <4>o DEF Probe, WorkType, find_by_marker
      <4>2. cloud[op] \subseteq CloudIds
        BY <1>ty DEF CloudType
      <4> QED
        BY <2>0, <4>0, <4>1, <4>2 DEF WorkerOK, Unlocked, find_by_marker
    <3>2. ASSUME NEW q \in Workers, q # p PROVE WorkerOK(q)'
      <4>1. pc'[q] = pc[q] /\ cur'[q] = cur[q] /\ id'[q] = id[q]
        BY <1>9, <1>ty, <3>2 DEF WorkType, Probe, Goto
      <4>2. lock' = q <=> lock = q
        BY <1>9, <1>ty, <1>pl, <3>2 DEF WorkType, WorkerOK, Unlocked, Probe, Goto
      <4> QED
        BY <2>0, <4>1, <4>2, <1>pl, BystanderSame
    <3> QED
      BY <3>1, <3>2
  <2> QED
    BY <2>1, <2>2, <2>3, <1>goal
<1>10. ASSUME NEW p \in Workers, Resumed(p) PROVE IInv'
  <2>1. NothingLate'
    BY <1>10, <1>late DEF NothingLate, Resumed, cloudVars
  <2>0. ledger' = ledger /\ cloud' = cloud /\ answers' = answers
    BY <1>10 DEF Resumed, dbVars, cloudVars, otherVars
  <2>2. Rows
    BY <2>0, <1>row, RowSame
  <2>3. All
    <3>1. WorkerOK(p)'
      BY <1>10, <2>0, <1>ty, <1>pl DEF WorkerOK, PlaceOK, Unlocked, WorkType, Resumed, Goto, ResumeTarget, Open, RestoreState
    <3>2. ASSUME NEW q \in Workers, q # p PROVE WorkerOK(q)'
      <4>1. pc'[q] = pc[q] /\ cur'[q] = cur[q] /\ id'[q] = id[q]
        BY <1>10, <1>ty, <3>2 DEF WorkType, Resumed, Goto
      <4>2. lock' = q <=> lock = q
        BY <1>10, <1>ty, <1>pl, <3>2 DEF WorkType, WorkerOK, Unlocked, Resumed, Goto
      <4> QED
        BY <2>0, <4>1, <4>2, <1>pl, BystanderSame
    <3> QED
      BY <3>1, <3>2
  <2> QED
    BY <2>1, <2>2, <2>3, <1>goal
<1>11. ASSUME NEW p \in Workers, Send(p) PROVE IInv'
  <2>1. NothingLate'
    BY <1>11, <1>late DEF NothingLate, Send, cloudVars
  <2>0. ledger' = ledger /\ cloud' = cloud /\ answers' = answers
    BY <1>11 DEF Send, dbVars, cloudVars, otherVars
  <2>2. Rows
    BY <2>0, <1>row, RowSame
  <2>3. All
    <3>1. WorkerOK(p)'
      BY <1>11, <2>0, <1>ty, <1>pl DEF WorkerOK, PlaceOK, Unlocked, WorkType, Send, Goto
    <3>2. ASSUME NEW q \in Workers, q # p PROVE WorkerOK(q)'
      <4>1. pc'[q] = pc[q] /\ cur'[q] = cur[q] /\ id'[q] = id[q]
        BY <1>11, <1>ty, <3>2 DEF WorkType, Send, Goto
      <4>2. lock' = q <=> lock = q
        BY <1>11, <1>ty, <1>pl, <3>2 DEF WorkType, WorkerOK, Unlocked, Send, Goto
      <4> QED
        BY <2>0, <4>1, <4>2, <1>pl, BystanderSame
    <3> QED
      BY <3>1, <3>2
  <2> QED
    BY <2>1, <2>2, <2>3, <1>goal
<1>12. ASSUME NEW p \in Workers, Reply(p) PROVE IInv'
  <2>1. NothingLate'
    BY <1>12, <1>late DEF NothingLate, Reply, cloudVars
  <2>0. ledger' = ledger /\ cloud' = cloud /\ answers' = answers
    BY <1>12 DEF Reply, dbVars, cloudVars, otherVars
  <2>2. Rows
    BY <2>0, <1>row, RowSame
  <2>3. All
    <3>1. WorkerOK(p)'
      BY <1>12, <2>0, <1>ty, <1>pl DEF WorkerOK, PlaceOK, Unlocked, WorkType, Reply, Goto
    <3>2. ASSUME NEW q \in Workers, q # p PROVE WorkerOK(q)'
      <4>1. pc'[q] = pc[q] /\ cur'[q] = cur[q] /\ id'[q] = id[q]
        BY <1>12, <1>ty, <3>2 DEF WorkType, Reply, Goto
      <4>2. lock' = q <=> lock = q
        BY <1>12, <1>ty, <1>pl, <3>2 DEF WorkType, WorkerOK, Unlocked, Reply, Goto
      <4> QED
        BY <2>0, <4>1, <4>2, <1>pl, BystanderSame
    <3> QED
      BY <3>1, <3>2
  <2> QED
    BY <2>1, <2>2, <2>3, <1>goal
<1>13. ASSUME NEW p \in Workers, PatchFails(p) PROVE IInv'
  <2>1. NothingLate'
    BY <1>13, <1>late DEF NothingLate, PatchFails, cloudVars
  <2>0. ledger' = ledger /\ cloud' = cloud /\ answers' = answers
    BY <1>13 DEF PatchFails, dbVars, cloudVars, otherVars
  <2>2. Rows
    BY <2>0, <1>row, RowSame
  <2>3. All
    <3>1. WorkerOK(p)'
      BY <1>13, <2>0, <1>ty, <1>pl DEF WorkerOK, PlaceOK, Unlocked, WorkType, PatchFails, Finish
    <3>2. ASSUME NEW q \in Workers, q # p PROVE WorkerOK(q)'
      <4>1. pc'[q] = pc[q] /\ cur'[q] = cur[q] /\ id'[q] = id[q]
        BY <1>13, <1>ty, <3>2 DEF WorkType, PatchFails, Finish
      <4>2. lock' = q <=> lock = q
        BY <1>13, <1>ty, <1>pl, <3>2 DEF WorkType, WorkerOK, Unlocked, PatchFails, Finish
      <4> QED
        BY <2>0, <4>1, <4>2, <1>pl, BystanderSame
    <3> QED
      BY <3>1, <3>2
  <2> QED
    BY <2>1, <2>2, <2>3, <1>goal
<1>14. ASSUME NEW p \in Workers, CallFails(p) PROVE IInv'
  <2>1. NothingLate'
    BY <1>14, <1>late DEF NothingLate, CallFails, cloudVars, Abandon
  <2>0. ledger' = ledger /\ cloud' = cloud /\ answers' = answers
    BY <1>14 DEF CallFails, dbVars, cloudVars, otherVars
  <2>2. Rows
    BY <2>0, <1>row, RowSame
  <2>3. All
    <3>1. WorkerOK(p)'
      BY <1>14, <2>0, <1>ty, <1>pl DEF WorkerOK, PlaceOK, Unlocked, WorkType, CallFails, Finish
    <3>2. ASSUME NEW q \in Workers, q # p PROVE WorkerOK(q)'
      <4>1. pc'[q] = pc[q] /\ cur'[q] = cur[q] /\ id'[q] = id[q]
        BY <1>14, <1>ty, <3>2 DEF WorkType, CallFails, Finish
      <4>2. lock' = q <=> lock = q
        BY <1>14, <1>ty, <1>pl, <3>2 DEF WorkType, WorkerOK, Unlocked, CallFails, Finish
      <4> QED
        BY <2>0, <4>1, <4>2, <1>pl, BystanderSame
    <3> QED
      BY <3>1, <3>2
  <2> QED
    BY <2>1, <2>2, <2>3, <1>goal
<1>15. ASSUME NEW p \in Workers, Crash(p) PROVE IInv'
  <2>1. NothingLate'
    BY <1>15, <1>late DEF NothingLate, Crash, cloudVars, Abandon
  <2>0. ledger' = ledger /\ cloud' = cloud /\ answers' = answers
    BY <1>15 DEF Crash, dbVars, cloudVars, otherVars
  <2>2. Rows
    BY <2>0, <1>row, RowSame
  <2>3. All
    <3>1. WorkerOK(p)'
      BY <1>15, <2>0, <1>ty, <1>pl DEF WorkerOK, PlaceOK, Unlocked, WorkType, Crash
    <3>2. ASSUME NEW q \in Workers, q # p PROVE WorkerOK(q)'
      <4>1. pc'[q] = pc[q] /\ cur'[q] = cur[q] /\ id'[q] = id[q]
        BY <1>15, <1>ty, <3>2 DEF WorkType, Crash
      <4>2. lock' = q <=> lock = q
        BY <1>15, <1>ty, <1>pl, <3>2 DEF WorkType, WorkerOK, Unlocked, Crash
      <4> QED
        BY <2>0, <4>1, <4>2, <1>pl, BystanderSame
    <3> QED
      BY <3>1, <3>2
  <2> QED
    BY <2>1, <2>2, <2>3, <1>goal
<1>16. ASSUME NEW p \in Workers, Answer(p) PROVE IInv'
  <2>1. NothingLate'
    BY <1>16, <1>late DEF NothingLate, Answer, cloudVars
  <2>o. PICK op \in Ops : op = cur[p]
    BY <1>16, <1>pl DEF Answer, PlaceOK, Unlocked
  <2>0. /\ ledger' = ledger /\ cloud' = cloud /\ pc[p] = "answer"
        /\ answers' = [answers EXCEPT ![op] = @ \cup {id[p]}]
    BY <1>16, <2>o DEF Answer, dbVars, cloudVars
  <2>2. Rows
    <3>1. ASSUME NEW o \in Ops, o # op PROVE RowOK(o)'
      BY <2>0, <3>1, <1>row, <1>ty, RowSame DEF OtherType
    <3>2. RowOK(op)'
      BY <2>0, <2>o, <1>row, <1>ty, <1>pl DEF OtherType, RowOK, WorkerOK
    <3> QED
      BY <3>1, <3>2
  <2>3. All
    <3>1. WorkerOK(p)'
      BY <1>16, <2>0, <1>ty, <1>pl DEF WorkerOK, Unlocked, WorkType, Answer, Finish
    <3>2. ASSUME NEW q \in Workers, q # p PROVE WorkerOK(q)'
      BY <1>16, <2>0, <3>2, <1>ty, <1>alone, BystanderUnlocked
      DEF Answer, Finish, WorkType, Unlocked
    <3> QED
      BY <3>1, <3>2
  <2> QED
    BY <2>1, <2>2, <2>3, <1>goal
<1>17. ASSUME NEW p \in Workers, LookupFresh(p) PROVE IInv'
  <2>1. NothingLate'
    BY <1>17, <1>late DEF NothingLate, LookupFresh, cloudVars
  <2>o. PICK op \in Ops : op = cur[p]
    BY <1>17, <1>pl DEF LookupFresh, PlaceOK, Unlocked
  <2>0. /\ cloud' = cloud /\ answers' = answers /\ pc[p] \notin Unlocked
        /\ \A o \in Ops : o # op => ledger'[o] = ledger[o]
    BY <1>17, <1>ty, <2>o DEF LookupFresh, cloudVars, otherVars, Unlocked, DbType, create_restore_operation, NoRow
  <2>r. /\ ledger[op].state = "none" /\ ledger'[op].state = "pending"
        /\ ledger'[op].newCloudId = None
    BY <1>17, <1>ty, <1>pl, <2>o DEF LookupFresh, DbType, WorkerOK, create_restore_operation, NoRow
  <2>2. Rows
    <3>1. ASSUME NEW o \in Ops, o # op PROVE RowOK(o)'
      BY <2>0, <3>1, <1>row, RowSame
    <3>2. RowOK(op)'
      BY <2>0, <2>r, <1>row, <1>ty DEF RowOK, Open, OtherType
    <3> QED
      BY <3>1, <3>2
  <2>3. All
    <3>0. pc'[p] = "preflight" /\ cur'[p] = op /\ lock' = lock /\ id' = id
      BY <1>17, <1>ty, <2>o, <2>r DEF LookupFresh, Goto, WorkType
    <3>1. WorkerOK(p)'
      BY <2>0, <2>o, <2>r, <3>0, <1>ty, <1>pl, <1>row
      DEF WorkerOK, RowOK, Open, RestoreState, Unlocked
    <3>2. ASSUME NEW q \in Workers, q # p PROVE WorkerOK(q)'
      BY <1>17, <2>0, <3>2, <1>ty, <1>alone, BystanderUnlocked
      DEF LookupFresh, Goto, WorkType
    <3> QED
      BY <3>1, <3>2
  <2> QED
    BY <2>1, <2>2, <2>3, <1>goal
<1>18. ASSUME NEW p \in Workers, Preflight(p) PROVE IInv'
  <2>1. NothingLate'
    BY <1>18, <1>late DEF NothingLate, Preflight, cloudVars
  <2>o. PICK op \in Ops : op = cur[p]
    BY <1>18, <1>pl DEF Preflight, PlaceOK, Unlocked
  <2>0. /\ cloud' = cloud /\ answers' = answers /\ pc[p] \notin Unlocked
        /\ \A o \in Ops : o # op => ledger'[o] = ledger[o]
    BY <1>18, <1>ty, <2>o DEF Preflight, cloudVars, otherVars, Unlocked, DbType, transition_restore
  <2>r. /\ ledger[op].state = "pending" /\ ledger'[op].state = "preflight_checked"
        /\ ledger'[op].newCloudId = ledger[op].newCloudId
    BY <1>18, <1>ty, <1>pl, <2>o DEF Preflight, DbType, WorkerOK, transition_restore
  <2>2. Rows
    <3>1. ASSUME NEW o \in Ops, o # op PROVE RowOK(o)'
      BY <2>0, <3>1, <1>row, RowSame
    <3>2. RowOK(op)'
      BY <2>0, <2>r, <1>row, <1>ty DEF RowOK, Open, OtherType
    <3> QED
      BY <3>1, <3>2
  <2>3. All
    <3>0. pc'[p] = "committing" /\ cur'[p] = op /\ lock' = lock /\ id' = id
      BY <1>18, <1>ty, <2>o, <2>r DEF Preflight, Goto, WorkType
    <3>1. WorkerOK(p)'
      BY <2>0, <2>o, <2>r, <3>0, <1>ty, <1>pl, <1>row
      DEF WorkerOK, RowOK, Open, RestoreState, Unlocked
    <3>2. ASSUME NEW q \in Workers, q # p PROVE WorkerOK(q)'
      BY <1>18, <2>0, <3>2, <1>ty, <1>alone, BystanderUnlocked
      DEF Preflight, Goto, WorkType
    <3> QED
      BY <3>1, <3>2
  <2> QED
    BY <2>1, <2>2, <2>3, <1>goal
<1>19. ASSUME NEW p \in Workers, Committing(p) PROVE IInv'
  <2>1. NothingLate'
    BY <1>19, <1>late DEF NothingLate, Committing, cloudVars
  <2>o. PICK op \in Ops : op = cur[p]
    BY <1>19, <1>pl DEF Committing, PlaceOK, Unlocked
  <2>0. /\ cloud' = cloud /\ answers' = answers /\ pc[p] \notin Unlocked
        /\ \A o \in Ops : o # op => ledger'[o] = ledger[o]
    BY <1>19, <1>ty, <2>o DEF Committing, cloudVars, otherVars, Unlocked, DbType, transition_restore
  <2>r. /\ ledger[op].state = "preflight_checked" /\ ledger'[op].state = "committing"
        /\ ledger'[op].newCloudId = ledger[op].newCloudId
    BY <1>19, <1>ty, <1>pl, <2>o DEF Committing, DbType, WorkerOK, transition_restore
  <2>2. Rows
    <3>1. ASSUME NEW o \in Ops, o # op PROVE RowOK(o)'
      BY <2>0, <3>1, <1>row, RowSame
    <3>2. RowOK(op)'
      BY <2>0, <2>r, <1>row, <1>ty DEF RowOK, Open, OtherType
    <3> QED
      BY <3>1, <3>2
  <2>3. All
    <3>0. pc'[p] = "create" /\ cur'[p] = op /\ lock' = lock /\ id' = id
      BY <1>19, <1>ty, <2>o, <2>r DEF Committing, Goto, WorkType
    <3>1. WorkerOK(p)'
      BY <2>0, <2>o, <2>r, <3>0, <1>ty, <1>pl, <1>row
      DEF WorkerOK, RowOK, Open, RestoreState, Unlocked
    <3>2. ASSUME NEW q \in Workers, q # p PROVE WorkerOK(q)'
      BY <1>19, <2>0, <3>2, <1>ty, <1>alone, BystanderUnlocked
      DEF Committing, Goto, WorkType
    <3> QED
      BY <3>1, <3>2
  <2> QED
    BY <2>1, <2>2, <2>3, <1>goal
<1>20. ASSUME NEW p \in Workers, Resume(p) PROVE IInv'
  <2>1. NothingLate'
    BY <1>20, <1>late DEF NothingLate, Resume, cloudVars
  <2>o. PICK op \in Ops : op = cur[p]
    BY <1>20, <1>pl DEF Resume, PlaceOK, Unlocked
  <2>0. /\ cloud' = cloud /\ answers' = answers /\ pc[p] \notin Unlocked
        /\ \A o \in Ops : o # op => ledger'[o] = ledger[o]
    BY <1>20, <1>ty, <2>o DEF Resume, cloudVars, otherVars, Unlocked, DbType, transition_restore
  <2>r. /\ ledger[op].state \notin {"none", "committed"}
        /\ ledger'[op].state = "committing" \/
             (ledger'[op].state = "preflight_checked" /\ ledger[op].state = "pending")
        /\ ledger'[op].newCloudId = ledger[op].newCloudId
    BY <1>20, <1>ty, <1>pl, <2>o DEF Resume, DbType, WorkerOK, transition_restore, ResumeTarget
  <2>2. Rows
    <3>1. ASSUME NEW o \in Ops, o # op PROVE RowOK(o)'
      BY <2>0, <3>1, <1>row, RowSame
    <3>2. RowOK(op)'
      BY <2>0, <2>r, <1>row, <1>ty DEF RowOK, Open, OtherType
    <3> QED
      BY <3>1, <3>2
  <2>3. All
    <3>0. /\ pc[p] = "resume" /\ pc'[p] = "resume" /\ cur'[p] = op
          /\ lock' = lock /\ id' = id
      BY <1>20, <1>ty, <2>o, <2>r DEF Resume, workVars, WorkType
    <3>1. WorkerOK(p)'
      BY <2>0, <2>o, <2>r, <3>0, <1>ty, <1>pl, <1>row
      DEF WorkerOK, RowOK, Open, RestoreState, Unlocked
    <3>2. ASSUME NEW q \in Workers, q # p PROVE WorkerOK(q)'
      BY <1>20, <2>0, <3>2, <1>ty, <1>alone, BystanderUnlocked
      DEF Resume, workVars, WorkType
    <3> QED
      BY <3>1, <3>2
  <2> QED
    BY <2>1, <2>2, <2>3, <1>goal
<1>21. ASSUME NEW p \in Workers, Commit(p) PROVE IInv'
  <2>1. NothingLate'
    BY <1>21, <1>late DEF NothingLate, Commit, cloudVars
  <2>o. PICK op \in Ops : op = cur[p]
    BY <1>21, <1>pl DEF Commit, PlaceOK, Unlocked
  <2>0. /\ cloud' = cloud /\ answers' = answers /\ pc[p] \notin Unlocked
        /\ \A o \in Ops : o # op => ledger'[o] = ledger[o]
    BY <1>21, <1>ty, <2>o DEF Commit, cloudVars, otherVars, Unlocked, DbType, transition_restore
  <2>r. /\ ledger[op].state \in Open /\ ledger'[op].state = "committed"
        /\ id[p] \in CloudIds /\ id[p] \in cloud[op] /\ ledger'[op].newCloudId = id[p]
    BY <1>21, <1>ty, <1>pl, <2>o DEF Commit, DbType, WorkerOK, transition_restore, PlaceOK
  <2>2. Rows
    <3>1. ASSUME NEW o \in Ops, o # op PROVE RowOK(o)'
      BY <2>0, <3>1, <1>row, RowSame
    <3>2. RowOK(op)'
      BY <2>0, <2>r, <1>row, <1>ty DEF RowOK, Open, OtherType
    <3> QED
      BY <3>1, <3>2
  <2>3. All
    <3>0. \/ pc'[p] = "answer" /\ cur'[p] = op /\ lock' = lock /\ id' = id
          \/ pc'[p] = "next" /\ lock' = lock
      BY <1>21, <1>ty, <2>o, <2>r DEF Commit, Goto, Finish, WorkType
    <3>1. WorkerOK(p)'
      BY <2>0, <2>o, <2>r, <3>0, <1>ty, <1>pl, <1>row
      DEF WorkerOK, RowOK, Open, RestoreState, Unlocked
    <3>2. ASSUME NEW q \in Workers, q # p PROVE WorkerOK(q)'
      BY <1>21, <2>0, <3>2, <1>ty, <1>alone, BystanderUnlocked
      DEF Commit, Goto, Finish, WorkType
    <3> QED
      BY <3>1, <3>2
  <2> QED
    BY <2>1, <2>2, <2>3, <1>goal
<1>22. ASSUME NEW p \in Workers, Land(p) PROVE IInv'
  <2>1. NothingLate'
    BY <1>22, <1>late DEF NothingLate, Land, cloudVars
  <2>0. PICK i \in Landing(cur[p]) :
          Store(cur[p], payload[p], i) /\ id' = [id EXCEPT ![p] = i]
    BY <1>22 DEF Land
  <2>o. PICK op \in Ops : op = cur[p]
    BY <1>22, <1>pl DEF Land, PlaceOK, Unlocked
  <2>i. /\ pc[p] = "await" /\ ledger' = ledger /\ answers' = answers
        /\ cloud' = [cloud EXCEPT ![op] = @ \cup {i}]
    BY <1>22, <2>0, <2>o DEF Land, Store, dbVars, otherVars
  <2>w. window[op] = IF op \in TransactionIdOps THEN cloud[op] ELSE {}
    BY DEF WindowInv
  <2>u. cur[p] \notin TransactionIdOps => cloud[cur[p]] = {}
    BY <2>i, <1>pl DEF WorkerOK
  <2>c. cloud'[op] = {i}
    BY <2>w, <2>u, <2>0, <2>o, <2>i, <1>ty, <1>pl, <1>row
    DEF Landing, CloudType, RowOK
  <2>2. Rows
    <3>1. ASSUME NEW o \in Ops, o # op PROVE RowOK(o)'
      BY <2>i, <3>1, <1>row, <1>ty, RowSame DEF CloudType
    <3>2. RowOK(op)'
      BY <2>o, <2>i, <2>c, <1>row, <1>pl, <1>ty DEF RowOK, WorkerOK, Open
    <3> QED
      BY <3>1, <3>2
  <2>3. All
    <3>1. WorkerOK(p)'
      BY <1>22, <2>0, <2>o, <2>i, <2>c, <1>ty, <1>pl DEF WorkerOK, Unlocked, Open, WorkType, Land, Goto
    <3>2. ASSUME NEW q \in Workers, q # p PROVE WorkerOK(q)'
      BY <1>22, <2>i, <3>2, <1>ty, <1>alone, BystanderUnlocked
      DEF Land, Goto, WorkType, Unlocked
    <3> QED
      BY <3>1, <3>2
  <2> QED
    BY <2>1, <2>2, <2>3, <1>goal
<1>23. ASSUME NEW op \in Ops, Resync(op) PROVE IInv'
  <2>1. NothingLate' /\ UNCHANGED <<ledger, cloud, answers, pc, cur, id, lock>>
    BY <1>23, <1>late DEF NothingLate, Resync, cloudVars, dbVars, workVars
  <2>2. Rows
    BY <2>1, <1>row, RowSame
  <2>3. All
    BY <2>1, <1>pl, BystanderSame
  <2> QED
    BY <2>1, <2>2, <2>3, <1>goal
<1>24. CASE UNCHANGED vars
  <2>1. NothingLate' /\ UNCHANGED <<ledger, cloud, answers, pc, cur, id, lock>>
    BY <1>24, <1>late DEF NothingLate, vars
  <2>2. Rows
    BY <2>1, <1>row, RowSame
  <2>3. All
    BY <2>1, <1>pl, BystanderSame
  <2> QED
    BY <2>1, <2>2, <2>3, <1>goal
<1>never. /\ \A op, content \in Ops : ~LandLate(op, content)
          /\ \A op \in Ops : ~ForgetTransaction(op)
          /\ ~Checkpoint /\ ~PowerFail
  BY <1>late DEF NothingLate, LandLate, Checkpoint, PowerFail, ForgetTransaction, WindowInv
<1> QED
  BY <1>never, <1>1, <1>2, <1>3, <1>4, <1>5, <1>6, <1>7, <1>8, <1>9, <1>10, <1>11, <1>12, <1>13, <1>14, <1>15, <1>16, <1>17, <1>18, <1>19, <1>20, <1>21, <1>22, <1>23, <1>24
  DEF Next, Work

(* The strengthened invariant holds throughout.                            *)
THEOREM RestoreInvariant ==
    ASSUME ~LateLanding, ~PowerLoss, ~WindowEnds \/ TransactionIdOps = {}
    PROVE  Spec => [](IInv /\ WindowInv)
<1>1. Init => IInv
  <2> SUFFICES ASSUME Init PROVE IInv
    OBVIOUS
  <2>1. TypeInv
    BY InitType
  <2>2. \A op \in Ops : RowOK(op)
    BY DEF Init, RowOK, NoRow
  <2>3. \A p \in Workers : WorkerOK(p)
    BY ConstantsAssumption DEF Init, WorkerOK, Unlocked
  <2>4. NothingLate
    BY DEF Init, NothingLate
  <2> QED
    BY <2>1, <2>2, <2>3, <2>4 DEF IInv
<1>2. Init => WindowInv
  BY DEF Init, WindowInv
<1>3. IInv /\ WindowInv /\ [Next]_vars => IInv' /\ WindowInv'
  BY OnceStep, WindowStep DEF IInv
<1> QED
  BY <1>1, <1>2, <1>3, PTL DEF Spec

(* No sequence of crashes, lost answers, failed probes, re-requests and    *)
(* boot recoveries makes a second copy of a restored item.                 *)
THEOREM NeverDuplicates ==
    ASSUME ~LateLanding, ~PowerLoss, ~WindowEnds \/ TransactionIdOps = {}
    PROVE  Spec => []NoDuplicate
<1>1. IInv => NoDuplicate
  BY DEF IInv, RowOK, NoDuplicate
<1> QED
  BY <1>1, RestoreInvariant, PTL

-----------------------------------------------------------------------------
(* A step changes the cloud or a recorded id only as the abstract restore  *)
(* allows: the first item appears, or its id is recorded.                  *)
LEMMA StepImplementsOnce ==
    ASSUME ~LateLanding, ~PowerLoss, ~WindowEnds \/ TransactionIdOps = {},
           WindowInv, IInv, [Next]_vars
    PROVE  [Once!Next]_Once!once
<1> USE ConstantsAssumption
<1> DEFINE recorded == [op \in Ops |-> ledger[op].newCloudId]
<1>ty. DbType /\ CloudType /\ NothingLate /\ (\A op \in Ops : RowOK(op))
  BY DEF IInv, TypeInv, TypeOK
<1>pl. \A p \in Workers : PlaceOK(p) /\ WorkerOK(p)
  BY DEF IInv, TypeInv
<1>same. cloud' = cloud /\ recorded' = recorded => UNCHANGED Once!once
  BY DEF Once!once
<1>1. ASSUME NEW p \in Workers, Land(p) PROVE [Once!Next]_Once!once
  <2>1. PICK i \in Landing(cur[p]) : cloud' = [cloud EXCEPT ![cur[p]] = @ \cup {i}]
    BY <1>1 DEF Land, Store
  <2>2. cur[p] \in Ops /\ i \in CloudIds /\ recorded' = recorded
    BY <1>1, <1>ty, <1>pl, <2>1
    DEF Land, Landing, PlaceOK, Unlocked, CloudType, dbVars
  <2>3. CASE cloud[cur[p]] = {}
    <3>1. \A o \in Ops : i \notin cloud[o]
      BY <2>1, <2>2, <2>3 DEF Landing, Used, WindowInv
    <3>2. cloud' = [cloud EXCEPT ![cur[p]] = {i}]
      BY <2>1, <2>2, <2>3, <1>ty DEF CloudType
    <3>3. Once!Create(cur[p], i)
      BY <2>2, <2>3, <3>1, <3>2 DEF Once!Create
    <3> QED
      BY <2>2, <3>3 DEF Once!Next
  <2>4. CASE cloud[cur[p]] # {}
    <3>1. i \in cloud[cur[p]]
      BY <1>1, <1>pl, <2>1, <2>2, <2>4 DEF Land, WorkerOK, Landing, WindowInv
    <3>2. cloud' = cloud
      BY <2>1, <2>2, <3>1, <1>ty DEF CloudType
    <3> QED
      BY <2>2, <3>2, <1>same
  <2> QED
    BY <2>3, <2>4
<1>2. ASSUME NEW p \in Workers, Commit(p) PROVE [Once!Next]_Once!once
  <2>1. /\ cur[p] \in Ops
        /\ id[p] \in CloudIds
        /\ id[p] \in cloud[cur[p]]
        /\ recorded[cur[p]] = None
    BY <1>2, <1>ty, <1>pl DEF Commit, PlaceOK, WorkerOK, RowOK, Unlocked, Open
  <2>2. recorded' = [recorded EXCEPT ![cur[p]] = id[p]] /\ cloud' = cloud
    BY <1>2, <1>ty, <2>1 DEF Commit, transition_restore, DbType, cloudVars
  <2>3. PICK i \in CloudIds : i = id[p]
    BY <2>1
  <2>4. Once!Record(cur[p], i)
    BY <2>1, <2>2, <2>3 DEF Once!Record
  <2> QED
    BY <2>1, <2>4 DEF Once!Next
<1>3. ASSUME NEW p \in Workers, NEW to, NEW mark, cur[p] \in Ops,
             transition_restore(cur[p], to, None, mark)
      PROVE recorded' = recorded
  BY <1>3, <1>ty DEF transition_restore, DbType
<1>4. ASSUME NEW p \in Workers, Preflight(p) \/ Committing(p) \/ Resume(p)
      PROVE [Once!Next]_Once!once
  <2>1. cur[p] \in Ops /\ cloud' = cloud
    BY <1>4, <1>pl
    DEF PlaceOK, Unlocked, Preflight, Committing, Resume, cloudVars
  <2>2. recorded' = recorded
    BY <1>3, <1>4, <2>1 DEF Preflight, Committing, Resume
  <2> QED
    BY <2>1, <2>2, <1>same
<1>5. ASSUME NEW p \in Workers, LookupFresh(p) PROVE [Once!Next]_Once!once
  <2>1. recorded' = recorded /\ cloud' = cloud
    BY <1>5, <1>ty
    DEF LookupFresh, create_restore_operation, NoRow, DbType, RowOK, cloudVars
  <2> QED
    BY <2>1, <1>same
<1>6. ASSUME UNCHANGED <<ledger, cloud>> PROVE [Once!Next]_Once!once
  BY <1>6, <1>same
<1>7. ASSUME NEW p \in Workers, NEW op \in Ops, Request(p, op) \/ NextPending(p, op)
      PROVE UNCHANGED <<ledger, cloud>>
  BY <1>7 DEF Request, NextPending, dbVars, cloudVars
<1>8. ASSUME NEW p \in Workers, NEW svc \in Services, StartBoot(p, svc)
      PROVE UNCHANGED <<ledger, cloud>>
  BY <1>8 DEF StartBoot, dbVars, cloudVars
<1>9. ASSUME NEW p \in Workers,
             \/ OpenStore(p) \/ OpenFails(p) \/ LookupCommitted(p)
             \/ LookupInterrupted(p) \/ BootDone(p) \/ Probe(p) \/ Resumed(p)
             \/ Send(p) \/ Reply(p) \/ Answer(p)
             \/ CallFails(p) \/ PatchFails(p) \/ Crash(p)
      PROVE UNCHANGED <<ledger, cloud>>
  BY <1>9 DEF OpenStore, OpenFails, LookupCommitted, LookupInterrupted,
     BootDone, Probe, Resumed, Send, Reply, Answer, CallFails, PatchFails, Crash,
     dbVars, cloudVars
<1>10. /\ \A op, content \in Ops : ~LandLate(op, content)
       /\ \A op \in Ops : ~ForgetTransaction(op)
       /\ ~Checkpoint /\ ~PowerFail
  BY <1>ty DEF NothingLate, LandLate, Checkpoint, PowerFail, ForgetTransaction, WindowInv
<1>11. CASE UNCHANGED vars
  BY <1>6, <1>11 DEF vars
<1>12. ASSUME NEW op \in Ops, Resync(op) PROVE UNCHANGED <<ledger, cloud>>
  BY <1>12 DEF Resync, dbVars, cloudVars
<1> QED
  BY <1>12, <1>1, <1>2, <1>4, <1>5, <1>6, <1>7, <1>8, <1>9, <1>10, <1>11 DEF Next, Work

(* The ledger, its recovery and the boot pass together implement the       *)
(* abstract restore of RestoreOnce.                                        *)
THEOREM ImplementsOnce ==
    ASSUME ~LateLanding, ~PowerLoss, ~WindowEnds \/ TransactionIdOps = {}
    PROVE  Spec => RestoresOnce
<1>1. Init => Once!Init
  BY DEF Init, Once!Init, NoRow
<1>2. IInv /\ WindowInv /\ [Next]_vars => [Once!Next]_Once!once
  BY StepImplementsOnce
<1> QED
  BY <1>1, <1>2, RestoreInvariant, PTL DEF Spec, RestoresOnce, Once!Spec

-----------------------------------------------------------------------------
(* The steps that leave what was answered and patched alone.               *)
LEMMA OnlyAnswers ==
    ASSUME [Next]_vars, \A p \in Workers : ~Answer(p)
    PROVE  UNCHANGED <<patched, answers>>
<1>1. ASSUME NEW p \in Workers, NEW op \in Ops, Request(p, op) \/ NextPending(p, op)
      PROVE UNCHANGED <<patched, answers>>
  BY <1>1 DEF Request, NextPending, otherVars
<1>2. ASSUME NEW p \in Workers, NEW svc \in Services, StartBoot(p, svc)
      PROVE UNCHANGED <<patched, answers>>
  BY <1>2 DEF StartBoot, otherVars
<1>3. ASSUME NEW p \in Workers,
             \/ OpenStore(p) \/ OpenFails(p) \/ LookupFresh(p) \/ LookupCommitted(p)
             \/ LookupInterrupted(p) \/ BootDone(p) \/ Preflight(p) \/ Committing(p)
             \/ Probe(p) \/ Resume(p) \/ Resumed(p)
      PROVE UNCHANGED <<patched, answers>>
  BY <1>3 DEF OpenStore, OpenFails, LookupFresh, LookupCommitted, LookupInterrupted,
     BootDone, Preflight, Committing, Probe, Resume, Resumed, otherVars
<1>4. ASSUME NEW p \in Workers,
             \/ Send(p) \/ Land(p) \/ Reply(p) \/ Commit(p)
             \/ CallFails(p) \/ PatchFails(p) \/ Crash(p)
      PROVE UNCHANGED <<patched, answers>>
  BY <1>4 DEF Send, Land, Reply, Commit, CallFails, PatchFails, Crash, otherVars
<1>5. ASSUME NEW op \in Ops, NEW content \in Ops, LandLate(op, content) \/ Resync(op) \/ ForgetTransaction(op)
      PROVE UNCHANGED <<patched, answers>>
  BY <1>5 DEF LandLate, Resync, ForgetTransaction, otherVars
<1>6. CASE Checkpoint \/ PowerFail
  BY <1>6 DEF Checkpoint, PowerFail, otherVars
<1>7. CASE UNCHANGED vars
  BY <1>7 DEF vars
<1> QED
  BY <1>1, <1>2, <1>3, <1>4, <1>5, <1>6, <1>7 DEF Next, Work

(* A mail that was answered has its MAPI state back.                       *)
StateBack == \A op \in MailOps : answers[op] # {} => op \in patched

(* Every answer ever given for one content is the id the ledger holds, and *)
(* no mail is answered for before its MAPI state is back.                  *)
THEOREM AnswersNeverDiffer ==
    ASSUME ~LateLanding, ~PowerLoss, ~WindowEnds \/ TransactionIdOps = {}
    PROVE  Spec => []AnswersAgree
<1>1. Init => StateBack
  BY ConstantsAssumption DEF Init, StateBack
<1>2. IInv /\ StateBack /\ [Next]_vars => StateBack'
  <2> SUFFICES ASSUME IInv, StateBack, [Next]_vars PROVE StateBack'
    OBVIOUS
  <2>1. ASSUME NEW p \in Workers, Answer(p) PROVE StateBack'
    <3>1. cur[p] \in Ops /\ answers \in [Ops -> SUBSET CloudIds]
      BY <2>1 DEF IInv, TypeInv, TypeOK, OtherType, PlaceOK, Unlocked, Answer
    <3> QED
      BY <2>1, <3>1, ConstantsAssumption DEF Answer, StateBack
  <2>2. CASE \A p \in Workers : ~Answer(p)
    BY <2>2, OnlyAnswers DEF StateBack
  <2> QED
    BY <2>1, <2>2
<1>3. IInv /\ StateBack => AnswersAgree
  BY DEF IInv, RowOK, StateBack, AnswersAgree
<1> QED
  BY <1>1, <1>2, <1>3, RestoreInvariant, PTL DEF Spec

-----------------------------------------------------------------------------
(* A trail h of audit steps replays to a row.                              *)
Replays(row, h) ==
    IF h = <<>> THEN row = NoRow
    ELSE /\ h[1] = <<"none", "pending">>
         /\ h[Len(h)][2] = row.state
         /\ \A k \in 2..Len(h) : /\ h[k][1] = h[k-1][2]
                                 /\ can_transition_to(h[k][1], h[k][2])

(* The tables, and what of them a power loss would leave, agree.           *)
AuditInv ==
    \A op \in Ops : /\ Replays(ledger[op], steps[op])
                    /\ Replays(durable[1][op], durable[2][op])

(* One legal step more still replays.                                      *)
LEMMA ReplaysOneMore ==
    ASSUME NEW row, NEW next, NEW h \in Steps, NEW to \in RestoreState,
           Replays(row, h), can_transition_to(row.state, to), next.state = to
    PROVE  Replays(next, Append(h, <<row.state, to>>))
<1> DEFINE g == Append(h, <<row.state, to>>)
<1>1. h # <<>>
  BY DEF Replays, NoRow, can_transition_to
<1>2. Len(h) \in Nat /\ Len(h) >= 1
  BY <1>1 DEF Steps
<1>3. row.state \in RestoreState \cup {"none"}
  BY <1>1, <1>2 DEF Replays, Steps
<1>4. <<row.state, to>> \in (RestoreState \cup {"none"}) \X RestoreState
  BY <1>3
<1>5. /\ g \in Steps
      /\ Len(g) = Len(h) + 1
      /\ g[Len(h) + 1] = <<row.state, to>>
      /\ \A k \in 1..Len(h) : g[k] = h[k]
  BY <1>4 DEF Steps
<1>6. g # <<>> /\ g[1] = <<"none", "pending">> /\ g[Len(g)][2] = next.state
  BY <1>1, <1>2, <1>5 DEF Replays
<1>7. ASSUME NEW k \in 2..Len(g)
      PROVE  g[k][1] = g[k-1][2] /\ can_transition_to(g[k][1], g[k][2])
  <2>1. CASE k = Len(h) + 1
    <3>1. g[k] = <<row.state, to>> /\ g[k-1] = h[Len(h)]
      BY <1>2, <1>5, <2>1
    <3>2. h[Len(h)][2] = row.state
      BY <1>1 DEF Replays
    <3> QED
      BY <3>1, <3>2
  <2>2. CASE k # Len(h) + 1
    <3>1. k \in 2..Len(h) /\ g[k] = h[k] /\ g[k-1] = h[k-1]
      BY <1>2, <1>5, <1>7, <2>2
    <3> QED
      BY <1>1, <3>1 DEF Replays
  <2> QED
    BY <2>1, <2>2
<1> QED
  BY <1>6, <1>7 DEF Replays

(* A transaction keeps tables and trail together.                          *)
LEMMA TransitionAudited ==
    ASSUME DbType, AuditInv, NEW op \in Ops, NEW to, NEW newId, NEW mark,
           transition_restore(op, to, newId, mark)
    PROVE  AuditInv'
<1>1. to \in RestoreState /\ steps[op] \in Steps
  BY DEF DbType, transition_restore, can_transition_to, RestoreState
<1>2. /\ ledger'[op].state = to
      /\ steps'[op] = Append(steps[op], <<ledger[op].state, to>>)
      /\ can_transition_to(ledger[op].state, to)
      /\ durable' = durable
      /\ \A o \in Ops : o # op => ledger'[o] = ledger[o] /\ steps'[o] = steps[o]
  BY DEF DbType, transition_restore
<1>3. Replays(ledger'[op], steps'[op])
  BY <1>1, <1>2, ReplaysOneMore DEF AuditInv
<1>4. ASSUME NEW o \in Ops, o # op PROVE Replays(ledger'[o], steps'[o])
  BY <1>2, <1>4 DEF AuditInv
<1> QED
  BY <1>2, <1>3, <1>4 DEF AuditInv

LEMMA AuditStep == TypeInv /\ AuditInv /\ [Next]_vars => AuditInv'
<1> SUFFICES ASSUME TypeInv, AuditInv, [Next]_vars PROVE AuditInv'
  OBVIOUS
<1>ty. DbType /\ \A p \in Workers : PlaceOK(p)
  BY DEF TypeInv, TypeOK
<1>same. UNCHANGED dbVars => AuditInv'
  BY DEF dbVars, AuditInv
<1>1. ASSUME NEW p \in Workers, LookupFresh(p) PROVE AuditInv'
  <2>1. PICK op \in Ops : op = cur[p]
    BY <1>1, <1>ty DEF PlaceOK, LookupFresh, Unlocked
  <2>2. create_restore_operation(op)
    BY <1>1, <2>1 DEF LookupFresh
  <2>3. /\ ledger'[op].state = "pending" /\ steps'[op] = <<<<"none", "pending">>>>
        /\ durable' = durable
        /\ \A o \in Ops : o # op => ledger'[o] = ledger[o] /\ steps'[o] = steps[o]
    BY <2>2, <1>ty DEF DbType, create_restore_operation, NoRow
  <2>4. Replays(ledger'[op], steps'[op])
    BY <2>3 DEF Replays
  <2> QED
    BY <2>3, <2>4 DEF AuditInv
<1>2. ASSUME NEW p \in Workers, Preflight(p) \/ Committing(p) \/ Resume(p) \/ Commit(p)
      PROVE AuditInv'
  <2>1. cur[p] \in Ops
    BY <1>2, <1>ty DEF PlaceOK, Unlocked, Preflight, Committing, Resume, Commit
  <2>2. \E to, newId, mark : transition_restore(cur[p], to, newId, mark)
    BY <1>2 DEF Preflight, Committing, Resume, Commit
  <2> QED
    BY <2>1, <2>2, <1>ty, TransitionAudited
<1>3. ASSUME NEW p \in Workers, NEW op \in Ops, Request(p, op) \/ NextPending(p, op)
      PROVE UNCHANGED dbVars
  BY <1>3 DEF Request, NextPending
<1>4. ASSUME NEW p \in Workers, NEW svc \in Services, StartBoot(p, svc)
      PROVE UNCHANGED dbVars
  BY <1>4 DEF StartBoot
<1>5. ASSUME NEW p \in Workers,
             \/ OpenStore(p) \/ OpenFails(p) \/ LookupCommitted(p)
             \/ LookupInterrupted(p) \/ BootDone(p) \/ Probe(p) \/ Resumed(p)
             \/ Send(p) \/ Land(p) \/ Reply(p) \/ Answer(p)
             \/ CallFails(p) \/ PatchFails(p) \/ Crash(p)
      PROVE UNCHANGED dbVars
  BY <1>5 DEF OpenStore, OpenFails, LookupCommitted, LookupInterrupted, BootDone,
     Probe, Resumed, Send, Land, Reply, Answer, CallFails, PatchFails, Crash
<1>6. ASSUME NEW op \in Ops, NEW content \in Ops, LandLate(op, content) \/ Resync(op) \/ ForgetTransaction(op)
      PROVE UNCHANGED dbVars
  BY <1>6 DEF LandLate, Resync, ForgetTransaction
<1>7. CASE Checkpoint
  BY <1>7 DEF Checkpoint, AuditInv
<1>8. CASE PowerFail
  BY <1>8 DEF PowerFail, AuditInv
<1>9. CASE UNCHANGED vars
  BY <1>9, <1>same DEF vars, dbVars
<1> QED
  BY <1>same, <1>1, <1>2, <1>3, <1>4, <1>5, <1>6, <1>7, <1>8, <1>9 DEF Next, Work

(* The audit trail of every operation replays to its stored state through  *)
(* legal transitions only, also after a power loss.                        *)
THEOREM TrailsReplay == Spec => []AuditReplays
<1>1. Init => AuditInv
  BY DEF Init, AuditInv, Replays
<1>2. AuditInv => AuditReplays
  BY DEF AuditInv, AuditReplays, Replays
<1> QED
  BY <1>1, <1>2, InitType, TypeStep, AuditStep, PTL DEF Spec

-----------------------------------------------------------------------------
(* What holds with late landings and power loss as well.                   *)

(* Only the worker that acts changes its place, operation and id.          *)
Bystanders(p) ==
    \A q \in Workers : q # p => pc'[q] = pc[q] /\ cur'[q] = cur[q] /\ id'[q] = id[q]

LEMMA BystandersStay ==
    ASSUME WorkType, NEW p \in Workers,
           \/ \E op \in Ops : Request(p, op) \/ NextPending(p, op)
           \/ \E svc \in Services : StartBoot(p, svc)
           \/ Work(p) \/ CallFails(p) \/ PatchFails(p) \/ Crash(p)
    PROVE  Bystanders(p)
<1>1. ASSUME NEW op \in Ops, Request(p, op) \/ NextPending(p, op) PROVE Bystanders(p)
  BY <1>1 DEF WorkType, Request, NextPending, Bystanders
<1>2. ASSUME NEW svc \in Services, StartBoot(p, svc) PROVE Bystanders(p)
  BY <1>2 DEF WorkType, StartBoot, Bystanders
<1>3. CASE OpenStore(p) \/ OpenFails(p) \/ BootDone(p) \/ Crash(p)
  BY <1>3 DEF WorkType, OpenStore, OpenFails, BootDone, Crash, Bystanders
<1>4. CASE LookupFresh(p) \/ LookupCommitted(p) \/ LookupInterrupted(p)
  BY <1>4 DEF WorkType, LookupFresh, LookupCommitted, LookupInterrupted, Goto, Finish, Bystanders
<1>5. CASE Preflight(p) \/ Committing(p) \/ Probe(p) \/ Resume(p) \/ Resumed(p)
  BY <1>5 DEF WorkType, Preflight, Committing, Probe, Resume, Resumed, Goto, workVars, Bystanders
<1>6. CASE Send(p) \/ Land(p) \/ Reply(p)
  BY <1>6 DEF WorkType, Send, Land, Reply, Goto, Bystanders
<1>7. CASE Commit(p) \/ Answer(p) \/ CallFails(p) \/ PatchFails(p)
  BY <1>7 DEF WorkType, Commit, Answer, CallFails, PatchFails, Goto, Finish, Bystanders
<1> QED
  BY <1>1, <1>2, <1>3, <1>4, <1>5, <1>6, <1>7 DEF Work

(* No two workers are inside a restore at once, whatever fails: everybody  *)
(* past Store::open holds the file lock.                                   *)
THEOREM RestoresAreSerial == Spec => []LockExcludes
<1> USE ConstantsAssumption
<1>1. Init => LockExcludes
  BY DEF Init, LockExcludes
<1>2. TypeInv /\ LockExcludes /\ [Next]_vars => LockExcludes'
  <2> SUFFICES ASSUME TypeInv, LockExcludes, [Next]_vars PROVE LockExcludes'
    OBVIOUS
  <2>ty. WorkType
    BY DEF TypeInv, TypeOK
  <2>e. \A p \in Workers : pc[p] \notin {"idle", "open"} <=> lock = p
    BY DEF LockExcludes
  <2>g. ASSUME NEW p \in Workers, Bystanders(p),
               \/ lock' = lock /\ (pc'[p] \in {"idle", "open"} <=> pc[p] \in {"idle", "open"})
               \/ lock = None /\ lock' = p /\ pc'[p] \notin {"idle", "open"}
               \/ lock = p /\ lock' = None /\ pc'[p] \in {"idle", "open"}
        PROVE  LockExcludes'
    BY <2>g, <2>e DEF LockExcludes, Bystanders
  <2>1. ASSUME NEW p \in Workers, NEW op \in Ops, Request(p, op) \/ NextPending(p, op)
        PROVE LockExcludes'
    <3>1. Bystanders(p)
      BY <2>1, <2>ty, BystandersStay
    <3> QED
      BY <2>1, <2>ty, <3>1, <2>g DEF WorkType, Request, NextPending
  <2>2. ASSUME NEW p \in Workers, NEW svc \in Services, StartBoot(p, svc)
        PROVE LockExcludes'
    <3>1. Bystanders(p)
      BY <2>2, <2>ty, BystandersStay
    <3> QED
      BY <2>2, <2>ty, <3>1, <2>g DEF WorkType, StartBoot
  <2>3. ASSUME NEW p \in Workers,
               OpenStore(p) \/ OpenFails(p) \/ BootDone(p) \/ Crash(p)
        PROVE LockExcludes'
    <3>1. Bystanders(p)
      BY <2>3, <2>ty, BystandersStay DEF Work
    <3> QED
      BY <2>3, <2>ty, <2>e, <3>1, <2>g DEF WorkType, OpenStore, OpenFails, BootDone, Crash
  <2>4. ASSUME NEW p \in Workers, \/ LookupFresh(p) \/ Preflight(p) \/ Committing(p)
                                  \/ Probe(p) \/ Resume(p) \/ Resumed(p)
                                  \/ Send(p) \/ Land(p) \/ Reply(p)
        PROVE LockExcludes'
    <3>1. Bystanders(p)
      BY <2>4, <2>ty, BystandersStay DEF Work
    <3>2. lock' = lock /\ (pc'[p] \in {"idle", "open"} <=> pc[p] \in {"idle", "open"})
      BY <2>4, <2>ty DEF WorkType, LookupFresh, Preflight, Committing, Probe, Resume,
         Resumed, Send, Land, Reply, Goto, workVars
    <3> QED
      BY <3>1, <3>2, <2>g
  <2>5. ASSUME NEW p \in Workers, \/ LookupCommitted(p) \/ LookupInterrupted(p)
                                  \/ Commit(p) \/ Answer(p)
                                  \/ CallFails(p) \/ PatchFails(p)
        PROVE LockExcludes'
    <3>1. Bystanders(p)
      BY <2>5, <2>ty, BystandersStay DEF Work
    <3>2. \/ \E label \in {"answer", "probe"} : pc'[p] = label /\ lock' = lock
          \/ pc'[p] = (IF boot[p] THEN "next" ELSE "idle") /\ lock' = IF boot[p] THEN lock ELSE None
      BY <2>5, <2>ty DEF WorkType, LookupCommitted, LookupInterrupted, Commit, Answer,
         CallFails, PatchFails, Goto, Finish
    <3>3. pc[p] \notin {"idle", "open"}
      BY <2>5 DEF LookupCommitted, LookupInterrupted, Commit, Answer, CallFails, PatchFails
    <3>4. lock = p
      BY <3>3, <2>e
    <3> QED
      BY <3>1, <3>2, <3>3, <3>4, <2>g
  <2>6. ASSUME NEW op \in Ops, NEW content \in Ops, LandLate(op, content) \/ Resync(op) \/ ForgetTransaction(op)
        PROVE LockExcludes'
    BY <2>6 DEF LandLate, Resync, ForgetTransaction, workVars, LockExcludes
  <2>7. CASE Checkpoint
    BY <2>7 DEF Checkpoint, workVars, LockExcludes
  <2>8. CASE PowerFail
    BY <2>8 DEF PowerFail, LockExcludes
  <2>9. CASE UNCHANGED vars
    BY <2>9 DEF vars, LockExcludes
  <2> QED
    BY <2>1, <2>2, <2>3, <2>4, <2>5, <2>6, <2>7, <2>8, <2>9 DEF Next, Work
<1> QED
  BY <1>1, <1>2, InitType, TypeStep, PTL DEF Spec

-----------------------------------------------------------------------------
(* A worker that has learned an id, from a probe or from an answer, knows  *)
(* an item of its operation.                                               *)
KnowsItem(p) ==
    pc[p] \in {"landed", "commit"} \/ (pc[p] = "resume" /\ id[p] # None)
      => id[p] \in cloud[cur[p]]

RealRow(row, op) == row.state = "committed" => row.newCloudId \in cloud[op]

(* Committed rows are real, in the tables and in what a power loss leaves. *)
RealInv ==
    /\ \A op \in Ops : RealRow(ledger[op], op) /\ RealRow(durable[1][op], op)
    /\ \A p \in Workers : KnowsItem(p)

LEMMA RealStep == TypeInv /\ RealInv /\ [Next]_vars => RealInv'
<1> SUFFICES ASSUME TypeInv, RealInv, [Next]_vars PROVE RealInv'
  OBVIOUS
<1> USE ConstantsAssumption
<1>ty. DbType /\ WorkType /\ CloudType /\ \A p \in Workers : PlaceOK(p)
  BY DEF TypeInv, TypeOK
<1>mono. \A op \in Ops : cloud[op] \subseteq cloud'[op]
  BY <1>ty, CloudGrows DEF CloudType, Landed, ForgetTransaction
<1>old. \A op \in Ops : RealRow(ledger[op], op) /\ RealRow(durable[1][op], op)
  BY DEF RealInv
<1> DEFINE Rows  == \A op \in Ops : /\ RealRow(ledger[op], op)'
                                    /\ RealRow(durable[1][op], op)'
           Known == \A p \in Workers : KnowsItem(p)'
<1>rows. UNCHANGED dbVars => Rows
  BY <1>old, <1>mono DEF dbVars, RealRow
<1>move. ASSUME NEW op \in Ops, NEW to \in RestoreState \ {"committed"}, NEW mark,
                transition_restore(op, to, None, mark)
         PROVE  Rows
  <2>1. /\ ledger'[op].state = to /\ durable' = durable
        /\ \A o \in Ops : o # op => ledger'[o] = ledger[o]
    BY <1>move, <1>ty DEF transition_restore, DbType
  <2> QED
    BY <2>1, <1>old, <1>mono DEF RealRow
<1>by. ASSUME NEW p \in Workers, Bystanders(p), KnowsItem(p)' PROVE Known
  <2>1. ASSUME NEW q \in Workers, q # p PROVE KnowsItem(q)'
    <3>1. pc'[q] = pc[q] /\ cur'[q] = cur[q] /\ id'[q] = id[q]
      BY <1>by, <2>1 DEF Bystanders
    <3>2. pc[q] \in {"landed", "commit", "resume"} => cur[q] \in Ops
      BY <1>ty DEF PlaceOK, Unlocked
    <3> QED
      BY <3>1, <3>2, <1>mono DEF KnowsItem, RealInv
  <2> QED
    BY <2>1, <1>by
<1>1. ASSUME NEW p \in Workers, NEW op \in Ops, Request(p, op) \/ NextPending(p, op)
      PROVE RealInv'
  <2>1. Bystanders(p) /\ UNCHANGED dbVars
    BY <1>1, <1>ty, BystandersStay DEF Request, NextPending
  <2>2. KnowsItem(p)'
    BY <1>1, <1>ty DEF WorkType, KnowsItem, Request, NextPending
  <2> QED
    BY <2>1, <2>2, <1>by, <1>rows DEF RealInv
<1>2. ASSUME NEW p \in Workers, NEW svc \in Services, StartBoot(p, svc) PROVE RealInv'
  <2>1. Bystanders(p) /\ UNCHANGED dbVars
    BY <1>2, <1>ty, BystandersStay DEF StartBoot
  <2>2. KnowsItem(p)'
    BY <1>2, <1>ty DEF WorkType, KnowsItem, StartBoot
  <2> QED
    BY <2>1, <2>2, <1>by, <1>rows DEF RealInv
<1>3. ASSUME NEW p \in Workers,
             \/ OpenStore(p) \/ OpenFails(p) \/ LookupCommitted(p)
             \/ LookupInterrupted(p) \/ BootDone(p)
             \/ Send(p) \/ Answer(p) \/ CallFails(p) \/ PatchFails(p) \/ Crash(p)
      PROVE RealInv'
  <2>1. Bystanders(p)
    BY <1>3, <1>ty, BystandersStay DEF Work
  <2>2. UNCHANGED dbVars
    BY <1>3 DEF OpenStore, OpenFails, LookupCommitted, LookupInterrupted, BootDone,
       Send, Answer, CallFails, PatchFails, Crash
  <2>3. pc'[p] \in {"idle", "next", "lookup", "probe", "await", "answer"}
    BY <1>3, <1>ty DEF WorkType, OpenStore, OpenFails, LookupCommitted,
       LookupInterrupted, BootDone, Send, Answer, CallFails, PatchFails, Crash,
       Goto, Finish
  <2> QED
    BY <2>1, <2>2, <2>3, <1>by, <1>rows DEF RealInv, KnowsItem
<1>4. ASSUME NEW p \in Workers, Probe(p) \/ Resumed(p) \/ Reply(p) PROVE RealInv'
  <2>1. Bystanders(p)
    BY <1>4, <1>ty, BystandersStay DEF Work
  <2>2. UNCHANGED dbVars /\ UNCHANGED cloud /\ cur'[p] = cur[p] /\ cur[p] \in Ops
    BY <1>4, <1>ty DEF Probe, Resumed, Reply, Goto, PlaceOK, Unlocked, cloudVars
  <2>3. CASE Probe(p)
    <3>1. id'[p] = None \/ id'[p] \in cloud[cur[p]]
      BY <2>3, <1>ty DEF Probe, find_by_marker, WorkType
    <3>2. pc'[p] = "resume"
      BY <2>3, <1>ty DEF Probe, Goto, WorkType
    <3> QED
      BY <3>1, <3>2, <2>1, <2>2, <1>by, <1>rows DEF RealInv, KnowsItem
  <2>4. CASE Resumed(p) \/ Reply(p)
    <3>1. /\ id'[p] = id[p]
          /\ pc'[p] = "commit" => pc[p] = "landed" \/ (pc[p] = "resume" /\ id[p] # None)
          /\ pc'[p] \in {"commit", "create"}
      BY <2>4, <1>ty DEF Resumed, Reply, Goto, WorkType
    <3>2. KnowsItem(p)
      BY DEF RealInv
    <3>3. KnowsItem(p)'
      BY <2>2, <3>1, <3>2 DEF KnowsItem
    <3> QED
      BY <3>3, <2>1, <2>2, <1>by, <1>rows DEF RealInv
  <2> QED
    BY <1>4, <2>3, <2>4
<1>5. ASSUME NEW p \in Workers, Land(p) PROVE RealInv'
  <2>1. Bystanders(p) /\ UNCHANGED dbVars
    BY <1>5, <1>ty, BystandersStay DEF Work, Land
  <2>2. cur[p] \in Ops /\ cur'[p] = cur[p]
    BY <1>5, <1>ty DEF PlaceOK, Unlocked, Land, Goto
  <2>3. id'[p] \in cloud'[cur[p]]
    BY <1>5, <1>ty, <2>2 DEF Land, Store, WorkType, CloudType
  <2> QED
    BY <2>1, <2>2, <2>3, <1>by, <1>rows DEF RealInv, KnowsItem
<1>6. ASSUME NEW p \in Workers, LookupFresh(p) PROVE RealInv'
  <2>1. Bystanders(p) /\ cur[p] \in Ops /\ pc'[p] = "preflight"
    BY <1>6, <1>ty, BystandersStay DEF Work, LookupFresh, Goto, WorkType, PlaceOK, Unlocked
  <2>2. /\ ledger'[cur[p]].state = "pending" /\ durable' = durable
        /\ \A o \in Ops : o # cur[p] => ledger'[o] = ledger[o]
    BY <1>6, <1>ty, <2>1 DEF LookupFresh, create_restore_operation, DbType, NoRow
  <2>3. Rows
    BY <2>2, <1>old, <1>mono DEF RealRow
  <2> QED
    BY <2>1, <2>3, <1>by DEF RealInv, KnowsItem
<1>7. ASSUME NEW p \in Workers, Preflight(p) \/ Committing(p) PROVE RealInv'
  <2>1. Bystanders(p) /\ cur[p] \in Ops /\ pc'[p] \in {"committing", "create"}
    BY <1>7, <1>ty, BystandersStay
    DEF Work, Preflight, Committing, Goto, WorkType, PlaceOK, Unlocked
  <2>2. Rows
    BY <1>7, <2>1, <1>move DEF Preflight, Committing, RestoreState
  <2> QED
    BY <2>1, <2>2, <1>by DEF RealInv, KnowsItem
<1>8. ASSUME NEW p \in Workers, Resume(p) PROVE RealInv'
  <2>1. Bystanders(p) /\ cur[p] \in Ops
    BY <1>8, <1>ty, BystandersStay DEF Work, Resume, PlaceOK, Unlocked
  <2>2. Rows
    <3>1. ResumeTarget(ledger[cur[p]].state, id[p]) \in {"preflight_checked", "committing", "none"}
      BY DEF ResumeTarget
    <3> QED
      BY <1>8, <2>1, <3>1, <1>move DEF Resume, RestoreState
  <2>3. KnowsItem(p)'
    BY <1>8, <2>1, <1>mono DEF Resume, workVars, KnowsItem, RealInv
  <2> QED
    BY <2>1, <2>2, <2>3, <1>by DEF RealInv
<1>9. ASSUME NEW p \in Workers, Commit(p) PROVE RealInv'
  <2>1. Bystanders(p) /\ cur[p] \in Ops /\ id[p] \in CloudIds /\ pc[p] = "commit"
    BY <1>9, <1>ty, BystandersStay DEF Work, Commit, PlaceOK, Unlocked
  <2>2. pc'[p] \in {"next", "idle", "answer"}
    BY <1>9, <1>ty DEF Commit, Goto, Finish, WorkType
  <2>3. /\ ledger'[cur[p]].newCloudId = id[p] /\ durable' = durable
        /\ \A o \in Ops : o # cur[p] => ledger'[o] = ledger[o]
    BY <1>9, <1>ty, <2>1 DEF Commit, transition_restore, DbType
  <2>4. id[p] \in cloud'[cur[p]]
    BY <2>1, <1>mono DEF RealInv, KnowsItem
  <2>5. Rows
    BY <2>3, <2>4, <1>old, <1>mono DEF RealRow
  <2> QED
    BY <2>1, <2>2, <2>5, <1>by DEF RealInv, KnowsItem
<1>same. UNCHANGED <<pc, cur, id>> => Known
  <2>1. ASSUME UNCHANGED <<pc, cur, id>>, NEW q \in Workers PROVE KnowsItem(q)'
    <3>1. pc[q] \in {"landed", "commit", "resume"} => cur[q] \in Ops
      BY <1>ty DEF PlaceOK, Unlocked
    <3> QED
      BY <2>1, <3>1, <1>mono DEF KnowsItem, RealInv
  <2> QED
    BY <2>1
<1>10. ASSUME NEW op \in Ops, NEW content \in Ops, LandLate(op, content) \/ Resync(op) \/ ForgetTransaction(op)
       PROVE RealInv'
  BY <1>10, <1>same, <1>rows DEF LandLate, Resync, ForgetTransaction, workVars, RealInv
<1>11. CASE Checkpoint
  <2>1. Rows
    BY <1>11, <1>old, <1>mono DEF Checkpoint, RealRow
  <2> QED
    BY <1>11, <2>1, <1>same DEF Checkpoint, workVars, RealInv
<1>12. CASE PowerFail
  <2>1. Rows
    BY <1>12, <1>old, <1>mono DEF PowerFail, RealRow
  <2> QED
    BY <1>12, <2>1 DEF PowerFail, RealInv, KnowsItem
<1>13. CASE UNCHANGED vars
  BY <1>13, <1>same, <1>rows DEF vars, dbVars, RealInv
<1> QED
  BY <1>1, <1>2, <1>3, <1>4, <1>5, <1>6, <1>7, <1>8, <1>9, <1>10, <1>11, <1>12, <1>13
  DEF Next, Work

(* A row that says committed names an item that is in the cloud, also with *)
(* late landings and after a power loss.                                   *)
THEOREM CommittedRowsAreReal == Spec => []CommittedIsReal
<1>1. Init => RealInv
  BY DEF Init, RealInv, RealRow, KnowsItem, NoRow
<1>2. RealInv => CommittedIsReal
  BY DEF RealInv, RealRow, CommittedIsReal
<1> QED
  BY <1>1, <1>2, RealStep, InitType, TypeStep, PTL DEF Spec
================================================================================
