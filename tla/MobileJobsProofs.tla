-------------------------- MODULE MobileJobsProofs --------------------------
(***************************************************************************)
(* Proofs about the mobile job queue, for every set of jobs, keys and      *)
(* workers and every budget.                                               *)
(***************************************************************************)
EXTENDS MobileJobs, TLAPS

\* Worker w runs job j.
On(w, j) == run[w] # Idle /\ run[w].job = j

\* execution_guard.
OneRun == \A v, w \in Workers : run[v] # Idle /\ run[w] # Idle => v = w

\* A run is that of the job's latest lease, and the job is still leased to
\* this process unless it was cancelled meanwhile.
RunIsLatest ==
  \A w \in Workers, j \in Jobs : On(w, j) =>
    /\ run[w].try = tries[j]
    /\ \/ state[j] = "running" /\ owner[j] = process
       \/ state[j] \in Terminal

\* A job that may be leased again has a try left in its budget.
TryLeft ==
  \A j \in Jobs :
    /\ state[j] = "none" => tries[j] = 0
    /\ state[j] = "queued" => tries[j] + 1 <= MaxTries + faults
    /\ state[j] = "running" /\ (\A w \in Workers : ~On(w, j))
         => tries[j] + 1 <= MaxTries + faults

IInv == TypeOK /\ OneRun /\ RunIsLatest /\ TryLeft

\* Initially there is neither a row nor a run.
LEMMA InitIInv == Init => IInv
BY ConstantsOK DEF Init, IInv, TypeOK, OneRun, RunIsLatest, TryLeft, On, Idle, Runs,
  Open, Terminal

\* The type of a run tells its fields.
LEMMA RunFields ==
  ASSUME TypeOK, NEW w \in Workers
  PROVE  /\ run[w] = Idle <=> run[w].pc = "idle"
         /\ run[w] # Idle => run[w].job \in Jobs /\ run[w].try \in Nat
         /\ run[w].pc = "settle" => run[w].out \in Outcomes
BY DEF TypeOK, Runs, Idle

\* The rows alone change: Enqueue, Cancel and Expire.
LEMMA RowStep ==
  ASSUME IInv, NEW j \in Jobs,
         Cancel(j) \/ Expire(j) \/ \E k \in Keys : Enqueue(j, k)
  PROVE  IInv'
<1> USE DEF IInv
<1>1. TypeOK'
  <2>1. UNCHANGED <<tries, process, work, run, faults>>
    BY DEF Cancel, Expire, Enqueue
  <2>2. state' \in [Jobs -> {"none"} \cup Open \cup Terminal]
    BY DEF TypeOK, Cancel, Expire, Enqueue, Open, Terminal
  <2>3. key' \in [Jobs -> Keys \cup {NoKey}] /\ owner' \in [Jobs -> Nat]
    BY DEF TypeOK, Cancel, Expire, Enqueue
  <2>4. expired' \in [Jobs -> BOOLEAN]
    BY DEF TypeOK, Cancel, Expire, Enqueue
  <2> QED
    BY <2>1, <2>2, <2>3, <2>4 DEF TypeOK
<1>2. OneRun'
  BY DEF OneRun, Cancel, Expire, Enqueue
<1>3. RunIsLatest'
  BY DEF RunIsLatest, On, TypeOK, Cancel, Expire, Enqueue, Open, Terminal
<1>4. TryLeft'
  BY ConstantsOK DEF TryLeft, On, TypeOK, Cancel, Expire, Enqueue, Open, Terminal
<1> QED
  BY <1>1, <1>2, <1>3, <1>4

\* Reconcile puts back only rows of a process that is gone, which no run holds.
LEMMA ReconcileStep ==
  ASSUME IInv, Reconcile
  PROVE  IInv'
<1> USE DEF IInv
<1>1. TypeOK'
  BY DEF TypeOK, Reconcile, Open
<1>2. OneRun'
  BY DEF OneRun, Reconcile
<1>3. RunIsLatest'
  BY DEF RunIsLatest, On, TypeOK, Reconcile, Foreign, Terminal
<1>4. TryLeft'
  BY DEF TryLeft, RunIsLatest, On, TypeOK, Reconcile, Foreign, Terminal
<1> QED
  BY <1>1, <1>2, <1>3, <1>4

\* A lease is taken when nobody runs and the row has a try left.
LEMMA StartStep ==
  ASSUME IInv, NEW w \in Workers, NEW j \in Jobs, Start(w, j)
  PROVE  IInv'
<1> USE DEF IInv
<1>1. tries[j] \in Nat /\ faults \in Nat /\ MaxTries \in Nat /\ MaxFaults \in Nat
  BY ConstantsOK DEF TypeOK
<1>2. tries[j] + 1 <= MaxTries + faults
  BY DEF Start, Recoverable, GuardFree, TryLeft, On
<1>3. run' \in [Workers -> Runs]
  BY <1>1 DEF Start, TypeOK, Runs
<1>4. TypeOK'
  BY <1>1, <1>2, <1>3 DEF Start, TypeOK, Open
<1>5. OneRun'
  BY DEF OneRun, Start, GuardFree, TypeOK, Idle
<1>6. RunIsLatest'
  BY <1>1 DEF RunIsLatest, On, Start, GuardFree, TypeOK, Idle
<1>7. On(w, j)'
  BY DEF On, Start, TypeOK, Idle
<1>8. TryLeft'
  <2> SUFFICES ASSUME NEW i \in Jobs
               PROVE  /\ state'[i] = "none" => tries'[i] = 0
                      /\ state'[i] = "queued" => tries'[i] + 1 <= MaxTries + faults'
                      /\ state'[i] = "running" /\ (\A v \in Workers : ~On(v, i)')
                           => tries'[i] + 1 <= MaxTries + faults'
    BY DEF TryLeft, On
  <2>1. CASE i = j
    BY <2>1, <1>7 DEF Start, TypeOK
  <2>2. CASE i # j
    <3>1. state'[i] = state[i] /\ tries'[i] = tries[i] /\ faults' = faults
      BY <2>2 DEF Start, TypeOK
    <3>2. \A v \in Workers : ~On(v, i)
      BY DEF On, Start, GuardFree
    <3> QED
      BY <3>1, <3>2 DEF TryLeft
  <2> QED
    BY <2>1, <2>2
<1> QED
  BY <1>4, <1>5, <1>6, <1>8

\* Executing touches no row.
LEMMA ExecuteStep ==
  ASSUME IInv, NEW w \in Workers, Execute(w)
  PROVE  IInv'
<1> USE DEF IInv
<1>1. run[w] # Idle /\ run[w].job \in Jobs /\ run[w].try \in Nat
  BY RunFields DEF Execute, Idle
<1> PICK out \in Outcomes :
      run' = [run EXCEPT ![w] = [pc |-> "settle", job |-> run[w].job,
                                 try |-> run[w].try, out |-> out]]
  BY DEF Execute
<1>2. run' \in [Workers -> Runs]
  BY <1>1 DEF TypeOK, Runs
<1>3. TypeOK'
  BY <1>2 DEF Execute, row, TypeOK
<1>4. \A v \in Workers : /\ run'[v] # Idle <=> run[v] # Idle
                         /\ run[v] # Idle => /\ run'[v].job = run[v].job
                                             /\ run'[v].try = run[v].try
  BY <1>1 DEF TypeOK, Idle
<1>5. OneRun'
  BY <1>4 DEF OneRun
<1>6. RunIsLatest'
  BY <1>4 DEF RunIsLatest, On, Execute, row
<1>7. TryLeft'
  BY <1>4 DEF TryLeft, On, Execute, row
<1> QED
  BY <1>3, <1>5, <1>6, <1>7

\* A run ends: it settles its row, finds it cancelled, or leaves it behind at
\* the price of a fault.
LEMMA EndStep ==
  ASSUME IInv, NEW w \in Workers, Settle(w) \/ SettleFails(w)
  PROVE  IInv'
<1> USE DEF IInv
<1> DEFINE i == run[w].job
<1>1. run[w] # Idle /\ i \in Jobs /\ run[w].try \in Nat /\ run[w].out \in Outcomes
  BY RunFields DEF Settle, SettleFails, Idle
<1>2. /\ On(w, i) /\ run[w].try = tries[i]
      /\ (state[i] = "running" /\ owner[i] = process) \/ state[i] \in Terminal
  BY <1>1 DEF On, RunIsLatest
<1>3. run' = [run EXCEPT ![w] = Idle]
  BY DEF Settle, SettleFails
<1>4. \A v \in Workers : v # w => run[v] = Idle
  BY <1>1 DEF OneRun
<1>5. \A v \in Workers : run'[v] = Idle
  BY <1>3, <1>4 DEF TypeOK
<1>6. OneRun' /\ RunIsLatest'
  BY <1>5 DEF OneRun, RunIsLatest, On
<1>7. ConstantsOK /\ faults \in Nat /\ faults' \in 0..MaxFaults /\ faults <= faults'
  BY ConstantsOK DEF TypeOK, Settle, SettleFails, ConstantsOK
<1>8. SettledAs(run[w].out, run[w].try) \in {"succeeded", "failed", "queued"}
  BY DEF SettledAs
<1>9. TypeOK'
  <2>1. UNCHANGED <<key, tries, process>>
    BY DEF Settle, SettleFails, row
  <2>2. state' \in [Jobs -> {"none"} \cup Open \cup Terminal]
    BY <1>8 DEF TypeOK, Settle, SettleFails, row, Open, Terminal
  <2>3. owner' \in [Jobs -> Nat]
    BY DEF TypeOK, Settle, SettleFails, row
  <2>4. expired' \in [Jobs -> BOOLEAN]
    BY DEF TypeOK, Settle, SettleFails, row
  <2>5. work' \subseteq Jobs
    BY DEF TypeOK, Settle, SettleFails
  <2>6. run' \in [Workers -> Runs]
    BY <1>3 DEF TypeOK, Runs
  <2>7. \A j \in Jobs : tries'[j] <= MaxTries + faults'
    <3> SUFFICES ASSUME NEW j \in Jobs PROVE tries'[j] <= MaxTries + faults'
      OBVIOUS
    <3>1. tries[j] <= MaxTries + faults /\ tries[j] \in Nat /\ MaxTries \in Nat
      BY ConstantsOK DEF TypeOK
    <3> QED
      BY <3>1, <2>1, <1>7
  <2> QED
    BY <2>1, <2>2, <2>3, <2>4, <2>5, <2>6, <2>7, <1>7 DEF TypeOK
<1>10. TryLeft'
  <2> SUFFICES ASSUME NEW j \in Jobs
               PROVE  /\ state'[j] = "none" => tries'[j] = 0
                      /\ state'[j] \in {"queued", "running"}
                           => tries'[j] + 1 <= MaxTries + faults'
    BY DEF TryLeft
  <2>1. tries'[j] = tries[j] /\ tries[j] \in Nat /\ MaxTries \in Nat
    BY ConstantsOK DEF TypeOK, Settle, SettleFails, row
  <2>2. CASE j # i
    <3>1. state'[j] = state[j]
      BY <2>2 DEF Settle, SettleFails, row, TypeOK
    <3>2. \A v \in Workers : ~On(v, j)
      BY <2>2, <1>4 DEF On
    <3> QED
      BY <3>1, <3>2, <2>1, <1>7 DEF TryLeft
  <2>3. CASE j = i /\ SettleFails(w)
    <3>1. state'[j] = state[j] /\ faults' = faults + 1
      BY <2>3 DEF SettleFails, row
    <3>2. tries[j] <= MaxTries + faults /\ state[j] # "none"
      BY <2>3, <1>2 DEF TypeOK, Terminal
    <3> QED
      BY <3>1, <3>2, <2>1, <1>7
  <2>4. CASE j = i /\ Settle(w)
    <3>1. CASE state[j] \in Terminal
      <4>1. state'[j] = state[j]
        BY <3>1, <2>4 DEF Settle, Owned, Terminal
      <4> QED
        BY <4>1, <3>1 DEF Terminal
    <3>2. CASE state[j] = "running" /\ owner[j] = process
      <4>1. state'[j] = SettledAs(run[w].out, run[w].try)
        BY <3>2, <2>4 DEF Settle, Owned, TypeOK
      <4>2. state'[j] = "queued" => tries[j] < MaxTries
        BY <4>1, <1>2, <2>4 DEF SettledAs, TriesLeft
      <4> QED
        BY <4>1, <4>2, <1>8, <2>1, <1>7
    <3> QED
      BY <3>1, <3>2, <1>2, <2>4
  <2> QED
    BY <2>2, <2>3, <2>4
<1> QED
  BY <1>6, <1>9, <1>10

\* A crash ends every run and costs a fault; so does a work that ends early.
LEMMA FaultStep ==
  ASSUME IInv, Crash \/ \E j \in Jobs : WorkEnds(j)
  PROVE  IInv'
<1> USE DEF IInv
<1>1. ConstantsOK /\ faults \in Nat /\ faults' = faults + 1 /\ faults' \in 0..MaxFaults
  BY ConstantsOK DEF TypeOK, Crash, WorkEnds, ConstantsOK
<1>2. UNCHANGED row
  BY DEF Crash, WorkEnds
<1>3. \A j \in Jobs : tries[j] \in Nat /\ tries[j] <= MaxTries + faults /\ MaxTries \in Nat
  BY ConstantsOK DEF TypeOK
<1>4. TypeOK'
  <2>1. run' \in [Workers -> Runs] /\ process' \in Nat \ {0} /\ work' \subseteq Jobs
    BY DEF TypeOK, Crash, WorkEnds, Runs
  <2>2. \A j \in Jobs : tries'[j] <= MaxTries + faults'
    BY <1>1, <1>2, <1>3 DEF row
  <2> QED
    BY <2>1, <2>2, <1>1, <1>2 DEF TypeOK, row
<1>5. OneRun' /\ RunIsLatest'
  BY <1>2 DEF OneRun, RunIsLatest, On, Crash, WorkEnds, row
<1>6. TryLeft'
  <2> SUFFICES ASSUME NEW j \in Jobs
               PROVE  /\ state'[j] = "none" => tries'[j] = 0
                      /\ tries'[j] + 1 <= MaxTries + faults'
    BY DEF TryLeft
  <2>1. tries'[j] + 1 <= MaxTries + faults'
    BY <1>1, <1>2, <1>3 DEF row
  <2> QED
    BY <2>1, <1>2 DEF TryLeft, row
<1> QED
  BY <1>4, <1>5, <1>6

\* A step that changes nothing.
LEMMA StutterStep ==
  ASSUME IInv, UNCHANGED vars
  PROVE  IInv'
BY DEF IInv, TypeOK, OneRun, RunIsLatest, TryLeft, On, vars

\* Every step keeps the inductive invariant.
LEMMA NextIInv == IInv /\ [Next]_vars => IInv'
BY RowStep, ReconcileStep, StartStep, ExecuteStep, EndStep, FaultStep, StutterStep
   DEF Next

\* The inductive invariant holds in every state the queue reaches.
THEOREM Invariance == Spec => []IInv
BY InitIInv, NextIInv, PTL DEF Spec

\* The types, and the budget of tries: a job is executed at most MaxTries
\* times and once more for every fault (run_one_job, attempts).
THEOREM TypeCorrect == Spec => []TypeOK
<1>1. IInv => TypeOK
  BY DEF IInv
<1> QED
  BY Invariance, <1>1, PTL

\* One step never lets a late result settle a job.
LEMMA StepDropsLate ==
  ASSUME IInv, [Next]_vars, NEW j \in Jobs
  PROVE  /\ state[j] \in Terminal => state'[j] = state[j]
         /\ state[j] = "running" /\ state'[j] # "running"
              => \/ state'[j] = "cancelled"
                 \/ state'[j] = "queued" /\ owner[j] # process
                 \/ \E w \in Workers : /\ run[w].pc = "settle"
                                       /\ run[w].job = j
                                       /\ run[w].try = tries[j]
                                       /\ state'[j] = SettledAs(run[w].out, tries[j])
<1> USE DEF IInv
<1>1. CASE UNCHANGED state
  BY <1>1
<1>2. ASSUME NEW i \in Jobs, Cancel(i) \/ \E k \in Keys : Enqueue(i, k)
      PROVE  /\ state[j] \in Terminal => state'[j] = state[j]
             /\ state[j] = "running" => state'[j] \in {"running", "cancelled"}
  BY <1>2 DEF Cancel, Enqueue, TypeOK, Open, Terminal
<1>3. CASE Reconcile
  BY <1>3 DEF Reconcile, Foreign, Terminal
<1>4. ASSUME NEW w \in Workers, NEW i \in Jobs, Start(w, i)
      PROVE  /\ state[j] \in Terminal => state'[j] = state[j]
             /\ state[j] = "running" => state'[j] = "running"
  BY <1>4 DEF Start, Recoverable, TypeOK, Terminal
<1>5. ASSUME NEW w \in Workers, Settle(w), state'[j] # state[j]
      PROVE  /\ state[j] = "running"
             /\ run[w].pc = "settle" /\ run[w].job = j
             /\ run[w].try = tries[j]
             /\ state'[j] = SettledAs(run[w].out, tries[j])
  <2>1. run[w] # Idle /\ run[w].pc = "settle"
    BY <1>5 DEF Settle, Idle
  <2>2. run[w].job = j /\ Owned(j)
    BY <1>5 DEF Settle, TypeOK
  <2>3. run[w].try = tries[j]
    BY <2>1, <2>2 DEF RunIsLatest, On
  <2>4. state'[j] = SettledAs(run[w].out, run[w].try)
    BY <1>5, <2>2 DEF Settle, TypeOK
  <2> QED
    BY <2>1, <2>2, <2>3, <2>4 DEF Owned
<1>6. CASE \E i \in Jobs : Expire(i) \/ WorkEnds(i)
  BY <1>6, <1>1 DEF Expire, WorkEnds, row
<1>7. CASE (\E w \in Workers : Execute(w) \/ SettleFails(w)) \/ Crash
  BY <1>7, <1>1 DEF Execute, SettleFails, Crash, row
<1>8. CASE UNCHANGED vars
  BY <1>8, <1>1 DEF vars
<1>9. CASE \E w \in Workers : Settle(w)
  BY <1>9, <1>5 DEF Terminal
<1> QED
  BY <1>2, <1>3, <1>4, <1>6, <1>7, <1>8, <1>9 DEF Next

\* A late result never settles a job, for every number of jobs and workers:
\* the guard of the process makes up for a lease that names no run.
THEOREM LateResultsAreDropped == Spec => LateResultIsDropped
<1>1. IInv /\ [Next]_vars =>
        [\A j \in Jobs :
           /\ state[j] \in Terminal => state'[j] = state[j]
           /\ state[j] = "running" /\ state'[j] # "running"
                => \/ state'[j] = "cancelled"
                   \/ state'[j] = "queued" /\ owner[j] # process
                   \/ \E w \in Workers : /\ run[w].pc = "settle"
                                         /\ run[w].job = j
                                         /\ run[w].try = tries[j]
                                         /\ state'[j] = SettledAs(run[w].out, tries[j])]_vars
  BY StepDropsLate
<1> QED
  BY Invariance, <1>1, PTL DEF Spec, LateResultIsDropped
=============================================================================
