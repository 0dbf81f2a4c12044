----------------------------- MODULE MobileJobs -----------------------------
(***************************************************************************)
(* The durable queue of mobile jobs (backup and cloud restore): the rows   *)
(* and their leases (store/src/lib.rs), the runtime that leases, executes  *)
(* and settles a job (app-host/src/mobile_jobs.rs) and the WorkManager     *)
(* works of the Android app that call it.                                  *)
(*                                                                         *)
(* A variable per column of the table mobile_jobs.  The lease of a row     *)
(* names a process and not a run, it is never renewed, and it may run out  *)
(* while the job is still being executed.  What an execution does in the   *)
(* cloud is RestoreLedger's matter; here it succeeds, fails for good or    *)
(* fails in a way worth a retry.                                           *)
(***************************************************************************)
EXTENDS Naturals

CONSTANTS
  Jobs,      \* job ids
  Keys,      \* idempotency keys: one per account and services, or item
  NoKey,
  Workers,   \* threads of WorkManager
  MaxTries,  \* 5 in run_one_job
  MaxFaults  \* bound: crashes, failed store calls and refused works

ASSUME ConstantsOK ==
  /\ NoKey \notin Keys
  /\ MaxTries \in Nat \ {0}
  /\ MaxFaults \in Nat

VARIABLES
  state,     \* "none" until the row is inserted
  key,
  tries,     \* the column attempts
  owner,     \* lease_owner: a process, or 0
  expired,   \* lease_expires_at has passed
  process,   \* the process that runs; every start has a fresh owner id
  work,      \* jobs with a WorkManager work; these survive the process
  run,       \* what each worker does
  faults

vars == <<state, key, tries, owner, expired, process, work, run, faults>>
row == <<state, key, tries, owner, expired>>

Terminal == {"succeeded", "failed", "cancelled"}
Open == {"queued", "running"}

Outcomes == {"ok", "retry", "error"}
Idle == [pc |-> "idle"]

Init ==
  /\ state = [j \in Jobs |-> "none"]
  /\ key = [j \in Jobs |-> NoKey]
  /\ tries = [j \in Jobs |-> 0]
  /\ owner = [j \in Jobs |-> 0]
  /\ expired = [j \in Jobs |-> FALSE]
  /\ process = 1
  /\ work = {}
  /\ run = [w \in Workers |-> Idle]
  /\ faults = 0
-----------------------------------------------------------------------------
(* The queue *)

\* create_mobile_job: an open job of the key is answered instead.
Enqueue(j, k) ==
  /\ state[j] = "none"
  /\ \A i \in Jobs : key[i] = k => state[i] \notin Open
  /\ state' = [state EXCEPT ![j] = "queued"]
  /\ key' = [key EXCEPT ![j] = k]
  /\ UNCHANGED <<tries, owner, expired, process, work, run, faults>>

\* cancel_job: any open job, a running one too.
Cancel(j) ==
  /\ state[j] \in Open
  /\ state' = [state EXCEPT ![j] = "cancelled"]
  /\ owner' = [owner EXCEPT ![j] = 0]
  /\ expired' = [expired EXCEPT ![j] = FALSE]
  /\ UNCHANGED <<key, tries, process, work, run, faults>>

\* A row leased by a process that is gone.
Foreign(j) == state[j] = "running" /\ owner[j] # 0 /\ owner[j] # process

RecoverableUnleased(j) ==
  \/ state[j] = "queued"
  \/ state[j] = "running" /\ owner[j] = 0

\* recoverable_mobile_jobs; acquire_mobile_job_lease has the same condition.
Recoverable(j) ==
  \/ state[j] = "queued"
  \/ state[j] = "running" /\ (owner[j] = 0 \/ expired[j])

\* MobileJobScheduler.reconcile with mobile_worker_plan: reclaim, list and
\* make a work for every job listed; a work that is there is kept.
Reconcile ==
  /\ state' = [j \in Jobs |-> IF Foreign(j) THEN "queued" ELSE state[j]]
  /\ owner' = [j \in Jobs |-> IF Foreign(j) THEN 0 ELSE owner[j]]
  /\ expired' = [j \in Jobs |-> IF Foreign(j) THEN FALSE ELSE expired[j]]
  /\ work' = work \cup {j \in Jobs : Foreign(j) \/ Recoverable(j)}
  /\ UNCHANGED <<key, tries, process, run, faults>>
-----------------------------------------------------------------------------
(* A worker *)

NoGuard == TRUE

\* execution_guard: one job at a time in a process.  A worker that finds it
\* taken is deferred.  A panic in an execution, caught at the JNI boundary,
\* would poison it and defer every worker until the process dies: executions
\* here do not panic.
GuardFree == \A w \in Workers : run[w] = Idle

\* run_mobile_job_for_worker and the lease of run_one_job.  Without the lease
\* the work is retried later.
Start(w, j) ==
  /\ j \in work
  /\ run[w] = Idle /\ GuardFree
  /\ Recoverable(j)
  /\ state' = [state EXCEPT ![j] = "running"]
  /\ owner' = [owner EXCEPT ![j] = process]
  /\ expired' = [expired EXCEPT ![j] = FALSE]
  /\ tries' = [tries EXCEPT ![j] = @ + 1]
  /\ run' = [run EXCEPT ![w] = [pc |-> "execute", job |-> j, try |-> tries[j] + 1]]
  /\ UNCHANGED <<key, process, work, faults>>

\* execute_job, with no lock on the row.
Execute(w) ==
  /\ run[w].pc = "execute"
  /\ \E out \in Outcomes :
       run' = [run EXCEPT ![w] = [pc |-> "settle", job |-> run[w].job,
                                  try |-> run[w].try, out |-> out]]
  /\ UNCHANGED <<row, process, work, faults>>

\* The condition of finish_, fail_ and requeue_mobile_job_if_running.
Owned(j) == state[j] = "running" /\ owner[j] = process

TriesLeftToo(n) == n <= MaxTries

TriesLeft(n) == n < MaxTries

SettledAs(out, n) ==
  IF out = "ok" THEN "succeeded"
  ELSE IF out = "retry" /\ TriesLeft(n) THEN "queued" ELSE "failed"

\* The end of run_one_job.  A result that comes too late changes nothing, and
\* its work ends like that of a job that succeeded.
Settle(w) ==
  LET j == run[w].job
      to == SettledAs(run[w].out, run[w].try)
      settles == Owned(j)
  IN /\ run[w].pc = "settle"
     /\ state' = IF settles THEN [state EXCEPT ![j] = to] ELSE state
     /\ owner' = IF settles THEN [owner EXCEPT ![j] = 0] ELSE owner
     /\ expired' = IF settles THEN [expired EXCEPT ![j] = FALSE] ELSE expired
     /\ work' = IF settles /\ to = "queued" THEN work ELSE work \ {j}
     /\ run' = [run EXCEPT ![w] = Idle]
     /\ UNCHANGED <<key, tries, process, faults>>

\* The lease runs out.
Expire(j) ==
  /\ state[j] = "running" /\ owner[j] # 0 /\ ~expired[j]
  /\ expired' = [expired EXCEPT ![j] = TRUE]
  /\ UNCHANGED <<state, key, tries, owner, process, work, run, faults>>
-----------------------------------------------------------------------------
(* Faults *)

\* The store cannot be opened to settle: the error ends the work and leaves
\* the row leased by a process that lives on.
SettleFails(w) ==
  /\ run[w].pc = "settle" /\ faults < MaxFaults
  /\ faults' = faults + 1
  /\ work' = work \ {run[w].job}
  /\ run' = [run EXCEPT ![w] = Idle]
  /\ UNCHANGED <<row, process>>

\* A work ends before it reaches the runtime: no notification may be shown,
\* or the store cannot be opened to look the job up.
WorkEnds(j) ==
  /\ j \in work /\ faults < MaxFaults
  /\ \A w \in Workers : run[w] # Idle => run[w].job # j
  /\ faults' = faults + 1
  /\ work' = work \ {j}
  /\ UNCHANGED <<row, process, run>>

\* The process dies and another one is started, with an owner id of its own.
Crash ==
  /\ faults < MaxFaults
  /\ faults' = faults + 1
  /\ process' = process + 1
  /\ run' = [w \in Workers |-> Idle]
  /\ UNCHANGED <<row, work>>

Next ==
  \/ \E j \in Jobs : Cancel(j) \/ Expire(j) \/ WorkEnds(j)
  \/ \E j \in Jobs, k \in Keys : Enqueue(j, k)
  \/ \E w \in Workers, j \in Jobs : Start(w, j)
  \/ \E w \in Workers : Execute(w) \/ Settle(w) \/ SettleFails(w)
  \/ Reconcile \/ Crash

\* Time passes, a run goes on, WorkManager starts its works, and the app is
\* opened again and again.
Fairness ==
  /\ \A j \in Jobs : WF_vars(Expire(j))
  /\ \A w \in Workers : WF_vars(Execute(w) \/ Settle(w))
  /\ WF_vars(Reconcile)
  /\ \A j \in Jobs : WF_vars(\E w \in Workers : Start(w, j))

Spec == Init /\ [][Next]_vars /\ Fairness
-----------------------------------------------------------------------------
(* Properties *)

Runs == {Idle}
  \cup [pc : {"execute"}, job : Jobs, try : Nat]
  \cup [pc : {"settle"}, job : Jobs, try : Nat, out : Outcomes]

\* The types; a job is tried no more often than its budget and one time for
\* every fault.
TypeOK ==
  /\ state \in [Jobs -> {"none"} \cup Open \cup Terminal]
  /\ key \in [Jobs -> Keys \cup {NoKey}]
  /\ tries \in [Jobs -> Nat]
  /\ owner \in [Jobs -> Nat]
  /\ expired \in [Jobs -> BOOLEAN]
  /\ process \in Nat \ {0}
  /\ work \subseteq Jobs
  /\ run \in [Workers -> Runs]
  /\ faults \in 0..MaxFaults
  /\ \A j \in Jobs : tries[j] <= MaxTries + faults

\* A late result never settles a job: what ends a job, or puts it back, is
\* the run of its latest lease, and an ended job stays as it is
\* (finish_mobile_job_if_running: "a late cloud result after `cancelled` must
\* not flip the job"; fail_mobile_job_if_running: "a late failure from an
\* expired lease must not overwrite a newer owner").  The row names only the
\* process, so this rests on execution_guard.
LateResultIsDropped ==
  [][\A j \in Jobs :
       /\ state[j] \in Terminal => state'[j] = state[j]
       /\ state[j] = "running" /\ state'[j] # "running"
            => \/ state'[j] = "cancelled"
               \/ state'[j] = "queued" /\ owner[j] # process
               \/ \E w \in Workers : /\ run[w].pc = "settle"
                                     /\ run[w].job = j
                                     /\ run[w].try = tries[j]
                                     /\ state'[j] = SettledAs(run[w].out, tries[j])]_vars

\* Every job that was accepted ends, whatever crashed on the way (T7 of the
\* threat model: "restart recovery"; the passes of recoverable_mobile_jobs).
JobsEnd == \A j \in Jobs : state[j] \in Open ~> state[j] \in Terminal
=============================================================================
