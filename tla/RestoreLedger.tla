---------------------------- MODULE RestoreLedger ----------------------------
(***************************************************************************)
(* The crash-safe cloud restore of iSyncYou (ADR-001): the operation       *)
(* ledger of crates/store, the driver and the recovery of                  *)
(* crates/engine/src/restore_recovery.rs, the per-service entry points     *)
(* (mail, calendar, contacts, todo, onenote) and the boot recovery of the  *)
(* daemon, against a cloud whose create is a POST that may land, fail,     *)
(* lose its answer, or (LateLanding) land after the client gave up.        *)
(*                                                                         *)
(* One step is one SQLite transaction, one Graph call's send, effect or    *)
(* answer, or one lock operation; a process may die between any two.       *)
(*                                                                         *)
(* An operation stands for one (account, service, source item, payload):   *)
(* op_id is account:key and the key is a MAC of exactly those, so          *)
(* operations, keys and contents are one-to-one as long as the secret is   *)
(* the same. An operation therefore also names the content it restores.   *)
(***************************************************************************)
EXTENDS Naturals, FiniteSets, Sequences

CONSTANTS
    Ops,               \* restore operations, one per content of an item
    Sources,           \* archived items
    SourceOf,          \* the item an operation's content is a version of
    Workers,           \* processes and threads that run restores
    CloudIds,          \* ids the cloud may give to a new item
    TransactionIdOps,  \* calendar operations: no probe, the server de-dups
    MailOps,           \* mail operations: MAPI state is re-applied afterwards
    None,              \* no id, no operation, no lock holder
    MaxFaults,         \* bound on crashes, lost answers, failed calls and
                       \* ended windows
    LateLanding,       \* may a POST land after its client gave up?
    PowerLoss,         \* may the machine lose the unsynced end of the WAL?
    WindowEnds         \* may the cloud forget a transactionId it has seen?

ASSUME ConstantsAssumption ==
    /\ SourceOf \in [Ops -> Sources]
    /\ \A src \in Sources : \E op \in Ops : SourceOf[op] = src
    /\ TransactionIdOps \subseteq Ops
    /\ MailOps \subseteq Ops \ TransactionIdOps
    /\ None \notin Ops \cup Workers \cup CloudIds
    /\ MaxFaults \in Nat
    /\ LateLanding \in BOOLEAN
    /\ PowerLoss \in BOOLEAN
    /\ WindowEnds \in BOOLEAN

VARIABLES
    ledger,    \* restore_operations: per operation its row
    steps,     \* restore_steps: per operation its audit trail
    durable,   \* what of ledger and steps a power loss would leave
    cloud,     \* per operation the items in the cloud that carry its marker
    window,    \* the event a repeated transactionId is answered with, if any
    carries,   \* the content of each item in the cloud
    archived,  \* the content of each archived item at present
    late,      \* abandoned POSTs, by operation and content, that may land yet
    lock,      \* holder of the <db>.lock file lock
    pc,        \* where each worker is
    boot,      \* is the worker the daemon's boot recovery?
    cur,       \* the operation the worker is driving
    payload,   \* the content the worker read from the archive
    queue,     \* boot recovery: operations still to recover
    id,        \* cloud id the worker has learned from a probe or an answer
    patched,   \* mail operations whose item got its MAPI state back
    answers,   \* per operation the ids requests were answered with
    faults     \* faults so far

dbVars     == <<ledger, steps, durable>>
cloudVars  == <<cloud, window, carries, late>>
workVars   == <<pc, boot, cur, payload, queue, id, lock>>
otherVars  == <<patched, answers, archived>>
vars == <<ledger, steps, durable, cloud, window, carries, archived, late, lock, pc,
          boot, cur, payload, queue, id, patched, answers, faults>>

-----------------------------------------------------------------------------
(* The stored state machine. "none" stands for a row that does not exist.  *)

RestoreState == {"pending", "preflight_checked", "committing", "committed",
                 "failed_after_graph_commit", "cancelled"}

is_terminal(s) == s \in {"committed", "cancelled"}

can_transition_to(from, to) ==
    <<from, to>> \in {<<"pending", "preflight_checked">>,
                      <<"pending", "cancelled">>,
                      <<"preflight_checked", "committing">>,
                      <<"preflight_checked", "cancelled">>,
                      <<"committing", "committed">>,
                      <<"committing", "failed_after_graph_commit">>,
                      <<"failed_after_graph_commit", "committed">>,
                      <<"failed_after_graph_commit", "committing">>}

NoRow == [state |-> "none", marker |-> FALSE, newCloudId |-> None]

Row == [state : RestoreState \cup {"none"}, marker : BOOLEAN,
        newCloudId : CloudIds \cup {None}]

(* The INSERT of a new operation and of its first audit step.              *)
create_restore_operation(op) ==
    /\ ledger[op].state = "none"
    /\ ledger' = [ledger EXCEPT ![op] = [NoRow EXCEPT !.state = "pending"]]
    /\ steps' = [steps EXCEPT ![op] = <<<<"none", "pending">>>>]
    /\ UNCHANGED durable

(* Fault seeded for transition_restore: the audit INSERT is left out.      *)
transition_unaudited(op, to, newId, mark) ==
    LET row == ledger[op] IN
    /\ can_transition_to(row.state, to)
    /\ ledger' = [ledger EXCEPT ![op] =
         [state |-> to,
          marker |-> row.marker \/ mark,
          newCloudId |-> IF newId = None THEN row.newCloudId ELSE newId]]
    /\ UNCHANGED <<steps, durable>>

(* One transaction: the checked transition, COALESCE of the created id and *)
(* of the marker, and the appended audit step.                             *)
transition_restore(op, to, newId, mark) ==
    LET row == ledger[op] IN
    /\ can_transition_to(row.state, to)
    /\ ledger' = [ledger EXCEPT ![op] =
         [state |-> to,
          marker |-> row.marker \/ mark,
          newCloudId |-> IF newId = None THEN row.newCloudId ELSE newId]]
    /\ steps' = [steps EXCEPT ![op] = Append(@, <<row.state, to>>)]
    /\ UNCHANGED durable

(* Fault seeded for recoverable_restore_operations: operations whose POST  *)
(* may be out are not listed.                                              *)
recoverable_unsent ==
    {op \in Ops : ledger[op].state \in {"pending", "preflight_checked"}}

recoverable_restore_operations ==
    {op \in Ops : ledger[op].state # "none" /\ ~is_terminal(ledger[op].state)}

-----------------------------------------------------------------------------
(* What a worker does when one operation is over, well or not: a request   *)
(* returns and drops the store (which unlocks it); boot recovery counts    *)
(* the result and goes on to its next operation.                           *)
Finish(p) ==
    /\ pc' = [pc EXCEPT ![p] = IF boot[p] THEN "next" ELSE "idle"]
    /\ lock' = IF boot[p] THEN lock ELSE None
    /\ cur' = [cur EXCEPT ![p] = None]
    /\ payload' = [payload EXCEPT ![p] = None]
    /\ id' = [id EXCEPT ![p] = None]
    /\ UNCHANGED <<boot, queue>>

(* The worker goes on with the same operation.                             *)
Goto(p, label) ==
    /\ pc' = [pc EXCEPT ![p] = label]
    /\ UNCHANGED <<boot, cur, payload, queue, lock>>

Fault == faults < MaxFaults /\ faults' = faults + 1

(* restore_*_via_ledger up to Store::open: the archived body is read and   *)
(* the operation is the one its key names.                                 *)
Request(p, op) ==
    /\ pc[p] = "idle"
    /\ archived[SourceOf[op]] = op
    /\ pc' = [pc EXCEPT ![p] = "open"]
    /\ boot' = [boot EXCEPT ![p] = FALSE]
    /\ cur' = [cur EXCEPT ![p] = op]
    /\ payload' = [payload EXCEPT ![p] = op]
    /\ UNCHANGED <<queue, id, lock, faults, dbVars, cloudVars, otherVars>>

(* The daemon starts and found pending operations of one service           *)
(* (pending_*_count > 0); it recovers the services one after the other,    *)
(* each with a Store::open of its own. The queue holds the service until   *)
(* the store is open.                                                      *)
Services == {MailOps, TransactionIdOps, Ops \ (MailOps \cup TransactionIdOps)}

StartBoot(p, svc) ==
    /\ pc[p] = "idle"
    /\ recoverable_restore_operations \cap svc # {}
    /\ pc' = [pc EXCEPT ![p] = "open"]
    /\ boot' = [boot EXCEPT ![p] = TRUE]
    /\ queue' = [queue EXCEPT ![p] = svc]
    /\ UNCHANGED <<cur, payload, id, lock, faults, dbVars, cloudVars, otherVars>>

(* Fault seeded for OpenStore: the file lock is shared.                    *)
OpenStoreShared(p) ==
    /\ pc[p] = "open"
    /\ lock' = p
    /\ pc' = [pc EXCEPT ![p] = IF boot[p] THEN "next" ELSE "lookup"]
    /\ queue' = [queue EXCEPT ![p] = @ \cap recoverable_restore_operations]
    /\ UNCHANGED <<boot, cur, payload, id, faults, dbVars, cloudVars, otherVars>>

(* Store::open takes the file lock; boot recovery then lists its work.     *)
OpenStore(p) ==
    /\ pc[p] = "open"
    /\ lock = None
    /\ lock' = p
    /\ pc' = [pc EXCEPT ![p] = IF boot[p] THEN "next" ELSE "lookup"]
    /\ queue' = [queue EXCEPT ![p] = @ \cap recoverable_restore_operations]
    /\ UNCHANGED <<boot, cur, payload, id, faults, dbVars, cloudVars, otherVars>>

(* The lock stayed taken for the whole retry window: AlreadyRunning.       *)
OpenFails(p) ==
    /\ pc[p] = "open"
    /\ lock # None
    /\ pc' = [pc EXCEPT ![p] = "idle"]
    /\ cur' = [cur EXCEPT ![p] = None]
    /\ payload' = [payload EXCEPT ![p] = None]
    /\ queue' = [queue EXCEPT ![p] = {}]
    /\ UNCHANGED <<boot, id, lock, faults, dbVars, cloudVars, otherVars>>

(* finish_*_restore on a row that does not exist: record the intent.       *)
LookupFresh(p) ==
    /\ pc[p] = "lookup"
    /\ create_restore_operation(cur[p])
    /\ Goto(p, "preflight")
    /\ UNCHANGED <<id, faults, cloudVars, otherVars>>

(* finish_*_restore on a committed row: answer with the recorded id (mail  *)
(* re-applies the MAPI state first), or an error when there is none.       *)
LookupCommitted(p) ==
    LET row == ledger[cur[p]] IN
    /\ pc[p] = "lookup"
    /\ row.state = "committed"
    /\ IF row.newCloudId = None
         THEN Finish(p)
         ELSE /\ id' = [id EXCEPT ![p] = row.newCloudId]
              /\ Goto(p, "answer")
    /\ UNCHANGED <<faults, dbVars, cloudVars, otherVars>>

(* recover_restore_op up to its probe, on an interrupted row.              *)
NeedsProbe(row) == ~is_terminal(row.state) /\ row.marker

LookupInterrupted(p) ==
    LET row == ledger[cur[p]] IN
    /\ pc[p] = "lookup"
    /\ row.state \notin {"none", "committed"}
    /\ IF NeedsProbe(row)
         THEN Goto(p, "probe") /\ UNCHANGED id
         ELSE Finish(p)
    /\ UNCHANGED <<faults, dbVars, cloudVars, otherVars>>

(* The loop of recover_pending_*_restores_with: the next operation, with   *)
(* what the archive now holds for its item, or the end, where the store is *)
(* dropped.                                                                *)
NextPending(p, op) ==
    /\ pc[p] = "next"
    /\ op \in queue[p]
    /\ queue' = [queue EXCEPT ![p] = @ \ {op}]
    /\ IF NeedsProbe(ledger[op])
         THEN /\ pc' = [pc EXCEPT ![p] = "probe"]
              /\ cur' = [cur EXCEPT ![p] = op]
              /\ payload' = [payload EXCEPT ![p] = archived[SourceOf[op]]]
         ELSE UNCHANGED <<pc, cur, payload>>
    /\ UNCHANGED <<boot, id, lock, faults, dbVars, cloudVars, otherVars>>

BootDone(p) ==
    /\ pc[p] = "next"
    /\ queue[p] = {}
    /\ pc' = [pc EXCEPT ![p] = "idle"]
    /\ lock' = None
    /\ UNCHANGED <<boot, cur, payload, queue, id, faults, dbVars, cloudVars, otherVars>>

(* run_restore_op: stamp the marker, ...                                   *)
Preflight(p) ==
    /\ pc[p] = "preflight"
    /\ transition_restore(cur[p], "preflight_checked", None, TRUE)
    /\ Goto(p, "committing")
    /\ UNCHANGED <<id, faults, cloudVars, otherVars>>

(* ... and record that the POST is about to be sent.                       *)
Committing(p) ==
    /\ pc[p] = "committing"
    /\ transition_restore(cur[p], "committing", None, FALSE)
    /\ Goto(p, "create")
    /\ UNCHANGED <<id, faults, cloudVars, otherVars>>

(* recover_restore_op: ask the cloud for the marker. Calendar's probe      *)
(* always answers None.                                                    *)
find_by_marker(op) == IF op \in TransactionIdOps THEN {} ELSE cloud[op]

(* Fault seeded for Probe: its answer is dropped.                          *)
ProbeIgnored(p) ==
    /\ pc[p] = "probe"
    /\ id' = [id EXCEPT ![p] = None]
    /\ Goto(p, "resume")
    /\ UNCHANGED <<faults, dbVars, cloudVars, otherVars>>

Probe(p) ==
    LET found == find_by_marker(cur[p]) IN
    /\ pc[p] = "probe"
    /\ IF found = {} THEN id' = [id EXCEPT ![p] = None]
                     ELSE \E i \in found : id' = [id EXCEPT ![p] = i]
    /\ Goto(p, "resume")
    /\ UNCHANGED <<faults, dbVars, cloudVars, otherVars>>

(* recover_restore_op: one legal transition towards committing, ...        *)
ResumeTarget(s, found) ==
    CASE s = "pending"                   -> "preflight_checked"
      [] s = "preflight_checked"         -> "committing"
      [] s = "failed_after_graph_commit" -> IF found = None THEN "committing"
                                                            ELSE "none"
      [] OTHER                           -> "none"

Resume(p) ==
    LET to == ResumeTarget(ledger[cur[p]].state, id[p]) IN
    /\ pc[p] = "resume"
    /\ to # "none"
    /\ transition_restore(cur[p], to, None, FALSE)
    /\ UNCHANGED <<workVars, faults, cloudVars, otherVars>>

(* Fault seeded for Resumed: a blind retry.                                *)
ResumedBlindly(p) ==
    /\ pc[p] = "resume"
    /\ ResumeTarget(ledger[cur[p]].state, id[p]) = "none"
    /\ Goto(p, "create")
    /\ UNCHANGED <<id, faults, dbVars, cloudVars, otherVars>>

(* ... then commit what the probe found, or create.                        *)
Resumed(p) ==
    /\ pc[p] = "resume"
    /\ ResumeTarget(ledger[cur[p]].state, id[p]) = "none"
    /\ Goto(p, IF id[p] = None THEN "create" ELSE "commit")
    /\ UNCHANGED <<id, faults, dbVars, cloudVars, otherVars>>

-----------------------------------------------------------------------------
(* The create: POST sent, effect in the cloud, answer.                     *)

Send(p) ==
    /\ pc[p] = "create"
    /\ Goto(p, "await")
    /\ UNCHANGED <<id, faults, dbVars, cloudVars, otherVars>>

Used == UNION {cloud[op] : op \in Ops}

(* The ids a POST for op may end up with. A transactionId the server       *)
(* remembers is answered with the event it made.                           *)
Landing(op) == IF window[op] # {} THEN window[op] ELSE CloudIds \ Used

Store(op, content, i) ==
    /\ cloud' = [cloud EXCEPT ![op] = @ \cup {i}]
    /\ window' = [window EXCEPT ![op] = IF op \in TransactionIdOps THEN {i} ELSE @]
    /\ carries' = IF i \in cloud[op] THEN carries
                                     ELSE [carries EXCEPT ![i] = content]

Land(p) ==
    /\ pc[p] = "await"
    /\ \E i \in Landing(cur[p]) :
         /\ Store(cur[p], payload[p], i)
         /\ id' = [id EXCEPT ![p] = i]
    /\ Goto(p, "landed")
    /\ UNCHANGED <<late, faults, dbVars, otherVars>>

Reply(p) ==
    /\ pc[p] = "landed"
    /\ Goto(p, "commit")
    /\ UNCHANGED <<id, faults, dbVars, cloudVars, otherVars>>

(* What becomes of a POST whose client stops waiting: nothing more, or,    *)
(* if it was on its way, it may land later.                                *)
Abandon(p) ==
    \/ UNCHANGED late
    \/ /\ LateLanding
       /\ pc[p] = "await"
       /\ late' = [late EXCEPT ![cur[p]][payload[p]] = @ + 1]

LandLate(op, content) ==
    /\ late[op][content] > 0
    /\ late' = [late EXCEPT ![op][content] = @ - 1]
    /\ \E i \in Landing(op) : Store(op, content, i)
    /\ UNCHANGED <<workVars, faults, dbVars, otherVars>>

(* The server refuses "duplicate POSTs for a retention window" (ADR-001);  *)
(* the window of an event ends.                                            *)
ForgetTransaction(op) ==
    /\ WindowEnds
    /\ window[op] # {}
    /\ Fault
    /\ window' = [window EXCEPT ![op] = {}]
    /\ UNCHANGED <<cloud, carries, late, workVars, dbVars, otherVars>>

(* The Graph call of a probe or of a create ends in an error.              *)
CallFails(p) ==
    /\ pc[p] \in {"probe", "await", "landed"}
    /\ Fault
    /\ Abandon(p)
    /\ Finish(p)
    /\ UNCHANGED <<cloud, window, carries, dbVars, otherVars>>

(* Faults seeded for Commit: the created id is not recorded; or it is      *)
(* dropped before the request answers.                                     *)
CommitWithoutId(p) ==
    /\ pc[p] = "commit"
    /\ transition_restore(cur[p], "committed", None, FALSE)
    /\ IF boot[p] THEN Finish(p) ELSE Goto(p, "answer") /\ UNCHANGED id
    /\ UNCHANGED <<faults, cloudVars, otherVars>>

CommitForgets(p) ==
    /\ pc[p] = "commit"
    /\ transition_restore(cur[p], "committed", id[p], FALSE)
    /\ IF boot[p] THEN Finish(p)
                  ELSE Goto(p, "answer") /\ id' = [id EXCEPT ![p] = None]
    /\ UNCHANGED <<faults, cloudVars, otherVars>>

(* commit: the transition that records the created id.                     *)
Commit(p) ==
    /\ pc[p] = "commit"
    /\ transition_restore(cur[p], "committed", id[p], FALSE)
    /\ IF boot[p] THEN Finish(p) ELSE Goto(p, "answer") /\ UNCHANGED id
    /\ UNCHANGED <<faults, cloudVars, otherVars>>

(* Fault seeded for Answer: the MAPI state is not re-applied.              *)
AnswerWithoutState(p) ==
    /\ pc[p] = "answer"
    /\ answers' = [answers EXCEPT ![cur[p]] = @ \cup {id[p]}]
    /\ Finish(p)
    /\ UNCHANGED <<patched, faults, dbVars, cloudVars, archived>>

(* The request answers with the id; mail first PATCHes the archived MAPI   *)
(* state onto the item, ...                                                *)
Answer(p) ==
    /\ pc[p] = "answer"
    /\ answers' = [answers EXCEPT ![cur[p]] = @ \cup {id[p]}]
    /\ patched' = patched \cup ({cur[p]} \cap MailOps)
    /\ Finish(p)
    /\ UNCHANGED <<faults, dbVars, cloudVars, archived>>

(* ... and answers with an error when a PATCH fails.                       *)
PatchFails(p) ==
    /\ pc[p] = "answer"
    /\ cur[p] \in MailOps
    /\ Fault
    /\ Finish(p)
    /\ UNCHANGED <<dbVars, cloudVars, otherVars>>

-----------------------------------------------------------------------------
(* The process dies; the kernel drops its file lock.                       *)
Crash(p) ==
    /\ pc[p] # "idle"
    /\ Fault
    /\ Abandon(p)
    /\ pc' = [pc EXCEPT ![p] = "idle"]
    /\ cur' = [cur EXCEPT ![p] = None]
    /\ payload' = [payload EXCEPT ![p] = None]
    /\ id' = [id EXCEPT ![p] = None]
    /\ queue' = [queue EXCEPT ![p] = {}]
    /\ lock' = IF lock = p THEN None ELSE lock
    /\ UNCHANGED <<boot, cloud, window, carries, dbVars, otherVars>>

(* journal_mode=WAL with synchronous=NORMAL: the WAL reaches the disk at   *)
(* some later moment, and a power loss forgets what has not.               *)
Checkpoint ==
    /\ PowerLoss
    /\ durable # <<ledger, steps>>
    /\ durable' = <<ledger, steps>>
    /\ UNCHANGED <<ledger, steps, workVars, cloudVars, otherVars, faults>>

PowerFail ==
    /\ PowerLoss
    /\ Fault
    /\ ledger' = durable[1]
    /\ steps' = durable[2]
    /\ pc' = [p \in Workers |-> "idle"]
    /\ cur' = [p \in Workers |-> None]
    /\ payload' = [p \in Workers |-> None]
    /\ id' = [p \in Workers |-> None]
    /\ queue' = [p \in Workers |-> {}]
    /\ lock' = None
    /\ UNCHANGED <<durable, boot, cloudVars, otherVars>>

(* A backup pass, which opens the store like a restore does, replaces the  *)
(* archived body of an item by a newer version.                            *)
Resync(op) ==
    /\ lock = None
    /\ archived[SourceOf[op]] # op
    /\ archived' = [archived EXCEPT ![SourceOf[op]] = op]
    /\ UNCHANGED <<workVars, faults, dbVars, cloudVars, patched, answers>>

-----------------------------------------------------------------------------
Init ==
    /\ ledger = [op \in Ops |-> NoRow]
    /\ steps = [op \in Ops |-> <<>>]
    /\ durable = <<ledger, steps>>
    /\ cloud = [op \in Ops |-> {}]
    /\ window = [op \in Ops |-> {}]
    /\ carries = [i \in CloudIds |-> None]
    /\ archived \in [Sources -> Ops]
    /\ \A src \in Sources : SourceOf[archived[src]] = src
    /\ late = [op \in Ops |-> [content \in Ops |-> 0]]
    /\ lock = None
    /\ pc = [p \in Workers |-> "idle"]
    /\ boot = [p \in Workers |-> FALSE]
    /\ cur = [p \in Workers |-> None]
    /\ payload = [p \in Workers |-> None]
    /\ queue = [p \in Workers |-> {}]
    /\ id = [p \in Workers |-> None]
    /\ patched = {}
    /\ answers = [op \in Ops |-> {}]
    /\ faults = 0

(* Every step the program takes by itself once a request or a daemon start *)
(* has set it going.                                                       *)
Work(p) ==
    \/ OpenStore(p) \/ OpenFails(p)
    \/ LookupFresh(p) \/ LookupCommitted(p) \/ LookupInterrupted(p)
    \/ \E op \in Ops : NextPending(p, op)
    \/ BootDone(p)
    \/ Preflight(p) \/ Committing(p)
    \/ Probe(p) \/ Resume(p) \/ Resumed(p)
    \/ Send(p) \/ Land(p) \/ Reply(p) \/ Commit(p) \/ Answer(p)

Next ==
    \/ \E p \in Workers :
         \/ \E op \in Ops : Request(p, op)
         \/ \E svc \in Services : StartBoot(p, svc)
         \/ Work(p)
         \/ CallFails(p) \/ PatchFails(p) \/ Crash(p)
    \/ \E op, content \in Ops : LandLate(op, content)
    \/ \E op \in Ops : ForgetTransaction(op) \/ Resync(op)
    \/ Checkpoint \/ PowerFail

Spec == Init /\ [][Next]_vars

(* The daemon is restarted for ever, a start goes through every service    *)
(* with pending operations, and its threads are scheduled; an answer that  *)
(* is not lost arrives. Nobody has to make a request.                      *)
Fairness ==
    \A p \in Workers : /\ WF_vars(Work(p))
                       /\ \A svc \in Services : SF_vars(StartBoot(p, svc))

FairSpec == Spec /\ Fairness

-----------------------------------------------------------------------------
Pcs == {"idle", "open", "lookup", "next", "preflight", "committing", "probe",
        "resume", "create", "await", "landed", "commit", "answer"}

Steps == Seq((RestoreState \cup {"none"}) \X RestoreState)

DbType ==
    /\ ledger \in [Ops -> Row]
    /\ steps \in [Ops -> Steps]
    /\ durable \in [Ops -> Row] \X [Ops -> Steps]

CloudType ==
    /\ cloud \in [Ops -> SUBSET CloudIds]
    /\ window \in [Ops -> SUBSET CloudIds]
    /\ carries \in [CloudIds -> Ops \cup {None}]
    /\ late \in [Ops -> [Ops -> Nat]]

WorkType ==
    /\ lock \in Workers \cup {None}
    /\ pc \in [Workers -> Pcs]
    /\ boot \in [Workers -> BOOLEAN]
    /\ cur \in [Workers -> Ops \cup {None}]
    /\ payload \in [Workers -> Ops \cup {None}]
    /\ queue \in [Workers -> SUBSET Ops]
    /\ id \in [Workers -> CloudIds \cup {None}]

OtherType ==
    /\ patched \in SUBSET Ops
    /\ answers \in [Ops -> SUBSET CloudIds]
    /\ archived \in [Sources -> Ops]

(* Every variable has its type.                                            *)
TypeOK == DbType /\ CloudType /\ WorkType /\ OtherType /\ faults \in 0..MaxFaults

(* A restore never leaves two copies of its item in the cloud, whatever    *)
(* crashed or failed on the way ("exactly one cloud item, no duplicate").  *)
NoDuplicate == \A op \in Ops : \A i, j \in cloud[op] : i = j

(* A committed row names an item that is in the cloud and carries the      *)
(* marker of the operation.                                                *)
CommittedIsReal ==
    \A op \in Ops : ledger[op].state = "committed" =>
                      ledger[op].newCloudId \in cloud[op]

(* Every answer ever given for one content names the id the ledger holds,  *)
(* and a mail answered is one whose MAPI state was put back.               *)
AnswersAgree ==
    \A op \in Ops : /\ answers[op] \subseteq {ledger[op].newCloudId}
                    /\ answers[op] # {} /\ op \in MailOps => op \in patched

(* The audit trail replays to the stored state through legal transitions   *)
(* only, each starting where the one before ended.                         *)
AuditReplays ==
    \A op \in Ops :
      LET h == steps[op] IN
      IF h = <<>> THEN ledger[op] = NoRow
      ELSE /\ h[1] = <<"none", "pending">>
           /\ h[Len(h)][2] = ledger[op].state
           /\ \A k \in 2..Len(h) : /\ h[k][1] = h[k-1][2]
                                   /\ can_transition_to(h[k][1], h[k][2])

(* Nobody is past Store::open without holding the store's file lock, so    *)
(* no two workers are ever inside a restore together.                      *)
LockExcludes ==
    \A p \in Workers : pc[p] \notin {"idle", "open"} <=> lock = p

(* The ledger implements the abstract restore: one item, recorded once.    *)
Once == INSTANCE RestoreOnce
          WITH items <- cloud,
               recorded <- [op \in Ops |-> ledger[op].newCloudId]

RestoresOnce == Once!Spec

(* An operation that has its marker is driven to committed, by boot        *)
(* recovery alone, once the faults have stopped and unless others keep the *)
(* store lock from it for ever.                                            *)
Contended == \E p \in Workers : pc[p] = "open" /\ lock # None

MarkedCompletes ==
    <>[]~Contended =>
      \A op \in Ops : ledger[op].marker ~> ledger[op].state = "committed"

(* What ADR-001 says of every recorded operation: boot recovery drives     *)
(* each one to a terminal state.                                           *)
RecordedCompletes ==
    \A op \in Ops :
      ledger[op].state = "pending" ~> is_terminal(ledger[op].state)
=============================================================================
