------------------------------ MODULE SessionTurns ------------------------------
(***************************************************************************)
(* One request of one agent session that several hosts share through a     *)
(* manifest in OneDrive: crates/agent/src/session_v2.rs (the manifest, its *)
(* compare-and-swap, the lease and its guard, compaction and the reaper)   *)
(* under crates/app-host/src/product_session.rs (begin_turn, the turn, its *)
(* end, maintenance, archiving).                                           *)
(*                                                                         *)
(* Any host may be asked to run the request, again and again. A step is    *)
(* one manifest call or one decision between two; crashes, lost and late   *)
(* calls and the server's clock come in between. What a host does under    *)
(* the mutex of its lease guard lasts from the check to the answer of the  *)
(* call (at # "hold"), so its renewal thread waits.                        *)
(***************************************************************************)
EXTENDS Naturals, FiniteSets

CONSTANTS
    Hosts,      \* processes that share the session
    NoLease,    \* no active_lease
    Nobody,     \* a call its caller no longer waits for
    TTL,        \* SESSION_LEASE_TTL_MS
    Margin,     \* SESSION_LEASE_TAKEOVER_MARGIN_MS
    Safety,     \* SESSION_LEASE_MUTATION_SAFETY_MS
    Renewal,    \* SESSION_LEASE_RENEW_INTERVAL
    Retention,  \* ORPHAN_RETENTION_MS
    Budget,     \* ORPHAN_REAP_WORK_BUDGET
    MaxSteps,   \* MAX_PROVIDER_STEPS
    MaxClock,   \* bound on the server's clock
    MaxGen,     \* bound on the manifest's generation
    MaxTasks,   \* bound on turns, maintenance and archiving that hosts begin
    MaxFaults   \* bound on crashes, lost and late calls

ASSUME TimesAssumption ==
    /\ {TTL, Margin, Safety, Renewal, Retention, Budget} \subseteq Nat
    /\ {MaxSteps, MaxClock, MaxGen} \subseteq Nat \ {0}
    /\ {MaxTasks, MaxFaults} \subseteq Nat
    /\ Renewal + Safety <= TTL
    /\ Budget <= Safety + Margin
ASSUME NamesAssumption == NoLease # Nobody /\ Nobody \notin Hosts

VARIABLES
    clock,     \* the server's time
    man,       \* the manifest
    net,       \* manifest replacements under way
    host,      \* each host: its guard and its turn
    binding,   \* the staged object of the request's key: its time; 0: none
    calls,     \* how often each provider step was called
    told,      \* terminal answers clients were given
    tasks, faults

vars == <<clock, man, net, host, binding, calls, told, tasks, faults>>

-----------------------------------------------------------------------------
Steps    == 0 .. MaxSteps - 1
Phases   == {"none", "accepted", "started", "completed", "final", "invalid"}
Ends     == {"complete", "unknown", "failed", "pending"}
Journals == [phase : Phases, step : 0 .. MaxSteps]

(* What the manifest reaches: the request's journal (its last phase and    *)
(* step, gone once compacted), its tombstone, and the binding of its key.  *)
Leases    == [holder : Hosts, fence : 1 .. MaxGen, exp : 0 .. MaxClock + TTL]
Manifests == [gen : 0 .. MaxGen, lease : Leases \cup {NoLease},
              journal : Journals, tomb : Ends \cup {"none"}, bound : BOOLEAN,
              archived : BOOLEAN]
Replacements == [from : Hosts \cup {Nobody}, base : 0 .. MaxGen, to : Manifests]

ASSUME LeaseAssumption == NoLease \notin Leases

NoJournal  == [phase |-> "none", step |-> 0]
NoManifest == [gen |-> 0, lease |-> NoLease, journal |-> NoJournal,
               tomb |-> "none", bound |-> FALSE, archived |-> FALSE]
Idle == [at |-> "idle", op |-> "none", cur |-> NoManifest, lease |-> NoLease,
         lost |-> FALSE, sample |-> 0, turn |-> "none", journal |-> NoJournal,
         exp |-> 0, exited |-> FALSE, out |-> "none"]

Init ==
    /\ clock = 1
    /\ man = NoManifest
    /\ net = {}
    /\ host = [h \in Hosts |-> Idle]
    /\ binding = 0
    /\ calls = [s \in Steps |-> 0]
    /\ told = {}
    /\ tasks = 0
    /\ faults = 0

(* Fault seeded for Free: a lease is taken over when it nears its end.     *)
FreeEarly(lease, now) == lease # NoLease => now + Safety >= lease.exp

(* A lease may be taken over once it and the margin have run out.          *)
Free(lease, now) == lease # NoLease => now > lease.exp + Margin

(* revalidate_publication_time and the check of renew_lease.               *)
Holds(g) == /\ ~g.lost
            /\ clock + Safety <= g.lease.exp
            /\ g.cur.lease = g.lease

Bumped(m) == [m EXCEPT !.gen = @ + 1]

(* compare_and_swap_manifest: the replacement is sent, the host waits.     *)
Send(h, g, op, to) ==
    /\ g.cur.gen < MaxGen
    /\ net' = net \cup {[from |-> h, base |-> g.cur.gen, to |-> Bumped(to)]}
    /\ host' = [host EXCEPT ![h] = [g EXCEPT !.at = "wait", !.op = op]]

Become(h, g) == host' = [host EXCEPT ![h] = g] /\ UNCHANGED net

(* The turn ends and drops its guard; a lost one trusts its cache no more. *)
Lose(g) == [Idle EXCEPT !.at = "reread", !.lease = g.lease, !.out = g.out]
Drop(g) == IF g.lost THEN Lose(g)
           ELSE [Idle EXCEPT !.at = "drop", !.cur = g.cur, !.lease = g.lease,
                             !.out = g.out]
bounds       == <<tasks, faults>>
others       == <<binding, calls, told>>

-----------------------------------------------------------------------------
(* A task reads the manifest and decides from what it read. Both are one   *)
(* step: the replacement names the version read, so whatever another host  *)
(* does after the reading, or while the call is under way, fails it alike. *)
(* A task that finds the session leased or archived changes nothing.       *)
Task(h) == /\ host[h].at = "idle" /\ tasks < MaxTasks
           /\ tasks' = tasks + 1 /\ UNCHANGED faults
Open    == Free(man.lease, clock) /\ ~man.archived /\ man.gen < MaxGen

(* begin_turn: a retained tombstone answers, from the index alone.         *)
Replay(h) ==
    /\ Task(h) /\ man.tomb # "none"
    /\ told' = told \cup {man.tomb}
    /\ UNCHANGED <<clock, man, net, host, binding, calls>>

NewLease(h) == [holder |-> h, fence |-> man.gen + 1, exp |-> clock + TTL]
Read(h)     == [Idle EXCEPT !.cur = man, !.lease = NewLease(h)]

(* acquire_lease_and_publish_from_manifest_at for a request that is new:   *)
(* the lease is computed and the objects are staged; the binding is named  *)
(* by the request's key, and one a former attempt left is adopted as it is.*)
StageAdmission(h) ==
    /\ Task(h) /\ Open /\ ~man.bound
    /\ binding' = IF binding = 0 THEN clock ELSE binding
    /\ Become(h, [Read(h) EXCEPT !.at = "staged"])
    /\ UNCHANGED <<clock, man, calls, told>>

(* Its last check, and the replacement that takes the lease, accepts the   *)
(* request and binds its key at once.                                      *)
Admit(h) ==
    LET g == host[h]
    IN /\ g.at = "staged"
       /\ IF clock + Renewal <= g.lease.exp
            THEN Send(h, [g EXCEPT !.journal.phase = "accepted", !.turn = "ready"],
                      "acquire",
                      [g.cur EXCEPT !.lease = g.lease, !.bound = TRUE,
                                    !.journal.phase = "accepted"])
            ELSE Become(h, Idle)
       /\ UNCHANGED <<bounds, clock, man, others>>

(* Faults seeded for ResumeAs: a step that was started is called again; a  *)
(* completed step counts as ambiguous.                                     *)
ResumeStarted(journal) ==
    CASE journal.phase = "final" -> "final"
      [] journal.phase = "invalid" -> "failed"
      [] OTHER -> "ready"
ResumeOnlyAccepted(journal) ==
    IF journal.phase = "accepted" THEN "ready" ELSE "unknown"

(* What begin_turn does with a request it finds open: a step that was      *)
(* started is never called again (permits_automatic_resume).               *)
ResumeAs(journal) ==
    CASE journal.phase = "started" -> "unknown"
      [] journal.phase = "final" -> "final"
      [] journal.phase = "invalid" -> "failed"
      [] OTHER -> "ready"

(* acquire_lease_from_manifest, for the turn that is resumed or settled.   *)
Resume(h) ==
    LET turn == ResumeAs(man.journal)
    IN /\ Task(h) /\ Open /\ man.bound /\ man.tomb = "none"
       /\ Send(h, [Read(h) EXCEPT !.turn = turn, !.journal = man.journal,
                                  !.exited = turn # "ready"],
               "acquire", [man EXCEPT !.lease = NewLease(h)])
       /\ UNCHANGED <<clock, man, others>>

-----------------------------------------------------------------------------
(* The renewal thread; it finds the guard lost, or replaces the lease.     *)
Renew(h) ==
    LET g == host[h]
        lease == [g.lease EXCEPT !.exp = clock + TTL]
    IN /\ g.at = "hold" /\ ~g.lost
       /\ clock >= g.lease.exp - TTL + Renewal
       /\ IF Holds(g)
            THEN Send(h, g, "renew", [g.cur EXCEPT !.lease = lease])
            ELSE Become(h, [g EXCEPT !.lost = TRUE])
       /\ UNCHANGED <<bounds, clock, man, others>>

(* SessionLeaseGuard::publish of the turn's journal.                       *)
PublishJournal(h, g, op) ==
    IF Holds(g) THEN Send(h, g, op, [g.cur EXCEPT !.journal = g.journal])
                ELSE Become(h, Lose(g))

(* provider_step_started: the phase is published before the call.          *)
StartStep(h) ==
    /\ host[h].at = "hold" /\ host[h].turn = "ready"
    /\ host[h].journal.step < MaxSteps
    /\ PublishJournal(h, [host[h] EXCEPT !.journal.phase = "started"], "start")
    /\ UNCHANGED <<bounds, clock, man, others>>

(* LlmProvider::next: it answers with tools to read, a write to confirm,   *)
(* the final text or tool ids that were used before; or it fails, for      *)
(* certain or not.                                                         *)
Answers == {"reads", "writes", "text", "badids", "rejects", "breaks"}

CallProvider(h) ==
    LET g == host[h]
    IN /\ g.at = "hold" /\ g.turn = "started"
       /\ calls' = [calls EXCEPT ![g.journal.step] = @ + 1]
       /\ \E a \in Answers :
            Become(h, [g EXCEPT !.turn = CASE a = "rejects" -> "failed"
                                           [] a = "breaks"  -> "unknown"
                                           [] OTHER         -> a])
       /\ UNCHANGED <<bounds, clock, man, binding, told>>

(* provider_step_completed: outcome and journal in one replacement.        *)
CompleteStep(h) ==
    LET g == host[h]
        phase == CASE g.turn = "text"   -> "final"
                   [] g.turn = "badids" -> "invalid"
                   [] OTHER             -> "completed"
    IN /\ g.at = "hold" /\ g.turn \in {"reads", "writes", "text", "badids"}
       /\ PublishJournal(h, [g EXCEPT !.journal = [phase |-> phase, step |-> @.step + 1]],
                         "complete")
       /\ UNCHANGED <<bounds, clock, man, others>>

(* MAX_STEPS was reached without a final text.                             *)
StepLimit(h) ==
    /\ host[h].at = "hold" /\ host[h].turn = "ready"
    /\ host[h].journal.step = MaxSteps
    /\ Become(h, [host[h] EXCEPT !.turn = "failed"])
    /\ UNCHANGED <<bounds, clock, man, others>>

(* The user's cancellation, seen in the turn, or by begin_terminal once it *)
(* is over: it overrides a published final text, an ambiguous step and a   *)
(* write to confirm. It ends the turn as an error does; the two terminal   *)
(* statuses are not told apart. A turn that was resumed only to be settled *)
(* (exited) has no thread to cancel.                                       *)
Cancel(h) ==
    LET g == host[h]
    IN /\ g.at = "hold" /\ g.out = "none" /\ ~g.exited
       /\ g.turn \in {"ready", "started", "reads", "writes", "text", "badids",
                      "final", "awaits", "unknown"}
       /\ Become(h, [g EXCEPT !.turn = "failed", !.exited = (g.turn = "final")])
       /\ UNCHANGED <<bounds, clock, man, others>>

(* Maintenance ends with an error and the guard is kept: it is not used    *)
(* any more, but its renewal thread runs until it is dropped.              *)
Stopped(g) == [g EXCEPT !.at = "hold", !.op = "none", !.turn = "stopped"]

(* compact_terminal_request is due.                                        *)
Compactable(g) ==
    g.turn = "maintains" /\ g.cur.tomb # "none" /\ g.cur.journal # NoJournal

(* An object cannot be staged: publish fails twice before its replacement  *)
(* and the guard is kept. The step's phase stays as it is in memory, so an *)
(* unpublished start counts as ambiguous, an unpublished outcome does not. *)
(* A compaction that cannot stage its index ends the maintenance.          *)
StagingFails(h) ==
    LET g == host[h]
    IN /\ g.at = "hold" /\ Holds(g)
       /\ \/ /\ g.turn = "ready" /\ g.journal.step < MaxSteps
             /\ Become(h, [g EXCEPT !.journal.phase = "started", !.turn = "unknown"])
          \/ /\ g.turn \in {"reads", "writes", "text"}
             /\ Become(h, [g EXCEPT !.turn = "failed",
                  !.journal = [phase |-> IF g.turn = "text" THEN "final" ELSE "completed",
                               step |-> @.step + 1]])
          \/ Compactable(g) /\ Become(h, Stopped(g))
       /\ UNCHANGED <<bounds, clock, man, others>>

(* turn_finalized: a turn that ends without a final text publishes its     *)
(* journal once more, with how it ended.                                   *)
PublishExit(h) ==
    /\ host[h].at = "hold" /\ ~host[h].exited
    /\ host[h].turn \in {"awaits", "unknown", "failed"}
    /\ PublishJournal(h, host[h], "exit")
    /\ UNCHANGED <<bounds, clock, man, others>>

(* Fault seeded for EndOf: the turn's state is written as it is.           *)
EndAsIs(turn) == turn

(* The end of the turn: finish_final, finish_terminal, finish_pending and  *)
(* record_ambiguous_provider_step. The lease's binding goes into the       *)
(* records before publish takes the mutex again.                           *)
EndOf(turn) == CASE turn = "final"  -> "complete"
                 [] turn = "awaits" -> "pending"
                 [] OTHER           -> turn

BindRecords(h) ==
    LET g == host[h]
    IN /\ g.at = "hold" /\ g.out = "none"
       /\ \/ g.turn = "final"
          \/ g.turn \in {"awaits", "unknown", "failed"} /\ g.exited
       /\ Become(h, IF g.lost THEN Drop(g)
                    ELSE [g EXCEPT !.exp = g.lease.exp, !.out = EndOf(g.turn)])
       /\ UNCHANGED <<bounds, clock, man, others>>

(* publish_terminal_with_request_objects: records and tombstone at once.   *)
FinishTurn(h) ==
    LET g == host[h]
    IN /\ g.at = "hold" /\ g.out # "none"
       /\ IF ~Holds(g) THEN Become(h, Lose([g EXCEPT !.out = "none"]))
          ELSE IF g.exp # g.lease.exp THEN Become(h, Drop([g EXCEPT !.out = "none"]))
          ELSE Send(h, g, "finish", [g.cur EXCEPT !.tomb = g.out])
       /\ UNCHANGED <<bounds, clock, man, others>>

-----------------------------------------------------------------------------
(* maintain_remote_session takes the lease, compacts the request once its  *)
(* tombstone is kept, reaps what the manifest does not reach, releases.    *)
Maintain(h) ==
    /\ Task(h) /\ Open
    /\ Send(h, [Read(h) EXCEPT !.turn = "maintains"], "acquire",
            [man EXCEPT !.lease = NewLease(h)])
    /\ UNCHANGED <<clock, man, others>>

(* compact_terminal_request: journal and outcomes leave the index, the     *)
(* binding and the tombstone stay.                                         *)
Compact(h) ==
    LET g == host[h]
    IN /\ g.at = "hold" /\ Compactable(g)
       /\ IF Holds(g)
            THEN Send(h, g, "compact", [g.cur EXCEPT !.journal = NoJournal])
            ELSE Become(h, Lose(g))
       /\ UNCHANGED <<bounds, clock, man, others>>

(* Fault seeded for ReapBinding: the work budget is not looked at.         *)
ReapWithoutDeadline(h) ==
    LET g == host[h]
    IN /\ g.at = "reaps" /\ binding # 0 /\ ~g.cur.bound
       /\ binding + Retention <= g.sample
       /\ binding' = 0
       /\ UNCHANGED <<bounds, clock, man, net, host, calls, told>>

(* reap_orphans: the guard is checked, what the cached manifest reaches is *)
(* kept, and the work budget bounds the deletions.                         *)
StartReaping(h) ==
    LET g == host[h]
    IN /\ g.at = "hold" /\ g.turn = "maintains"
       /\ Become(h, IF Holds(g)
                      THEN [g EXCEPT !.at = "reaps", !.turn = "reaped", !.sample = clock]
                      ELSE Lose(g))
       /\ UNCHANGED <<bounds, clock, man, others>>

ReapBinding(h) ==
    LET g == host[h]
    IN /\ g.at = "reaps" /\ binding # 0 /\ ~g.cur.bound
       /\ clock < g.sample + Budget
       /\ binding + Retention <= g.sample
       /\ binding' = 0
       /\ UNCHANGED <<bounds, clock, man, net, host, calls, told>>

(* The guard is dropped, at the end or by the error of the compaction.     *)
EndMaintenance(h) ==
    /\ host[h].at = "reaps" \/ (host[h].at = "hold" /\ host[h].turn = "stopped")
    /\ Become(h, Drop(host[h]))
    /\ UNCHANGED <<bounds, clock, man, others>>

(* archive_session, refused while a lease is live.                         *)
Archive(h) ==
    /\ Task(h) /\ Open
    /\ Send(h, [Idle EXCEPT !.cur = man], "archive",
            [man EXCEPT !.lease = NoLease, !.archived = TRUE])
    /\ UNCHANGED <<clock, man, others>>

(* Fault seeded for ReleaseReread: whatever lease it finds is cleared.     *)
ReleaseAny(h) ==
    LET g == [host[h] EXCEPT !.cur = man]
    IN /\ g.at = "reread"
       /\ IF man.lease # NoLease
            THEN Send(h, g, "clear", [man EXCEPT !.lease = NoLease])
            ELSE Become(h, Idle)
       /\ UNCHANGED <<bounds, clock, man, others>>

-----------------------------------------------------------------------------
(* SessionLeaseGuard::release, called at the end and when it is dropped:   *)
(* it clears the lease it holds, or reads the manifest again and clears    *)
(* exactly its lease.                                                      *)
Release(h) ==
    LET g == host[h]
    IN /\ g.at = "drop"
       /\ IF g.cur.lease = g.lease
            THEN Send(h, g, "release", [g.cur EXCEPT !.lease = NoLease])
            ELSE Become(h, Lose(g))
       /\ UNCHANGED <<bounds, clock, man, others>>

ReleaseReread(h) ==
    LET g == [host[h] EXCEPT !.cur = man]
    IN /\ g.at = "reread"
       /\ IF man.lease = g.lease
            THEN Send(h, g, "clear", [man EXCEPT !.lease = NoLease])
            ELSE Become(h, Idle)
       /\ told' = IF man.lease = NoLease THEN told \cup ({g.out} \ {"none"}) ELSE told
       /\ UNCHANGED <<bounds, clock, man, binding, calls>>

(* The manifest answers: the host goes on.                                 *)
Accepted(g, to) ==
    LET n == [g EXCEPT !.cur = to, !.at = "hold", !.op = "none"]
    IN CASE g.op = "renew"    -> [n EXCEPT !.lease = to.lease]
         [] g.op = "start"    -> [n EXCEPT !.turn = "started"]
         [] g.op = "complete" -> [n EXCEPT !.turn = CASE g.turn = "text" -> "final"
                                                    [] g.turn = "badids" -> "failed"
                                                    [] g.turn = "writes" -> "awaits"
                                                    [] OTHER -> "ready"]
         [] g.op = "exit"     -> [n EXCEPT !.exited = TRUE]
         [] g.op = "finish"   -> Drop(n)
         [] g.op \in {"release", "clear", "archive"} -> Idle
         [] OTHER             -> n

(* Fault seeded for Failed: a final replacement without an answer counts   *)
(* as made.                                                                *)
FailedAsDone(g) ==
    CASE g.op = "renew" -> [g EXCEPT !.at = "hold", !.op = "none", !.lost = TRUE]
      [] g.op \in {"acquire", "clear", "archive"} -> Idle
      [] OTHER -> Lose(g)

(* A conflict: whoever holds a guard takes it for lost.                    *)
Failed(g) ==
    CASE g.op = "renew"   -> [g EXCEPT !.at = "hold", !.op = "none", !.lost = TRUE]
      [] g.op = "release" -> Lose(g)
      [] g.op \in {"acquire", "clear", "archive"} -> Idle
      [] OTHER            -> Lose([g EXCEPT !.out = "none"])

(* No answer counts as a conflict, but for a compaction: when its call     *)
(* timed out (map_upload_error) the guard keeps the manifest it had.       *)
Unanswered(g) ==
    {Failed(g)} \cup IF g.op = "compact" THEN {Stopped(g)} ELSE {}

(* Fault seeded for Matches: the replacement ignores the version.          *)
LastWriterWins(m) == TRUE

(* replace_content_if_match: it lands on the version it was made from. A   *)
(* call nobody waits for and that can no longer land is forgotten.         *)
Matches(m) == man.gen = m.base

Land(m) ==
    LET done == IF Matches(m) THEN m.to ELSE man
        rest == {n \in net \ {m} : n.from # Nobody \/ n.base >= done.gen}
    IN /\ man' = done
       /\ net' = rest
       /\ IF m.from = Nobody
            THEN UNCHANGED <<host, told>>
            ELSE LET g == host[m.from]
                 IN /\ host' = [host EXCEPT ![m.from] =
                                  IF Matches(m) THEN Accepted(g, m.to) ELSE Failed(g)]
                    /\ told' = IF Matches(m) /\ g.op \in {"release", "clear"}
                                 THEN told \cup ({g.out} \ {"none"}) ELSE told
       /\ UNCHANGED <<bounds, clock, binding, calls>>

(* The answer is lost, or the call: it may still land.                     *)
GiveUp(h) ==
    LET mine == {m \in net : m.from = h}
        late == {[m EXCEPT !.from = Nobody] : m \in {n \in mine : n.base >= man.gen}}
    IN /\ host[h].at = "wait" /\ faults < MaxFaults
       /\ faults' = faults + 1
       /\ \E lands \in BOOLEAN :
            net' = (net \ mine) \cup (IF lands THEN late ELSE {})
       /\ \E g \in Unanswered(host[h]) : host' = [host EXCEPT ![h] = g]
       /\ UNCHANGED <<clock, man, tasks, others>>

(* The process ends anywhere; its lease stays, its calls may still land.   *)
Crash(h) ==
    LET mine == {m \in net : m.from = h}
    IN /\ host[h].at # "idle" /\ faults < MaxFaults
       /\ faults' = faults + 1
       /\ net' = (net \ mine) \cup
                 {[m EXCEPT !.from = Nobody] : m \in {n \in mine : n.base >= man.gen}}
       /\ host' = [host EXCEPT ![h] = Idle]
       /\ UNCHANGED <<clock, man, tasks, others>>

Tick ==
    /\ clock < MaxClock
    /\ clock' = clock + 1
    /\ UNCHANGED <<bounds, man, net, host, others>>

Next ==
    \/ Tick
    \/ \E m \in net : Land(m)
    \/ \E h \in Hosts :
         \/ Replay(h) \/ StageAdmission(h) \/ Admit(h) \/ Resume(h) \/ Renew(h) \/ StartStep(h)
         \/ CallProvider(h) \/ CompleteStep(h) \/ StepLimit(h) \/ Cancel(h)
         \/ StagingFails(h) \/ PublishExit(h) \/ BindRecords(h) \/ FinishTurn(h)
         \/ Maintain(h) \/ Compact(h)
         \/ StartReaping(h) \/ ReapBinding(h) \/ EndMaintenance(h)
         \/ Archive(h) \/ Release(h) \/ ReleaseReread(h)
         \/ GiveUp(h) \/ Crash(h)

Spec == Init /\ [][Next]_vars

-----------------------------------------------------------------------------
Guards == [at : {"idle", "staged", "wait", "hold", "reaps",
                 "drop", "reread"},
           op : {"none", "acquire", "renew", "start", "complete", "exit", "finish",
                 "compact", "release", "clear", "archive"},
           cur : Manifests, lease : Leases \cup {NoLease}, lost : BOOLEAN,
           sample : 0 .. MaxClock + TTL,
           turn : {"none", "ready", "started", "reads", "writes", "text", "badids",
                   "final", "awaits", "unknown", "failed",
                   "maintains", "reaped", "stopped"},
           journal : Journals, exp : 0 .. MaxClock + TTL, exited : BOOLEAN,
           out : Ends \cup {"none"}]

(* Types of the variables.                                                 *)
TypeOK ==
    /\ clock \in 1 .. MaxClock
    /\ man \in Manifests
    /\ \A m \in net : m \in Replacements
    /\ host \in [Hosts -> Guards]
    /\ binding \in 0 .. MaxClock
    /\ calls \in [Steps -> Nat]
    /\ told \subseteq Ends
    /\ tasks \in 0 .. MaxTasks /\ faults \in 0 .. MaxFaults

(* A provider step of a request is called at most once, whatever hosts run *)
(* it, crash, lose their lease or miss an answer (provider_step_started,   *)
(* RequestPhase::permits_automatic_resume).                                *)
StepsCalledOnce == \A s \in Steps : calls[s] <= 1

(* Every client that is given a terminal answer is given the same one, and *)
(* it is the tombstone's (request_replay_from_manifest, finish_terminal).         *)
OneTerminalAnswer == told \subseteq {man.tomb}

(* Nobody changes the manifest under a guard that passes its time check    *)
(* and that a turn or the reaper still uses: what it caches is what        *)
(* OneDrive has (revalidate_publication_time against the takeover margin). *)
(* This is not so of a guard whose compaction went unanswered (Stopped):   *)
(* the compaction may have landed, or land later, and only the comparison  *)
(* of the release that follows finds out.                                  *)
GuardIsCurrent ==
    \A h \in Hosts :
        /\ host[h].at \in {"hold", "reaps"} /\ host[h].turn # "stopped"
        /\ Holds(host[h])
        => man = host[h].cur

(* The reaper leaves what the manifest reaches: the binding of an accepted *)
(* request is there, staged anew or adopted (reap_orphans against          *)
(* stage_authenticated_immutable).                                         *)
ReachedIsKept == man.bound => binding # 0

(* The tombstone of a request is final: no host, late call or compaction   *)
(* replaces it (publish_terminal, compact_terminal_request).               *)
TombstoneStays == [][man.tomb # "none" => man'.tomb = man.tomb]_vars

(* A lease is ended by its own holder, or by others after it and the       *)
(* margin ran out (release, archive_session, acquire_lease).               *)
LeaseEndsFairly ==
    [][\A h \in Hosts :
         man.lease # NoLease /\ man.lease.holder = h /\ man'.lease # man.lease
           => \/ man'.lease # NoLease /\ man'.lease.fence = man.lease.fence
              \/ clock > man.lease.exp + Margin
              \/ \E m \in net : m.to = man' /\ m.from \in {h, Nobody}]_vars

(* A request whose final text is published never ends as unknown, whoever  *)
(* ends it (classify_completed_recovery_v2).                               *)
FinalTextIsKnown ==
    [][man.journal.phase = "final" => man'.tomb # "unknown"]_vars
=============================================================================
