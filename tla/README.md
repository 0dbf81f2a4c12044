# A TLA+ verification of iSyncYou

iSyncYou keeps local copies of a Microsoft 365 account (OneDrive, mail, calendar,
contacts, to-do, OneNote), synchronises OneDrive in both directions and puts lost
items back into the cloud. Its core promises are about *effects outside the
program* that cannot be rolled back: an item restored twice, an invitation mailed
twice, an edit overwritten, a file deleted that nobody deleted. This project models
the parts of the code that make those effects and the records they keep, checks
them with TLC on small instances and proves the central facts with TLAPS.

`PROJECT.json` has the line-by-line correspondence ("map"), the hazards of the code
at their lines, the runs, the seeded faults every property must detect ("mutants"),
the findings and the theorems.

## 1. Inventory

### Processes, state and how they meet

    CLI, app host (web UI, mobile)        daemon: boot recovery, sync loop, watch loop
                 \                             /
                  engine (restore, cloud writes, passes)
                 /         |              \
          connectors     store          graph (HTTP, delta, uploads, tokens)
       (delta, scans)  SQLite + <db>.lock        |
              |                             Microsoft Graph
          sync root, trash, archive

Everything durable is in one SQLite database per store, opened under a file lock
(`Store::open`): whoever has the store open is alone, everybody else waits for a
short while and gives up with `AlreadyRunning`. Files and the cloud are *not* behind
that lock: users edit the sync root, other clients edit the drive, calls to Graph
fail or lose their answer, and any process can die between two steps.

| Component | State | Operations | Hard behaviour | Correct when |
|---|---|---|---|---|
| Cloud restore (`engine/restore_*.rs`, `mail_restore.rs`, ledger in `store`) | `restore_operations`, `restore_steps`, the marker on the cloud item | request, run, recover by marker, boot recovery | crash around a POST, lost and late answers, power loss, two openers | one cloud item per content, recorded once; interrupted operations complete |
| Sharing (`engine/onedrive_write.rs`) | `cloud_write_operations` of kind share | link, invite, recovery | a crash around a call that sends e-mail; partial success | no invitation is sent twice; "applied" means everybody was reached |
| Cloud writes (`engine/onedrive_write.rs`) | `cloud_write_operations`, body files | create, rename, move, delete, upload, replace (direct and streamed), recovery passes | replays after others changed the drive | no blind overwrite, settled rows stay, open rows come to an end |
| OneDrive pass (`engine/lib.rs sync_once`, `connectors/onedrive.rs`) | `items`, delta cursor, sync root, trash | ingest, download, trash, create, modify, delete | user and clients act between any two steps, crash, failed download | no edit is lost, deletions are the user's, the sides converge |
| Delete guard (`core/guard.rs`) | – | evaluate | limits, small totals | mass deletions are held back |
| Store (`store/lib.rs`) | all tables, `<db>.lock`, WAL | transactions, migrations | lock contention, `synchronous=NORMAL` | one opener; what is committed survives a process crash |
| Mobile job queue (`store`, `app-host/mobile_jobs.rs`, `MobileJobWorker.kt`) | `mobile_jobs` with leases, WorkManager works, the runtime's guard | enqueue, cancel, plan and reclaim, lease, execute, settle | leases that run out during an execution, late results, cancel races, crashes | only the latest lease settles a job; an ended job stays; every accepted job ends |
| Agent sessions (`agent/session_v2.rs`, `app-host/product_session.rs`) | a manifest in OneDrive shared by several hosts: lease, request journal, tombstones; staged objects; a guard and a turn per host | admit, resume, replay, renew, provider step, finish, cancel, release, compact, reap, archive | compare-and-swap with lost or late answers, takeover of a lease, crash around a provider call | no provider step is called twice, one answer per request, nobody writes under a live lease |
| Account lifecycle (`app-host/account_lifecycle.rs` and its drivers in `app-host/lib.rs`) | authority with epochs, journal, candidate, intent and receipt records; bundle, activation, selection | connect, disconnect, reconnect, callback, revoke, maintenance, start-up recovery | a crash between any two of many durable writes, answers of the provider lost or late, two providers | no grant is forgotten, "connected" is true, a disconnect ends |
| Pending confirmations (`core/pending.rs`, `agent/confirm.rs`) | registered actions | register, confirm, consume, expire | reuse, expiry between steps | an action runs at most once and only if confirmed |
| Graph transport (`graph`) | upload sessions, pacing | delta walk, 410 relist, resumable upload, retry | throttling, session reuse | complete delta, whole files |
| Change source (`change-source`) | watch set, coalesced events | watch, coalesce, overflow, reconcile | lost events | nothing is missed after an overflow |
| Device pairing (`agent/pairing_v2.rs`) | offers | offer, accept, expire | reuse, expiry between steps | an offer is used once |
| Archive backups (mail … OneNote) | `items`, cursors, archive files | one-way delta | cursor against ingest order | nothing skipped |
| FUSE tree, path map, export, hashes, MIME, live views, front ends, PBS, D-Bus, Android | – | – | mostly data or presentation | – |

### Hazards

The list is in `PROJECT.json`. Its core: a crash or lost answer around a call with
an outside effect; recovery that decides from stale knowledge (a marker probe, an
etag, a tombstoned path, a recorded mtime); the gap between reading a file and
recording what was read; an open record replayed after the world moved on; a lease
that ends while its holder still works.

## 2. Modules

| Module | What it is |
|---|---|
| `RestoreOnce` | Abstract specification: per content one item appears, its id is recorded once |
| `RestoreLedger` | The restore ledger, its driver, recovery and boot recovery; shown to implement `RestoreOnce` |
| `RestoreLedgerProofs` | Theorems about it |
| `OneDriveShare`, `OneDriveShareProofs` | Links and invitations, and theorems about them |
| `OneDriveWrite`, `OneDriveWriteProofs` | The other cloud writes, and theorems about them |
| `OneDriveSync`, `OneDriveSyncProofs` | The bidirectional pass, and theorems about it |
| `SessionTurns`, `SessionTurnsProofs` | One request of an agent session that several hosts share, and theorems about it |
| `AccountLifecycle`, `AccountLifecycleProofs` | Connecting, disconnecting and reconnecting the accounts of the AI providers, and theorems about it |
| `MobileJobs`, `MobileJobsProofs` | The durable job queue of the mobile app, and theorems about it |
| `MC…` | The small instances, one module per model |

### RestoreLedger

Steps are SQLite transactions, lock operations and the three moments of a Graph
create: sent (`Send`), effective (`Land`), answered (`Reply`). `ledger` and `steps`
are the two tables; `durable` is what of them a power loss would leave
(`synchronous=NORMAL` in WAL mode). `transition_restore` is the checked UPDATE
together with its audit INSERT. A worker is a request (`Request` … `Answer`, the
`restore_*_via_ledger` / `finish_*_restore` functions) or the daemon's recovery of
one service (`StartBoot`, `NextPending`, `BootDone`); both use the same
`recover_restore_op` steps (`Probe`, `Resume`, `Resumed`). Five services differ only
in how a repeated create is recognised (a probe for the marker, or for the calendar
a `transactionId` that the *server* de-duplicates: `TransactionIdOps`) and in mail
putting MAPI state back before it answers (`MailOps`). ADR-001 says that the server
does so for a retention window only: `window` holds the items it still remembers, and
`ForgetTransaction` ends a window (where `WindowEnds`; it counts as a fault). An operation stands for one
content of one item, because the key is a MAC over exactly these; what is sent may
nevertheless differ, since recovery reads the archive again (`archived`, `Resync`,
`payload`).

### OneDriveShare and OneDriveWrite

Both are ledger machines with one run at a time (`with_ledger` keeps the store open,
hence locked, to the end): a row is recorded, marked inflight, the call is made, the
row is settled; recovery goes through the open rows in order. In `OneDriveShare` the
question is how often the invite call was *sent*; the cloud is the number of matching
permissions per recipient, which others may add or revoke. In `OneDriveWrite` the
cloud is a small drive (parent, name, content, etag per id) on which calls have their
effects (`Effects`), strangers write too, and body files may change or vanish before
a replay. Keys are those of `CloudWrite::keys`: a replace is told apart by its
content, the other kinds by target and names only. `created` is the age of a row;
recovery takes the open rows oldest first.

### OneDriveSync

One pass after the other over the files of one folder. `pc` names the point of the
pass; between any two points the user (`UserAt`) and other clients (`CloudAt`) may
act, as far as an instance lets them. A version is a number, with a size and a time;
the last-synced reference, `locally_edited_since_sync`, `is_local_modified` and the
other decisions compare exactly what the code compares (size, time, hash). Ghost
variables say what the properties are about: `owed` (versions that neither user nor
client replaced or deleted), `removed` (paths the user deleted), `bin` (what was
deleted from the drive, and by whom).

### SessionTurns

`man` is the manifest: its generation (the etag), the lease, the journal of the one
request that is followed, its tombstone and whether its binding is reachable. `net`
holds replacements under way, which land on the version they were made from or not at
all, also after their host gave up or died. A host reads and decides in one step,
because a replacement names the version that was read: whatever happens in between
fails it alike. Under its guard a host goes from the check of its lease to the answer
of the call without its renewal thread getting in (the mutex), which is why `Renew`
needs `at = "hold"`. The binding of a record is taken before it is published; a renewal
in between makes the publication refuse and the request stays recoverable. A renewal
whose answer is lost leaves a lease with another expiry in OneDrive, so `Release` finds
`LeaseLost` and the lease lasts to its TTL. A compaction that is not answered in time is not a lost
lease (`map_upload_error`): if it landed, the guard stays live with the manifest from
before it. `Stopped` marks such a guard, and nothing but its release uses it any more.
`Cancel` takes a waiting request, one that awaits a confirmation, and one whose final text
is out but whose tombstone is not: the cancellation wins there, as in the code.
The reaper is safe because its work budget
is within safety and takeover margin and its final replacement names the version.
The server's clock is taken to be monotone, and a host that is suspended *inside* a
reaping call is left out. Not in the module: encryption, index pages and limits,
checkpoints of read tools, operations a turn leaves pending.

### AccountLifecycle

An action is one durable write of one handler, named after it; `at[p]` is the handler
that holds the provider's lease and the write that comes next, so a crash
(`Crash`) or a failed store call (`StoreFails`) falls between any two of them. The
records are those of `account_lifecycle.rs`; `bundle`, `activation` and `selection`
are what the product shows; `issued` and `revoked` are the provider's side. Clients
(`Users`) ask, retry and answer callbacks at will; maintenance and the start-up pass
(`Pass`) are what the code runs by itself. The exchange of a code runs outside any
lease (`exch`). Reconnect stands for Switch too. One step are: the load and put of
`begin_operation`, and the cleanup of an operation's artifacts. Left out: credential
etags, compaction of receipts, audits, token refresh, onboarding journals, key
versions, the conflict of payload digests.

### MobileJobs

A variable per column of `mobile_jobs`, the works WorkManager keeps over a restart,
and what each worker thread does. The lease names the *process* (a fresh id at every
start) and is never renewed, so nothing in the row tells two runs of one process apart:
that only the latest one settles the job rests on `execution_guard` (`GuardFree`), and
the mutant that drops it is caught. What an execution does is `RestoreLedger`'s or
`OneDriveSync`'s matter; here it succeeds, fails or asks for a retry.
`recover_and_run_available_jobs` takes no guard but is called by tests only, like
`release_mobile_job_lease`: neither is modelled.

## 3. Runs

| Run | Shows |
|---|---|
| `restore` | Two workers, a mail and a calendar operation, three faults, within the server's window: no duplicate, committed rows are real, all answers agree and a mail answered has its state back, the audit trail replays, the lock excludes, the refinement of `RestoreOnce`, and completion of every operation that has its marker |
| `restore_calendar` | Two versions of an event, with POSTs that land after their client gave up, power loss, and windows that end: committed rows are still real, and what a power loss leaves of the rows and of the audit trail fits together |
| `restore_pending_stuck` | *Violation.* A crash between the INSERT of the row and the marker leaves a row that no recovery ever completes, against ADR-001 |
| `share` | Four requests, two faults, two changes by others: an invitation is sent at most once, "retry" is only said of unsent ones, applied means all were reached, rows settle |
| `write` | Seven writes of six kinds, two requests, two faults, a stranger who edits the same file or uploads one under the name that the create and the rename want: settled rows are final, no blind overwrite, a retry of a create or streamed upload whose name nobody else took is not answered with an error, open rows settle unless Graph refuses them on every pass |
| `write_edit_back` | *Violation.* Edit to y, back to x, to y again: the third request is answered "applied" from the old row and does nothing |
| `sync` | One file of the drive, one of the user's, three versions, a deletion per side, one fault: no edit is lost, what a pass deletes from the drive is what the user deleted, the sides converge |
| `sync_failed_download` | *Violation.* One failed download, and the stale file replaces the newer version in the drive |
| `session_turns` | Two hosts, a request of two provider steps, renewals, takeovers, a crash or a lost or late call: steps are called once, all clients hear the tombstone's answer, a guard that passes its time check and is still used by a turn or by the reaper has the current manifest, what is reachable is not reaped, tombstones stay, leases end by their holder or by time, a published final text never ends as unknown |
| `lifecycle` | One provider, three operations, three logins, two attempts, two faults: no grant is forgotten, connected is live, one operation per request id, a disconnect that began to revoke ends |
| `lifecycle_other_provider` | *Violation.* An operation of the other provider advances the installation-wide epochs, and the first provider's disconnect hangs for ever |
| `mobile_jobs` | Two jobs, two workers, two tries, two faults: late results are dropped, tries stay within the budget, every accepted job ends |

Every violation is a finding in `PROJECT.json`, with the line of the documentation or
the comment it contradicts.

**Bounds.** `MaxFaults` counts crashes, failed calls and lost answers together. The
restore needs three to interrupt a run, its recovery and the next recovery; the other
ledgers need two. Two workers are enough for a lock. Two recipients are the least for
a partial success. Three versions are the least for edit, concurrent edit and edit
again. In `OneDriveSync` five ids leave room for every upload and conflict copy of
three versions, and the delete guard is set so that both verdicts occur.
`session_turns` has the smallest times that keep the code's order (renewal before the
safety margin before the end of the lease, budget within safety and takeover margin) and
five ticks, enough for a lease to run out, be taken over and run out again; one fault
because each fault multiplies the calls that can still land. `lifecycle` has three
operations: connect, disconnect and reconnect, or a disconnect retried after a crash.
`mobile_jobs` has two faults: a crash during the run that follows a crash.
`restore_calendar` and `session_turns` use symmetry; runs with liveness use none.

**What the passing `sync` run keeps out**, because the code is known to lose an edit
there: the user does not act at the points in `Windows` of `MCOneDriveSync` (between
check and overwrite, and between upload and record), other clients not between the PUT
of a new file and the call that sets its time, names are not reused, downloads of
existing items do not fail. The user's steps at `ingest` and `aside` are left out only
to save states. Each of the first kind is a hazard; `sync_failed_download` shows one of
them, the others are described in section 5.
`EditsSurvive` exempts one thing the code does on purpose: a file whose row has no
last-synced reference is overwritten.

**Fairness.** `RestoreLedger`: threads run, and the daemon is restarted again and
again (strong fairness of a start per service, since the row it is for may be taken
over by others in between); requests are never assumed. `MarkedCompletes` is
conditional on the store lock not being contended for ever, since an opener that
finds it taken gives up. `OneDriveShare`, `OneDriveWrite`: weak fairness of recovery
starts and of the run under way. `OneDriveSync`: weak fairness of the pass, which
`sync_loop` repeats for ever. `AccountLifecycle`: weak fairness of the handler that holds
a provider's lease (a thread runs on) and of the passes (maintenance is a loop); none of
clients or of the provider. With two providers the runtime lock would have to be fair
too, since retries for the other provider may starve a pass, so liveness is checked with
one. `MobileJobs`: leases run out, a run goes on, WorkManager starts the works it keeps,
and the app is opened again and again, which is when `reconcile` is called. The fault model
has no panics: one inside an execution, caught at the JNI boundary, would leave every later
worker of the process deferred (section 5). `SessionTurns`
states safety only: nothing in the code makes anybody ask again. No fairness is put on users, clients or faults, which
are bounded, so "once they come to rest" is reached.

**Deadlock** is checked in the restore, sync and job runs. The share and write models stop
when all requests are used up and every row is settled, and the session and lifecycle
models when their tasks and operations are used up, so it is off there.

## 4. Proofs

All for arbitrary operations, workers, ids, recipients and bounds.

* `RestoreLedgerProofs`, in every fault model (late landings, power loss and windows that
  end included): `TypeCorrect`; `RestoresAreSerial` (`LockExcludes` is inductive given the
  types); `TrailsReplay` (the invariant also speaks of the durable copy of the tables, to
  which a power loss returns); `CommittedRowsAreReal` (`RealInv`: the cloud only grows, and
  a worker that has learned an id knows an item of its operation).
* `NeverDuplicates`, `AnswersNeverDiffer` and `ImplementsOnce`, from three hypotheses:
  `~LateLanding`, `~PowerLoss`, and, if there are operations with a `transactionId`,
  `~WindowEnds`. These are the circumstances in which the code is *not* exactly-once: a
  probe cannot see a POST that is still on its way, a lost row is restored anew, and
  without its window a repeated calendar POST makes a second event (section 5).
  `NoDuplicate` is not inductive by itself. `IInv` adds: a cloud item exists only
  under a row that is at least `committing`; the id is recorded exactly when the row is
  `committed`, and is then in the cloud (`RowOK`); and what a worker knows at each place
  is still true, above all that between its probe and its POST the cloud has no item
  (`WorkerOK`). The last part is stable only because one worker at a time is past
  `Store::open`, hence the lock conjunct. `WindowInv` adds that the server remembers exactly
  the events there are; it is what makes a calendar operation, which posts again without
  looking, as good as one that probes. `ImplementsOnce` maps `items` to the cloud
  and `recorded` to the `new_cloud_id` column.
* `OneDriveShareProofs`: `TypeCorrect`, `InvitationsAreSentOnce`, `RetryIsSafe`,
  `AppliedRowsReachedAll`. The inductive invariant says that a row that is not yet
  inflight was never sent, that a run at the call of an invitation is the first to get
  there, and that boot recovery's queue holds open rows only, without the one in hand.
* `MobileJobsProofs`: `TypeCorrect`, which includes that a job is tried at most
  `MaxTries` times and once more per fault, and `LateResultsAreDropped`. The inductive
  invariant adds that at most one worker runs (`OneRun`), that its run is the one of the
  job's latest lease and the job is still leased to this process unless it was cancelled
  (`RunIsLatest`), and that a job which may be leased again has a try left (`TryLeft`).

* `OneDriveWriteProofs`: `TypeCorrect`, `SettledRowsStay`, `NoBlindReplace`, for any set
  of writes. Both safety properties rest on what the invariant says of the run under way
  (`RunOK`): from the mark to the settling its row exists and is not settled, and a direct
  replace carries the etag of its row. `RowsOK` adds that the rows in recovery's list exist
  and that no row is older than the requests made.
* `SessionTurnsProofs`, for any number of hosts, leases, provider steps, renewals and faults:
  `TypeCorrect`, `CalledOnce`, `SameAnswer`, `BindingKept`, `GuardCurrent`,
  `TombstoneIsFinal`, `FinalTextKnown`, `LeaseIsFair`. The invariant says for every host
  what its copy of the manifest, its guard and its staged objects are worth at each point,
  and for every call under way what it may do if it lands now: a replacement lands only on
  the version it names, so a late call is harmless unless nothing happened since, and then it
  is what its host meant. `GuardCurrent` speaks of guards that a turn or the reaper still uses:
  the one of a host that stopped after an unanswered compaction may be stale. A provider step is called once because only the holder of a
  guard calls it, after the journal says *started*, and whoever finds *started* without
  having written it does not call. The reaper's part needs the order of the margins
  (`TimesAssumption`).
* `AccountLifecycleProofs`, for one provider and any requests, modes, attempts and faults:
  `TypeCorrect`, `GrantsKept`, `ConnectedLive`, `OnePerRequest`. The invariant says, phase by
  phase, which record accounts for each grant that is not revoked (`Kept`), what is already
  written at each write of each handler (`HandlerOK`), and what an exchange under way will
  find (`ExchangeOK`). The hypothesis of one provider is needed: with two, the release of an
  operation writes back a stale authority (section 5), and `GrantsAreKept` fails.
* `OneDriveSyncProofs`: `TypeCorrect`, and `DeletesAreUsers`, with the user and the other
  clients acting at *every* point of the pass, also at those the `sync` run keeps them out
  of, and downloads failing. The invariant: an item has one path for ever, and no two items
  still known to drive, store or the delta in hand have the same (`PathsOK`); after the trash
  phase no tombstone has a file, so that a file to be created has no row (`CreateOK`); a row
  that differs from the drive is in the next delta (`NewsOK`); hence a clean row without a
  file is the user's deletion, or an edit moved aside whose row the next delta marks before
  deletions are looked for again (`MissingOK`). Two hypotheses, each needed: names are not
  used again, and the guard never holds the trash phase back (`TrashPasses`); otherwise a
  second item comes to the path of a tombstone (section 5).

Assumptions on constants are the named `ASSUME`s of the modules, evaluated by TLC.

Only model-checked:

* all liveness: the prover handles neither fairness nor `ENABLED`;
* `CreateRetrySucceeds` of `OneDriveWrite`, which exempts names that somebody else took
  (`NameHeld`): a stranger's file of the same name makes a repeated create fail;
* `EditsSurvive` of `OneDriveSync`. It holds only while user and clients stay out of the
  windows listed in section 3 and while no conflict copy gets the path of a row (the trash
  item of section 5, which needs more versions than the `sync` run has). A proof needs both
  as hypotheses, and an invariant that says where each version still is at each point of
  the pass.

## 5. Known disagreements without a run

* A delete replayed after it landed is answered 404 and stays open, although
  `onedrive_write.rs` counts on 404 as success (`WritesSettle` exempts it by `Gone`).
* A replace that landed and lost its answer is replayed with the old etag and ends as
  a conflict with itself.
* An upload finds a stranger's file of its name and adopts it as its own.
* A rename left open is replayed over a newer one.
* A create, rename or move onto a name that is taken gets a 409 on every recovery pass and
  stays open for as long as the name is taken: the error of the call skips the row, and a
  pass only gives up on rows whose body is missing (`onedrive_write.rs:1203` and `:1269`).
  `WritesSettle` exempts it by `Refused`.
* A compaction of the manifest that timed out but landed leaves the guard live, with the
  manifest from before it (`session_v2.rs:2769`, `map_upload_error` at 3523), until it is
  released: every replacement under it would fail. The host releases it without making one.
* A cancellation that arrives after the final text was published and before the tombstone
  ends the request as cancelled: the text is in the session, the answer says it was
  cancelled.
* A panic during an execution is caught at the JNI boundary (`mobile/lib.rs:1237`) and poisons
  `execution_guard`; `try_lock` (`mobile_jobs.rs:582`) then answers `WorkerBusy` to every
  worker until the process dies. `MobileJobs` has no panics.
* The staged body of a request is removed with the request, so its recovery can only
  fail (`CreateRetrySucceeds` is stated for writes without one).
* The guard counts tombstones in its total; a blocked trash step leaves files that the
  create step uploads again; a conflict resolved as keep-mine is trashed by the
  tombstone it makes; a relist after 410 does not notice deletions.
* Boot recovery re-reads the archived body (`restore_calendar.rs:255` and its siblings): if
  a backup pass replaced it since the crash, the item made under the key of the old
  content holds the new one, against ADR-001 ("`canonical(payload)` is the byte-stable
  serialization actually sent"). `RestoreLedger` has it: `carries[i] # op` is reachable.
* Recovery of a calendar restore does not probe: `find_by_marker` answers None
  (`restore_calendar.rs:96`, "de-dup guarantees exactly one event") and it posts again, at
  whatever later start. ADR-001 (line 131) says the server remembers a `transactionId` "for a
  retention window", and asks for no second POST in this case (C4, line 169). With
  `WindowEnds`, one event, one worker and two faults (the lost answer and the end of the
  window) `NoDuplicate` is violated.
* After a trash phase that the guard held back, the create phase uploads the files again as
  new items at the paths of their tombstones. When a later pass lets the tombstones through
  (the user deleted one of two files, say), it trashes the file of the new item and then
  deletes that item from the drive, which nobody asked for (`sync` with two files of the
  drive, two deletions per side and `max_absolute = 2` violates `CloudDeleteIsUsers`).
* A tombstoned row keeps its path for ever (`onedrive.rs:1695`): a newer file of the same
  name is trashed and then deleted from the drive (`sync` with `ReuseNames = TRUE` violates
  `CloudDeleteIsUsers`).
* An edit during the upload of the previous version counts as synced (`onedrive.rs:2091`)
  and is overwritten by the next pass (`sync` with `restamp` in `UserAt` violates
  `EditsSurvive`).
* The delta after an upload reports the upload itself (`onedrive.rs:1180`): a file edited
  again meanwhile is moved aside as a conflict although only one side changed.
* A second file deleted at the same path replaces the first one in the trash, and the
  program itself can bring a second one there: `unique_conflict_copy` looks for a free name
  on the disk only. A conflict copy is uploaded, edited, and moved to the trash because a
  client deleted its item; the next conflict of that file takes its name again, and the
  tombstone trashes the new copy over the edit (`sync` with six versions, user and clients
  acting between passes only, violates `EditsSurvive`).
* `finish_oauth_operation` writes the authority back from an earlier copy
  (`account_lifecycle.rs:2036`) while only its provider's lease is held: the epochs go back,
  against ADR-007 ("a monotonic fence"), the other provider's reservation is lost, and
  later the answer of its exchange with it. `AccountLifecycle` with two providers and all
  modes violates `GrantsAreKept` this way.
* Lifecycle operations that nothing takes on after a crash or a failed store call:
  `candidate_stored` (no handler); `prepared` of a disconnect or reconnect (the etag of the
  client no longer matches); a connect whose candidate's revocation is confirmed; a
  reconnect at `disconnected` (maintenance refuses the mode); `failed` before the release;
  `exchange_in_flight` without a deadline outside start-up; a revocation whose attempts are
  used up. `exchange_unknown` is never left, although the status offers `retry_exchange`.
  `DisconnectNeverHangs` is stated of the phases the code does take on.
* A work of a job that was cancelled before it started is told to retry for ever: the lease
  is not acquired, and `Deferred` maps to a retry.
* A crash during an execution is counted in a job's `attempts`, which grow at the lease, but
  never ends the job: only a retry that the execution asks for is measured against the
  budget, so a job that crashes its process every time is taken up for ever.
* The maintenance of an archived session always fails its validation.
* The restore leases of the store are never taken outside tests.

## 6. Not modelled, and the plan

Data formats, encryption, MIME, hashing, presentation, the Kotlin UI and the wire types
are left out: they have little control, and unit tests reach them. The web UI
(`gui/webui`), the control store of agent operations and retrieval make up much of the
source; they are request handling and presentation over records modelled here or data
only, and are left to tests. In order:

1. Proofs: `EditsSurvive` of `OneDriveSync`, with the windows, and that no conflict copy
   gets the path of a row, as hypotheses.
2. `PendingActions`: register, confirm, consume, expire; proof of single use.
3. `GraphTransport`: the delta walk with retries and 410, and resumable uploads, as
   the abstract `Fetch` and `Put` that `OneDriveSync` uses.
4. `ChangeSource` (coalescing and overflow), the sync-state automaton and the guard's
   arithmetic against reference definitions.
5. Pairing; the FUSE cache; operations a session's turn leaves pending.
6. Folders, renames and conflict resolution in `OneDriveSync`.
