----------------------------- MODULE OneDriveWrite -----------------------------
(***************************************************************************)
(* The OneDrive cloud-write ledger (crates/engine/src/onedrive_write.rs    *)
(* over the cloud_write_operations table of crates/store): create, upload, *)
(* replace, rename, move and delete, each recorded before it is issued to  *)
(* Graph, and the recovery of what a crash or a lost answer left open.     *)
(*                                                                         *)
(* Every entry (with_ledger, the mobile offline pass, boot recovery) keeps *)
(* the store and so its file lock to the end: one run is under way at a    *)
(* time. One step is one ledger write or one Graph call; other clients of  *)
(* the drive, the user's file system and crashes come in between.          *)
(***************************************************************************)
EXTENDS Naturals

CONSTANTS
    Writes,       \* the writes that may be requested
    Ids,          \* drive item ids
    Values,       \* ids, folders, names and contents
    Start,        \* the drive to begin with
    Strangers,    \* writes other clients of the drive may make
    None,         \* no id, no name, no content, no folder
    MaxRequests,  \* bound on requests
    MaxFaults,    \* bound on crashes and failed calls
    MaxForeign    \* bound on steps of strangers and of the user's files

Kinds   == {"create", "upload", "replace", "rename", "move", "delete"}
Sources == {"none", "file", "staged", "stream"}
Items   == [parent : Values, name : Values, content : Values, etag : Nat]

ASSUME WritesAssumption ==
    /\ Writes # {}
    /\ Writes \subseteq [kind : Kinds, target : Values, name : Values, parent : Values,
                        content : Values, source : Sources]
    /\ \A w \in Writes : w.kind \notin {"create", "upload"} => w.target \in Ids
    /\ \A k \in Strangers :
         /\ k \in [kind : Kinds, target : Values, name : Values, parent : Values,
                   streamed : BOOLEAN, tag : Values]
         /\ k.kind \notin {"create", "upload"} => k.target \in Ids
ASSUME DriveAssumption ==
    Ids \subseteq Values /\ None \in Values \ Ids /\ Start \in [Ids -> Items]
ASSUME BoundsAssumption ==
    MaxRequests \in Nat /\ MaxFaults \in Nat /\ MaxForeign \in Nat

VARIABLES
    rows,      \* cloud_write_operations, by idempotency key
    drive,     \* the items in the cloud
    maker,     \* the key whose call last wrote an item; None: a stranger's
    files,     \* contents of the body files rows refer to, by path
    pc,        \* where the run that holds the store is
    run,       \* its key, etag, whether it made the row (fresh), and how many
               \* disturbances there were before it
    reply,     \* outcome of its Graph call
    boot,      \* is it a recovery pass?
    queue,     \* recovery pass: keys still to go through
    answer,    \* what the last request was answered: key, outcome, number
    requests, faults, foreign

cloudVars == <<drive, maker>>
runVars   == <<pc, run, reply, boot, queue>>
bounds    == <<requests, faults, foreign>>
vars == <<rows, drive, maker, files, pc, run, reply, boot, queue, answer,
          requests, faults, foreign>>

-----------------------------------------------------------------------------
(* CloudWrite::keys: a replace is told apart by its content, a streamed    *)
(* body too; everything else by kind, target, name and destination.        *)
Key(w) == [kind |-> w.kind, target |-> w.target, name |-> w.name,
           parent |-> w.parent, streamed |-> w.source = "stream",
           tag |-> IF w.kind = "replace" \/ w.source = "stream"
                     THEN w.content ELSE None]

Keys == {Key(w) : w \in Writes}

(* Where the body is read from: the user's file, shared by every edit of   *)
(* it, or a staging file of the request that made the row.                 *)
Path(w) == IF w.source = "staged" THEN Key(w) ELSE [Key(w) EXCEPT !.tag = None]

Bodied(w) == w.source \in {"staged", "file"}
Paths == {Path(w) : w \in {v \in Writes : Bodied(v)}}

NoRow == [state |-> "none", result |-> None, etag |-> 0, path |-> None, staged |-> FALSE,
          created |-> 0]

Open(k) == rows[k].state \in {"pending", "inflight"}

(* The UPDATE of a row; an id once recorded is kept (COALESCE).            *)
set_cloud_write_state(k, s, id) ==
    rows' = [rows EXCEPT ![k].state = s, ![k].result = IF id = None THEN @ ELSE id]

(* Fault seeded for pending_cloud_writes: what was never issued is missed. *)
pending_inflight == {k \in Keys : rows[k].state = "inflight"}

pending_cloud_writes == {k \in Keys : Open(k)}

Goto(label) == pc' = label /\ UNCHANGED <<run, boot, queue>>

(* The run of one key is over. A request that staged the body of its row   *)
(* drops the staging file; a recovery pass goes on.                        *)
Finish(out) ==
    /\ pc' = IF boot THEN "next" ELSE "idle"
    /\ answer' = IF boot THEN answer ELSE [key |-> run.key, out |-> out, nr |-> requests]
    /\ files' = IF run.fresh /\ rows[run.key].staged
                  THEN [files EXCEPT ![rows[run.key].path] = None] ELSE files
    /\ UNCHANGED <<run, boot, queue>>

Fault == faults < MaxFaults /\ faults' = faults + 1 /\ UNCHANGED <<requests, foreign>>

-----------------------------------------------------------------------------
(* run_cloud_write, streamed_body_via_ledger: record the intent, or find   *)
(* that it was recorded before. The etag is the one the caller last saw.   *)
Etags(w) == IF w.kind = "replace" THEN 0..drive[w.target].etag ELSE {0}

Ask(w, etag, fresh) ==
    /\ pc = "idle"
    /\ requests < MaxRequests
    /\ w.source = "file" => files[Path(w)] = w.content
    /\ requests' = requests + 1
    /\ run' = [key |-> Key(w), etag |-> etag, fresh |-> fresh, before |-> faults + foreign]
    /\ boot' = FALSE
    /\ reply' = [out |-> "none", id |-> None]
    /\ UNCHANGED <<queue, cloudVars, answer, faults, foreign>>

RequestNew(w, etag) ==
    /\ Ask(w, etag, TRUE)
    /\ rows[Key(w)].state = "none"
    /\ rows' = [rows EXCEPT ![Key(w)] =
         [state |-> "pending", result |-> None, etag |-> etag,
          path |-> IF Bodied(w) THEN Path(w) ELSE None,
          staged |-> w.source = "staged", created |-> requests']]
    /\ files' = IF w.source = "staged" THEN [files EXCEPT ![Path(w)] = w.content]
                                       ELSE files
    /\ pc' = "mark"

(* A known intent is recovered; a streamed one still has its body at hand. *)
RequestKnown(w, etag) ==
    /\ Ask(w, etag, FALSE)
    /\ rows[Key(w)].state # "none"
    /\ pc' = IF w.source = "stream" /\ rows[Key(w)].state \notin {"applied", "conflict"}
               THEN IF w.kind = "upload" THEN "probe" ELSE "mark"
               ELSE "recover"
    /\ UNCHANGED <<rows, files>>

MarkInflight ==
    /\ pc = "mark"
    /\ set_cloud_write_state(run.key, "inflight", None)
    /\ Goto("issue")
    /\ UNCHANGED <<cloudVars, files, reply, answer, bounds>>

-----------------------------------------------------------------------------
(* recover_pending_cloud_writes: the open rows, oldest first.              *)
StartRecovery ==
    /\ pc = "idle"
    /\ pending_cloud_writes # {}
    /\ pc' = "next"
    /\ boot' = TRUE
    /\ queue' = pending_cloud_writes
    /\ UNCHANGED <<rows, cloudVars, files, run, reply, answer, bounds>>

NextPending ==
    /\ pc = "next"
    /\ \E k \in queue :
         /\ \A j \in queue : rows[k].created <= rows[j].created
         /\ run' = [key |-> k, etag |-> 0, fresh |-> FALSE, before |-> faults + foreign]
         /\ queue' = queue \ {k}
    /\ reply' = [out |-> "none", id |-> None]
    /\ pc' = "recover"
    /\ UNCHANGED <<boot, rows, cloudVars, files, answer, bounds>>

RecoveryDone ==
    /\ pc = "next"
    /\ queue = {}
    /\ pc' = "idle"
    /\ UNCHANGED <<run, boot, queue, rows, cloudVars, files, reply, answer, bounds>>

(* recover_cloud_write_op: a settled row is answered; a streamed one waits *)
(* for its caller; create and upload are probed; the rest is sent again.   *)
RecoverSettled ==
    /\ pc = "recover"
    /\ rows[run.key].state \in {"applied", "conflict"}
    /\ Finish(rows[run.key].state)
    /\ UNCHANGED <<rows, cloudVars, reply, bounds>>

RecoverStreamed ==
    /\ pc = "recover"
    /\ rows[run.key].state \notin {"applied", "conflict"}
    /\ run.key.streamed
    /\ Finish("error")
    /\ UNCHANGED <<rows, cloudVars, reply, bounds>>

(* Fault seeded for Recover: settled rows are sent again.                  *)
RecoverAgain ==
    /\ pc = "recover"
    /\ ~run.key.streamed
    /\ run' = [run EXCEPT !.etag = rows[run.key].etag]
    /\ pc' = IF run.key.kind \in {"create", "upload"} THEN "probe" ELSE "issue"
    /\ UNCHANGED <<boot, queue, rows, cloudVars, files, reply, answer, bounds>>

(* Fault seeded for ResendEtag: the guard is not stored with the row.      *)
ResendEtagCurrent(k) == drive[k.target].etag

ResendEtag(k) == rows[k].etag

Recover ==
    /\ pc = "recover"
    /\ rows[run.key].state \notin {"applied", "conflict"}
    /\ ~run.key.streamed
    /\ run' = [run EXCEPT !.etag =
         IF run.key.kind = "replace" THEN ResendEtag(run.key) ELSE 0]
    /\ pc' = IF run.key.kind \in {"create", "upload"} THEN "probe" ELSE "issue"
    /\ UNCHANGED <<boot, queue, rows, cloudVars, files, reply, answer, bounds>>

(* find_child_folder, find_child: a live child with the name (for a create *)
(* a folder, that is an item without content).                             *)
Live(i) == drive[i].parent # None
Children(f, n) == {i \in Ids : drive[i].parent = f /\ drive[i].name = n}
Found(k) == {i \in Children(k.target, k.name) :
               k.kind = "create" => drive[i].content = None}

(* Fault seeded for Probe: a create or upload is repeated blindly.         *)
ProbeSkipped ==
    /\ pc = "probe"
    /\ Goto(IF run.key.streamed THEN "mark" ELSE "issue")
    /\ UNCHANGED <<rows, cloudVars, files, reply, answer, bounds>>

Probe ==
    /\ pc = "probe"
    /\ IF Found(run.key) = {}
         THEN /\ Goto(IF run.key.streamed THEN "mark" ELSE "issue")
              /\ UNCHANGED reply
         ELSE /\ \E i \in Found(run.key) : reply' = [out |-> "applied", id |-> i]
              /\ Goto("settle")
    /\ UNCHANGED <<rows, cloudVars, files, answer, bounds>>

-----------------------------------------------------------------------------
(* The body a call sends: what the recorded file holds now, or the bytes   *)
(* of the streaming caller.                                                *)
Body(k) == IF k.streamed THEN k.tag
           ELSE IF rows[k].path = None THEN None ELSE files[rows[k].path]

NeedsBody(k) == k.kind \in {"upload", "replace"}

(* The error path: the row stays open, unless a recovery pass finds that   *)
(* its body is gone for good (cloud_write_body_source_missing).            *)
Errored ==
    /\ IF boot /\ NeedsBody(run.key) /\ Body(run.key) = None
         THEN set_cloud_write_state(run.key, "failed", None)
         ELSE UNCHANGED rows
    /\ Finish("error")

(* What Graph makes of a call: the drive after it and its outcome.         *)
Taken(f, n, i) == Children(f, n) \ {i} # {}

(* The folder a rename or a move leaves its item in.                       *)
Destination(k) == IF k.kind = "move" /\ k.parent # None THEN k.parent
                                                        ELSE drive[k.target].parent

(* The id of a new item is one never used; nobody looks at which.          *)
Unused == {i \in Ids : drive[i].parent = None /\ drive[i].etag = 0}
Fresh  == {i \in Unused : i = CHOOSE j \in Unused : TRUE}

Effects(k, etag, body) ==
    LET same(out) == {[drive |-> drive, out |-> out, id |-> None]}
        put(i, item) == {[drive |-> [drive EXCEPT ![i] = item], out |-> "applied", id |-> i]}
        old == drive[k.target]
    IN
    CASE k.kind \in {"create", "upload"} ->
           IF Children(k.target, k.name) # {} THEN same("error")
           ELSE UNION {put(i, [parent |-> k.target, name |-> k.name,
                               content |-> body, etag |-> 1]) : i \in Fresh}
      [] k.kind \in {"rename", "move"} ->
           IF ~Live(k.target) \/ Taken(Destination(k), k.name, k.target)
             THEN same("error")
             ELSE put(k.target, [old EXCEPT !.parent = Destination(k), !.name = k.name,
                                            !.etag = @ + 1])
      [] k.kind = "delete" ->
           IF Live(k.target) THEN put(k.target, [old EXCEPT !.parent = None])
                             ELSE same("error")
      [] k.kind = "replace" ->
           IF ~Live(k.target) THEN same("error")
           ELSE IF etag # old.etag THEN same("conflict")
           ELSE put(k.target, [old EXCEPT !.content = body, !.etag = @ + 1])

(* issue: the call takes effect in the cloud.                              *)
Land ==
    /\ pc = "issue"
    /\ NeedsBody(run.key) => Body(run.key) # None
    /\ \E e \in Effects(run.key, run.etag, Body(run.key)) :
         /\ drive' = e.drive
         /\ reply' = [out |-> e.out, id |-> e.id]
         /\ maker' = IF e.out = "applied" /\ run.key.kind \in {"create", "upload", "replace"}
                       THEN [maker EXCEPT ![e.id] = run.key] ELSE maker
    /\ Goto("settle")
    /\ UNCHANGED <<rows, files, answer, bounds>>

(* read_local_body: the recorded file is gone.                             *)
BodyGone ==
    /\ pc = "issue"
    /\ NeedsBody(run.key)
    /\ Body(run.key) = None
    /\ Errored
    /\ UNCHANGED <<cloudVars, reply, bounds>>

(* Fault seeded for Settle: an error is stored like an outcome.            *)
SettleBlindly ==
    /\ pc = "settle"
    /\ set_cloud_write_state(run.key, reply.out, reply.id)
    /\ Finish(reply.out)
    /\ UNCHANGED <<cloudVars, reply, bounds>>

(* The outcome is recorded, with the new id of a create or an upload.      *)
Settle ==
    /\ pc = "settle"
    /\ IF reply.out = "error" THEN Errored
       ELSE /\ set_cloud_write_state(run.key, reply.out,
                 IF run.key.kind \in {"create", "upload", "replace"}
                   THEN reply.id ELSE None)
            /\ Finish(reply.out)
    /\ UNCHANGED <<cloudVars, reply, bounds>>

(* A probe or a call fails, or its answer is lost.                         *)
CallFails ==
    /\ pc \in {"probe", "issue", "settle"}
    /\ Fault
    /\ Errored
    /\ UNCHANGED <<cloudVars, reply>>

Crash ==
    /\ pc # "idle"
    /\ Fault
    /\ pc' = "idle"
    /\ queue' = {}
    /\ UNCHANGED <<run, reply, boot, rows, cloudVars, files, answer>>

-----------------------------------------------------------------------------
(* The others: a client of the drive makes a write of its own; the user    *)
(* edits or deletes a synced file; stale staging files are cleaned up.     *)
Stranger(k) ==
    /\ foreign < MaxForeign
    /\ foreign' = foreign + 1
    /\ \E e \in Effects(k, drive[k.target].etag, k.tag) :
         /\ e.out = "applied"
         /\ drive' = e.drive
         /\ maker' = [maker EXCEPT ![e.id] = None]
    /\ UNCHANGED <<rows, files, runVars, answer, requests, faults>>

ChangeFile(p, c) ==
    /\ foreign < MaxForeign
    /\ foreign' = foreign + 1
    /\ files[p] # c
    /\ \A k \in Keys : rows[k].staged /\ rows[k].path = p => pc = "idle" /\ c = None
    /\ files' = [files EXCEPT ![p] = c]
    /\ UNCHANGED <<rows, cloudVars, runVars, answer, requests, faults>>

(* What a file may be changed to: a content some write carries, or gone.   *)
FileChanges ==
    \E w \in {v \in Writes : Bodied(v)} :
      \E c \in {None} \cup (IF w.source = "file" THEN {w.content} ELSE {}) :
        ChangeFile(Path(w), c)

-----------------------------------------------------------------------------
Init ==
    /\ rows = [k \in Keys |-> NoRow]
    /\ drive = Start
    /\ maker = [i \in Ids |-> None]
    /\ files = [p \in Paths |->
         IF \E w \in Writes : w.source = "file" /\ Path(w) = p
           THEN (CHOOSE w \in Writes : w.source = "file" /\ Path(w) = p).content
           ELSE None]
    /\ pc = "idle"
    /\ run = [key |-> CHOOSE k \in Keys : TRUE, etag |-> 0, fresh |-> FALSE, before |-> 0]
    /\ reply = [out |-> "none", id |-> None]
    /\ boot = FALSE
    /\ queue = {}
    /\ answer = [key |-> None, out |-> "none", nr |-> 0]
    /\ requests = 0
    /\ faults = 0
    /\ foreign = 0

Work ==
    \/ MarkInflight \/ NextPending \/ RecoveryDone
    \/ RecoverSettled \/ RecoverStreamed \/ Recover \/ Probe
    \/ Land \/ BodyGone \/ Settle

Request(w) == \E etag \in Etags(w) : RequestNew(w, etag) \/ RequestKnown(w, etag)

Next ==
    \/ \E w \in Writes : Request(w)
    \/ StartRecovery
    \/ Work
    \/ CallFails \/ Crash
    \/ \E k \in Strangers : Stranger(k)
    \/ FileChanges

Spec == Init /\ [][Next]_vars

(* Recovery passes are started for ever (daemon start, offline pass).      *)
FairSpec == Spec /\ WF_vars(Work) /\ WF_vars(StartRecovery)

-----------------------------------------------------------------------------
States == {"none", "pending", "inflight", "applied", "failed", "conflict"}

Rows == [state : States, result : Ids \cup {None}, etag : Nat, path : Paths \cup {None},
         staged : BOOLEAN, created : 0 .. MaxRequests]

(* Every variable has its type; rows are told apart by when they were made.*)
TypeOK ==
    /\ rows \in [Keys -> Rows]
    /\ \A k \in Keys : rows[k].created = 0 <=> rows[k].state = "none"
    /\ \A j, k \in Keys : rows[j].created = rows[k].created => j = k \/ rows[k].created = 0
    /\ drive \in [Ids -> Items] /\ maker \in [Ids -> Keys \cup {None}]
    /\ files \in [Paths -> Values]
    /\ pc \in {"idle", "mark", "issue", "next", "recover", "probe", "settle"}
    /\ run \in [key : Keys, etag : Nat, fresh : BOOLEAN, before : Nat]
    /\ reply \in [out : {"none", "applied", "conflict", "error"}, id : Ids \cup {None}]
    /\ boot \in BOOLEAN /\ queue \subseteq Keys
    /\ requests \in 0 .. MaxRequests /\ faults \in 0 .. MaxFaults
    /\ foreign \in 0 .. MaxForeign

(* A settled row never changes again, so a request repeated after the      *)
(* write was applied causes no second effect.                              *)
SettledIsFinal ==
    [][\A k \in Keys :
         rows[k].state \in {"applied", "conflict"} => rows'[k] = rows[k]]_vars

(* Content is only overwritten by a replace whose caller had seen that     *)
(* version ("never a blind overwrite"), however late it is replayed.       *)
NoBlindOverwrite ==
    [][pc = "issue" /\ pc' = "settle" /\ reply'.out = "applied"
         /\ run.key.kind = "replace" /\ ~run.key.streamed
       => drive[run.key.target].etag = rows[run.key].etag]_vars

(* Nothing came in the way of the request since it was made. *)
Undisturbed == faults + foreign = run.before

(* "Leave it recoverable": a create, or an upload without a staged body,   *)
(* first or repeated, that nothing disturbs is not answered with an error  *)
(* unless an item of somebody else has its name: what an interrupted one   *)
(* left in the drive is not in its own way.                                *)
NameHeld(k) == \E i \in Children(k.target, k.name) : maker[i] # k

CreateRetrySucceeds ==
    [][answer' # answer /\ answer'.out = "error"
         /\ run.key.kind \in {"create", "upload"} /\ ~rows[run.key].staged
       => ~Undisturbed' \/ NameHeld(run.key)]_vars

(* A request answered with success has its effect in the drive: the item   *)
(* is there, has its name, is gone, or holds the content.                  *)
Effective(k) ==
    CASE k.kind \in {"create", "upload"} -> Children(k.target, k.name) # {}
      [] k.kind \in {"rename", "move"}   -> drive[k.target].name = k.name
      [] k.kind = "delete"               -> ~Live(k.target)
      [] k.kind = "replace"              -> drive[k.target].content = k.tag

AppliedTakesEffect ==
    [][answer' # answer => (answer.out = "applied" => Effective(answer.key))']_vars

(* What the drive refuses however often it is sent: the item is gone       *)
(* (404), or the name is taken by another one (409; a create takes a       *)
(* folder of the name for its own).                                        *)
Gone(k) == k.kind \notin {"create", "upload"} /\ ~Live(k.target)

Refused(k) ==
    \/ Gone(k)
    \/ k.kind = "create" /\ Children(k.target, k.name) # {} /\ Found(k) = {}
    \/ k.kind \in {"rename", "move"} /\ Taken(Destination(k), k.name, k.target)

(* Recovery passes take every open row to an end, whatever other rows they *)
(* fail on, except a streamed one, which only its caller can send again,   *)
(* and one the drive refuses: that is tried again by every pass until the  *)
(* drive has changed.                                                      *)
WritesSettle ==
    \A k \in Keys : Open(k) /\ ~k.streamed ~> ~Open(k) \/ Refused(k)
=============================================================================
