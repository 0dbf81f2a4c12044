----------------------------- MODULE OneDriveSync -----------------------------
(***************************************************************************)
(* The bidirectional OneDrive pass: sync_once of crates/engine over the    *)
(* connector crates/connectors/src/onedrive.rs and the items table of      *)
(* crates/store. The daemon runs it for ever (sync_loop); a pass holds the *)
(* gate and the store's lock, so there is one pass at a time. The user     *)
(* edits the sync root and other clients edit the drive meanwhile.         *)
(*                                                                         *)
(* One step is one Graph call, one change of a file or one write of the    *)
(* store (two where a crash between them changes nothing that is told      *)
(* apart). The files are those of one folder. Every version a user or a    *)
(* client writes is new content, 1, 2, ...; it has a size, and its time is *)
(* told from every other time: an edit within the second of the version it *)
(* replaces that keeps its size is not modelled.                           *)
(***************************************************************************)
EXTENDS Naturals, FiniteSets, FiniteSetsExt

CONSTANTS
    Ids,            \* drive item ids, numbers handed out in order, as many as there are
    CloudNames,     \* names other clients create files under
    LocalNames,     \* names the user creates files under
    Size,           \* size of each version
    Nil,            \* no item, no row, no file, no reference
    UserAt,         \* points of the pass at which the user may act
    CloudAt,        \* points of the pass at which other clients may write
    ReuseNames,     \* may a name be used again once its file was deleted?
    Flaky,          \* may the download of an existing item fail?
    max_absolute, max_percent, fraction_min_total,   \* the delete guard
    MaxWrites,      \* bound on versions written by user and clients
    MaxDeletes,     \* bound on deletions by the user, and on those by clients
    MaxFaults,      \* bound on crashes, failed calls and lost answers
    MaxCopies       \* bound on conflict copies of a name at a time


VARIABLES
    cloud,    \* the drive: name, version and time of each item
    bin,      \* the drive's recycle bin: what an item held, and who deleted it
    items,    \* the store's rows: state, metadata and last-synced reference
    disk,     \* the files under the sync root: version and mtime
    trash,    \* version last moved to a path under the trash root
    news,     \* ids changed in the cloud since the saved delta cursor
    later,    \* ids changed since the delta of this pass was fetched
    pc,       \* where the pass is
    batch,    \* delta items still to be ingested
    todo,     \* ids or paths the present phase has still to handle
    cur,      \* the one it is at: id and path
    data,     \* bytes it has downloaded or read, with the time they go with
    owed,     \* versions nobody but the sync could have taken away
    removed,  \* paths whose file the user deleted
    writes, deletes, faults

passVars == <<pc, batch, todo, cur, data>>
vars == <<cloud, bin, items, disk, trash, news, later, pc, batch, todo, cur,
          data, owed, removed, writes, deletes, faults>>

Versions == 1 .. MaxWrites
Names    == CloudNames \cup LocalNames
Paths    == Names \X (0 .. MaxCopies)
Times    == Versions \X {"user", "disk", "cloud"}
Files    == [c : Versions, at : Times]
Refs     == [size : {Size[c] : c \in Versions}, at : Times, c : Versions]
Items    == [path : Paths, c : Versions, at : Times]
Deleted  == [path : Paths, c : Versions, by : {"sync", "client"}]
Rows     == [st : {"clean", "remote_dirty", "deleted"}, path : Paths,
             c : Versions, at : Times, ref : {Nil} \cup Refs]

ASSUME IdsAssumption == Ids \subseteq Nat \ {0}
ASSUME NilAssumption == Nil \notin Files \cup Items \cup Deleted \cup Rows \cup Refs
ASSUME BoundsAssumption == {MaxWrites, MaxDeletes, MaxFaults, MaxCopies} \subseteq Nat

Points == {"idle", "ingest", "materialize", "download", "place", "mark", "ref",
           "trash", "create", "stamp", "createref", "modify", "restamp",
           "modifyref", "aside", "delete"}

NoBatch  == [i \in {} |-> Nil]
Nowhere  == [id |-> Nil, path |-> Nil]

(* Every variable has its type; what a pass has still to handle is of the  *)
(* kind its phase handles.                                                 *)
TypeOK ==
    /\ cloud \in [Ids -> {Nil} \cup Items] /\ bin \in [Ids -> {Nil} \cup Deleted]
    /\ items \in [Ids -> {Nil} \cup Rows]
    /\ disk \in [Paths -> {Nil} \cup Files]
    /\ trash \in [Paths -> {Nil} \cup Versions]
    /\ news \subseteq Ids /\ later \subseteq news
    /\ pc \in Points
    /\ DOMAIN batch \subseteq news
    /\ todo \subseteq IF pc \in {"create", "stamp", "createref"} THEN Paths ELSE Ids
    /\ cur \in {Nowhere} \cup [id : Ids, path : Paths]
    /\ data \in {Nil} \cup Files
    /\ owed \subseteq Versions /\ removed \subseteq Paths
    /\ writes \in 0 .. MaxWrites /\ deletes \in [{"user", "client"} -> 0 .. MaxDeletes]
    /\ faults \in 0 .. MaxFaults

Init ==
    /\ cloud = [i \in Ids |-> Nil] /\ bin = [i \in Ids |-> Nil]
    /\ items = [i \in Ids |-> Nil]
    /\ disk = [p \in Paths |-> Nil] /\ trash = [p \in Paths |-> Nil]
    /\ news = {} /\ later = {}
    /\ pc = "idle" /\ batch = NoBatch /\ todo = {} /\ cur = Nowhere /\ data = Nil
    /\ owed = {} /\ removed = {}
    /\ writes = 0 /\ deletes = [w \in {"user", "client"} |-> 0] /\ faults = 0

-----------------------------------------------------------------------------
(* The store. A row is never removed: a tombstone keeps its path.          *)

Live(i)    == items[i] # Nil /\ items[i].st # "deleted"
Tombstones == {i \in Ids : items[i] # Nil /\ items[i].st = "deleted"}
Path(i)    == items[i].path

(* ingest_item of an item that is there: the columns of the last-synced    *)
(* reference are not among those an upsert writes.                         *)
upsert_item(i, x, st) ==
    [items EXCEPT ![i] = [st |-> st, path |-> x.path, c |-> x.c, at |-> x.at,
                          ref |-> IF items[i] = Nil THEN Nil ELSE items[i].ref]]

(* Fault seeded for mark_deleted: the tombstone of an unknown item makes a *)
(* row.                                                                    *)
mark_deleted_inserting(i) ==
    IF items[i] = Nil THEN [items EXCEPT ![i] = [st |-> "deleted"]]
    ELSE [items EXCEPT ![i].st = "deleted"]

mark_deleted(i) ==
    IF items[i] = Nil THEN items ELSE [items EXCEPT ![i].st = "deleted"]

set_sync_state(rows, i, st) == [rows EXCEPT ![i].st = st]

(* Size and mtime are those the file has now, the hash is that of the      *)
(* bytes handled; without a file nothing is recorded.                      *)
record_synced_state(rows, i, p, c) ==
    IF disk[p] = Nil THEN rows
    ELSE [rows EXCEPT ![i].ref = [size |-> Size[disk[p].c], at |-> disk[p].at, c |-> c]]

count_by_service == Cardinality({i \in Ids : items[i] # Nil})

-----------------------------------------------------------------------------
(* What the connector tells of a file.                                     *)

local_file_matches(p, i) ==
    /\ disk[p] # Nil
    /\ Size[disk[p].c] = Size[items[i].c]
    /\ disk[p].at = items[i].at

local_file_matches_synced_remote(i) ==
    /\ local_file_matches(Path(i), i)
    /\ items[i].ref # Nil
    /\ items[i].ref.c = items[i].c

(* Fault seeded for locally_edited_since_sync: only the size is compared.  *)
locally_edited_by_size(i) ==
    /\ items[i].ref # Nil /\ disk[Path(i)] # Nil
    /\ Size[disk[Path(i)].c] # items[i].ref.size

(* Size, then mtime, then hash, against the reference.                     *)
locally_edited_since_sync(i) ==
    LET f == disk[Path(i)]
        r == items[i].ref
    IN  /\ r # Nil
        /\ f # Nil
        /\ \/ Size[f.c] # r.size
           \/ f.at # r.at /\ f.c # r.c

(* The same ladder against the row's own metadata.                         *)
is_local_modified(i) ==
    LET p == Path(i)
    IN  /\ disk[p] # Nil
        /\ ~local_file_matches(p, i)
        /\ Size[disk[p].c] # Size[items[i].c] \/ disk[p].c # items[i].c

(* A name no file has; the copies of a copy continue the numbers.          *)
FreeCopies(p) == {k \in 1 .. MaxCopies : disk[<<p[1], k>>] = Nil}
unique_conflict_copy(p) == <<p[1], Min(FreeCopies(p))>>

MoveAside(p) ==
    /\ FreeCopies(p) # {}
    /\ disk' = [disk EXCEPT ![unique_conflict_copy(p)] = disk[p], ![p] = Nil]

(* The mass-delete guard lets a batch of deletions through, or none.       *)
Blocked(destructive, total_tracked) ==
    /\ destructive > 0
    /\ \/ destructive >= max_absolute
       \/ /\ total_tracked >= fraction_min_total
          /\ destructive * 100 >= max_percent * total_tracked

evaluate(batch_of, total_tracked) ==
    IF Blocked(Cardinality(batch_of), total_tracked) THEN {} ELSE batch_of

pending_local_deletes == {i \in Tombstones : disk[Path(i)] # Nil}

scan_local_creates ==
    {p \in Paths : disk[p] # Nil /\ \A i \in Ids : Live(i) => Path(i) # p}

scan_local_modifies == {i \in Ids : Live(i) /\ is_local_modified(i)}

(* Fault seeded for scan_local_deletes: rows not yet downloaded count too. *)
scan_missing_files == {i \in Ids : Live(i) /\ disk[Path(i)] = Nil}

scan_local_deletes ==
    {i \in Ids : Live(i) /\ items[i].st = "clean" /\ disk[Path(i)] = Nil}

-----------------------------------------------------------------------------
(* The drive. Every change of an item is news to the delta feed.           *)

Changed(i) ==
    /\ news' = news \cup {i}
    /\ later' = IF pc = "ingest" THEN later \cup {i} ELSE {}

Etag(x) == <<x.c, x.at>>

Unused    == {i \in Ids : cloud[i] = Nil /\ bin[i] = Nil}
Holder(p) == {i \in Ids : cloud[i] # Nil /\ cloud[i].path = p}

(* A PUT by path replaces the item that has the path, or makes one.        *)
PutTarget(p) == IF Holder(p) # {} THEN CHOOSE i \in Holder(p) : TRUE ELSE Min(Unused)

IdLeft(p) == Holder(p) # {} \/ Unused # {}

Put(i, p, c) ==
    /\ cloud' = [cloud EXCEPT ![i] = [path |-> p, c |-> c, at |-> <<c, "cloud">>]]
    /\ Changed(i)

set_mtime(i, at) ==
    /\ cloud' = [cloud EXCEPT ![i].at = at]
    /\ Changed(i)

DeleteItem(i, who) ==
    /\ cloud' = [cloud EXCEPT ![i] = Nil]
    /\ bin' = [bin EXCEPT ![i] = [path |-> cloud[i].path, c |-> cloud[i].c, by |-> who]]
    /\ Changed(i)

-----------------------------------------------------------------------------
(* The pass. An error of a call marked ? in the code ends it; the store    *)
(* and the files keep what was done.                                       *)

Stop ==
    /\ pc' = "idle" /\ batch' = NoBatch /\ todo' = {} /\ cur' = Nowhere /\ data' = Nil

Goto(point, rest) ==
    /\ pc' = point /\ todo' = rest /\ cur' = Nowhere /\ data' = Nil
    /\ UNCHANGED batch

Handle(point, rest, i, p, bytes) ==
    /\ pc' = point /\ todo' = rest
    /\ cur' = [id |-> i, path |-> p] /\ data' = bytes
    /\ UNCHANGED batch

Advance(point) == pc' = point /\ UNCHANGED <<batch, todo, cur, data>>

Fault == faults < MaxFaults /\ faults' = faults + 1

envVars   == <<owed, removed, writes, deletes>>
cloudVars == <<cloud, bin, news, later>>
fileVars  == <<disk, trash>>

(* Fault seeded for Fetch: the new cursor is saved before its items are    *)
(* ingested.                                                               *)
FetchSavesCursor ==
    /\ pc = "idle"
    /\ pc' = "ingest" /\ batch' = [i \in news |-> cloud[i]] /\ later' = {} /\ news' = {}
    /\ UNCHANGED <<cloud, bin, items, fileVars, todo, cur, data, envVars, faults>>

(* incremental_sync: run_delta from the saved cursor. *)
Fetch ==
    /\ pc = "idle"
    /\ pc' = "ingest" /\ batch' = [i \in news |-> cloud[i]] /\ later' = {}
    /\ UNCHANGED <<cloud, bin, news, items, fileVars, todo, cur, data, envVars, faults>>

ingest_item(i) ==
    /\ pc = "ingest" /\ i \in DOMAIN batch
    /\ items' = IF batch[i] = Nil THEN mark_deleted(i)
                ELSE upsert_item(i, batch[i], "remote_dirty")
    /\ batch' = [j \in DOMAIN batch \ {i} |-> batch[j]]
    /\ UNCHANGED <<cloudVars, fileVars, pc, todo, cur, data, envVars, faults>>

(* The cursor is saved once every item is ingested; then materialize_      *)
(* downloads lists the rows that are remote_dirty.                         *)
set_delta_cursor ==
    /\ pc = "ingest" /\ batch = NoBatch
    /\ news' = later /\ later' = {}
    /\ Goto("materialize", {i \in Ids : items[i] # Nil /\ items[i].st = "remote_dirty"})
    /\ UNCHANGED <<cloud, bin, items, fileVars, envVars, faults>>

SkipDownload(i) ==
    /\ pc = "materialize" /\ i \in todo
    /\ local_file_matches_synced_remote(i)
    /\ items' = record_synced_state(set_sync_state(items, i, "clean"), i, Path(i), items[i].c)
    /\ Goto("materialize", todo \ {i})
    /\ UNCHANGED <<cloudVars, fileVars, envVars, faults>>

(* Keep both: a file edited since the last sync is moved out of the way.   *)
BeginDownload(i) ==
    /\ pc = "materialize" /\ i \in todo
    /\ ~local_file_matches_synced_remote(i)
    /\ IF locally_edited_since_sync(i) THEN MoveAside(Path(i)) ELSE UNCHANGED disk
    /\ Handle("download", todo \ {i}, i, Path(i), Nil)
    /\ UNCHANGED <<cloudVars, items, trash, envVars, faults>>

(* The bytes are those the item has now, which may be newer than the row.  *)
Download ==
    /\ pc = "download" /\ cloud[cur.id] # Nil
    /\ pc' = "place" /\ data' = [c |-> cloud[cur.id].c, at |-> items[cur.id].at]
    /\ UNCHANGED <<cloudVars, items, fileVars, batch, todo, cur, envVars, faults>>

DownloadFails ==
    /\ pc = "download"
    /\ cloud[cur.id] # Nil => Flaky /\ faults < MaxFaults
    /\ faults' = IF cloud[cur.id] = Nil THEN faults ELSE faults + 1
    /\ Goto("materialize", todo)
    /\ UNCHANGED <<cloudVars, items, fileVars, envVars>>

atomic_write ==
    /\ pc = "place"
    /\ disk' = [disk EXCEPT ![cur.path] = [c |-> data.c, at |-> <<data.c, "disk">>]]
    /\ Advance("mark")
    /\ UNCHANGED <<cloudVars, items, trash, envVars, faults>>

(* set_file_mtime, then set_sync_state.                                    *)
MarkClean ==
    /\ pc = "mark"
    /\ disk' = IF disk[cur.path] = Nil THEN disk
               ELSE [disk EXCEPT ![cur.path].at = data.at]
    /\ items' = set_sync_state(items, cur.id, "clean")
    /\ Advance("ref")
    /\ UNCHANGED <<cloudVars, trash, envVars, faults>>

(* record_synced_state at the end of a download, a create, a modify.       *)
RecordSynced ==
    /\ pc \in {"ref", "createref", "modifyref"}
    /\ items' = record_synced_state(items, cur.id, cur.path, data.c)
    /\ Goto(CASE pc = "ref" -> "materialize" [] pc = "createref" -> "create"
              [] OTHER -> "modify", todo)
    /\ UNCHANGED <<cloudVars, fileVars, envVars, faults>>

(* Remote deletions, guarded against all rows and those about to go.       *)
BeginTrash ==
    /\ pc = "materialize" /\ todo = {}
    /\ Goto("trash", evaluate(pending_local_deletes,
                       count_by_service + Cardinality(pending_local_deletes)))
    /\ UNCHANGED <<cloudVars, items, fileVars, envVars, faults>>

apply_local_deletes(i) ==
    /\ pc = "trash" /\ i \in todo
    /\ IF disk[Path(i)] = Nil THEN UNCHANGED fileVars
       ELSE /\ trash' = [trash EXCEPT ![Path(i)] = disk[Path(i)].c]
            /\ disk' = [disk EXCEPT ![Path(i)] = Nil]
    /\ Goto("trash", todo \ {i})
    /\ UNCHANGED <<cloudVars, items, envVars, faults>>

BeginCreates ==
    /\ pc = "trash" /\ todo = {}
    /\ Goto("create", scan_local_creates)
    /\ UNCHANGED <<cloudVars, items, fileVars, envVars, faults>>

(* push_local_creates: the file and its mtime are read, the bytes are PUT  *)
(* at the path; a file that is gone ends the pass.                         *)
Upload(p) ==
    /\ pc = "create" /\ p \in todo /\ disk[p] # Nil /\ IdLeft(p)
    /\ Put(PutTarget(p), p, disk[p].c)
    /\ Handle("stamp", todo \ {p}, PutTarget(p), p, disk[p])
    /\ UNCHANGED <<bin, items, fileVars, envVars, faults>>

UploadLost(p) ==
    /\ pc = "create" /\ p \in todo /\ disk[p] # Nil /\ IdLeft(p)
    /\ Put(PutTarget(p), p, disk[p].c)
    /\ Stop /\ Fault
    /\ UNCHANGED <<bin, items, fileVars, envVars>>

CreateVanished(p) ==
    /\ pc = "create" /\ p \in todo /\ disk[p] = Nil
    /\ Stop
    /\ UNCHANGED <<cloudVars, items, fileVars, envVars, faults>>

(* set_mtime, whose answer is ingested as the uploaded item.               *)
StampUpload ==
    /\ pc = "stamp" /\ cloud[cur.id] # Nil
    /\ set_mtime(cur.id, data.at)
    /\ items' = upsert_item(cur.id, cloud'[cur.id], "clean")
    /\ Advance("createref")
    /\ UNCHANGED <<bin, fileVars, envVars, faults>>

StampLost ==
    /\ pc = "stamp" /\ cloud[cur.id] # Nil
    /\ set_mtime(cur.id, data.at)
    /\ Stop /\ Fault
    /\ UNCHANGED <<bin, items, fileVars, envVars>>

StampVanished ==
    /\ pc = "stamp" /\ cloud[cur.id] = Nil
    /\ Stop
    /\ UNCHANGED <<cloudVars, items, fileVars, envVars, faults>>

BeginModifies ==
    /\ pc = "create" /\ todo = {}
    /\ Goto("modify", scan_local_modifies)
    /\ UNCHANGED <<cloudVars, items, fileVars, envVars, faults>>

(* apply_local_modifies: If-Match with the row's etag.                     *)
Replaces(i) == cloud[i] # Nil /\ Etag(cloud[i]) = Etag(items[i])

Replace(i) ==
    /\ pc = "modify" /\ i \in todo /\ disk[Path(i)] # Nil /\ Replaces(i)
    /\ Put(i, cloud[i].path, disk[Path(i)].c)
    /\ Handle("restamp", todo \ {i}, i, Path(i), disk[Path(i)])
    /\ UNCHANGED <<bin, items, fileVars, envVars, faults>>

ReplaceLost(i) ==
    /\ pc = "modify" /\ i \in todo /\ disk[Path(i)] # Nil /\ Replaces(i)
    /\ Put(i, cloud[i].path, disk[Path(i)].c)
    /\ Goto("modify", todo \ {i}) /\ Fault
    /\ UNCHANGED <<bin, items, fileVars, envVars>>

ReplaceFails(i) ==
    /\ pc = "modify" /\ i \in todo /\ disk[Path(i)] # Nil
    /\ Goto("modify", todo \ {i}) /\ Fault
    /\ UNCHANGED <<cloudVars, items, fileVars, envVars>>

(* The file or the item is gone: counted as failed.                        *)
ReplaceSkipped(i) ==
    /\ pc = "modify" /\ i \in todo
    /\ disk[Path(i)] = Nil \/ cloud[i] = Nil
    /\ Goto("modify", todo \ {i})
    /\ UNCHANGED <<cloudVars, items, fileVars, envVars, faults>>

(* 412: the edit is moved aside and the row is remote_dirty again.         *)
Conflict(i) ==
    /\ pc = "modify" /\ i \in todo /\ disk[Path(i)] # Nil
    /\ cloud[i] # Nil /\ ~Replaces(i)
    /\ MoveAside(Path(i))
    /\ Handle("aside", todo \ {i}, i, Path(i), Nil)
    /\ UNCHANGED <<cloudVars, items, trash, envVars, faults>>

MarkConflict ==
    /\ pc = "aside"
    /\ items' = set_sync_state(items, cur.id, "remote_dirty")
    /\ Goto("modify", todo)
    /\ UNCHANGED <<cloudVars, fileVars, envVars, faults>>

(* set_mtime with the file's mtime of now; if it fails, the answer of the  *)
(* replace is ingested instead.                                            *)
Restamp ==
    /\ pc = "restamp" /\ disk[cur.path] # Nil /\ cloud[cur.id] # Nil
    /\ set_mtime(cur.id, disk[cur.path].at)
    /\ items' = upsert_item(cur.id, cloud'[cur.id], "clean")
    /\ Advance("modifyref")
    /\ UNCHANGED <<bin, fileVars, envVars, faults>>

Replaced == [path |-> cur.path, c |-> data.c, at |-> <<data.c, "cloud">>]

RestampLost ==
    /\ pc = "restamp" /\ disk[cur.path] # Nil /\ cloud[cur.id] # Nil
    /\ set_mtime(cur.id, disk[cur.path].at)
    /\ items' = upsert_item(cur.id, Replaced, "clean")
    /\ Advance("modifyref") /\ Fault
    /\ UNCHANGED <<bin, fileVars, envVars>>

RestampFails ==
    /\ pc = "restamp"
    /\ disk[cur.path] # Nil /\ cloud[cur.id] # Nil => faults < MaxFaults
    /\ faults' = IF disk[cur.path] = Nil \/ cloud[cur.id] = Nil THEN faults ELSE faults + 1
    /\ items' = upsert_item(cur.id, Replaced, "clean")
    /\ Advance("modifyref")
    /\ UNCHANGED <<cloudVars, fileVars, envVars>>

BeginDeletes ==
    /\ pc = "modify" /\ todo = {}
    /\ Goto("delete", evaluate(scan_local_deletes, count_by_service))
    /\ UNCHANGED <<cloudVars, items, fileVars, envVars, faults>>

(* push_delete: the item is deleted whatever it holds, then tombstoned; an *)
(* item that is already gone is an error.                                  *)
push_delete(i) ==
    /\ pc = "delete" /\ i \in todo /\ cloud[i] # Nil
    /\ DeleteItem(i, "sync")
    /\ items' = mark_deleted(i)
    /\ Goto("delete", todo \ {i})
    /\ UNCHANGED <<fileVars, envVars, faults>>

DeleteLost(i) ==
    /\ pc = "delete" /\ i \in todo /\ cloud[i] # Nil
    /\ DeleteItem(i, "sync")
    /\ Stop /\ Fault
    /\ UNCHANGED <<items, fileVars, envVars>>

DeleteVanished(i) ==
    /\ pc = "delete" /\ i \in todo /\ cloud[i] = Nil
    /\ Stop
    /\ UNCHANGED <<cloudVars, items, fileVars, envVars, faults>>

EndPass ==
    /\ pc = "delete" /\ todo = {}
    /\ Stop
    /\ UNCHANGED <<cloudVars, items, fileVars, envVars, faults>>

(* The daemon dies, or a call fails without effect where that ends a pass. *)
Crash ==
    /\ pc # "idle"
    /\ Stop /\ Fault
    /\ later' = {}
    /\ UNCHANGED <<cloud, bin, news, items, fileVars, envVars>>

-----------------------------------------------------------------------------
(* The user and the other clients.                                         *)

NewVersion(old) ==
    /\ writes < MaxWrites /\ writes' = writes + 1
    /\ owed' = (owed \ old) \cup {writes + 1}

CountDelete(who) ==
    deletes[who] < MaxDeletes /\ deletes' = [deletes EXCEPT ![who] = @ + 1]

NeverUsed(p) ==
    /\ \A i \in Ids : /\ items[i] # Nil => Path(i) # p
                      /\ bin[i] # Nil => bin[i].path # p
    /\ Holder(p) = {}

UserWrites(p) ==
    /\ pc \in UserAt
    /\ disk[p] = Nil => p[1] \in LocalNames /\ p[2] = 0 /\ (ReuseNames \/ NeverUsed(p))
    /\ NewVersion(IF disk[p] = Nil THEN {} ELSE {disk[p].c})
    /\ disk' = [disk EXCEPT ![p] = [c |-> writes + 1, at |-> <<writes + 1, "user">>]]
    /\ removed' = removed \ {p}
    /\ UNCHANGED <<cloudVars, items, trash, passVars, deletes, faults>>

UserDeletes(p) ==
    /\ pc \in UserAt /\ disk[p] # Nil
    /\ CountDelete("user")
    /\ disk' = [disk EXCEPT ![p] = Nil]
    /\ owed' = owed \ {disk[p].c}
    /\ removed' = removed \cup {p}
    /\ UNCHANGED <<cloudVars, items, trash, passVars, writes, faults>>

CloudItem(p) == [path |-> p, c |-> writes + 1, at |-> <<writes + 1, "user">>]

CloudCreates(n) ==
    /\ pc \in CloudAt
    /\ Holder(<<n, 0>>) = {} /\ Unused # {} /\ (ReuseNames \/ NeverUsed(<<n, 0>>))
    /\ NewVersion({})
    /\ cloud' = [cloud EXCEPT ![Min(Unused)] = CloudItem(<<n, 0>>)]
    /\ Changed(Min(Unused))
    /\ UNCHANGED <<bin, items, fileVars, passVars, removed, deletes, faults>>

CloudWrites(i) ==
    /\ pc \in CloudAt /\ cloud[i] # Nil
    /\ NewVersion({cloud[i].c})
    /\ cloud' = [cloud EXCEPT ![i] = CloudItem(cloud[i].path)]
    /\ Changed(i)
    /\ UNCHANGED <<bin, items, fileVars, passVars, removed, deletes, faults>>

CloudDeletes(i) ==
    /\ cloud[i] # Nil
    /\ CountDelete("client")
    /\ DeleteItem(i, "client")
    /\ owed' = owed \ {cloud[i].c}
    /\ UNCHANGED <<items, fileVars, passVars, removed, writes, faults>>

-----------------------------------------------------------------------------
Pass ==
    \/ Fetch \/ set_delta_cursor
    \/ Download \/ atomic_write \/ MarkClean \/ RecordSynced
    \/ BeginTrash \/ BeginCreates \/ BeginModifies \/ BeginDeletes \/ EndPass
    \/ StampUpload \/ StampVanished \/ MarkConflict \/ Restamp
    \/ \E i \in Ids : \/ ingest_item(i) \/ SkipDownload(i) \/ BeginDownload(i)
                      \/ apply_local_deletes(i)
                      \/ Replace(i) \/ ReplaceSkipped(i) \/ Conflict(i)
                      \/ push_delete(i) \/ DeleteVanished(i)
    \/ \E p \in Paths : Upload(p) \/ CreateVanished(p)

Faults ==
    \/ Crash \/ StampLost \/ RestampLost
    \/ \E i \in Ids : ReplaceLost(i) \/ ReplaceFails(i) \/ DeleteLost(i)
    \/ \E p \in Paths : UploadLost(p)

Others ==
    \/ \E p \in Paths : UserWrites(p) \/ UserDeletes(p)
    \/ \E n \in CloudNames : CloudCreates(n)
    \/ \E i \in Ids : CloudWrites(i) \/ CloudDeletes(i)

Next == Pass \/ DownloadFails \/ RestampFails \/ Faults \/ Others

Spec == Init /\ [][Next]_vars

(* The daemon's loop runs pass after pass, and a pass that neither crashes *)
(* nor loses its network goes on. A download of an item that is gone and a *)
(* time stamp that cannot be set come to an end too, with an error.        *)
FairSpec == Spec /\ WF_vars(Pass \/ DownloadFails \/ RestampFails)

-----------------------------------------------------------------------------
(* Where a version can still be found. *)
Kept(c) ==
    \/ \E p \in Paths : (disk[p] # Nil /\ disk[p].c = c) \/ trash[p] = c
    \/ \E i \in Ids : (cloud[i] # Nil /\ cloud[i].c = c) \/ (bin[i] # Nil /\ bin[i].c = c)

(* Never silently overwrite: a version that neither its user nor a client  *)
(* replaced or deleted stays somewhere: on disk, in the trash, in the      *)
(* drive or in its recycle bin. The one exception the code makes is the    *)
(* plain overwrite of a file whose row has no last-synced reference.       *)
EditsSurvive ==
    [][\A c \in owed' :
         Kept(c) /\ ~(pc = "place" /\ items[cur.id].ref = Nil) => Kept(c)']_vars

(* scan_local_deletes takes a missing file for the user's deletion: what a *)
(* pass deletes from the drive is a file the user did delete.              *)
CloudDeleteIsUsers ==
    [][\A i \in Ids : bin[i] = Nil /\ bin'[i] # Nil /\ bin'[i].by = "sync"
                        => bin'[i].path \in removed]_vars

(* Drive and disk hold the same files with the same content. *)
InSync ==
    /\ \A i \in Ids : cloud[i] # Nil =>
          disk[cloud[i].path] # Nil /\ disk[cloud[i].path].c = cloud[i].c
    /\ \A p \in Paths : disk[p] # Nil => Holder(p) # {}

Held ==
    \/ Blocked(Cardinality(pending_local_deletes),
               count_by_service + Cardinality(pending_local_deletes))
    \/ Blocked(Cardinality(scan_local_deletes), count_by_service)

(* Once users, clients and faults come to rest, passes bring both sides    *)
(* together and leave them alone, unless the guard holds deletions back.   *)
Converges == <>[](InSync \/ Held)

=============================================================================
