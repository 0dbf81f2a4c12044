-------------------------- MODULE OneDriveSyncProofs --------------------------
(***************************************************************************)
(* Proofs about the bidirectional pass, for any ids, names, sizes and      *)
(* bounds, and with the user and the other clients acting at any point.    *)
(***************************************************************************)
EXTENDS OneDriveSync, WellFoundedInduction, TLAPS

-----------------------------------------------------------------------------
(* What the pass has in its hands *)

Creating  == {"create", "stamp", "createref"}
Fetching  == {"download", "place", "mark", "ref"}
Modifying == {"restamp", "modifyref", "aside"}

(* At each point the pass knows an item, has its bytes, and lists rows.    *)
PassOK ==
    /\ pc # "ingest" => DOMAIN batch = {}
    /\ \A i \in DOMAIN batch : batch[i] \in {Nil} \cup Items
    /\ pc \in {"idle", "ingest"} => todo = {}
    /\ pc \notin Creating => \A i \in todo : items[i] # Nil
    /\ pc \in Fetching \cup Modifying \cup {"stamp", "createref"} =>
         cur \in [id : Ids, path : Paths]
    /\ pc \in Fetching \cup Modifying \cup {"createref"} => items[cur.id] # Nil
    /\ pc \in {"place", "mark", "ref", "stamp", "createref", "restamp", "modifyref"} =>
         data \in Files

TInv == TypeOK /\ PassOK

-----------------------------------------------------------------------------
(* Whose file is missing *)

Fetched(i) == i \in DOMAIN batch /\ batch[i] # Nil

(* The drive, the row, the bin or the fetched delta has item i at p.       *)
Known(i, p) ==
    \/ cloud[i] # Nil /\ cloud[i].path = p
    \/ items[i] # Nil /\ items[i].path = p
    \/ Fetched(i) /\ batch[i].path = p
Binned(i, p) == bin[i] # Nil /\ bin[i].path = p

(* An item has one path for ever, and no other item that is still known    *)
(* has it.                                                                 *)
PathsOK ==
    /\ \A i \in Ids : \A p, q \in Paths :
         (Known(i, p) \/ Binned(i, p)) /\ (Known(i, q) \/ Binned(i, q)) => p = q
    /\ \A i, j \in Ids : \A p \in Paths : Known(i, p) /\ Known(j, p) => i = j
    /\ \A i \in Ids : items[i] # Nil \/ Fetched(i) => cloud[i] # Nil \/ bin[i] # Nil

(* The item at hand is at the path at hand.                                *)
CurOK ==
    /\ pc \in Fetching \cup Modifying \cup {"createref"} => items[cur.id].path = cur.path
    /\ pc = "stamp" => Known(cur.id, cur.path) \/ Binned(cur.id, cur.path)

(* Tombstones have no file once the trash phase is over, and what is to be *)
(* created has no row.                                                     *)
CreateOK ==
    /\ pc = "trash" => \A i \in todo : items[i].st = "deleted"
    /\ pc = "trash" => \A i \in Tombstones : disk[Path(i)] # Nil => i \in todo
    /\ pc \in Creating => \A i \in Tombstones : disk[Path(i)] = Nil
    /\ pc \in Creating => \A i \in Ids : Live(i) => Path(i) \notin todo
    /\ pc \in {"stamp", "createref"} => cur.path \notin todo

(* A row that differs from the drive will be in the next delta.            *)
NewsOK ==
    /\ \A i \in Ids : items[i] # Nil /\ cloud[i] # Nil /\ Etag(cloud[i]) # Etag(items[i]) =>
         i \in news /\ (pc = "ingest" => i \in later \cup DOMAIN batch)
    /\ pc = "ingest" => \A i \in DOMAIN batch : i \in later \/ batch[i] = cloud[i]
    /\ pc = "restamp" => cur.id \in news

(* A clean row without a file is the user's deletion, or an edit that was  *)
(* moved aside and whose row the next delta marks.                         *)
Explained(i) ==
    \/ disk[Path(i)] # Nil
    \/ Path(i) \in removed
    \/ i \in news /\ \/ pc = "idle"
                     \/ pc = "ingest" /\ i \in DOMAIN batch
                     \/ pc = "aside" /\ cur.id = i

MissingOK ==
    /\ \A i \in Ids : items[i] # Nil /\ items[i].st = "clean" => Explained(i)
    /\ pc \in {"materialize"} \cup Fetching =>
         \A i \in todo : items[i].st = "remote_dirty"
    /\ pc \in Fetching => cur.id \notin todo
    /\ pc \in {"download", "place", "mark"} => items[cur.id].st = "remote_dirty"
    /\ pc \in {"mark", "stamp", "restamp"} => disk[cur.path] # Nil \/ cur.path \in removed
    /\ pc = "delete" => \A i \in todo : Path(i) \in removed /\ disk[Path(i)] = Nil

(* The guard lets the trash phase have all tombstones.                     *)
TrashPasses ==
    ~Blocked(Cardinality(pending_local_deletes),
             count_by_service + Cardinality(pending_local_deletes))

DInv == TInv /\ PathsOK /\ CurOK /\ CreateOK /\ NewsOK /\ MissingOK

-----------------------------------------------------------------------------
(* Numbers, ids and copies *)

LEMMA Numbers ==
  MaxWrites \in Nat /\ MaxDeletes \in Nat /\ MaxFaults \in Nat /\ MaxCopies \in Nat
BY BoundsAssumption

\* A set of numbers that is not empty has a least one.
LEMMA MinIsMember ==
  ASSUME NEW S \in SUBSET Nat, S # {}
  PROVE  Min(S) \in S
<1>1. PICK R : R = {ss \in Nat \X Nat : ss[1] < ss[2]}
  OBVIOUS
<1>2. IsWellFoundedOn(R, Nat)
  BY <1>1, NatLessThanWellFounded DEF OpToRel
<1>3. PICK x \in S : \A y \in S : ~(<<y, x>> \in R)
  BY <1>2, WFMin
<1>4. \A y \in S : x <= y
  <2> SUFFICES ASSUME NEW y \in S PROVE x <= y
    OBVIOUS
  <2>1. <<y, x>> \notin R /\ y \in Nat /\ x \in Nat
    BY <1>3
  <2>2. y < x => <<y, x>> \in R
    BY <1>1, <2>1
  <2> QED
    BY <2>1, <2>2
<1> QED
  BY <1>4 DEF Min

-----------------------------------------------------------------------------
(* Types: what steps do to the drive, the store and the files *)

\* Everything but the pass.
StateOK ==
    /\ cloud \in [Ids -> {Nil} \cup Items] /\ bin \in [Ids -> {Nil} \cup Deleted]
    /\ items \in [Ids -> {Nil} \cup Rows]
    /\ disk \in [Paths -> {Nil} \cup Files] /\ trash \in [Paths -> {Nil} \cup Versions]
    /\ news \subseteq Ids /\ later \subseteq news
    /\ owed \subseteq Versions /\ removed \subseteq Paths
    /\ writes \in 0 .. MaxWrites /\ deletes \in [{"user", "client"} -> 0 .. MaxDeletes]
    /\ faults \in 0 .. MaxFaults

LEMMA StateTypes ==
  ASSUME TInv
  PROVE  StateOK
BY DEF TInv, TypeOK, StateOK

LEMMA FaultType ==
  ASSUME StateOK, Fault
  PROVE  faults' \in 0 .. MaxFaults
BY Numbers DEF StateOK, Fault

LEMMA PutTypes ==
  ASSUME StateOK, NEW i \in Ids, NEW p \in Paths, NEW c \in Versions, Put(i, p, c)
  PROVE  /\ cloud' \in [Ids -> {Nil} \cup Items] /\ news' \subseteq Ids /\ later' \subseteq news'
         /\ i \in news' /\ news \subseteq news'
         /\ cloud'[i] = [path |-> p, c |-> c, at |-> <<c, "cloud">>] /\ cloud'[i] \in Items
         /\ \A j \in Ids : j # i => cloud'[j] = cloud[j]
<1>1. PICK x : x = [path |-> p, c |-> c, at |-> <<c, "cloud">>]
  OBVIOUS
<1>2. x \in Items
  BY <1>1 DEF Items, Times
<1>3. cloud' = [cloud EXCEPT ![i] = x]
  BY <1>1 DEF Put
<1>4. news' = news \cup {i} /\ later' \subseteq later \cup {i}
  BY DEF Put, Changed
<1> QED
  BY <1>1, <1>2, <1>3, <1>4 DEF StateOK

LEMMA StampTypes ==
  ASSUME StateOK, NEW i \in Ids, NEW at \in Times, cloud[i] # Nil, set_mtime(i, at)
  PROVE  /\ cloud' \in [Ids -> {Nil} \cup Items] /\ news' \subseteq Ids /\ later' \subseteq news'
         /\ i \in news' /\ news \subseteq news'
         /\ cloud'[i] \in Items /\ cloud'[i].path = cloud[i].path /\ cloud'[i].c = cloud[i].c
         /\ cloud'[i].at = at
         /\ \A j \in Ids : j # i => cloud'[j] = cloud[j]
<1>1. PICK old \in Items : old = cloud[i]
  BY DEF StateOK
<1>2. PICK x : x = [old EXCEPT !.at = at]
  OBVIOUS
<1>3. x \in Items /\ x.path = old.path /\ x.c = old.c /\ x.at = at
  BY <1>2 DEF Items
<1>4. cloud' = [cloud EXCEPT ![i] = x]
  BY <1>1, <1>2 DEF set_mtime, StateOK
<1>5. news' = news \cup {i} /\ later' \subseteq later \cup {i}
  BY DEF set_mtime, Changed
<1> QED
  BY <1>1, <1>3, <1>4, <1>5 DEF StateOK

LEMMA DeleteTypes ==
  ASSUME StateOK, NEW i \in Ids, NEW who \in {"sync", "client"}, cloud[i] # Nil,
         DeleteItem(i, who)
  PROVE  /\ cloud' \in [Ids -> {Nil} \cup Items] /\ bin' \in [Ids -> {Nil} \cup Deleted]
         /\ news' \subseteq Ids /\ later' \subseteq news' /\ i \in news' /\ news \subseteq news'
         /\ cloud'[i] = Nil /\ bin'[i] \in Deleted /\ bin'[i].path = cloud[i].path
         /\ bin'[i].by = who
         /\ \A j \in Ids : j # i => cloud'[j] = cloud[j] /\ bin'[j] = bin[j]
<1>1. PICK old \in Items : old = cloud[i]
  BY DEF StateOK
<1>2. PICK x : x = [path |-> old.path, c |-> old.c, by |-> who]
  OBVIOUS
<1>3. x \in Deleted /\ x.path = old.path /\ x.by = who
  BY <1>2 DEF Items, Deleted
<1>4. cloud' = [cloud EXCEPT ![i] = Nil] /\ bin' = [bin EXCEPT ![i] = x]
  BY <1>1, <1>2 DEF DeleteItem
<1>5. news' = news \cup {i} /\ later' \subseteq later \cup {i}
  BY DEF DeleteItem, Changed
<1> QED
  BY <1>1, <1>3, <1>4, <1>5 DEF StateOK

LEMMA UpsertTypes ==
  ASSUME StateOK, NEW i \in Ids, NEW x \in Items,
         NEW st \in {"clean", "remote_dirty", "deleted"}, items' = upsert_item(i, x, st)
  PROVE  /\ items' \in [Ids -> {Nil} \cup Rows]
         /\ items'[i] \in Rows /\ items'[i].st = st /\ items'[i].path = x.path
         /\ items'[i].c = x.c /\ items'[i].at = x.at
         /\ \A j \in Ids : j # i => items'[j] = items[j]
<1>1. PICK ref : ref = IF items[i] = Nil THEN Nil ELSE items[i].ref
  OBVIOUS
<1>2. ref \in {Nil} \cup Refs
  BY <1>1 DEF StateOK, Rows
<1>3. PICK r : r = [st |-> st, path |-> x.path, c |-> x.c, at |-> x.at, ref |-> ref]
  OBVIOUS
<1>4. r \in Rows /\ r.st = st /\ r.path = x.path /\ r.c = x.c /\ r.at = x.at
  BY <1>2, <1>3 DEF Items, Rows
<1>5. items' = [items EXCEPT ![i] = r]
  BY <1>1, <1>3 DEF upsert_item
<1> QED
  BY <1>4, <1>5 DEF StateOK

\* The steps that change the state of a row and nothing else of it.
LEMMA RowTypes ==
  ASSUME StateOK, NEW i \in Ids, items[i] # Nil,
         NEW st \in {"clean", "remote_dirty", "deleted"},
         items' = [items EXCEPT ![i].st = st]
  PROVE  /\ items' \in [Ids -> {Nil} \cup Rows]
         /\ items'[i] \in Rows /\ items'[i].st = st /\ items'[i].path = items[i].path
         /\ items'[i].c = items[i].c /\ items'[i].at = items[i].at
         /\ items'[i].ref = items[i].ref
         /\ \A j \in Ids : j # i => items'[j] = items[j]
<1>1. PICK old \in Rows : old = items[i]
  BY DEF StateOK
<1>2. PICK r : r = [old EXCEPT !.st = st]
  OBVIOUS
<1>3. r \in Rows /\ r.st = st /\ r.path = old.path /\ r.c = old.c /\ r.at = old.at /\ r.ref = old.ref
  BY <1>2 DEF Rows
<1>4. items' = [items EXCEPT ![i] = r]
  BY <1>1, <1>2 DEF StateOK
<1> QED
  BY <1>1, <1>3, <1>4 DEF StateOK

\* record_synced_state changes the reference only.
LEMMA RefTypes ==
  ASSUME StateOK, NEW rows \in [Ids -> {Nil} \cup Rows], NEW i \in Ids, rows[i] # Nil,
         NEW p \in Paths, NEW c \in Versions, NEW res, res = record_synced_state(rows, i, p, c)
  PROVE  /\ res \in [Ids -> {Nil} \cup Rows]
         /\ res[i] \in Rows /\ res[i].st = rows[i].st /\ res[i].path = rows[i].path
         /\ res[i].c = rows[i].c /\ res[i].at = rows[i].at
         /\ \A j \in Ids : j # i => res[j] = rows[j]
<1>1. CASE disk[p] = Nil
  BY <1>1 DEF record_synced_state
<1>2. CASE disk[p] # Nil
  <2>1. PICK f \in Files : f = disk[p]
    BY <1>2 DEF StateOK
  <2>2. PICK ref : ref = [size |-> Size[f.c], at |-> f.at, c |-> c]
    OBVIOUS
  <2>3. ref \in Refs
    BY <2>2 DEF Files, Refs
  <2>4. PICK old \in Rows : old = rows[i]
    OBVIOUS
  <2>5. PICK r : r = [old EXCEPT !.ref = ref]
    OBVIOUS
  <2>6. r \in Rows /\ r.st = old.st /\ r.path = old.path /\ r.c = old.c /\ r.at = old.at
    BY <2>3, <2>5 DEF Rows
  <2>7. res = [rows EXCEPT ![i] = r]
    BY <1>2, <2>1, <2>2, <2>4, <2>5 DEF record_synced_state
  <2> QED
    BY <2>4, <2>6, <2>7
<1> QED
  BY <1>1, <1>2

\* An edit moved aside is under another name of its own.
LEMMA AsideTypes ==
  ASSUME StateOK, NEW p \in Paths, MoveAside(p)
  PROVE  /\ disk' \in [Paths -> {Nil} \cup Files]
         /\ \A q \in Paths : q # p /\ disk[q] # Nil => disk'[q] # Nil
<1>1. PICK k \in 1 .. MaxCopies : k = Min(FreeCopies(p)) /\ disk[<<p[1], k>>] = Nil
  <2>1. FreeCopies(p) \in SUBSET Nat /\ FreeCopies(p) # {}
    BY Numbers DEF FreeCopies, MoveAside
  <2>2. Min(FreeCopies(p)) \in FreeCopies(p)
    BY <2>1, MinIsMember
  <2> QED
    BY <2>2 DEF FreeCopies
<1>2. PICK q \in Paths : q = unique_conflict_copy(p) /\ disk[q] = Nil
  BY <1>1, Numbers DEF Paths, unique_conflict_copy
<1>3. disk' = [disk EXCEPT ![q] = disk[p], ![p] = Nil]
  BY <1>2 DEF MoveAside
<1> QED
  BY <1>2, <1>3 DEF StateOK

-----------------------------------------------------------------------------
(* Types: how the pass goes on *)

LEMMA StopTypes ==
  ASSUME StateOK', Stop
  PROVE  TInv'
<1>1. DOMAIN NoBatch = {}
  BY DEF NoBatch
<1>2. TypeOK'
  BY <1>1 DEF StateOK, TypeOK, Stop, Points
<1>3. PassOK'
  BY <1>1 DEF PassOK, Stop, Creating, Fetching, Modifying
<1> QED
  BY <1>2, <1>3 DEF TInv

\* A phase begins or goes on: its list is of rows, or of paths.
LEMMA GotoTypes ==
  ASSUME StateOK', DOMAIN batch = {},
         NEW point \in {"materialize", "trash", "create", "modify", "delete"},
         NEW rest, Goto(point, rest),
         point = "create" => rest \subseteq Paths,
         point # "create" => rest \subseteq {i \in Ids : items'[i] # Nil}
  PROVE  TInv'
<1>1. DOMAIN batch' = {}
  BY DEF Goto
<1>2. todo' \subseteq IF pc' \in {"create", "stamp", "createref"} THEN Paths ELSE Ids
  BY DEF Goto
<1>3. TypeOK'
  BY <1>1, <1>2 DEF StateOK, TypeOK, Goto, Points
<1>4. PassOK'
  BY <1>1 DEF PassOK, Goto, Creating, Fetching, Modifying
<1> QED
  BY <1>3, <1>4 DEF TInv

\* The pass takes up one item.
LEMMA HandleTypes ==
  ASSUME StateOK', DOMAIN batch = {},
         NEW point \in {"download", "stamp", "restamp", "aside"},
         NEW rest, NEW i \in Ids, NEW p \in Paths, NEW bytes \in {Nil} \cup Files,
         Handle(point, rest, i, p, bytes),
         point \in {"stamp", "restamp"} => bytes \in Files,
         point = "stamp" => rest \subseteq Paths,
         point # "stamp" => items'[i] # Nil /\ rest \subseteq {j \in Ids : items'[j] # Nil}
  PROVE  TInv'
<1>1. DOMAIN batch' = {}
  BY DEF Handle
<1>2. todo' \subseteq IF pc' \in {"create", "stamp", "createref"} THEN Paths ELSE Ids
  BY DEF Handle
<1>3. PICK u : u = [id |-> i, path |-> p] /\ u \in [id : Ids, path : Paths] /\ u.id = i
  <2>1. PICK u : u = [id |-> i, path |-> p]
    OBVIOUS
  <2>2. u \in [id : Ids, path : Paths] /\ u.id = i
    BY <2>1
  <2> QED
    BY <2>1, <2>2
<1>4. cur' = u /\ data' = bytes /\ pc' = point /\ todo' = rest
  BY <1>3 DEF Handle
<1>5. TypeOK'
  BY <1>1, <1>2, <1>3, <1>4 DEF StateOK, TypeOK, Points
<1>6. PassOK'
  BY <1>1, <1>3, <1>4 DEF PassOK, Creating, Fetching, Modifying
<1> QED
  BY <1>5, <1>6 DEF TInv

\* The pass goes on with the item it has.
LEMMA AdvanceTypes ==
  ASSUME StateOK', TInv,
         NEW point \in {"mark", "ref", "createref", "modifyref"}, Advance(point),
         point \in {"mark", "ref"} => pc \in Fetching,
         point = "createref" => pc = "stamp", point = "modifyref" => pc = "restamp",
         data \in Files, items'[cur.id] # Nil,
         \A j \in Ids : items[j] # Nil => items'[j] # Nil
  PROVE  TInv'
<1>1. /\ pc \in {"download", "place", "mark", "ref", "stamp", "restamp"}
      /\ cur \in [id : Ids, path : Paths] /\ DOMAIN batch = {}
      /\ point \in Creating <=> pc \in Creating
  BY DEF TInv, PassOK, Fetching, Modifying, Creating
<1>2. UNCHANGED <<batch, todo, cur, data>> /\ pc' = point
  BY DEF Advance
<1>3. todo' \subseteq IF pc' \in {"create", "stamp", "createref"} THEN Paths ELSE Ids
  BY <1>1, <1>2 DEF TInv, TypeOK, Creating
<1>4. TypeOK'
  BY <1>1, <1>2, <1>3 DEF TInv, StateOK, TypeOK, Points
<1>5. PassOK'
  BY <1>1, <1>2 DEF TInv, TypeOK, PassOK, Creating, Fetching, Modifying
<1> QED
  BY <1>4, <1>5 DEF TInv

\* The user or another client acts.
LEMMA OtherTypes ==
  ASSUME TInv, StateOK', UNCHANGED passVars, news \subseteq news', items' = items
  PROVE  TInv'
<1>1. UNCHANGED <<pc, batch, todo, cur, data>>
  BY DEF passVars
<1>2. TypeOK'
  BY <1>1 DEF TInv, StateOK, TypeOK
<1>3. PassOK'
  BY <1>1 DEF TInv, PassOK
<1> QED
  BY <1>2, <1>3 DEF TInv
-----------------------------------------------------------------------------
(* Types: the actions *)

LEMMA NoBatchLeft ==
  ASSUME TInv, pc # "ingest" \/ batch = NoBatch
  PROVE  DOMAIN batch = {}
BY DEF TInv, PassOK, NoBatch

LEMMA FetchTypes ==
  ASSUME TInv, Fetch
  PROVE  TInv'
<1>1. UNCHANGED <<cloud, bin, news, items, disk, trash, todo, cur, data, owed, removed,
                  writes, deletes, faults>> /\ pc' = "ingest" /\ later' = {} /\ todo = {}
  BY DEF Fetch, fileVars, envVars, TInv, PassOK
<1>2. DOMAIN batch' = news /\ \A i \in news : batch'[i] = cloud[i]
  BY DEF Fetch
<1>3. TypeOK'
  BY <1>1, <1>2 DEF TInv, TypeOK, Points
<1>4. PassOK'
  BY <1>1, <1>2 DEF TInv, TypeOK, PassOK, Creating, Fetching, Modifying
<1> QED
  BY <1>3, <1>4 DEF TInv

\* What ingest_item makes of the rows.
LEMMA IngestRows ==
  ASSUME TInv, NEW i \in Ids, ingest_item(i)
  PROVE  /\ items' \in [Ids -> {Nil} \cup Rows]
         /\ \A j \in Ids : j # i => items'[j] = items[j]
         /\ batch[i] = Nil /\ items[i] = Nil => items'[i] = Nil
         /\ batch[i] = Nil /\ items[i] # Nil =>
              /\ items'[i] \in Rows /\ items'[i].st = "deleted"
              /\ items'[i].path = items[i].path
         /\ batch[i] # Nil => /\ items'[i] \in Rows /\ items'[i].st = "remote_dirty"
                              /\ items'[i].path = batch[i].path
                              /\ items'[i].c = batch[i].c /\ items'[i].at = batch[i].at
<1>1. StateOK /\ i \in DOMAIN batch /\ batch[i] \in {Nil} \cup Items
  BY StateTypes DEF ingest_item, TInv, PassOK
<1>2. CASE batch[i] = Nil /\ items[i] = Nil
  <2>1. items' = items
    BY <1>2 DEF ingest_item, mark_deleted
  <2> QED
    BY <1>1, <1>2, <2>1 DEF StateOK
<1>3. CASE batch[i] = Nil /\ items[i] # Nil
  <2>1. items' = [items EXCEPT ![i].st = "deleted"]
    BY <1>3 DEF ingest_item, mark_deleted
  <2> QED
    BY <1>1, <1>3, <2>1, RowTypes
<1>4. CASE batch[i] # Nil
  <2>1. items' = upsert_item(i, batch[i], "remote_dirty") /\ batch[i] \in Items
    BY <1>1, <1>4 DEF ingest_item
  <2> QED
    BY <1>1, <1>4, <2>1, UpsertTypes
<1> QED
  BY <1>2, <1>3, <1>4

LEMMA IngestTypes ==
  ASSUME TInv, NEW i \in Ids, ingest_item(i)
  PROVE  TInv'
<1>1. UNCHANGED <<cloud, bin, news, later, disk, trash, pc, todo, cur, data, owed, removed,
                  writes, deletes, faults>> /\ pc = "ingest"
  BY DEF ingest_item, cloudVars, fileVars, envVars
<1>2. DOMAIN batch' = DOMAIN batch \ {i} /\ \A j \in DOMAIN batch' : batch'[j] = batch[j]
  BY DEF ingest_item
<1>3. items' \in [Ids -> {Nil} \cup Rows]
  BY IngestRows
<1>4. TypeOK'
  BY <1>1, <1>2, <1>3 DEF TInv, TypeOK
<1>5. PassOK'
  BY <1>1, <1>2, <1>3 DEF TInv, TypeOK, PassOK, Creating, Fetching, Modifying
<1> QED
  BY <1>4, <1>5 DEF TInv

LEMMA CursorTypes ==
  ASSUME TInv, set_delta_cursor
  PROVE  TInv'
<1>1. UNCHANGED <<cloud, bin, items, disk, trash, owed, removed, writes, deletes, faults>>
  BY DEF set_delta_cursor, fileVars, envVars
<1>2. StateOK'
  BY <1>1, StateTypes DEF StateOK, set_delta_cursor
<1>3. PICK rest : rest = {i \in Ids : items[i] # Nil /\ items[i].st = "remote_dirty"}
  OBVIOUS
<1>4. Goto("materialize", rest) /\ rest \subseteq {i \in Ids : items'[i] # Nil}
  BY <1>1, <1>3 DEF set_delta_cursor
<1> QED
  BY <1>2, <1>4, NoBatchLeft, GotoTypes DEF set_delta_cursor

\* Who holds a path, and the item a PUT makes or replaces.
LEMMA TargetTypes ==
  ASSUME NEW p \in Paths, IdLeft(p)
  PROVE  /\ PutTarget(p) \in Ids
         /\ \/ cloud[PutTarget(p)] # Nil /\ cloud[PutTarget(p)].path = p
            \/ Holder(p) = {} /\ PutTarget(p) \in Unused
<1>1. CASE Holder(p) # {}
  BY <1>1 DEF PutTarget, Holder
<1>2. CASE Holder(p) = {}
  <2>1. Unused \in SUBSET Nat /\ Unused # {}
    BY <1>2, IdsAssumption DEF IdLeft, Unused
  <2>2. Min(Unused) \in Unused
    BY <2>1, MinIsMember
  <2> QED
    BY <1>2, <2>2 DEF PutTarget, Unused
<1> QED
  BY <1>1, <1>2

\* What the pass finds at the points where it handles an item.
LEMMA AtHand ==
  ASSUME TInv
  PROVE  /\ pc \in Fetching \cup Modifying \cup {"createref"} =>
              cur.id \in Ids /\ cur.path \in Paths /\ items[cur.id] # Nil
         /\ pc = "stamp" => cur.id \in Ids /\ cur.path \in Paths
         /\ pc \in {"place", "mark", "ref", "stamp", "createref", "restamp", "modifyref"} =>
              data \in Files /\ data.c \in Versions /\ data.at \in Times
         /\ pc # "ingest" => DOMAIN batch = {}
         /\ pc \notin Creating => todo \subseteq {i \in Ids : items[i] # Nil}
         /\ pc \in Creating => todo \subseteq Paths
         /\ \A i \in Ids : items[i] # Nil => items[i] \in Rows /\ Path(i) \in Paths
         /\ \A i \in Ids : cloud[i] # Nil => cloud[i] \in Items /\ cloud[i].path \in Paths
         /\ \A p \in Paths : disk[p] # Nil =>
              disk[p] \in Files /\ disk[p].c \in Versions /\ disk[p].at \in Times
BY DEF TInv, TypeOK, PassOK, Path, Rows, Items, Files, Creating, Fetching, Modifying

LEMMA SkipDownloadTypes ==
  ASSUME TInv, NEW i \in Ids, SkipDownload(i)
  PROVE  /\ TInv' /\ items'[i] \in Rows /\ items'[i].st = "clean"
         /\ items'[i].path = items[i].path
         /\ items'[i].c = items[i].c /\ items'[i].at = items[i].at
         /\ \A j \in Ids : j # i => items'[j] = items[j]
<1>1. UNCHANGED <<cloud, bin, news, later, disk, trash, owed, removed, writes, deletes, faults>>
  BY DEF SkipDownload, cloudVars, fileVars, envVars
<1>2. pc = "materialize" /\ i \in todo /\ items[i] # Nil /\ StateOK
  BY StateTypes DEF SkipDownload, TInv, PassOK, Creating
<1>3. PICK rows : rows = [items EXCEPT ![i].st = "clean"]
  OBVIOUS
<1>4. /\ rows \in [Ids -> {Nil} \cup Rows] /\ rows[i] \in Rows /\ rows[i].st = "clean"
      /\ rows[i].path = items[i].path /\ rows[i].c = items[i].c /\ rows[i].at = items[i].at
      /\ \A j \in Ids : j # i => rows[j] = items[j]
  <2>1. PICK old \in Rows : old = items[i]
    BY <1>2 DEF StateOK
  <2>2. PICK r : r = [old EXCEPT !.st = "clean"]
    OBVIOUS
  <2>3. r \in Rows /\ r.st = "clean" /\ r.path = old.path /\ r.c = old.c /\ r.at = old.at
    BY <2>2 DEF Rows
  <2>4. rows = [items EXCEPT ![i] = r]
    BY <1>2, <1>3, <2>1, <2>2 DEF StateOK
  <2> QED
    BY <1>2, <2>1, <2>3, <2>4 DEF StateOK
<1>5. Path(i) \in Paths /\ items[i].c \in Versions /\ rows[i] # Nil
  BY <1>2, <1>4, AtHand, NilAssumption DEF Rows
<1>6. items' = record_synced_state(rows, i, Path(i), items[i].c)
  BY <1>3 DEF SkipDownload, set_sync_state
<1>7. /\ items' \in [Ids -> {Nil} \cup Rows]
      /\ items'[i] \in Rows /\ items'[i].st = rows[i].st /\ items'[i].path = rows[i].path
      /\ items'[i].c = rows[i].c /\ items'[i].at = rows[i].at
      /\ \A j \in Ids : j # i => items'[j] = rows[j]
  BY <1>2, <1>4, <1>5, <1>6, RefTypes
<1>8. StateOK'
  BY <1>1, <1>2, <1>7 DEF StateOK
<1>9. todo \ {i} \subseteq {j \in Ids : items'[j] # Nil}
  BY <1>2, <1>4, <1>7, AtHand DEF Creating
<1>10. TInv'
  BY <1>2, <1>8, <1>9, AtHand, GotoTypes DEF SkipDownload
<1> QED
  BY <1>4, <1>7, <1>10

\* A file moved aside for a download leaves the other files alone.
LEMMA BeginDownloadTypes ==
  ASSUME TInv, NEW i \in Ids, BeginDownload(i)
  PROVE  TInv' /\ \A q \in Paths : q # Path(i) /\ disk[q] # Nil => disk'[q] # Nil
<1>1. UNCHANGED <<cloud, bin, news, later, items, trash, owed, removed, writes, deletes, faults>>
  BY DEF BeginDownload, cloudVars, envVars
<1>2. pc = "materialize" /\ i \in todo /\ items[i] # Nil /\ StateOK
  BY StateTypes DEF BeginDownload, TInv, PassOK, Creating
<1>3. Path(i) \in Paths
  BY <1>2, AtHand
<1>4. /\ disk' \in [Paths -> {Nil} \cup Files]
      /\ \A q \in Paths : q # Path(i) /\ disk[q] # Nil => disk'[q] # Nil
  <2>1. CASE MoveAside(Path(i))
    BY <1>2, <1>3, <2>1, AsideTypes
  <2>2. CASE disk' = disk
    BY <1>2, <2>2 DEF StateOK
  <2> QED
    BY <2>1, <2>2 DEF BeginDownload
<1>5. StateOK'
  BY <1>1, <1>2, <1>4 DEF StateOK
<1>6. Handle("download", todo \ {i}, i, Path(i), Nil)
  BY DEF BeginDownload
<1>7. todo \ {i} \subseteq {j \in Ids : items'[j] # Nil} /\ items'[i] # Nil /\ DOMAIN batch = {}
  BY <1>1, <1>2, AtHand DEF Creating
<1>8. TInv'
  BY <1>3, <1>5, <1>6, <1>7, HandleTypes
<1> QED
  BY <1>4, <1>8

LEMMA DownloadTypes ==
  ASSUME TInv, Download
  PROVE  TInv'
<1>1. UNCHANGED <<cloud, bin, news, later, items, disk, trash, batch, todo, cur, owed, removed,
                  writes, deletes, faults>> /\ pc = "download" /\ pc' = "place"
  BY DEF Download, cloudVars, fileVars, envVars
<1>2. cur.id \in Ids /\ cur.path \in Paths /\ items[cur.id] \in Rows /\ cloud[cur.id] \in Items
  BY <1>1, AtHand DEF Fetching, Download
<1>3. data' \in Files
  BY <1>2 DEF Download, Rows, Items, Files
<1>4. TypeOK'
  BY <1>1, <1>3 DEF TInv, TypeOK, Points
<1>5. PassOK'
  BY <1>1, <1>3 DEF TInv, PassOK, Creating, Fetching, Modifying
<1> QED
  BY <1>4, <1>5 DEF TInv

LEMMA DownloadFailsTypes ==
  ASSUME TInv, DownloadFails
  PROVE  TInv'
<1>1. UNCHANGED <<cloud, bin, news, later, items, disk, trash, owed, removed, writes, deletes>>
  BY DEF DownloadFails, cloudVars, fileVars, envVars
<1>2. faults' \in 0 .. MaxFaults
  BY Numbers DEF DownloadFails, TInv, TypeOK
<1>3. StateOK'
  BY <1>1, <1>2, StateTypes DEF StateOK
<1>4. /\ Goto("materialize", todo) /\ DOMAIN batch = {}
      /\ todo \subseteq {i \in Ids : items'[i] # Nil}
  BY <1>1, AtHand DEF DownloadFails, Creating
<1> QED
  BY <1>3, <1>4, GotoTypes

LEMMA WriteTypes ==
  ASSUME TInv, atomic_write
  PROVE  TInv' /\ disk'[cur.path] # Nil /\ \A q \in Paths : q # cur.path => disk'[q] = disk[q]
<1>1. UNCHANGED <<cloud, bin, news, later, items, trash, owed, removed, writes, deletes, faults>>
      /\ pc = "place"
  BY DEF atomic_write, cloudVars, envVars
<1>2. /\ cur.id \in Ids /\ cur.path \in Paths /\ items[cur.id] # Nil /\ data \in Files
      /\ data.c \in Versions
  BY <1>1, AtHand DEF Fetching
<1>3. PICK f : f = [c |-> data.c, at |-> <<data.c, "disk">>]
  OBVIOUS
<1>4. f \in Files
  BY <1>2, <1>3 DEF Files, Times
<1>5. disk' = [disk EXCEPT ![cur.path] = f]
  BY <1>3 DEF atomic_write
<1>6. /\ disk' \in [Paths -> {Nil} \cup Files] /\ disk'[cur.path] # Nil
      /\ \A q \in Paths : q # cur.path => disk'[q] = disk[q]
  BY <1>2, <1>4, <1>5, StateTypes, NilAssumption DEF StateOK
<1>7. StateOK'
  BY <1>1, <1>6, StateTypes DEF StateOK
<1>8. TInv'
  BY <1>1, <1>2, <1>7, AdvanceTypes DEF atomic_write, Fetching
<1> QED
  BY <1>6, <1>8

LEMMA MarkCleanTypes ==
  ASSUME TInv, MarkClean
  PROVE  /\ TInv' /\ items'[cur.id] \in Rows /\ items'[cur.id].st = "clean"
         /\ items'[cur.id].path = items[cur.id].path
         /\ items'[cur.id].c = items[cur.id].c /\ items'[cur.id].at = items[cur.id].at
         /\ \A j \in Ids : j # cur.id => items'[j] = items[j]
         /\ \A q \in Paths : disk'[q] = Nil <=> disk[q] = Nil
<1>1. UNCHANGED <<cloud, bin, news, later, trash, owed, removed, writes, deletes, faults>>
      /\ pc = "mark" /\ StateOK
  BY StateTypes DEF MarkClean, cloudVars, envVars
<1>2. /\ cur.id \in Ids /\ cur.path \in Paths /\ items[cur.id] # Nil /\ data \in Files
      /\ data.at \in Times
  BY <1>1, AtHand DEF Fetching
<1>3. /\ disk' \in [Paths -> {Nil} \cup Files]
      /\ \A q \in Paths : disk'[q] = Nil <=> disk[q] = Nil
  <2>1. CASE disk[cur.path] = Nil
    BY <1>1, <2>1 DEF MarkClean, StateOK
  <2>2. CASE disk[cur.path] # Nil
    <3>1. PICK old \in Files : old = disk[cur.path]
      BY <1>2, <2>2, AtHand
    <3>2. PICK f : f = [old EXCEPT !.at = data.at]
      OBVIOUS
    <3>3. f \in Files /\ f # Nil
      BY <1>2, <3>2, NilAssumption DEF Files
    <3>4. disk' = [disk EXCEPT ![cur.path] = f]
      BY <1>1, <2>2, <3>1, <3>2 DEF MarkClean, StateOK
    <3> QED
      BY <1>1, <2>2, <3>3, <3>4 DEF StateOK
  <2> QED
    BY <2>1, <2>2
<1>4. items' = [items EXCEPT ![cur.id].st = "clean"]
  BY DEF MarkClean, set_sync_state
<1>5. /\ items' \in [Ids -> {Nil} \cup Rows] /\ items'[cur.id] \in Rows
      /\ items'[cur.id].st = "clean" /\ items'[cur.id].path = items[cur.id].path
      /\ items'[cur.id].c = items[cur.id].c /\ items'[cur.id].at = items[cur.id].at
      /\ \A j \in Ids : j # cur.id => items'[j] = items[j]
  BY <1>1, <1>2, <1>4, RowTypes
<1>6. StateOK'
  BY <1>1, <1>3, <1>5 DEF StateOK
<1>7. items'[cur.id] # Nil /\ \A j \in Ids : items[j] # Nil => items'[j] # Nil
  BY <1>5, NilAssumption
<1>8. TInv'
  BY <1>1, <1>2, <1>6, <1>7, AdvanceTypes DEF MarkClean, Fetching
<1> QED
  BY <1>3, <1>5, <1>8

LEMMA RecordSyncedTypes ==
  ASSUME TInv, RecordSynced
  PROVE  /\ TInv' /\ items'[cur.id] \in Rows /\ items'[cur.id].st = items[cur.id].st
         /\ items'[cur.id].path = items[cur.id].path
         /\ items'[cur.id].c = items[cur.id].c /\ items'[cur.id].at = items[cur.id].at
         /\ \A j \in Ids : j # cur.id => items'[j] = items[j]
<1>1. UNCHANGED <<cloud, bin, news, later, disk, trash, owed, removed, writes, deletes, faults>>
      /\ pc \in {"ref", "createref", "modifyref"} /\ StateOK
  BY StateTypes DEF RecordSynced, cloudVars, fileVars, envVars
<1>2. /\ cur.id \in Ids /\ cur.path \in Paths /\ items[cur.id] # Nil /\ data.c \in Versions
      /\ DOMAIN batch = {}
  BY <1>1, AtHand DEF Fetching, Modifying
<1>3. items' = record_synced_state(items, cur.id, cur.path, data.c)
  BY DEF RecordSynced
<1>4. /\ items' \in [Ids -> {Nil} \cup Rows]
      /\ items'[cur.id] \in Rows /\ items'[cur.id].st = items[cur.id].st
      /\ items'[cur.id].path = items[cur.id].path
      /\ items'[cur.id].c = items[cur.id].c /\ items'[cur.id].at = items[cur.id].at
      /\ \A j \in Ids : j # cur.id => items'[j] = items[j]
  <2>1. items \in [Ids -> {Nil} \cup Rows]
    BY <1>1 DEF StateOK
  <2> QED
    BY <1>1, <1>2, <1>3, <2>1, RefTypes
<1>5. StateOK'
  BY <1>1, <1>4 DEF StateOK
<1>6. \A j \in Ids : items[j] # Nil => items'[j] # Nil
  BY <1>4, NilAssumption
<1>7. CASE pc = "ref"
  <2>1. Goto("materialize", todo) /\ todo \subseteq {i \in Ids : items'[i] # Nil}
    BY <1>6, <1>7, AtHand DEF RecordSynced, Creating
  <2> QED
    BY <1>2, <1>4, <1>5, <2>1, GotoTypes
<1>8. CASE pc = "createref"
  <2>1. Goto("create", todo) /\ todo \subseteq Paths
    BY <1>8, AtHand DEF RecordSynced, Creating
  <2> QED
    BY <1>2, <1>4, <1>5, <2>1, GotoTypes
<1>9. CASE pc = "modifyref"
  <2>1. Goto("modify", todo) /\ todo \subseteq {i \in Ids : items'[i] # Nil}
    BY <1>6, <1>9, AtHand DEF RecordSynced, Creating
  <2> QED
    BY <1>2, <1>4, <1>5, <2>1, GotoTypes
<1> QED
  BY <1>1, <1>7, <1>8, <1>9

\* The guard passes a batch or nothing of it.
LEMMA GuardTypes ==
  ASSUME NEW S, NEW n
  PROVE  evaluate(S, n) \subseteq S
BY DEF evaluate

\* The steps from one phase to the next.
LEMMA PhaseTypes ==
  ASSUME TInv, BeginTrash \/ BeginCreates \/ BeginModifies \/ BeginDeletes
  PROVE  TInv'
<1>1. UNCHANGED <<cloud, bin, news, later, items, disk, trash, owed, removed, writes,
                  deletes, faults>>
  BY DEF BeginTrash, BeginCreates, BeginModifies, BeginDeletes, cloudVars, fileVars, envVars
<1>2. StateOK' /\ DOMAIN batch = {}
  BY <1>1, StateTypes, AtHand
    DEF StateOK, BeginTrash, BeginCreates, BeginModifies, BeginDeletes
<1>3. CASE BeginTrash
  <2>1. PICK rest : rest = evaluate(pending_local_deletes,
                       count_by_service + Cardinality(pending_local_deletes))
    OBVIOUS
  <2>2. rest \subseteq {i \in Ids : items'[i] # Nil}
    BY <1>1, <2>1, GuardTypes DEF pending_local_deletes, Tombstones
  <2>3. Goto("trash", rest)
    BY <1>3, <2>1 DEF BeginTrash
  <2> QED
    BY <1>2, <2>2, <2>3, GotoTypes
<1>4. CASE BeginCreates
  <2>1. Goto("create", scan_local_creates) /\ scan_local_creates \subseteq Paths
    BY <1>4 DEF BeginCreates, scan_local_creates
  <2> QED
    BY <1>2, <2>1, GotoTypes
<1>5. CASE BeginModifies
  <2>1. Goto("modify", scan_local_modifies)
    BY <1>5 DEF BeginModifies
  <2>2. scan_local_modifies \subseteq {i \in Ids : items'[i] # Nil}
    BY <1>1 DEF scan_local_modifies, Live
  <2> QED
    BY <1>2, <2>1, <2>2, GotoTypes
<1>6. CASE BeginDeletes
  <2>1. PICK rest : rest = evaluate(scan_local_deletes, count_by_service)
    OBVIOUS
  <2>2. rest \subseteq {i \in Ids : items'[i] # Nil}
    BY <1>1, <2>1, GuardTypes DEF scan_local_deletes, Live
  <2>3. Goto("delete", rest)
    BY <1>6, <2>1 DEF BeginDeletes
  <2> QED
    BY <1>2, <2>2, <2>3, GotoTypes
<1> QED
  BY <1>3, <1>4, <1>5, <1>6

LEMMA TrashTypes ==
  ASSUME TInv, NEW i \in Ids, apply_local_deletes(i)
  PROVE  TInv' /\ disk'[Path(i)] = Nil /\ \A q \in Paths : q # Path(i) => disk'[q] = disk[q]
<1>1. UNCHANGED <<cloud, bin, news, later, items, owed, removed, writes, deletes, faults>>
      /\ pc = "trash" /\ i \in todo /\ StateOK
  BY StateTypes DEF apply_local_deletes, cloudVars, envVars
<1>2. Path(i) \in Paths /\ todo \subseteq {j \in Ids : items[j] # Nil} /\ DOMAIN batch = {}
  BY <1>1, AtHand DEF Creating
<1>3. /\ disk' \in [Paths -> {Nil} \cup Files] /\ trash' \in [Paths -> {Nil} \cup Versions]
      /\ disk'[Path(i)] = Nil /\ \A q \in Paths : q # Path(i) => disk'[q] = disk[q]
  <2>1. CASE disk[Path(i)] = Nil
    BY <1>1, <2>1 DEF apply_local_deletes, fileVars, StateOK
  <2>2. CASE disk[Path(i)] # Nil
    <3>1. disk[Path(i)].c \in Versions
      BY <1>2, <2>2, AtHand
    <3> QED
      BY <1>1, <1>2, <2>2, <3>1 DEF apply_local_deletes, StateOK
  <2> QED
    BY <2>1, <2>2
<1>4. StateOK'
  BY <1>1, <1>3 DEF StateOK
<1>5. Goto("trash", todo \ {i}) /\ todo \ {i} \subseteq {j \in Ids : items'[j] # Nil}
  BY <1>1, <1>2 DEF apply_local_deletes
<1> QED
  BY <1>2, <1>3, <1>4, <1>5, GotoTypes

\* The PUT of a file, whether its answer arrives or not.
LEMMA UploadTypes ==
  ASSUME TInv, NEW p \in Paths, Upload(p) \/ UploadLost(p)
  PROVE  /\ TInv' /\ PutTarget(p) \in Ids /\ cloud'[PutTarget(p)] \in Items
         /\ cloud'[PutTarget(p)].path = p
         /\ \A j \in Ids : j # PutTarget(p) => cloud'[j] = cloud[j]
         /\ news \subseteq news' /\ PutTarget(p) \in news'
<1>1. UNCHANGED <<bin, items, disk, trash, owed, removed, writes, deletes>>
      /\ pc = "create" /\ p \in todo /\ disk[p] # Nil /\ IdLeft(p) /\ StateOK
  BY StateTypes DEF Upload, UploadLost, fileVars, envVars
<1>2. PutTarget(p) \in Ids /\ disk[p] \in Files /\ disk[p].c \in Versions
      /\ todo \subseteq Paths /\ DOMAIN batch = {}
  BY <1>1, TargetTypes, AtHand DEF Creating
<1>3. Put(PutTarget(p), p, disk[p].c)
  BY DEF Upload, UploadLost
<1>4. /\ cloud' \in [Ids -> {Nil} \cup Items] /\ news' \subseteq Ids /\ later' \subseteq news'
      /\ PutTarget(p) \in news' /\ news \subseteq news'
      /\ cloud'[PutTarget(p)] = [path |-> p, c |-> disk[p].c, at |-> <<disk[p].c, "cloud">>]
      /\ cloud'[PutTarget(p)] \in Items
      /\ \A j \in Ids : j # PutTarget(p) => cloud'[j] = cloud[j]
  BY <1>1, <1>2, <1>3, PutTypes
<1>5. cloud'[PutTarget(p)].path = p
  BY <1>4
<1>6. CASE Upload(p)
  <2>1. StateOK'
    BY <1>1, <1>4, <1>6 DEF StateOK, Upload
  <2>2. Handle("stamp", todo \ {p}, PutTarget(p), p, disk[p]) /\ todo \ {p} \subseteq Paths
    BY <1>2, <1>6 DEF Upload
  <2> QED
    BY <1>2, <1>4, <1>5, <2>1, <2>2, HandleTypes
<1>7. CASE UploadLost(p)
  <2>1. faults' \in 0 .. MaxFaults /\ Stop
    BY <1>1, <1>7, FaultType DEF UploadLost
  <2>2. StateOK'
    BY <1>1, <1>4, <2>1 DEF StateOK
  <2> QED
    BY <1>2, <1>4, <1>5, <2>1, <2>2, StopTypes
<1> QED
  BY <1>6, <1>7

\* The steps that end a pass and change nothing else.
LEMMA EndTypes ==
  ASSUME TInv,
         \/ EndPass \/ StampVanished
         \/ \E p \in Paths : CreateVanished(p)
         \/ \E i \in Ids : DeleteVanished(i)
  PROVE  TInv'
<1>1. UNCHANGED <<cloud, bin, news, later, items, disk, trash, owed, removed, writes,
                  deletes, faults>> /\ Stop
  BY DEF EndPass, StampVanished, CreateVanished, DeleteVanished, cloudVars, fileVars, envVars
<1>2. StateOK'
  BY <1>1, StateTypes DEF StateOK
<1> QED
  BY <1>1, <1>2, StopTypes

LEMMA CrashTypes ==
  ASSUME TInv, Crash
  PROVE  TInv'
<1>1. UNCHANGED <<cloud, bin, news, items, disk, trash, owed, removed, writes, deletes>>
      /\ Stop /\ later' = {} /\ StateOK
  BY StateTypes DEF Crash, fileVars, envVars
<1>2. faults' \in 0 .. MaxFaults
  BY <1>1, FaultType DEF Crash
<1>3. StateOK'
  BY <1>1, <1>2 DEF StateOK
<1> QED
  BY <1>1, <1>3, StopTypes

LEMMA StampUploadTypes ==
  ASSUME TInv, StampUpload
  PROVE  /\ TInv' /\ cur.id \in Ids /\ cloud'[cur.id] \in Items
         /\ cloud'[cur.id].path = cloud[cur.id].path
         /\ items'[cur.id] \in Rows /\ items'[cur.id].st = "clean"
         /\ items'[cur.id].path = cloud[cur.id].path
         /\ items'[cur.id].c = cloud'[cur.id].c /\ items'[cur.id].at = cloud'[cur.id].at
         /\ \A j \in Ids : j # cur.id => items'[j] = items[j] /\ cloud'[j] = cloud[j]
         /\ news \subseteq news' /\ cur.id \in news'
<1>1. UNCHANGED <<bin, disk, trash, owed, removed, writes, deletes, faults>>
      /\ pc = "stamp" /\ cloud[cur.id] # Nil /\ StateOK
  BY StateTypes DEF StampUpload, fileVars, envVars
<1>2. cur.id \in Ids /\ cur.path \in Paths /\ data \in Files /\ data.at \in Times
  BY <1>1, AtHand
<1>3. /\ cloud' \in [Ids -> {Nil} \cup Items] /\ news' \subseteq Ids /\ later' \subseteq news'
      /\ cur.id \in news' /\ news \subseteq news'
      /\ cloud'[cur.id] \in Items /\ cloud'[cur.id].path = cloud[cur.id].path
      /\ \A j \in Ids : j # cur.id => cloud'[j] = cloud[j]
  BY <1>1, <1>2, StampTypes DEF StampUpload
<1>4. PICK x \in Items : x = cloud'[cur.id]
  BY <1>3
<1>5. items' = upsert_item(cur.id, x, "clean")
  BY <1>4 DEF StampUpload
<1>6. /\ items' \in [Ids -> {Nil} \cup Rows]
      /\ items'[cur.id] \in Rows /\ items'[cur.id].st = "clean" /\ items'[cur.id].path = x.path
      /\ items'[cur.id].c = x.c /\ items'[cur.id].at = x.at
      /\ \A j \in Ids : j # cur.id => items'[j] = items[j]
  BY <1>1, <1>2, <1>5, UpsertTypes
<1>7. StateOK'
  BY <1>1, <1>3, <1>6 DEF StateOK
<1>8. items'[cur.id] # Nil /\ \A j \in Ids : items[j] # Nil => items'[j] # Nil
  BY <1>6, NilAssumption
<1>9. TInv'
  BY <1>1, <1>2, <1>7, <1>8, AdvanceTypes DEF StampUpload
<1> QED
  BY <1>2, <1>3, <1>4, <1>6, <1>9

LEMMA StampLostTypes ==
  ASSUME TInv, StampLost
  PROVE  /\ TInv' /\ cur.id \in Ids /\ cloud'[cur.id] \in Items
         /\ cloud'[cur.id].path = cloud[cur.id].path
         /\ \A j \in Ids : j # cur.id => cloud'[j] = cloud[j]
         /\ news \subseteq news' /\ cur.id \in news'
<1>1. UNCHANGED <<bin, items, disk, trash, owed, removed, writes, deletes>>
      /\ pc = "stamp" /\ cloud[cur.id] # Nil /\ StateOK /\ Stop
  BY StateTypes DEF StampLost, fileVars, envVars
<1>2. cur.id \in Ids /\ data.at \in Times /\ faults' \in 0 .. MaxFaults
  BY <1>1, AtHand, FaultType DEF StampLost
<1>3. /\ cloud' \in [Ids -> {Nil} \cup Items] /\ news' \subseteq Ids /\ later' \subseteq news'
      /\ cur.id \in news' /\ news \subseteq news'
      /\ cloud'[cur.id] \in Items /\ cloud'[cur.id].path = cloud[cur.id].path
      /\ \A j \in Ids : j # cur.id => cloud'[j] = cloud[j]
  BY <1>1, <1>2, StampTypes DEF StampLost
<1>4. StateOK'
  BY <1>1, <1>2, <1>3 DEF StateOK
<1> QED
  BY <1>1, <1>2, <1>3, <1>4, StopTypes

\* The conditional replace, whether its answer arrives or not.
LEMMA ReplaceTypes ==
  ASSUME TInv, NEW i \in Ids, Replace(i) \/ ReplaceLost(i)
  PROVE  /\ TInv' /\ cloud'[i] \in Items /\ cloud'[i].path = cloud[i].path
         /\ \A j \in Ids : j # i => cloud'[j] = cloud[j]
         /\ news \subseteq news' /\ i \in news'
<1>1. UNCHANGED <<bin, items, disk, trash, owed, removed, writes, deletes>>
      /\ pc = "modify" /\ i \in todo /\ disk[Path(i)] # Nil /\ cloud[i] # Nil /\ StateOK
  BY StateTypes DEF Replace, ReplaceLost, Replaces, fileVars, envVars
<1>2. /\ todo \subseteq {j \in Ids : items[j] # Nil} /\ items[i] # Nil /\ Path(i) \in Paths
      /\ DOMAIN batch = {}
  BY <1>1, AtHand DEF Creating
<1>3. disk[Path(i)] \in Files /\ disk[Path(i)].c \in Versions /\ cloud[i].path \in Paths
  BY <1>1, <1>2, AtHand
<1>4. Put(i, cloud[i].path, disk[Path(i)].c)
  BY DEF Replace, ReplaceLost
<1>5. PICK q \in Paths, c \in Versions : q = cloud[i].path /\ c = disk[Path(i)].c
  BY <1>3
<1>6. /\ cloud' \in [Ids -> {Nil} \cup Items] /\ news' \subseteq Ids /\ later' \subseteq news'
      /\ i \in news' /\ news \subseteq news'
      /\ cloud'[i] = [path |-> q, c |-> c, at |-> <<c, "cloud">>] /\ cloud'[i] \in Items
      /\ \A j \in Ids : j # i => cloud'[j] = cloud[j]
  BY <1>1, <1>4, <1>5, PutTypes
<1>7. cloud'[i].path = cloud[i].path
  BY <1>5, <1>6
<1>8. CASE Replace(i)
  <2>1. StateOK'
    BY <1>1, <1>6, <1>8 DEF StateOK, Replace
  <2>2. Handle("restamp", todo \ {i}, i, Path(i), disk[Path(i)])
    BY <1>8 DEF Replace
  <2>3. items'[i] # Nil /\ todo \ {i} \subseteq {j \in Ids : items'[j] # Nil}
    BY <1>1, <1>2
  <2> QED
    BY <1>2, <1>3, <1>6, <1>7, <2>1, <2>2, <2>3, HandleTypes
<1>9. CASE ReplaceLost(i)
  <2>1. faults' \in 0 .. MaxFaults
    BY <1>1, <1>9, FaultType DEF ReplaceLost
  <2>2. StateOK'
    BY <1>1, <1>6, <2>1 DEF StateOK
  <2>3. Goto("modify", todo \ {i}) /\ todo \ {i} \subseteq {j \in Ids : items'[j] # Nil}
    BY <1>1, <1>2, <1>9 DEF ReplaceLost
  <2> QED
    BY <1>2, <1>6, <1>7, <2>2, <2>3, GotoTypes
<1> QED
  BY <1>8, <1>9

\* An edit that could not be pushed is left for the next pass.
LEMMA ReplaceFailsTypes ==
  ASSUME TInv, NEW i \in Ids, ReplaceFails(i) \/ ReplaceSkipped(i)
  PROVE  TInv'
<1>1. UNCHANGED <<cloud, bin, news, later, items, disk, trash, owed, removed, writes, deletes>>
      /\ pc = "modify" /\ Goto("modify", todo \ {i}) /\ StateOK
  BY StateTypes DEF ReplaceFails, ReplaceSkipped, cloudVars, fileVars, envVars
<1>2. faults' \in 0 .. MaxFaults
  BY <1>1, FaultType DEF ReplaceFails, ReplaceSkipped, StateOK
<1>3. StateOK'
  BY <1>1, <1>2 DEF StateOK
<1>4. todo \ {i} \subseteq {j \in Ids : items'[j] # Nil} /\ DOMAIN batch = {}
  BY <1>1, AtHand DEF Creating
<1> QED
  BY <1>1, <1>3, <1>4, GotoTypes

LEMMA ConflictTypes ==
  ASSUME TInv, NEW i \in Ids, Conflict(i)
  PROVE  TInv' /\ \A q \in Paths : q # Path(i) /\ disk[q] # Nil => disk'[q] # Nil
<1>1. UNCHANGED <<cloud, bin, news, later, items, trash, owed, removed, writes, deletes, faults>>
      /\ pc = "modify" /\ i \in todo /\ MoveAside(Path(i)) /\ StateOK
  BY StateTypes DEF Conflict, cloudVars, envVars
<1>2. /\ todo \subseteq {j \in Ids : items[j] # Nil} /\ items[i] # Nil /\ Path(i) \in Paths
      /\ DOMAIN batch = {}
  BY <1>1, AtHand DEF Creating
<1>3. /\ disk' \in [Paths -> {Nil} \cup Files]
      /\ \A q \in Paths : q # Path(i) /\ disk[q] # Nil => disk'[q] # Nil
  BY <1>1, <1>2, AsideTypes
<1>4. StateOK'
  BY <1>1, <1>3 DEF StateOK
<1>5. Handle("aside", todo \ {i}, i, Path(i), Nil)
  BY DEF Conflict
<1>6. items'[i] # Nil /\ todo \ {i} \subseteq {j \in Ids : items'[j] # Nil}
  BY <1>1, <1>2
<1> QED
  BY <1>2, <1>3, <1>4, <1>5, <1>6, HandleTypes

LEMMA MarkConflictTypes ==
  ASSUME TInv, MarkConflict
  PROVE  /\ TInv' /\ items'[cur.id] \in Rows /\ items'[cur.id].st = "remote_dirty"
         /\ items'[cur.id].path = items[cur.id].path
         /\ items'[cur.id].c = items[cur.id].c /\ items'[cur.id].at = items[cur.id].at
         /\ \A j \in Ids : j # cur.id => items'[j] = items[j]
<1>1. UNCHANGED <<cloud, bin, news, later, disk, trash, owed, removed, writes, deletes, faults>>
      /\ pc = "aside" /\ StateOK
  BY StateTypes DEF MarkConflict, cloudVars, fileVars, envVars
<1>2. cur.id \in Ids /\ items[cur.id] # Nil /\ DOMAIN batch = {}
  BY <1>1, AtHand DEF Modifying
<1>3. items' = [items EXCEPT ![cur.id].st = "remote_dirty"]
  BY DEF MarkConflict, set_sync_state
<1>4. /\ items' \in [Ids -> {Nil} \cup Rows] /\ items'[cur.id] \in Rows
      /\ items'[cur.id].st = "remote_dirty" /\ items'[cur.id].path = items[cur.id].path
      /\ items'[cur.id].c = items[cur.id].c /\ items'[cur.id].at = items[cur.id].at
      /\ \A j \in Ids : j # cur.id => items'[j] = items[j]
  BY <1>1, <1>2, <1>3, RowTypes
<1>5. StateOK'
  BY <1>1, <1>4 DEF StateOK
<1>6. Goto("modify", todo) /\ todo \subseteq {j \in Ids : items'[j] # Nil}
  BY <1>1, <1>4, AtHand, NilAssumption DEF MarkConflict, Creating
<1> QED
  BY <1>2, <1>4, <1>5, <1>6, GotoTypes

\* What the row is given after a replace, whichever answer is ingested.
LEMMA RestampTypes ==
  ASSUME TInv, Restamp \/ RestampLost \/ RestampFails
  PROVE  /\ TInv' /\ cur.id \in Ids /\ cur.path \in Paths
         /\ items'[cur.id] \in Rows /\ items'[cur.id].st = "clean"
         /\ \/ items'[cur.id].path = cur.path
            \/ cloud[cur.id] # Nil /\ items'[cur.id].path = cloud[cur.id].path
         /\ \A j \in Ids : j # cur.id => items'[j] = items[j] /\ cloud'[j] = cloud[j]
         /\ \/ cloud' = cloud /\ news' = news /\ later' = later
            \/ /\ cloud[cur.id] # Nil /\ cloud'[cur.id] \in Items
               /\ cloud'[cur.id].path = cloud[cur.id].path
               /\ news \subseteq news' /\ cur.id \in news'
<1>1. UNCHANGED <<bin, disk, trash, owed, removed, writes, deletes>>
      /\ pc = "restamp" /\ Advance("modifyref") /\ StateOK
  BY StateTypes DEF Restamp, RestampLost, RestampFails, cloudVars, fileVars, envVars
<1>2. /\ cur.id \in Ids /\ cur.path \in Paths /\ items[cur.id] # Nil /\ data \in Files
      /\ data.c \in Versions
  BY <1>1, AtHand DEF Modifying
<1>3. faults' \in 0 .. MaxFaults
  BY <1>1, FaultType, Numbers DEF Restamp, RestampLost, RestampFails, StateOK
<1>4. PICK x \in Items :
         /\ items' = upsert_item(cur.id, x, "clean")
         /\ x.path = cur.path \/ (cloud[cur.id] # Nil /\ x.path = cloud[cur.id].path)
         /\ cloud' \in [Ids -> {Nil} \cup Items] /\ news' \subseteq Ids /\ later' \subseteq news'
         /\ \A j \in Ids : j # cur.id => cloud'[j] = cloud[j]
         /\ \/ cloud' = cloud /\ news' = news /\ later' = later
            \/ /\ cloud[cur.id] # Nil /\ cloud'[cur.id] \in Items
               /\ cloud'[cur.id].path = cloud[cur.id].path
               /\ news \subseteq news' /\ cur.id \in news'
  <2>1. PICK y : y = Replaced
    OBVIOUS
  <2>2. y \in Items /\ y.path = cur.path
    BY <1>2, <2>1 DEF Replaced, Items, Times
  <2>3. CASE RestampFails
    BY <1>1, <2>1, <2>2, <2>3 DEF RestampFails, cloudVars, StateOK
  <2>4. CASE Restamp \/ RestampLost
    <3>1. cloud[cur.id] # Nil /\ disk[cur.path].at \in Times /\ set_mtime(cur.id, disk[cur.path].at)
      BY <1>2, <2>4, AtHand DEF Restamp, RestampLost
    <3>2. PICK at \in Times : at = disk[cur.path].at
      BY <3>1
    <3>3. /\ cloud' \in [Ids -> {Nil} \cup Items] /\ news' \subseteq Ids /\ later' \subseteq news'
          /\ cur.id \in news' /\ news \subseteq news'
          /\ cloud'[cur.id] \in Items /\ cloud'[cur.id].path = cloud[cur.id].path
          /\ \A j \in Ids : j # cur.id => cloud'[j] = cloud[j]
      BY <1>1, <1>2, <3>1, <3>2, StampTypes
    <3>4. CASE Restamp
      <4>1. items' = upsert_item(cur.id, cloud'[cur.id], "clean")
        BY <3>4 DEF Restamp
      <4> QED
        BY <3>1, <3>3, <4>1
    <3>5. CASE RestampLost
      <4>1. items' = upsert_item(cur.id, y, "clean")
        BY <2>1, <3>5 DEF RestampLost
      <4> QED
        BY <2>2, <3>1, <3>3, <4>1
    <3> QED
      BY <2>4, <3>4, <3>5
  <2> QED
    BY <2>3, <2>4
<1>5. /\ items' \in [Ids -> {Nil} \cup Rows]
      /\ items'[cur.id] \in Rows /\ items'[cur.id].st = "clean" /\ items'[cur.id].path = x.path
      /\ \A j \in Ids : j # cur.id => items'[j] = items[j]
  BY <1>1, <1>2, <1>4, UpsertTypes
<1>6. StateOK'
  BY <1>1, <1>3, <1>4, <1>5 DEF StateOK
<1>7. items'[cur.id] # Nil /\ \A j \in Ids : items[j] # Nil => items'[j] # Nil
  BY <1>5, NilAssumption
<1>8. TInv'
  BY <1>1, <1>2, <1>6, <1>7, AdvanceTypes
<1> QED
  BY <1>2, <1>4, <1>5, <1>8

\* A deletion pushed to the drive.
LEMMA PushDeleteTypes ==
  ASSUME TInv, NEW i \in Ids, push_delete(i)
  PROVE  /\ TInv' /\ cloud'[i] = Nil /\ bin'[i] \in Deleted /\ bin'[i].path = cloud[i].path
         /\ items'[i] \in Rows /\ items'[i].st = "deleted" /\ items'[i].path = items[i].path
         /\ items'[i].c = items[i].c /\ items'[i].at = items[i].at
         /\ \A j \in Ids : j # i => /\ items'[j] = items[j] /\ cloud'[j] = cloud[j]
                                    /\ bin'[j] = bin[j]
         /\ news \subseteq news' /\ i \in news'
<1>1. UNCHANGED <<disk, trash, owed, removed, writes, deletes, faults>>
      /\ pc = "delete" /\ i \in todo /\ cloud[i] # Nil /\ DeleteItem(i, "sync") /\ StateOK
  BY StateTypes DEF push_delete, fileVars, envVars
<1>2. todo \subseteq {j \in Ids : items[j] # Nil} /\ items[i] # Nil /\ DOMAIN batch = {}
  BY <1>1, AtHand DEF Creating
<1>3. /\ cloud' \in [Ids -> {Nil} \cup Items] /\ bin' \in [Ids -> {Nil} \cup Deleted]
      /\ news' \subseteq Ids /\ later' \subseteq news' /\ i \in news' /\ news \subseteq news'
      /\ cloud'[i] = Nil /\ bin'[i] \in Deleted /\ bin'[i].path = cloud[i].path
      /\ \A j \in Ids : j # i => cloud'[j] = cloud[j] /\ bin'[j] = bin[j]
  BY <1>1, DeleteTypes
<1>4. items' = [items EXCEPT ![i].st = "deleted"]
  BY <1>2 DEF push_delete, mark_deleted
<1>5. /\ items' \in [Ids -> {Nil} \cup Rows] /\ items'[i] \in Rows
      /\ items'[i].st = "deleted" /\ items'[i].path = items[i].path
      /\ items'[i].c = items[i].c /\ items'[i].at = items[i].at
      /\ \A j \in Ids : j # i => items'[j] = items[j]
  BY <1>1, <1>2, <1>4, RowTypes
<1>6. StateOK'
  BY <1>1, <1>3, <1>5 DEF StateOK
<1>7. Goto("delete", todo \ {i}) /\ todo \ {i} \subseteq {j \in Ids : items'[j] # Nil}
  BY <1>2, <1>5 DEF push_delete
<1> QED
  BY <1>2, <1>3, <1>5, <1>6, <1>7, GotoTypes

\* A deletion whose answer is lost, or another client's.
LEMMA DeleteLostTypes ==
  ASSUME TInv, NEW i \in Ids, DeleteLost(i) \/ CloudDeletes(i)
  PROVE  /\ TInv' /\ cloud[i] # Nil /\ cloud'[i] = Nil
         /\ bin'[i] \in Deleted /\ bin'[i].path = cloud[i].path
         /\ \A j \in Ids : j # i => cloud'[j] = cloud[j] /\ bin'[j] = bin[j]
         /\ news \subseteq news' /\ i \in news'
<1>1. UNCHANGED <<items, disk, trash, removed, writes>> /\ cloud[i] # Nil /\ StateOK
  BY StateTypes DEF DeleteLost, CloudDeletes, fileVars, envVars
<1>2. PICK who \in {"sync", "client"} : DeleteItem(i, who)
  BY DEF DeleteLost, CloudDeletes
<1>3. /\ cloud' \in [Ids -> {Nil} \cup Items] /\ bin' \in [Ids -> {Nil} \cup Deleted]
      /\ news' \subseteq Ids /\ later' \subseteq news' /\ i \in news' /\ news \subseteq news'
      /\ cloud'[i] = Nil /\ bin'[i] \in Deleted /\ bin'[i].path = cloud[i].path
      /\ \A j \in Ids : j # i => cloud'[j] = cloud[j] /\ bin'[j] = bin[j]
  BY <1>1, <1>2, DeleteTypes
<1>4. CASE DeleteLost(i)
  <2>1. faults' \in 0 .. MaxFaults /\ Stop /\ UNCHANGED <<owed, deletes>>
    BY <1>1, <1>4, FaultType DEF DeleteLost, envVars
  <2>2. StateOK'
    BY <1>1, <1>3, <2>1 DEF StateOK
  <2> QED
    BY <1>1, <1>3, <2>1, <2>2, StopTypes
<1>5. CASE CloudDeletes(i)
  <2>1. UNCHANGED faults /\ UNCHANGED passVars /\ owed' \subseteq Versions
    BY <1>1, <1>5 DEF CloudDeletes, StateOK
  <2>2. deletes' \in [{"user", "client"} -> 0 .. MaxDeletes]
    <3>1. deletes["client"] < MaxDeletes /\ deletes["client"] + 1 \in 0 .. MaxDeletes
      BY <1>1, <1>5, Numbers DEF CloudDeletes, CountDelete, StateOK
    <3> QED
      BY <1>1, <1>5, <3>1 DEF CloudDeletes, CountDelete, StateOK
  <2>3. StateOK'
    BY <1>1, <1>3, <2>1, <2>2 DEF StateOK
  <2> QED
    BY <1>1, <1>3, <2>1, <2>3, OtherTypes
<1> QED
  BY <1>4, <1>5

\* A version written by the user or a client is new, and within the bound.
LEMMA VersionTypes ==
  ASSUME StateOK, NEW old, NewVersion(old)
  PROVE  /\ writes' \in 0 .. MaxWrites /\ writes + 1 \in Versions /\ owed' \subseteq Versions
         /\ <<writes + 1, "user">> \in Times
<1>1. writes' \in 0 .. MaxWrites /\ writes + 1 \in Versions
  BY Numbers DEF StateOK, NewVersion, Versions
<1> QED
  BY <1>1 DEF StateOK, NewVersion, Times

LEMMA UserTypes ==
  ASSUME TInv, NEW p \in Paths, UserWrites(p) \/ UserDeletes(p)
  PROVE  /\ TInv' /\ \A q \in Paths : q # p => disk'[q] = disk[q]
         /\ UserWrites(p) => disk'[p] # Nil
<1>1. UNCHANGED <<cloud, bin, news, later, items, trash, faults>> /\ UNCHANGED passVars /\ StateOK
  BY StateTypes DEF UserWrites, UserDeletes, cloudVars
<1>2. CASE UserWrites(p)
  <2>1. writes' \in 0 .. MaxWrites /\ writes + 1 \in Versions /\ owed' \subseteq Versions
        /\ <<writes + 1, "user">> \in Times
    BY <1>1, <1>2, VersionTypes DEF UserWrites
  <2>2. PICK f : f = [c |-> writes + 1, at |-> <<writes + 1, "user">>]
    OBVIOUS
  <2>3. f \in Files /\ f # Nil
    BY <2>1, <2>2, NilAssumption DEF Files
  <2>4. disk' = [disk EXCEPT ![p] = f] /\ removed' \subseteq removed /\ deletes' = deletes
    BY <1>2, <2>2 DEF UserWrites
  <2>5. disk' \in [Paths -> {Nil} \cup Files] /\ disk'[p] # Nil
        /\ \A q \in Paths : q # p => disk'[q] = disk[q]
    BY <1>1, <2>3, <2>4 DEF StateOK
  <2>6. StateOK'
    BY <1>1, <2>1, <2>4, <2>5 DEF StateOK
  <2> QED
    BY <1>1, <2>5, <2>6, OtherTypes
<1>3. CASE UserDeletes(p)
  <2>1. /\ disk' = [disk EXCEPT ![p] = Nil] /\ removed' = removed \cup {p}
        /\ owed' \subseteq owed /\ writes' = writes
    BY <1>3 DEF UserDeletes
  <2>2. deletes' \in [{"user", "client"} -> 0 .. MaxDeletes]
    <3>1. deletes["user"] < MaxDeletes /\ deletes["user"] + 1 \in 0 .. MaxDeletes
      BY <1>1, <1>3, Numbers DEF UserDeletes, CountDelete, StateOK
    <3> QED
      BY <1>1, <1>3, <3>1 DEF UserDeletes, CountDelete, StateOK
  <2>3. disk' \in [Paths -> {Nil} \cup Files] /\ disk'[p] = Nil
        /\ \A q \in Paths : q # p => disk'[q] = disk[q]
    BY <1>1, <2>1 DEF StateOK
  <2>4. StateOK'
    BY <1>1, <2>1, <2>2, <2>3 DEF StateOK
  <2>5. disk[p] # Nil /\ (UserWrites(p) => disk'[p] # Nil)
    <3>1. UserWrites(p) => FALSE
      <4>1. UserWrites(p) => writes' = writes + 1 /\ writes \in Nat
        BY <1>1, Numbers DEF UserWrites, NewVersion, StateOK
      <4> QED
        BY <2>1, <4>1
    <3> QED
      BY <1>3, <3>1 DEF UserDeletes
  <2> QED
    BY <1>1, <2>3, <2>4, <2>5, OtherTypes
<1> QED
  BY <1>2, <1>3

\* Another client makes an item or writes one.
LEMMA CloudItemTypes ==
  ASSUME TInv, NEW i \in Ids, NEW p \in Paths, NEW old, NewVersion(old),
         cloud' = [cloud EXCEPT ![i] = CloudItem(p)], Changed(i),
         UNCHANGED <<bin, items, fileVars, passVars, removed, deletes, faults>>
  PROVE  /\ TInv' /\ cloud'[i] \in Items /\ cloud'[i].path = p
         /\ \A j \in Ids : j # i => cloud'[j] = cloud[j]
         /\ news \subseteq news' /\ i \in news'
<1>1. UNCHANGED <<bin, items, disk, trash, removed, deletes, faults>> /\ UNCHANGED passVars /\ StateOK
  BY StateTypes DEF fileVars
<1>2. writes' \in 0 .. MaxWrites /\ writes + 1 \in Versions /\ owed' \subseteq Versions
      /\ <<writes + 1, "user">> \in Times
  BY <1>1, VersionTypes
<1>3. PICK x : x = CloudItem(p)
  OBVIOUS
<1>4. x \in Items /\ x.path = p
  BY <1>2, <1>3 DEF CloudItem, Items
<1>5. cloud' \in [Ids -> {Nil} \cup Items] /\ cloud'[i] = x
      /\ \A j \in Ids : j # i => cloud'[j] = cloud[j]
  BY <1>1, <1>3, <1>4 DEF StateOK
<1>6. news' = news \cup {i} /\ later' \subseteq later \cup {i}
  BY DEF Changed
<1>7. StateOK'
  BY <1>1, <1>2, <1>5, <1>6 DEF StateOK
<1> QED
  BY <1>1, <1>4, <1>5, <1>6, <1>7, OtherTypes

LEMMA CloudCreatesTypes ==
  ASSUME TInv, NEW n \in CloudNames, CloudCreates(n)
  PROVE  /\ TInv' /\ Min(Unused) \in Unused /\ <<n, 0>> \in Paths
         /\ cloud'[Min(Unused)] \in Items /\ cloud'[Min(Unused)].path = <<n, 0>>
         /\ \A j \in Ids : j # Min(Unused) => cloud'[j] = cloud[j]
         /\ news \subseteq news' /\ Min(Unused) \in news'
<1>1. Unused \in SUBSET Nat /\ Unused # {}
  BY IdsAssumption DEF Unused, CloudCreates
<1>2. Min(Unused) \in Unused /\ Min(Unused) \in Ids
  BY <1>1, MinIsMember DEF Unused
<1>3. <<n, 0>> \in Paths
  <2>1. 0 \in 0 .. MaxCopies
    BY Numbers
  <2> QED
    BY <2>1 DEF Paths, Names
<1>4. PICK i \in Ids, p \in Paths : i = Min(Unused) /\ p = <<n, 0>>
  BY <1>2, <1>3
<1>5. /\ NewVersion({}) /\ cloud' = [cloud EXCEPT ![i] = CloudItem(p)] /\ Changed(i)
      /\ UNCHANGED <<bin, items, fileVars, passVars, removed, deletes, faults>>
  BY <1>4 DEF CloudCreates
<1>6. /\ TInv' /\ cloud'[i] \in Items /\ cloud'[i].path = p
      /\ \A j \in Ids : j # i => cloud'[j] = cloud[j]
      /\ news \subseteq news' /\ i \in news'
  BY <1>5, CloudItemTypes
<1> QED
  BY <1>2, <1>3, <1>4, <1>6

LEMMA CloudWritesTypes ==
  ASSUME TInv, NEW i \in Ids, CloudWrites(i)
  PROVE  /\ TInv' /\ cloud[i] # Nil /\ cloud'[i] \in Items /\ cloud'[i].path = cloud[i].path
         /\ \A j \in Ids : j # i => cloud'[j] = cloud[j]
         /\ news \subseteq news' /\ i \in news'
<1>1. PICK p \in Paths : p = cloud[i].path
  BY AtHand DEF CloudWrites
<1>2. /\ cloud[i] # Nil /\ NewVersion({cloud[i].c})
      /\ cloud' = [cloud EXCEPT ![i] = CloudItem(p)] /\ Changed(i)
      /\ UNCHANGED <<bin, items, fileVars, passVars, removed, deletes, faults>>
  BY <1>1 DEF CloudWrites
<1>3. /\ TInv' /\ cloud'[i] \in Items /\ cloud'[i].path = p
      /\ \A j \in Ids : j # i => cloud'[j] = cloud[j]
      /\ news \subseteq news' /\ i \in news'
  BY <1>2, CloudItemTypes
<1> QED
  BY <1>1, <1>2, <1>3

LEMMA InitTypes ==
  ASSUME Init
  PROVE  TInv
<1>1. DOMAIN batch = {} /\ 0 \in 0 .. MaxWrites /\ 0 \in 0 .. MaxFaults /\ 0 \in 0 .. MaxDeletes
  BY Numbers DEF Init, NoBatch
<1>2. deletes \in [{"user", "client"} -> 0 .. MaxDeletes]
  BY <1>1 DEF Init
<1>3. TypeOK
  BY <1>1, <1>2 DEF Init, TypeOK, Points
<1>4. PassOK
  BY <1>1 DEF Init, PassOK, Creating, Fetching, Modifying
<1> QED
  BY <1>3, <1>4 DEF TInv

LEMMA NextTypes ==
  ASSUME TInv, [Next]_vars
  PROVE  TInv'
<1>1. CASE UNCHANGED vars
  <2>1. TypeOK'
    BY <1>1 DEF TInv, TypeOK, vars
  <2>2. PassOK'
    BY <1>1 DEF TInv, PassOK, vars
  <2> QED
    BY <2>1, <2>2 DEF TInv
<1>2. CASE Pass
  <2>1. CASE \/ Fetch \/ set_delta_cursor \/ Download \/ atomic_write \/ MarkClean \/ RecordSynced
             \/ BeginTrash \/ BeginCreates \/ BeginModifies \/ BeginDeletes \/ EndPass
             \/ StampUpload \/ StampVanished \/ MarkConflict \/ Restamp
    BY <2>1, FetchTypes, CursorTypes, DownloadTypes, WriteTypes, MarkCleanTypes,
       RecordSyncedTypes, PhaseTypes, EndTypes, StampUploadTypes, MarkConflictTypes, RestampTypes
  <2>2. ASSUME NEW i \in Ids,
               \/ ingest_item(i) \/ SkipDownload(i) \/ BeginDownload(i)
               \/ apply_local_deletes(i) \/ Replace(i) \/ ReplaceSkipped(i) \/ Conflict(i)
               \/ push_delete(i) \/ DeleteVanished(i)
        PROVE  TInv'
    BY <2>2, IngestTypes, SkipDownloadTypes, BeginDownloadTypes, TrashTypes, ReplaceTypes,
       ReplaceFailsTypes, ConflictTypes, PushDeleteTypes, EndTypes
  <2>3. ASSUME NEW p \in Paths, Upload(p) \/ CreateVanished(p)
        PROVE  TInv'
    BY <2>3, UploadTypes, EndTypes
  <2> QED
    BY <1>2, <2>1, <2>2, <2>3 DEF Pass
<1>3. CASE DownloadFails \/ RestampFails
  BY <1>3, DownloadFailsTypes, RestampTypes
<1>4. CASE Faults
  <2>1. CASE Crash \/ StampLost \/ RestampLost
    BY <2>1, CrashTypes, StampLostTypes, RestampTypes
  <2>2. ASSUME NEW i \in Ids, ReplaceLost(i) \/ ReplaceFails(i) \/ DeleteLost(i)
        PROVE  TInv'
    BY <2>2, ReplaceTypes, ReplaceFailsTypes, DeleteLostTypes
  <2>3. ASSUME NEW p \in Paths, UploadLost(p)
        PROVE  TInv'
    BY <2>3, UploadTypes
  <2> QED
    BY <1>4, <2>1, <2>2, <2>3 DEF Faults
<1>5. CASE Others
  <2>1. ASSUME NEW p \in Paths, UserWrites(p) \/ UserDeletes(p)
        PROVE  TInv'
    BY <2>1, UserTypes
  <2>2. ASSUME NEW n \in CloudNames, CloudCreates(n)
        PROVE  TInv'
    BY <2>2, CloudCreatesTypes
  <2>3. ASSUME NEW i \in Ids, CloudWrites(i) \/ CloudDeletes(i)
        PROVE  TInv'
    BY <2>3, CloudWritesTypes, DeleteLostTypes
  <2> QED
    BY <1>5, <2>1, <2>2, <2>3 DEF Others
<1> QED
  BY <1>1, <1>2, <1>3, <1>4, <1>5 DEF Next

\* At every step of every pass the variables have their types, and what the
\* pass has still to handle is of the kind its phase handles, whatever fails
\* and whenever the user and the other clients act.
THEOREM TypeCorrect == Spec => []TypeOK
<1>1. Init => TInv
  BY InitTypes
<1>2. TInv /\ [Next]_vars => TInv'
  BY NextTypes
<1>3. TInv => TypeOK
  BY DEF TInv
<1> QED
  BY <1>1, <1>2, <1>3, PTL DEF Spec

-----------------------------------------------------------------------------
(* Paths: an item keeps its own *)

\* No item is known at a path it was not known at, and none is left behind.
Shrinks ==
    /\ \A i \in Ids : \A p \in Paths :
         (Known(i, p)' => Known(i, p)) /\ (Binned(i, p)' => Known(i, p) \/ Binned(i, p))
    /\ \A i \in Ids : (items[i] # Nil \/ Fetched(i))' => (cloud[i] # Nil \/ bin[i] # Nil)'

LEMMA ShrinkPaths ==
  ASSUME PathsOK, Shrinks
  PROVE  PathsOK'
BY DEF PathsOK, Shrinks

\* Two rows never have one path.
LEMMA RowPaths ==
  ASSUME TInv, PathsOK, NEW i \in Ids, NEW j \in Ids, items[i] # Nil, items[j] # Nil,
         Path(i) = Path(j)
  PROVE  i = j
<1>1. PICK p \in Paths : p = Path(i)
  BY AtHand
<1>2. Known(i, p) /\ Known(j, p)
  BY <1>1 DEF Known, Path
<1> QED
  BY <1>2 DEF PathsOK

\* An item of the drive and its row have one path.
LEMMA SamePath ==
  ASSUME TInv, PathsOK, NEW i \in Ids, items[i] # Nil, cloud[i] # Nil
  PROVE  cloud[i].path = Path(i)
<1>1. PICK p \in Paths, q \in Paths : p = Path(i) /\ q = cloud[i].path
  BY AtHand
<1>2. Known(i, p) /\ Known(i, q)
  BY <1>1 DEF Known, Path
<1> QED
  BY <1>1, <1>2 DEF PathsOK

\* The rows are the same but for their states and references.
SameRows ==
    \A j \in Ids : /\ items'[j] = Nil <=> items[j] = Nil
                   /\ items[j] # Nil => /\ items'[j].path = items[j].path
                                        /\ items'[j].c = items[j].c /\ items'[j].at = items[j].at

\* One item of the drive is written or deleted, and its change is news.
Writes(i) ==
    /\ cloud[i] # Nil
    /\ \/ cloud'[i] # Nil /\ cloud'[i].path = cloud[i].path /\ bin'[i] = bin[i]
       \/ cloud'[i] = Nil /\ bin'[i] # Nil /\ bin'[i].path = cloud[i].path
    /\ \A j \in Ids : j # i => cloud'[j] = cloud[j] /\ bin'[j] = bin[j]
    /\ news \subseteq news' /\ i \in news'

\* An item is made, of an id never used, at a path no known item has.
Makes(i, p) ==
    /\ i \in Unused /\ cloud'[i] # Nil /\ cloud'[i].path = p /\ bin' = bin
    /\ \A j \in Ids : j # i => cloud'[j] = cloud[j]
    /\ \A j \in Ids : ~Known(j, p)
    /\ news \subseteq news' /\ i \in news'

LEMMA RowsKeepPaths ==
  ASSUME PathsOK, SameRows, UNCHANGED <<cloud, bin>>, batch' = batch \/ DOMAIN batch' = {}
  PROVE  PathsOK'
<1>1. Shrinks
  BY DEF PathsOK, SameRows, Shrinks, Known, Binned, Fetched
<1> QED
  BY <1>1, ShrinkPaths

LEMMA WritesKeepPaths ==
  ASSUME PathsOK, SameRows, NEW i \in Ids, Writes(i), batch' = batch \/ DOMAIN batch' = {}
  PROVE  PathsOK'
<1>1. Shrinks
  BY DEF PathsOK, SameRows, Writes, Shrinks, Known, Binned, Fetched
<1> QED
  BY <1>1, ShrinkPaths

LEMMA MakesKeepPaths ==
  ASSUME PathsOK, items' = items, NEW i \in Ids, NEW p \in Paths, Makes(i, p),
         batch' = batch \/ DOMAIN batch' = {}
  PROVE  PathsOK'
<1>1. cloud[i] = Nil /\ bin[i] = Nil /\ items[i] = Nil /\ ~Fetched(i)
  BY DEF Makes, Unused, PathsOK
<1>2. \A q \in Paths : (Known(i, q)' => q = p) /\ ~Binned(i, q)'
  BY <1>1 DEF Makes, Known, Binned, Fetched
<1>3. \A j \in Ids : j # i => \A q \in Paths : /\ Known(j, q)' => Known(j, q) /\ q # p
                                               /\ Binned(j, q)' => Binned(j, q)
  BY DEF Makes, Known, Binned, Fetched
<1>4. \A j \in Ids : (items[j] # Nil \/ Fetched(j))' => (cloud[j] # Nil \/ bin[j] # Nil)'
  BY DEF Makes, Fetched, PathsOK
<1> QED
  BY <1>2, <1>3, <1>4 DEF PathsOK

\* An item that is written or deleted is still known where it was.
LEMMA WritesKeepKnown ==
  ASSUME TInv, PathsOK, NEW i \in Ids, Writes(i), NEW j \in Ids, NEW p \in Paths,
         items' = items, batch' = batch, Known(j, p) \/ Binned(j, p)
  PROVE  (Known(j, p) \/ Binned(j, p))'
<1>1. CASE j # i
  BY <1>1 DEF Writes, Known, Binned, Fetched
<1>2. CASE j = i
  <2>1. PICK q \in Paths : q = cloud[i].path
    BY AtHand DEF Writes
  <2>2. Known(i, q)
    BY <2>1 DEF Writes, Known
  <2>3. p = q
    BY <1>2, <2>2 DEF PathsOK
  <2> QED
    BY <1>2, <2>1, <2>3 DEF Writes, Known, Binned
<1> QED
  BY <1>1, <1>2

-----------------------------------------------------------------------------
(* News: what differs will be fetched *)

\* Rows and items that differ already did, or are news now.
LEMMA KeepNews ==
  ASSUME NewsOK, pc' # "ingest", news \subseteq news', pc' = "restamp" => cur'.id \in news',
         \A j \in Ids : \/ j \in news'
                        \/ items'[j] = Nil \/ cloud'[j] = Nil
                        \/ /\ items[j] # Nil /\ cloud'[j] = cloud[j]
                           /\ items'[j].c = items[j].c /\ items'[j].at = items[j].at
                        \/ items'[j].c = cloud'[j].c /\ items'[j].at = cloud'[j].at
  PROVE  NewsOK'
BY DEF NewsOK, Etag

-----------------------------------------------------------------------------
(* Steps that end a pass *)

\* A clean row without a file is explained when the pass has ended.
LEMMA StopExplained ==
  ASSUME DInv, Stop, news \subseteq news', UNCHANGED <<items, disk, removed>>
  PROVE  CurOK' /\ CreateOK' /\ MissingOK'
<1>1. pc' = "idle"
  BY DEF Stop
<1>2. CurOK' /\ CreateOK'
  BY <1>1 DEF CurOK, CreateOK, Creating, Fetching, Modifying
<1>3. \A i \in Ids : items'[i] # Nil /\ items'[i].st = "clean" => Explained(i)'
  BY <1>1 DEF DInv, MissingOK, Explained, Path
<1> QED
  BY <1>1, <1>2, <1>3 DEF MissingOK, Fetching

LEMMA EndOK ==
  ASSUME DInv,
         \/ EndPass \/ StampVanished \/ Crash
         \/ \E p \in Paths : CreateVanished(p)
         \/ \E i \in Ids : DeleteVanished(i)
  PROVE  DInv'
<1>1. UNCHANGED <<cloud, bin, news, items, disk, removed>> /\ Stop
  BY DEF EndPass, StampVanished, CreateVanished, DeleteVanished, Crash, cloudVars, fileVars, envVars
<1>2. TInv' /\ DOMAIN batch' = {}
  BY <1>1, EndTypes, CrashTypes DEF DInv, Stop, NoBatch
<1>3. PathsOK'
  BY <1>1, <1>2, RowsKeepPaths DEF DInv, SameRows
<1>4. NewsOK'
  BY <1>1, KeepNews DEF DInv, Stop
<1> QED
  BY <1>1, <1>2, <1>3, <1>4, StopExplained DEF DInv

\* What an upload does to the drive.
LEMMA UploadDrive ==
  ASSUME DInv, NEW p \in Paths, Upload(p) \/ UploadLost(p)
  PROVE  \E i \in Ids : (i = PutTarget(p)) /\ (Writes(i) \/ Makes(i, p))
<1>1. /\ pc = "create" /\ p \in todo /\ disk[p] # Nil /\ IdLeft(p) /\ bin' = bin
      /\ DOMAIN batch = {} /\ TInv
  BY AtHand DEF Upload, UploadLost, DInv
<1>2. PICK i \in Ids : i = PutTarget(p)
  BY <1>1, TargetTypes
<1>3. /\ cloud'[i] \in Items /\ cloud'[i].path = p
      /\ \A j \in Ids : j # i => cloud'[j] = cloud[j]
      /\ news \subseteq news' /\ i \in news'
  BY <1>1, <1>2, UploadTypes
<1>4. cloud'[i] # Nil
  BY <1>3, NilAssumption
<1>5. CASE cloud[i] # Nil /\ cloud[i].path = p
  BY <1>1, <1>2, <1>3, <1>4, <1>5 DEF Writes
<1>6. CASE Holder(p) = {} /\ i \in Unused
  <2>1. \A j \in Ids : ~(cloud[j] # Nil /\ cloud[j].path = p)
    BY <1>6 DEF Holder
  <2>2. \A j \in Ids : ~(items[j] # Nil /\ items[j].path = p)
    BY <1>1 DEF DInv, CreateOK, Creating, Live, Tombstones, Path
  <2>3. \A j \in Ids : ~Known(j, p)
    BY <1>1, <2>1, <2>2 DEF Known, Fetched
  <2> QED
    BY <1>1, <1>2, <1>3, <1>4, <1>6, <2>3 DEF Makes
<1> QED
  BY <1>1, <1>2, <1>5, <1>6, TargetTypes

LEMMA UploadLostOK ==
  ASSUME DInv, NEW p \in Paths, UploadLost(p)
  PROVE  DInv'
<1>1. UNCHANGED <<bin, items, disk, removed>> /\ Stop
  BY DEF UploadLost, fileVars, envVars
<1>2. TInv' /\ DOMAIN batch' = {}
  BY <1>1, UploadTypes DEF DInv, Stop, NoBatch
<1>3. PICK i \in Ids : Writes(i) \/ Makes(i, p)
  BY UploadDrive
<1>4. PathsOK'
  BY <1>1, <1>2, <1>3, WritesKeepPaths, MakesKeepPaths DEF DInv, SameRows
<1>5. news \subseteq news' /\ i \in news' /\ \A j \in Ids : j # i => cloud'[j] = cloud[j]
  BY <1>3 DEF Writes, Makes
<1>6. NewsOK'
  BY <1>1, <1>5, KeepNews DEF DInv, Stop
<1> QED
  BY <1>1, <1>2, <1>4, <1>5, <1>6, StopExplained DEF DInv

\* A time stamp or a deletion whose answer is lost.
LEMMA LostOK ==
  ASSUME DInv, StampLost \/ \E i \in Ids : DeleteLost(i)
  PROVE  DInv'
<1>1. UNCHANGED <<items, disk, removed>> /\ Stop /\ TInv
  BY DEF StampLost, DeleteLost, fileVars, envVars, DInv
<1>2. TInv' /\ \E i \in Ids : Writes(i)
  <2>1. CASE StampLost
    <3>1. bin' = bin /\ cloud[cur.id] # Nil
      BY <2>1 DEF StampLost
    <3> QED
      BY <1>1, <2>1, <3>1, StampLostTypes, NilAssumption DEF Writes
  <2>2. ASSUME NEW i \in Ids, DeleteLost(i)
        PROVE  TInv' /\ Writes(i)
    BY <1>1, <2>2, DeleteLostTypes, NilAssumption DEF Writes
  <2> QED
    BY <2>1, <2>2
<1>3. PICK i \in Ids : Writes(i)
  BY <1>2
<1>4. DOMAIN batch' = {}
  BY <1>1 DEF Stop, NoBatch
<1>5. PathsOK'
  BY <1>1, <1>3, <1>4, WritesKeepPaths DEF DInv, SameRows
<1>6. news \subseteq news' /\ i \in news' /\ \A j \in Ids : j # i => cloud'[j] = cloud[j]
  BY <1>3 DEF Writes
<1>7. NewsOK'
  BY <1>1, <1>6, KeepNews DEF DInv, Stop
<1> QED
  BY <1>1, <1>2, <1>5, <1>6, <1>7, StopExplained DEF DInv

-----------------------------------------------------------------------------
(* Steps of the pass *)

LEMMA FetchOK ==
  ASSUME DInv, Fetch
  PROVE  DInv'
<1>1. UNCHANGED <<cloud, bin, news, items, disk, removed, cur, todo>> /\ pc = "idle"
      /\ pc' = "ingest" /\ later' = {}
  BY DEF Fetch, fileVars, envVars
<1>2. DOMAIN batch' = news /\ \A i \in news : batch'[i] = cloud[i]
  BY DEF Fetch
<1>3. TInv'
  BY FetchTypes DEF DInv
<1>4. PathsOK'
  <2>1. Shrinks
    BY <1>1, <1>2 DEF DInv, PathsOK, Shrinks, Known, Binned, Fetched
  <2> QED
    BY <2>1, ShrinkPaths DEF DInv
<1>5. CurOK' /\ CreateOK'
  BY <1>1 DEF CurOK, CreateOK, Creating, Fetching, Modifying
<1>6. NewsOK'
  BY <1>1, <1>2 DEF DInv, NewsOK, Etag
<1>7. MissingOK'
  BY <1>1, <1>2 DEF DInv, MissingOK, Explained, Path, Fetching
<1> QED
  BY <1>3, <1>4, <1>5, <1>6, <1>7 DEF DInv

LEMMA IngestOK ==
  ASSUME DInv, NEW i \in Ids, ingest_item(i)
  PROVE  DInv'
<1>1. UNCHANGED <<cloud, bin, news, later, disk, removed, pc, cur, todo>> /\ pc = "ingest"
      /\ i \in DOMAIN batch /\ TInv
  BY DEF ingest_item, cloudVars, fileVars, envVars, DInv
<1>2. DOMAIN batch' = DOMAIN batch \ {i} /\ \A j \in DOMAIN batch' : batch'[j] = batch[j]
  BY DEF ingest_item
<1>3. TInv' /\ later \subseteq news
  BY <1>1, IngestTypes DEF TInv, TypeOK
<1>4. /\ \A j \in Ids : j # i => items'[j] = items[j]
      /\ batch[i] = Nil /\ items[i] = Nil => items'[i] = Nil
      /\ batch[i] = Nil /\ items[i] # Nil =>
           /\ items'[i] # Nil /\ items'[i].st = "deleted" /\ items'[i].path = items[i].path
      /\ batch[i] # Nil => /\ items'[i] # Nil /\ items'[i].st = "remote_dirty"
                           /\ items'[i].path = batch[i].path
                           /\ items'[i].c = batch[i].c /\ items'[i].at = batch[i].at
  BY <1>1, IngestRows, NilAssumption
<1>5. PathsOK'
  <2>1. Shrinks
    BY <1>1, <1>2, <1>4 DEF DInv, PathsOK, Shrinks, Known, Binned, Fetched
  <2> QED
    BY <2>1, ShrinkPaths DEF DInv
<1>6. CurOK' /\ CreateOK'
  BY <1>1 DEF CurOK, CreateOK, Creating, Fetching, Modifying
<1>7. NewsOK'
  <2>1. batch[i] = cloud[i] \/ i \in later
    BY <1>1 DEF DInv, NewsOK
  <2>2. ASSUME NEW j \in Ids, items'[j] # Nil, cloud'[j] # Nil, Etag(cloud[j])' # Etag(items[j])'
        PROVE  j \in news /\ j \in later \cup DOMAIN batch'
    <3>1. CASE j = i
      BY <1>1, <1>3, <1>4, <2>1, <2>2, <3>1 DEF Etag
    <3>2. CASE j # i
      BY <1>1, <1>2, <1>4, <2>2, <3>2 DEF DInv, NewsOK, Etag
    <3> QED
      BY <3>1, <3>2
  <2> QED
    BY <1>1, <1>2, <2>2 DEF DInv, NewsOK
<1>8. MissingOK'
  <2>1. ASSUME NEW j \in Ids, items'[j] # Nil, items'[j].st = "clean"
        PROVE  Explained(j)'
    <3>1. j # i
      BY <1>4, <2>1
    <3> QED
      BY <1>1, <1>2, <1>4, <2>1, <3>1 DEF DInv, MissingOK, Explained, Path
  <2> QED
    BY <1>1, <2>1 DEF MissingOK, Fetching
<1> QED
  BY <1>3, <1>5, <1>6, <1>7, <1>8 DEF DInv

LEMMA CursorOK ==
  ASSUME DInv, set_delta_cursor
  PROVE  DInv'
<1>1. UNCHANGED <<cloud, bin, batch, items, disk, removed>> /\ pc = "ingest"
      /\ pc' = "materialize" /\ news' = later /\ DOMAIN batch = {}
      /\ todo' = {i \in Ids : items[i] # Nil /\ items[i].st = "remote_dirty"}
  BY DEF set_delta_cursor, Goto, fileVars, envVars, NoBatch
<1>2. TInv'
  BY CursorTypes DEF DInv
<1>3. PathsOK'
  BY <1>1, RowsKeepPaths DEF DInv, SameRows
<1>4. CurOK' /\ CreateOK'
  BY <1>1 DEF CurOK, CreateOK, Creating, Fetching, Modifying
<1>5. NewsOK'
  BY <1>1 DEF DInv, NewsOK, Etag
<1>6. MissingOK'
  BY <1>1 DEF DInv, MissingOK, Explained, Path, Fetching
<1> QED
  BY <1>2, <1>3, <1>4, <1>5, <1>6 DEF DInv

LEMMA SkipDownloadOK ==
  ASSUME DInv, NEW i \in Ids, SkipDownload(i)
  PROVE  DInv'
<1>1. UNCHANGED <<cloud, bin, news, batch, disk, removed>> /\ pc = "materialize"
      /\ pc' = "materialize" /\ todo' = todo \ {i} /\ disk[Path(i)] # Nil /\ i \in todo
  BY DEF SkipDownload, Goto, cloudVars, fileVars, envVars, local_file_matches_synced_remote,
         local_file_matches
<1>2. /\ TInv' /\ items'[i] # Nil /\ items'[i].st = "clean"
      /\ items'[i].path = items[i].path /\ items[i] # Nil
      /\ items'[i].c = items[i].c /\ items'[i].at = items[i].at
      /\ \A j \in Ids : j # i => items'[j] = items[j]
  BY <1>1, SkipDownloadTypes, AtHand, NilAssumption DEF DInv, Creating
<1>3. SameRows
  BY <1>2 DEF SameRows
<1>4. PathsOK'
  BY <1>1, <1>3, RowsKeepPaths DEF DInv
<1>5. CurOK' /\ CreateOK'
  BY <1>1 DEF CurOK, CreateOK, Creating, Fetching, Modifying
<1>6. NewsOK'
  BY <1>1, <1>3, KeepNews DEF DInv, SameRows
<1>7. MissingOK'
  <2>1. ASSUME NEW j \in Ids, items'[j] # Nil, items'[j].st = "clean"
        PROVE  Explained(j)'
    <3>1. CASE j = i
      BY <1>1, <1>2, <3>1 DEF Explained, Path
    <3>2. CASE j # i
      BY <1>1, <1>2, <2>1, <3>2 DEF DInv, MissingOK, Explained, Path
    <3> QED
      BY <3>1, <3>2
  <2>2. \A j \in todo' : items'[j].st = "remote_dirty"
    <3>1. todo \subseteq Ids
      BY <1>1, AtHand DEF DInv, Creating
    <3> QED
      BY <1>1, <1>2, <3>1 DEF DInv, MissingOK
  <2> QED
    BY <1>1, <2>1, <2>2 DEF MissingOK, Fetching
<1> QED
  BY <1>2, <1>4, <1>5, <1>6, <1>7 DEF DInv

LEMMA BeginDownloadOK ==
  ASSUME DInv, NEW i \in Ids, BeginDownload(i)
  PROVE  DInv'
<1>1. UNCHANGED <<cloud, bin, news, batch, items, removed>> /\ pc = "materialize"
      /\ pc' = "download" /\ todo' = todo \ {i} /\ i \in todo
      /\ cur' = [id |-> i, path |-> Path(i)]
  BY DEF BeginDownload, Handle, cloudVars, envVars
<1>2. /\ TInv' /\ items[i] # Nil /\ items[i].st = "remote_dirty"
      /\ \A q \in Paths : q # Path(i) /\ disk[q] # Nil => disk'[q] # Nil
  BY <1>1, BeginDownloadTypes, AtHand DEF DInv, Creating, MissingOK
<1>3. cur'.id = i /\ cur'.path = Path(i)
  BY <1>1
<1>4. PathsOK'
  BY <1>1, RowsKeepPaths DEF DInv, SameRows
<1>5. CurOK' /\ CreateOK'
  BY <1>1, <1>3 DEF CurOK, CreateOK, Creating, Fetching, Modifying, Path
<1>6. NewsOK'
  BY <1>1, KeepNews DEF DInv
<1>7. MissingOK'
  <2>1. ASSUME NEW j \in Ids, items'[j] # Nil, items'[j].st = "clean"
        PROVE  Explained(j)'
    <3>1. j # i /\ Path(j) \in Paths
      BY <1>1, <1>2, <2>1, AtHand DEF DInv
    <3>2. Path(j) # Path(i)
      BY <1>1, <1>2, <2>1, <3>1, RowPaths DEF DInv
    <3>3. disk[Path(j)] # Nil \/ Path(j) \in removed
      BY <1>1, <2>1 DEF DInv, MissingOK, Explained
    <3> QED
      BY <1>1, <1>2, <3>1, <3>2, <3>3 DEF Explained, Path
  <2> QED
    BY <1>1, <1>2, <1>3, <2>1 DEF DInv, MissingOK, Fetching
<1> QED
  BY <1>2, <1>4, <1>5, <1>6, <1>7 DEF DInv

\* Bytes arrive, or a download fails.
LEMMA DownloadOK ==
  ASSUME DInv, Download \/ DownloadFails
  PROVE  DInv'
<1>1. UNCHANGED <<cloud, bin, news, batch, items, disk, removed, todo>> /\ pc = "download"
      /\ ((pc' = "place" /\ cur' = cur) \/ pc' = "materialize")
  BY DEF Download, DownloadFails, Goto, cloudVars, fileVars, envVars
<1>2. TInv'
  BY DownloadTypes, DownloadFailsTypes DEF DInv
<1>3. PathsOK'
  BY <1>1, RowsKeepPaths DEF DInv, SameRows
<1>4. CurOK' /\ CreateOK'
  BY <1>1 DEF DInv, CurOK, CreateOK, Creating, Fetching, Modifying
<1>5. NewsOK'
  BY <1>1, KeepNews DEF DInv
<1>6. MissingOK'
  BY <1>1 DEF DInv, MissingOK, Explained, Path, Fetching
<1> QED
  BY <1>2, <1>3, <1>4, <1>5, <1>6 DEF DInv

LEMMA WriteOK ==
  ASSUME DInv, atomic_write
  PROVE  DInv'
<1>1. UNCHANGED <<cloud, bin, news, batch, items, removed, todo, cur>> /\ pc = "place"
      /\ pc' = "mark"
  BY DEF atomic_write, Advance, cloudVars, envVars
<1>2. TInv' /\ disk'[cur.path] # Nil /\ \A q \in Paths : q # cur.path => disk'[q] = disk[q]
  BY WriteTypes DEF DInv
<1>3. PathsOK'
  BY <1>1, RowsKeepPaths DEF DInv, SameRows
<1>4. CurOK' /\ CreateOK'
  BY <1>1 DEF DInv, CurOK, CreateOK, Creating, Fetching, Modifying
<1>5. NewsOK'
  BY <1>1, KeepNews DEF DInv
<1>6. MissingOK'
  <2>1. ASSUME NEW j \in Ids, items'[j] # Nil, items'[j].st = "clean"
        PROVE  Explained(j)'
    <3>1. Path(j) \in Paths
      BY <1>1, <2>1, AtHand DEF DInv
    <3> QED
      BY <1>1, <1>2, <2>1, <3>1 DEF DInv, MissingOK, Explained, Path
  <2> QED
    BY <1>1, <1>2, <2>1 DEF DInv, MissingOK, Fetching
<1> QED
  BY <1>2, <1>3, <1>4, <1>5, <1>6 DEF DInv

LEMMA MarkCleanOK ==
  ASSUME DInv, MarkClean
  PROVE  DInv'
<1>1. UNCHANGED <<cloud, bin, news, batch, removed, todo, cur>> /\ pc = "mark" /\ pc' = "ref"
  BY DEF MarkClean, Advance, cloudVars, envVars
<1>2. /\ cur.id \in Ids /\ cur.path \in Paths /\ items[cur.id] # Nil
      /\ todo \subseteq Ids
  BY <1>1, AtHand DEF DInv, Fetching, Creating
<1>3. /\ TInv' /\ items'[cur.id] # Nil /\ items'[cur.id].st = "clean"
      /\ items'[cur.id].path = items[cur.id].path
      /\ items'[cur.id].c = items[cur.id].c /\ items'[cur.id].at = items[cur.id].at
      /\ \A j \in Ids : j # cur.id => items'[j] = items[j]
      /\ \A q \in Paths : disk'[q] = Nil <=> disk[q] = Nil
  BY MarkCleanTypes, NilAssumption DEF DInv
<1>4. SameRows
  BY <1>2, <1>3 DEF SameRows
<1>5. PathsOK'
  BY <1>1, <1>4, RowsKeepPaths DEF DInv
<1>6. CurOK' /\ CreateOK'
  BY <1>1, <1>3 DEF DInv, CurOK, CreateOK, Creating, Fetching, Modifying
<1>7. NewsOK'
  BY <1>1, <1>4, KeepNews DEF DInv, SameRows
<1>8. MissingOK'
  <2>1. ASSUME NEW j \in Ids, items'[j] # Nil, items'[j].st = "clean"
        PROVE  Explained(j)'
    <3>1. CASE j = cur.id
      <4>1. items'[j].path = cur.path
        BY <1>1, <1>3, <3>1 DEF DInv, CurOK, Fetching
      <4>2. disk[cur.path] # Nil \/ cur.path \in removed
        BY <1>1 DEF DInv, MissingOK
      <4> QED
        BY <1>1, <1>2, <1>3, <4>1, <4>2 DEF Explained, Path
    <3>2. CASE j # cur.id
      <4>1. items'[j] = items[j] /\ Path(j) \in Paths
        BY <1>3, <2>1, <3>2, AtHand DEF DInv
      <4> QED
        BY <1>1, <1>3, <2>1, <4>1 DEF DInv, MissingOK, Explained, Path
    <3> QED
      BY <3>1, <3>2
  <2>2. cur.id \notin todo /\ \A j \in todo' : items'[j].st = "remote_dirty"
    BY <1>1, <1>2, <1>3 DEF DInv, MissingOK, Fetching
  <2> QED
    BY <1>1, <2>1, <2>2 DEF MissingOK, Fetching
<1> QED
  BY <1>3, <1>5, <1>6, <1>7, <1>8 DEF DInv

LEMMA RecordSyncedOK ==
  ASSUME DInv, RecordSynced
  PROVE  DInv'
<1>1. /\ UNCHANGED <<cloud, bin, news, batch, disk, removed, todo>>
      /\ \/ pc = "ref" /\ pc' = "materialize"
         \/ pc = "createref" /\ pc' = "create"
         \/ pc = "modifyref" /\ pc' = "modify"
  BY DEF RecordSynced, Goto, cloudVars, fileVars, envVars
<1>2. cur.id \in Ids /\ items[cur.id] # Nil
  BY <1>1, AtHand DEF DInv, Fetching, Modifying
<1>3. /\ TInv' /\ items'[cur.id] # Nil /\ items'[cur.id].st = items[cur.id].st
      /\ items'[cur.id].path = items[cur.id].path
      /\ items'[cur.id].c = items[cur.id].c /\ items'[cur.id].at = items[cur.id].at
      /\ \A j \in Ids : j # cur.id => items'[j] = items[j]
  BY RecordSyncedTypes, NilAssumption DEF DInv
<1>4. SameRows /\ \A j \in Ids : items[j] # Nil => items'[j].st = items[j].st
  BY <1>2, <1>3 DEF SameRows
<1>5. PathsOK'
  BY <1>1, <1>4, RowsKeepPaths DEF DInv
<1>6. CurOK' /\ pc' # "trash"
  BY <1>1 DEF CurOK, Fetching, Modifying
<1>7. CreateOK'
  <2>1. \A j \in Ids : items'[j] # Nil =>
           /\ items[j] # Nil /\ Path(j)' = Path(j) /\ (Live(j)' <=> Live(j))
           /\ items'[j].st = items[j].st
    BY <1>4 DEF SameRows, Live, Path
  <2> QED
    BY <1>1, <2>1 DEF DInv, CreateOK, Creating, Tombstones, Live
<1>8. NewsOK'
  BY <1>1, <1>4, KeepNews DEF DInv, SameRows
<1>9. MissingOK'
  <2>1. ASSUME NEW j \in Ids, items'[j] # Nil, items'[j].st = "clean"
        PROVE  Explained(j)'
    BY <1>1, <1>4, <2>1 DEF DInv, SameRows, MissingOK, Explained, Path
  <2>2. pc' = "materialize" => \A j \in todo' : items'[j].st = "remote_dirty"
    <3>1. pc = "ref" => todo \subseteq {j \in Ids : items[j] # Nil}
      BY AtHand DEF DInv, Creating
    <3> QED
      BY <1>1, <1>4, <3>1 DEF DInv, MissingOK, Fetching
  <2> QED
    BY <1>1, <2>1, <2>2 DEF MissingOK, Fetching
<1> QED
  BY <1>3, <1>5, <1>6, <1>7, <1>8, <1>9 DEF DInv

\* From one phase to the next; the guard passes the trash phase's batch.
LEMMA PhaseOK ==
  ASSUME DInv, TrashPasses, BeginTrash \/ BeginCreates \/ BeginModifies \/ BeginDeletes
  PROVE  DInv'
<1>1. UNCHANGED <<cloud, bin, news, batch, items, disk, removed>>
      /\ pc \in {"materialize", "trash", "create", "modify"}
      /\ pc' \in {"trash", "create", "modify", "delete"} /\ todo = {}
  BY DEF BeginTrash, BeginCreates, BeginModifies, BeginDeletes, Goto, cloudVars, fileVars, envVars
<1>2. TInv'
  BY PhaseTypes DEF DInv
<1>3. PathsOK'
  BY <1>1, RowsKeepPaths DEF DInv, SameRows
<1>4. NewsOK'
  BY <1>1, KeepNews DEF DInv
<1>5. CurOK'
  BY <1>1 DEF CurOK, Fetching, Modifying
<1>6. \A i \in Ids : items'[i] # Nil /\ items'[i].st = "clean" => Explained(i)'
  BY <1>1 DEF DInv, MissingOK, Explained, Path
<1>7. CASE BeginTrash
  <2>1. pc' = "trash" /\ todo' = pending_local_deletes
    BY <1>7 DEF BeginTrash, Goto, evaluate, TrashPasses
  <2>2. CreateOK'
    BY <1>1, <2>1 DEF CreateOK, Creating, pending_local_deletes, Tombstones, Path
  <2>3. MissingOK'
    BY <1>6, <2>1 DEF MissingOK, Fetching
  <2> QED
    BY <1>2, <1>3, <1>4, <1>5, <2>2, <2>3 DEF DInv
<1>8. CASE BeginCreates
  <2>1. pc = "trash" /\ pc' = "create" /\ todo' = scan_local_creates
    BY <1>8 DEF BeginCreates, Goto
  <2>2. CreateOK'
    BY <1>1, <2>1 DEF DInv, CreateOK, Creating, scan_local_creates, Tombstones, Path, Live
  <2>3. MissingOK'
    BY <1>6, <2>1 DEF MissingOK, Fetching
  <2> QED
    BY <1>2, <1>3, <1>4, <1>5, <2>2, <2>3 DEF DInv
<1>9. CASE BeginModifies
  <2>1. pc' = "modify"
    BY <1>9 DEF BeginModifies, Goto
  <2> QED
    BY <1>2, <1>3, <1>4, <1>5, <1>6, <2>1 DEF DInv, CreateOK, MissingOK, Creating, Fetching
<1>10. CASE BeginDeletes
  <2>1. pc = "modify" /\ pc' = "delete" /\ todo' \subseteq scan_local_deletes
    BY <1>10, GuardTypes DEF BeginDeletes, Goto
  <2>2. \A i \in scan_local_deletes : Path(i) \in removed /\ disk[Path(i)] = Nil
    BY <2>1 DEF DInv, MissingOK, Explained, scan_local_deletes, Live
  <2>3. MissingOK'
    BY <1>1, <1>6, <2>1, <2>2 DEF MissingOK, Fetching, Path
  <2>4. CreateOK'
    BY <2>1 DEF CreateOK, Creating
  <2> QED
    BY <1>2, <1>3, <1>4, <1>5, <2>3, <2>4 DEF DInv
<1> QED
  BY <1>7, <1>8, <1>9, <1>10

LEMMA TrashOK ==
  ASSUME DInv, NEW i \in Ids, apply_local_deletes(i)
  PROVE  DInv'
<1>1. UNCHANGED <<cloud, bin, news, batch, items, removed>> /\ pc = "trash" /\ pc' = "trash"
      /\ todo' = todo \ {i} /\ i \in todo
  BY DEF apply_local_deletes, Goto, cloudVars, envVars
<1>2. TInv' /\ disk'[Path(i)] = Nil /\ \A q \in Paths : q # Path(i) => disk'[q] = disk[q]
  BY TrashTypes DEF DInv
<1>3. items[i] # Nil /\ items[i].st = "deleted"
  BY <1>1, AtHand DEF DInv, CreateOK, Creating
<1>4. PathsOK'
  BY <1>1, RowsKeepPaths DEF DInv, SameRows
<1>5. CurOK'
  BY <1>1 DEF CurOK, Fetching, Modifying
<1>6. NewsOK'
  BY <1>1, KeepNews DEF DInv
<1>7. CreateOK'
  <2>1. \A j \in Ids : items[j] # Nil => Path(j)' = Path(j) /\ Path(j) \in Paths
    BY <1>1, AtHand DEF Path, DInv
  <2>2. ASSUME NEW j \in Tombstones', (disk[Path(j)] # Nil)'
        PROVE  j \in todo'
    <3>1. j \in Tombstones /\ j \in Ids /\ items[j] # Nil
      BY <1>1, <2>2 DEF Tombstones
    <3>2. j # i /\ disk[Path(j)] # Nil
      BY <1>2, <2>1, <2>2, <3>1
    <3> QED
      BY <1>1, <3>1, <3>2 DEF DInv, CreateOK
  <2> QED
    BY <1>1, <2>2 DEF DInv, CreateOK, Creating
<1>8. MissingOK'
  <2>1. ASSUME NEW j \in Ids, items'[j] # Nil, items'[j].st = "clean"
        PROVE  Explained(j)'
    <3>1. j # i /\ Path(j) \in Paths
      BY <1>1, <1>3, <2>1, AtHand DEF DInv
    <3>2. Path(j) # Path(i)
      BY <1>1, <1>3, <2>1, <3>1, RowPaths DEF DInv
    <3>3. disk[Path(j)] # Nil \/ Path(j) \in removed
      BY <1>1, <2>1 DEF DInv, MissingOK, Explained
    <3> QED
      BY <1>1, <1>2, <3>1, <3>2, <3>3 DEF Explained, Path
  <2> QED
    BY <1>1, <2>1 DEF MissingOK, Fetching
<1> QED
  BY <1>2, <1>4, <1>5, <1>6, <1>7, <1>8 DEF DInv

LEMMA UploadOK ==
  ASSUME DInv, NEW p \in Paths, Upload(p)
  PROVE  DInv'
<1>1. UNCHANGED <<bin, items, disk, removed, batch>> /\ pc = "create" /\ pc' = "stamp"
      /\ todo' = todo \ {p} /\ cur' = [id |-> PutTarget(p), path |-> p] /\ disk[p] # Nil
  BY DEF Upload, Handle, fileVars, envVars
<1>2. TInv'
  BY UploadTypes DEF DInv
<1>3. PICK i \in Ids : i = PutTarget(p) /\ (Writes(i) \/ Makes(i, p))
  BY UploadDrive
<1>4. cur'.id = i /\ cur'.path = p
  BY <1>1, <1>3
<1>5. PathsOK'
  BY <1>1, <1>2, <1>3, WritesKeepPaths, MakesKeepPaths DEF DInv, SameRows
<1>6. news \subseteq news' /\ i \in news' /\ \A j \in Ids : j # i => cloud'[j] = cloud[j]
  BY <1>3 DEF Writes, Makes
<1>7. NewsOK'
  BY <1>1, <1>6, KeepNews DEF DInv
<1>8. CurOK'
  <2>1. cloud'[i] # Nil /\ cloud'[i].path = p
    BY <1>3, UploadTypes, NilAssumption DEF DInv
  <2> QED
    BY <1>1, <1>4, <2>1 DEF CurOK, Known, Fetching, Modifying
<1>9. CreateOK'
  BY <1>1, <1>4 DEF DInv, CreateOK, Creating, Tombstones, Path, Live
<1>10. MissingOK'
  BY <1>1, <1>4 DEF DInv, MissingOK, Explained, Path, Fetching
<1> QED
  BY <1>2, <1>5, <1>7, <1>8, <1>9, <1>10 DEF DInv

LEMMA StampUploadOK ==
  ASSUME DInv, StampUpload
  PROVE  DInv'
<1>1. UNCHANGED <<bin, disk, removed, batch, todo, cur>> /\ pc = "stamp" /\ pc' = "createref"
      /\ cloud[cur.id] # Nil
  BY DEF StampUpload, Advance, fileVars, envVars
<1>2. /\ TInv' /\ cur.id \in Ids /\ cloud'[cur.id] # Nil
      /\ cloud'[cur.id].path = cloud[cur.id].path
      /\ items'[cur.id] # Nil /\ items'[cur.id].st = "clean"
      /\ items'[cur.id].path = cloud[cur.id].path
      /\ items'[cur.id].c = cloud'[cur.id].c /\ items'[cur.id].at = cloud'[cur.id].at
      /\ \A j \in Ids : j # cur.id => items'[j] = items[j] /\ cloud'[j] = cloud[j]
      /\ news \subseteq news' /\ cur.id \in news'
  BY StampUploadTypes, NilAssumption DEF DInv
<1>3. cloud[cur.id].path = cur.path
  <2>1. PICK q \in Paths : q = cloud[cur.id].path
    BY <1>1, <1>2, AtHand DEF DInv
  <2>2. Known(cur.id, q) /\ (Known(cur.id, cur.path) \/ Binned(cur.id, cur.path))
    BY <1>1, <2>1 DEF Known, DInv, CurOK
  <2>3. cur.path \in Paths
    BY <1>1, AtHand DEF DInv
  <2> QED
    BY <1>2, <2>1, <2>2, <2>3 DEF DInv, PathsOK
<1>4. PathsOK'
  <2>1. Shrinks
    BY <1>1, <1>2 DEF DInv, PathsOK, Shrinks, Known, Binned, Fetched
  <2> QED
    BY <2>1, ShrinkPaths DEF DInv
<1>5. CurOK'
  BY <1>1, <1>2, <1>3 DEF CurOK
<1>6. CreateOK'
  BY <1>1, <1>2, <1>3 DEF DInv, CreateOK, Creating, Tombstones, Path, Live
<1>7. NewsOK'
  BY <1>1, <1>2, KeepNews DEF DInv
<1>8. MissingOK'
  <2>1. ASSUME NEW j \in Ids, items'[j] # Nil, items'[j].st = "clean"
        PROVE  Explained(j)'
    <3>1. CASE j = cur.id
      BY <1>1, <1>2, <1>3, <3>1 DEF DInv, MissingOK, Explained, Path
    <3>2. CASE j # cur.id
      BY <1>1, <1>2, <2>1, <3>2 DEF DInv, MissingOK, Explained, Path
    <3> QED
      BY <3>1, <3>2
  <2> QED
    BY <1>1, <2>1 DEF MissingOK, Fetching
<1> QED
  BY <1>2, <1>4, <1>5, <1>6, <1>7, <1>8 DEF DInv

LEMMA ReplaceOK ==
  ASSUME DInv, NEW i \in Ids, Replace(i) \/ ReplaceLost(i)
  PROVE  DInv'
<1>1. /\ UNCHANGED <<bin, items, disk, removed, batch>> /\ pc = "modify" /\ cloud[i] # Nil
      /\ disk[Path(i)] # Nil
      /\ \/ pc' = "restamp" /\ cur' = [id |-> i, path |-> Path(i)]
         \/ pc' = "modify"
  BY DEF Replace, ReplaceLost, Replaces, Handle, Goto, fileVars, envVars
<1>2. /\ TInv' /\ cloud'[i] # Nil /\ cloud'[i].path = cloud[i].path
      /\ \A j \in Ids : j # i => cloud'[j] = cloud[j]
      /\ news \subseteq news' /\ i \in news'
  BY ReplaceTypes, NilAssumption DEF DInv
<1>3. pc' = "restamp" => cur'.id = i /\ cur'.path = Path(i)
  BY <1>1
<1>4. Writes(i)
  BY <1>1, <1>2 DEF Writes
<1>5. PathsOK'
  BY <1>1, <1>4, WritesKeepPaths DEF DInv, SameRows
<1>6. CurOK' /\ CreateOK'
  BY <1>1, <1>3 DEF CurOK, CreateOK, Creating, Fetching, Modifying, Path
<1>7. NewsOK'
  BY <1>1, <1>2, <1>3, KeepNews DEF DInv
<1>8. MissingOK'
  BY <1>1, <1>3 DEF DInv, MissingOK, Explained, Path, Fetching
<1> QED
  BY <1>2, <1>5, <1>6, <1>7, <1>8 DEF DInv

LEMMA ReplaceFailsOK ==
  ASSUME DInv, NEW i \in Ids, ReplaceFails(i) \/ ReplaceSkipped(i)
  PROVE  DInv'
<1>1. UNCHANGED <<cloud, bin, news, items, disk, removed, batch>> /\ pc = "modify"
      /\ pc' = "modify"
  BY DEF ReplaceFails, ReplaceSkipped, Goto, cloudVars, fileVars, envVars
<1>2. TInv'
  BY ReplaceFailsTypes DEF DInv
<1>3. PathsOK'
  BY <1>1, RowsKeepPaths DEF DInv, SameRows
<1>4. CurOK' /\ CreateOK'
  BY <1>1 DEF CurOK, CreateOK, Creating, Fetching, Modifying
<1>5. NewsOK'
  BY <1>1, KeepNews DEF DInv
<1>6. MissingOK'
  BY <1>1 DEF DInv, MissingOK, Explained, Path, Fetching
<1> QED
  BY <1>2, <1>3, <1>4, <1>5, <1>6 DEF DInv

\* An edit moved aside on a 412: its row differs, so its item is news.
LEMMA ConflictOK ==
  ASSUME DInv, NEW i \in Ids, Conflict(i)
  PROVE  DInv'
<1>1. UNCHANGED <<cloud, bin, news, items, removed, batch>> /\ pc = "modify" /\ pc' = "aside"
      /\ i \in todo /\ cloud[i] # Nil /\ ~Replaces(i) /\ cur' = [id |-> i, path |-> Path(i)]
  BY DEF Conflict, Handle, cloudVars, envVars
<1>2. cur'.id = i /\ cur'.path = Path(i) /\ items[i] # Nil
  BY <1>1, AtHand DEF DInv, Creating
<1>3. TInv' /\ \A q \in Paths : q # Path(i) /\ disk[q] # Nil => disk'[q] # Nil
  BY ConflictTypes DEF DInv
<1>4. i \in news
  BY <1>1, <1>2 DEF DInv, NewsOK, Replaces
<1>5. PathsOK'
  BY <1>1, RowsKeepPaths DEF DInv, SameRows
<1>6. CurOK' /\ CreateOK'
  BY <1>1, <1>2 DEF CurOK, CreateOK, Creating, Fetching, Modifying, Path
<1>7. NewsOK'
  BY <1>1, KeepNews DEF DInv
<1>8. MissingOK'
  <2>1. ASSUME NEW j \in Ids, items'[j] # Nil, items'[j].st = "clean"
        PROVE  Explained(j)'
    <3>1. CASE j = i
      BY <1>1, <1>2, <1>4, <3>1 DEF Explained
    <3>2. CASE j # i
      <4>1. Path(j) \in Paths /\ Path(j) # Path(i)
        BY <1>1, <1>2, <2>1, <3>2, AtHand, RowPaths DEF DInv
      <4>2. disk[Path(j)] # Nil \/ Path(j) \in removed
        BY <1>1, <2>1 DEF DInv, MissingOK, Explained
      <4> QED
        BY <1>1, <1>3, <4>1, <4>2 DEF Explained, Path
    <3> QED
      BY <3>1, <3>2
  <2> QED
    BY <1>1, <2>1 DEF MissingOK, Fetching
<1> QED
  BY <1>3, <1>5, <1>6, <1>7, <1>8 DEF DInv

LEMMA MarkConflictOK ==
  ASSUME DInv, MarkConflict
  PROVE  DInv'
<1>1. UNCHANGED <<cloud, bin, news, disk, removed, batch>> /\ pc = "aside" /\ pc' = "modify"
  BY DEF MarkConflict, Goto, cloudVars, fileVars, envVars
<1>2. cur.id \in Ids /\ items[cur.id] # Nil
  BY <1>1, AtHand DEF DInv, Modifying
<1>3. /\ TInv' /\ items'[cur.id] # Nil /\ items'[cur.id].st = "remote_dirty"
      /\ items'[cur.id].path = items[cur.id].path
      /\ items'[cur.id].c = items[cur.id].c /\ items'[cur.id].at = items[cur.id].at
      /\ \A j \in Ids : j # cur.id => items'[j] = items[j]
  BY MarkConflictTypes, NilAssumption DEF DInv
<1>4. SameRows
  BY <1>2, <1>3 DEF SameRows
<1>5. PathsOK'
  BY <1>1, <1>4, RowsKeepPaths DEF DInv
<1>6. CurOK' /\ CreateOK'
  BY <1>1 DEF CurOK, CreateOK, Creating, Fetching, Modifying
<1>7. NewsOK'
  BY <1>1, <1>4, KeepNews DEF DInv, SameRows
<1>8. MissingOK'
  <2>1. ASSUME NEW j \in Ids, items'[j] # Nil, items'[j].st = "clean"
        PROVE  Explained(j)'
    <3>1. j # cur.id
      BY <1>3, <2>1
    <3> QED
      BY <1>1, <1>3, <2>1, <3>1 DEF DInv, MissingOK, Explained, Path
  <2> QED
    BY <1>1, <2>1 DEF MissingOK, Fetching
<1> QED
  BY <1>3, <1>5, <1>6, <1>7, <1>8 DEF DInv

\* The end of a replace: whatever the row is given, its item is news.
LEMMA RestampOK ==
  ASSUME DInv, Restamp \/ RestampLost \/ RestampFails
  PROVE  DInv'
<1>1. UNCHANGED <<bin, disk, removed, batch, todo, cur>> /\ pc = "restamp" /\ pc' = "modifyref"
  BY DEF Restamp, RestampLost, RestampFails, Advance, cloudVars, fileVars, envVars
<1>2. cur.id \in Ids /\ items[cur.id] # Nil /\ Path(cur.id) = cur.path /\ cur.id \in news
  BY <1>1, AtHand DEF DInv, Modifying, CurOK, NewsOK, Path
<1>3. /\ TInv' /\ items'[cur.id] # Nil /\ items'[cur.id].st = "clean"
      /\ \/ items'[cur.id].path = cur.path
         \/ cloud[cur.id] # Nil /\ items'[cur.id].path = cloud[cur.id].path
      /\ \A j \in Ids : j # cur.id => items'[j] = items[j] /\ cloud'[j] = cloud[j]
      /\ \/ cloud' = cloud /\ news' = news
         \/ /\ cloud[cur.id] # Nil /\ cloud'[cur.id] # Nil
            /\ cloud'[cur.id].path = cloud[cur.id].path
            /\ news \subseteq news'
  BY RestampTypes, NilAssumption DEF DInv
<1>4. items'[cur.id].path = cur.path
  BY <1>2, <1>3, SamePath DEF DInv
<1>5. PathsOK'
  <2>1. Shrinks
    BY <1>1, <1>2, <1>3, <1>4 DEF DInv, PathsOK, Shrinks, Known, Binned, Fetched, Path
  <2> QED
    BY <2>1, ShrinkPaths DEF DInv
<1>6. CurOK' /\ CreateOK'
  BY <1>1, <1>4 DEF CurOK, CreateOK, Creating
<1>7. NewsOK'
  BY <1>1, <1>2, <1>3, KeepNews DEF DInv
<1>8. MissingOK'
  <2>1. ASSUME NEW j \in Ids, items'[j] # Nil, items'[j].st = "clean"
        PROVE  Explained(j)'
    <3>1. CASE j = cur.id
      BY <1>1, <1>4, <3>1 DEF DInv, MissingOK, Explained, Path
    <3>2. CASE j # cur.id
      BY <1>1, <1>3, <2>1, <3>2 DEF DInv, MissingOK, Explained, Path
    <3> QED
      BY <3>1, <3>2
  <2> QED
    BY <1>1, <2>1 DEF MissingOK, Fetching
<1> QED
  BY <1>3, <1>5, <1>6, <1>7, <1>8 DEF DInv

LEMMA PushDeleteOK ==
  ASSUME DInv, NEW i \in Ids, push_delete(i)
  PROVE  DInv'
<1>1. UNCHANGED <<disk, removed, batch>> /\ pc = "delete" /\ pc' = "delete"
      /\ todo' = todo \ {i} /\ i \in todo /\ cloud[i] # Nil
  BY DEF push_delete, Goto, fileVars, envVars
<1>2. todo \subseteq Ids /\ items[i] # Nil
  BY <1>1, AtHand DEF DInv, Creating
<1>3. /\ TInv' /\ cloud'[i] = Nil /\ bin'[i] # Nil /\ bin'[i].path = cloud[i].path
      /\ items'[i] # Nil /\ items'[i].st = "deleted" /\ items'[i].path = items[i].path
      /\ items'[i].c = items[i].c /\ items'[i].at = items[i].at
      /\ \A j \in Ids : j # i => /\ items'[j] = items[j] /\ cloud'[j] = cloud[j]
                                 /\ bin'[j] = bin[j]
      /\ news \subseteq news' /\ i \in news'
  BY PushDeleteTypes, NilAssumption DEF DInv
<1>4. SameRows /\ Writes(i)
  BY <1>1, <1>2, <1>3 DEF SameRows, Writes
<1>5. PathsOK'
  BY <1>1, <1>4, WritesKeepPaths DEF DInv
<1>6. CurOK' /\ CreateOK'
  BY <1>1 DEF CurOK, CreateOK, Creating, Fetching, Modifying
<1>7. NewsOK'
  BY <1>1, <1>3, KeepNews DEF DInv
<1>8. MissingOK'
  <2>1. ASSUME NEW j \in Ids, items'[j] # Nil, items'[j].st = "clean"
        PROVE  Explained(j)'
    <3>1. j # i
      BY <1>3, <2>1
    <3> QED
      BY <1>1, <1>3, <2>1, <3>1 DEF DInv, MissingOK, Explained, Path
  <2>2. \A j \in todo' : (Path(j) \in removed /\ disk[Path(j)] = Nil)'
    BY <1>1, <1>2, <1>3 DEF DInv, MissingOK, Path
  <2> QED
    BY <1>1, <2>1, <2>2 DEF MissingOK, Fetching
<1> QED
  BY <1>3, <1>5, <1>6, <1>7, <1>8 DEF DInv

-----------------------------------------------------------------------------
(* The user and the other clients *)

\* No tombstone gets a file, and no file the pass found missing comes back.
LEMMA UserOK ==
  ASSUME ~ReuseNames, DInv, NEW p \in Paths, UserWrites(p) \/ UserDeletes(p)
  PROVE  DInv'
<1>1. UNCHANGED <<cloud, bin, news, later, items, pc, batch, todo, cur>>
  BY DEF UserWrites, UserDeletes, cloudVars, passVars
<1>2. /\ TInv' /\ \A q \in Paths : q # p => disk'[q] = disk[q]
      /\ UserWrites(p) => disk'[p] # Nil
  BY UserTypes DEF DInv
<1>3. \A q \in Paths : (disk[q] # Nil \/ q \in removed) => (disk'[q] # Nil \/ q \in removed')
  BY <1>2 DEF UserWrites, UserDeletes
<1>4. \A i \in Ids : items[i] # Nil => Path(i) \in Paths /\ Path(i)' = Path(i)
  BY <1>1, AtHand DEF DInv, Path
<1>5. \A i \in Ids : items[i] # Nil /\ disk[Path(i)] = Nil => disk'[Path(i)] = Nil
  <2>1. SUFFICES ASSUME NEW i \in Ids, items[i] # Nil, disk[Path(i)] = Nil, Path(i) = p
                 PROVE  disk'[p] = Nil
    BY <1>2, <1>4
  <2>2. ~NeverUsed(p)
    BY <2>1 DEF NeverUsed
  <2>3. ~UserWrites(p)
    BY <2>1, <2>2 DEF UserWrites
  <2> QED
    BY <2>1, <2>3 DEF UserDeletes
<1>6. PathsOK'
  BY <1>1, RowsKeepPaths DEF DInv, SameRows
<1>7. CurOK'
  BY <1>1 DEF DInv, CurOK, Known, Binned, Fetched
<1>8. CreateOK'
  BY <1>1, <1>4, <1>5 DEF DInv, CreateOK, Tombstones, Live
<1>9. NewsOK'
  BY <1>1 DEF DInv, NewsOK, Etag
<1>10. MissingOK'
  <2>1. ASSUME NEW i \in Ids, items'[i] # Nil, items'[i].st = "clean"
        PROVE  Explained(i)'
    BY <1>1, <1>3, <1>4, <2>1 DEF DInv, MissingOK, Explained
  <2>2. pc \in {"mark", "stamp", "restamp"} => cur.path \in Paths
    BY AtHand DEF DInv, Fetching, Modifying
  <2>3. pc \in {"mark", "stamp", "restamp"} => (disk[cur.path] # Nil \/ cur.path \in removed)'
    BY <1>1, <1>3, <2>2 DEF DInv, MissingOK
  <2>4. pc = "delete" => \A i \in todo : (Path(i) \in removed /\ disk[Path(i)] = Nil)'
    <3>1. SUFFICES ASSUME pc = "delete", NEW i \in todo
                   PROVE  (Path(i) \in removed /\ disk[Path(i)] = Nil)'
      OBVIOUS
    <3>2. i \in Ids /\ items[i] # Nil /\ Path(i) \in removed /\ disk[Path(i)] = Nil
      BY <3>1, AtHand DEF DInv, MissingOK, Creating
    <3>3. disk'[Path(i)] = Nil /\ Path(i) \in removed'
      BY <1>3, <1>4, <1>5, <3>2
    <3> QED
      BY <1>4, <3>2, <3>3
  <2> QED
    BY <1>1, <2>1, <2>3, <2>4 DEF DInv, MissingOK
<1> QED
  BY <1>2, <1>6, <1>7, <1>8, <1>9, <1>10 DEF DInv

\* A change of the drive during a pass is news to the next one.
LEMMA DriveOK ==
  ASSUME DInv, TInv', UNCHANGED <<items, disk, removed>>, UNCHANGED passVars,
         NEW i \in Ids, NEW p \in Paths, Writes(i) \/ Makes(i, p), Changed(i)
  PROVE  DInv'
<1>1. UNCHANGED <<pc, batch, todo, cur, data>> /\ TInv
  BY DEF passVars, DInv
<1>2. PathsOK'
  BY <1>1, WritesKeepPaths, MakesKeepPaths DEF DInv, SameRows
<1>3. CurOK'
  <2>1. ASSUME pc = "stamp" PROVE (Known(cur.id, cur.path) \/ Binned(cur.id, cur.path))'
    <3>1. PICK j \in Ids, q \in Paths : j = cur.id /\ q = cur.path
      BY <2>1, <1>1, AtHand
    <3>2. Known(j, q) \/ Binned(j, q)
      BY <2>1, <3>1 DEF DInv, CurOK
    <3>3. CASE Writes(i)
      BY <1>1, <3>1, <3>2, <3>3, WritesKeepKnown DEF DInv
    <3>4. CASE Makes(i, p)
      BY <1>1, <3>1, <3>2, <3>4 DEF Makes, Unused, Known, Binned, Fetched
    <3> QED
      BY <3>3, <3>4
  <2> QED
    BY <1>1, <2>1 DEF DInv, CurOK
<1>4. CreateOK'
  BY <1>1 DEF DInv, CreateOK, Tombstones, Live, Path
<1>5. news' = news \cup {i} /\ (pc = "ingest" => later' = later \cup {i})
      /\ \A j \in Ids : j # i => cloud'[j] = cloud[j]
  BY DEF Changed, Writes, Makes
<1>6. NewsOK'
  BY <1>1, <1>5 DEF DInv, NewsOK, Etag, TInv, TypeOK
<1>7. MissingOK'
  BY <1>1, <1>5 DEF DInv, MissingOK, Explained, Path
<1> QED
  BY <1>2, <1>3, <1>4, <1>6, <1>7 DEF DInv

LEMMA ClientOK ==
  ASSUME ~ReuseNames, DInv,
         \/ \E n \in CloudNames : CloudCreates(n)
         \/ \E i \in Ids : CloudWrites(i) \/ CloudDeletes(i)
  PROVE  DInv'
<1>1. UNCHANGED <<items, disk, removed>> /\ UNCHANGED passVars /\ TInv
  BY DEF CloudCreates, CloudWrites, CloudDeletes, fileVars, DInv
<1>2. ASSUME NEW n \in CloudNames, CloudCreates(n)
      PROVE  DInv'
  <2>1. /\ TInv' /\ Min(Unused) \in Unused /\ <<n, 0>> \in Paths
        /\ cloud'[Min(Unused)] # Nil /\ cloud'[Min(Unused)].path = <<n, 0>>
        /\ \A j \in Ids : j # Min(Unused) => cloud'[j] = cloud[j]
        /\ news \subseteq news' /\ Min(Unused) \in news'
    BY <1>1, <1>2, CloudCreatesTypes, NilAssumption
  <2>2. PICK i \in Ids, p \in Paths : i = Min(Unused) /\ p = <<n, 0>>
    BY <2>1 DEF Unused
  <2>3. NeverUsed(p) /\ Changed(i) /\ bin' = bin
    BY <1>2, <2>2 DEF CloudCreates
  <2>4. \A j \in Ids : ~Known(j, p)
    <3>1. SUFFICES ASSUME NEW j \in Ids, Fetched(j), batch[j].path = p PROVE FALSE
      BY <2>3 DEF NeverUsed, Holder, Known, Path
    <3>2. Known(j, p)
      BY <3>1 DEF Known
    <3>3. CASE cloud[j] # Nil
      <4>1. PICK q \in Paths : q = cloud[j].path
        BY <1>1, <3>3, AtHand
      <4>2. Known(j, q)
        BY <3>3, <4>1 DEF Known
      <4>3. p = q
        BY <3>2, <4>2 DEF DInv, PathsOK
      <4> QED
        BY <2>3, <3>3, <4>1, <4>3 DEF NeverUsed, Holder
    <3>4. CASE bin[j] # Nil
      <4>1. PICK q \in Paths : q = bin[j].path
        BY <1>1, <3>4 DEF TInv, TypeOK, Deleted
      <4>2. Binned(j, q)
        BY <3>4, <4>1 DEF Binned
      <4>3. p = q
        BY <3>2, <4>2 DEF DInv, PathsOK
      <4> QED
        BY <2>3, <3>4, <4>1, <4>3 DEF NeverUsed
    <3> QED
      BY <3>1, <3>3, <3>4 DEF DInv, PathsOK
  <2>5. Makes(i, p)
    BY <2>1, <2>2, <2>3, <2>4 DEF Makes
  <2> QED
    BY <1>1, <2>1, <2>3, <2>5, DriveOK
<1>3. ASSUME NEW i \in Ids, CloudWrites(i) \/ CloudDeletes(i)
      PROVE  DInv'
  <2>1. TInv' /\ Writes(i) /\ Changed(i)
    <3>1. CASE CloudWrites(i)
      <4>1. bin' = bin /\ Changed(i)
        BY <3>1 DEF CloudWrites
      <4> QED
        BY <1>1, <3>1, <4>1, CloudWritesTypes, NilAssumption DEF Writes
    <3>2. CASE CloudDeletes(i)
      <4>1. Changed(i)
        BY <3>2 DEF CloudDeletes, DeleteItem
      <4> QED
        BY <1>1, <3>2, <4>1, DeleteLostTypes, NilAssumption DEF Writes
    <3> QED
      BY <1>3, <3>1, <3>2
  <2>2. PICK p \in Paths : TRUE
    BY <1>1, <2>1, AtHand DEF Writes
  <2> QED
    BY <1>1, <2>1, <2>2, DriveOK
<1> QED
  BY <1>2, <1>3

-----------------------------------------------------------------------------
(* What the pass deletes from the drive *)

LEMMA InitOK ==
  ASSUME Init
  PROVE  DInv
<1>1. TInv /\ DOMAIN batch = {}
  BY InitTypes DEF Init, NoBatch
<1>2. PathsOK
  BY <1>1 DEF Init, PathsOK, Known, Binned, Fetched
<1>3. CurOK /\ CreateOK /\ NewsOK /\ MissingOK
  BY <1>1 DEF Init, CurOK, CreateOK, NewsOK, MissingOK, Creating, Fetching, Modifying
<1> QED
  BY <1>1, <1>2, <1>3 DEF DInv

LEMMA NextOK ==
  ASSUME ~ReuseNames, DInv, TrashPasses, [Next]_vars
  PROVE  DInv'
<1>1. CASE UNCHANGED vars
  <2>1. TInv'
    BY NextTypes DEF DInv
  <2>2. UNCHANGED <<cloud, bin, items, disk, news, later, pc, batch, todo, cur, removed>>
    BY <1>1 DEF vars
  <2>3. PathsOK'
    BY <2>2, RowsKeepPaths DEF DInv, SameRows
  <2>4. CurOK'
    BY <2>2 DEF DInv, CurOK, Known, Binned, Fetched
  <2>5. CreateOK' /\ NewsOK'
    BY <2>2 DEF DInv, CreateOK, NewsOK, Etag, Tombstones, Live, Path
  <2>6. MissingOK'
    BY <2>2 DEF DInv, MissingOK, Explained, Path
  <2> QED
    BY <2>1, <2>3, <2>4, <2>5, <2>6 DEF DInv
<1>2. CASE Pass
  <2>1. CASE \/ Fetch \/ set_delta_cursor \/ Download \/ atomic_write \/ MarkClean \/ RecordSynced
             \/ BeginTrash \/ BeginCreates \/ BeginModifies \/ BeginDeletes \/ EndPass
             \/ StampUpload \/ StampVanished \/ MarkConflict \/ Restamp
    BY <2>1, FetchOK, CursorOK, DownloadOK, WriteOK, MarkCleanOK, RecordSyncedOK, PhaseOK,
       EndOK, StampUploadOK, MarkConflictOK, RestampOK
  <2>2. ASSUME NEW i \in Ids,
               \/ ingest_item(i) \/ SkipDownload(i) \/ BeginDownload(i)
               \/ apply_local_deletes(i) \/ Replace(i) \/ ReplaceSkipped(i) \/ Conflict(i)
               \/ push_delete(i) \/ DeleteVanished(i)
        PROVE  DInv'
    BY <2>2, IngestOK, SkipDownloadOK, BeginDownloadOK, TrashOK, ReplaceOK, ReplaceFailsOK,
       ConflictOK, PushDeleteOK, EndOK
  <2>3. ASSUME NEW p \in Paths, Upload(p) \/ CreateVanished(p)
        PROVE  DInv'
    BY <2>3, UploadOK, EndOK
  <2> QED
    BY <1>2, <2>1, <2>2, <2>3 DEF Pass
<1>3. CASE DownloadFails \/ RestampFails
  BY <1>3, DownloadOK, RestampOK
<1>4. CASE Faults
  <2>1. CASE Crash \/ StampLost \/ RestampLost
    BY <2>1, EndOK, LostOK, RestampOK
  <2>2. ASSUME NEW i \in Ids, ReplaceLost(i) \/ ReplaceFails(i) \/ DeleteLost(i)
        PROVE  DInv'
    BY <2>2, ReplaceOK, ReplaceFailsOK, LostOK
  <2>3. ASSUME NEW p \in Paths, UploadLost(p)
        PROVE  DInv'
    BY <2>3, UploadLostOK
  <2> QED
    BY <1>4, <2>1, <2>2, <2>3 DEF Faults
<1>5. CASE Others
  BY <1>5, UserOK, ClientOK DEF Others
<1> QED
  BY <1>1, <1>2, <1>3, <1>4, <1>5 DEF Next

\* Only a deletion, by the pass or by a client, puts an item in the bin.
LEMMA BinSteps ==
  ASSUME [Next]_vars
  PROVE  bin' = bin \/ \E i \in Ids : push_delete(i) \/ DeleteLost(i) \/ CloudDeletes(i)
<1>1. CASE UNCHANGED vars
  BY <1>1 DEF vars
<1>2. CASE \/ Fetch \/ set_delta_cursor \/ Download \/ atomic_write \/ MarkClean \/ RecordSynced
           \/ BeginTrash \/ BeginCreates \/ BeginModifies \/ BeginDeletes \/ EndPass
           \/ StampUpload \/ StampVanished \/ MarkConflict \/ Restamp
  BY <1>2 DEF Fetch, set_delta_cursor, Download, atomic_write, MarkClean, RecordSynced,
       BeginTrash, BeginCreates, BeginModifies, BeginDeletes, EndPass, StampUpload,
       StampVanished, MarkConflict, Restamp, cloudVars
<1>3. ASSUME NEW i \in Ids,
             \/ ingest_item(i) \/ SkipDownload(i) \/ BeginDownload(i)
             \/ apply_local_deletes(i) \/ Replace(i) \/ ReplaceSkipped(i) \/ Conflict(i)
             \/ DeleteVanished(i) \/ ReplaceLost(i) \/ ReplaceFails(i) \/ CloudWrites(i)
      PROVE  bin' = bin
  BY <1>3 DEF ingest_item, SkipDownload, BeginDownload, apply_local_deletes, Replace,
       ReplaceSkipped, Conflict, DeleteVanished, ReplaceLost, ReplaceFails, CloudWrites, cloudVars
<1>4. ASSUME NEW p \in Paths,
             \/ Upload(p) \/ CreateVanished(p) \/ UploadLost(p) \/ UserWrites(p) \/ UserDeletes(p)
      PROVE  bin' = bin
  BY <1>4 DEF Upload, CreateVanished, UploadLost, UserWrites, UserDeletes, cloudVars
<1>5. CASE \/ DownloadFails \/ RestampFails \/ Crash \/ StampLost \/ RestampLost
           \/ \E n \in CloudNames : CloudCreates(n)
  BY <1>5 DEF DownloadFails, RestampFails, Crash, StampLost, RestampLost, CloudCreates, cloudVars
<1> QED
  BY <1>1, <1>2, <1>3, <1>4, <1>5 DEF Next, Pass, Faults, Others

LEMMA DeleteIsUsers ==
  ASSUME DInv, [Next]_vars, NEW i \in Ids, bin[i] = Nil, bin'[i] # Nil, bin'[i].by = "sync"
  PROVE  bin'[i].path \in removed
<1>1. PICK j \in Ids : push_delete(j) \/ DeleteLost(j) \/ CloudDeletes(j)
  BY BinSteps
<1>2. PICK who \in {"sync", "client"} : DeleteItem(j, who) /\ cloud[j] # Nil
                                        /\ (CloudDeletes(j) => who = "client")
  <2>1. CASE CloudDeletes(j)
    BY <2>1 DEF CloudDeletes
  <2>2. CASE ~CloudDeletes(j)
    BY <1>1, <2>2 DEF push_delete, DeleteLost
  <2> QED
    BY <2>1, <2>2
<1>3. /\ bin'[j].path = cloud[j].path /\ bin'[j].by = who
      /\ \A k \in Ids : k # j => bin'[k] = bin[k]
  BY <1>2, DeleteTypes, StateTypes DEF DInv
<1>4. i = j /\ ~CloudDeletes(j)
  BY <1>2, <1>3
<1>5. pc = "delete" /\ i \in todo
  BY <1>1, <1>4 DEF push_delete, DeleteLost
<1>6. items[i] # Nil /\ Path(i) \in removed
  BY <1>5, AtHand DEF DInv, MissingOK, Creating
<1> QED
  BY <1>2, <1>3, <1>4, <1>6, SamePath DEF DInv

\* What a pass deletes from the drive is a file the user did delete, whoever
\* acts at whatever point of the pass and whatever call fails or loses its
\* answer. Names are not used again, and the guard lets the trash phase have
\* its tombstones: otherwise a file of another item can stand at the path of
\* a tombstone, and is moved to the trash in its place.
THEOREM DeletesAreUsers ==
  ASSUME ~ReuseNames
  PROVE  Spec /\ []TrashPasses => CloudDeleteIsUsers
<1>1. Init => DInv
  BY InitOK
<1>2. DInv /\ TrashPasses /\ [Next]_vars => DInv'
  BY NextOK
<1>3. DInv /\ [Next]_vars =>
        [\A i \in Ids : bin[i] = Nil /\ bin'[i] # Nil /\ bin'[i].by = "sync"
                          => bin'[i].path \in removed]_vars
  BY DeleteIsUsers
<1> QED
  BY <1>1, <1>2, <1>3, PTL DEF Spec, CloudDeleteIsUsers
=============================================================================
