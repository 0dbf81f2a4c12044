-------------------------- MODULE OneDriveWriteProofs --------------------------
(***************************************************************************)
(* Proofs about the cloud-write ledger for any set of writes, any drive,   *)
(* any writes of strangers and any bounds.                                 *)
(***************************************************************************)
EXTENDS OneDriveWrite, TLAPS

Settled == {"applied", "conflict"}

(* What the run under way knows of its row: it works on rows that are not  *)
(* settled, and a replace carries the version its first caller had seen.   *)
RunOK ==
    /\ pc \in {"mark", "issue", "probe", "settle"} =>
         rows[run.key].state \notin {"none"} \cup Settled
    /\ pc = "recover" => rows[run.key].state # "none"
    /\ pc = "probe" => run.key.kind \in {"create", "upload"}
    /\ pc = "settle" => reply.out # "none"
    /\ pc \in {"mark", "issue"} /\ run.key.kind = "replace" /\ ~run.key.streamed =>
         run.etag = rows[run.key].etag

(* A recovery pass goes through rows, and rows were made by requests.      *)
RowsOK ==
    /\ \A k \in queue : rows[k].state # "none"
    /\ \A k \in Keys : rows[k].created <= requests

IInv == TypeOK /\ RunOK /\ RowsOK

-----------------------------------------------------------------------------
(* Writes, keys and the drive *)

LEMMA Numbers ==
  MaxRequests \in Nat /\ MaxFaults \in Nat /\ MaxForeign \in Nat
BY BoundsAssumption

LEMMA WriteFields ==
  ASSUME NEW w \in Writes
  PROVE  /\ w.kind \in Kinds /\ w.target \in Values /\ w.name \in Values
         /\ w.parent \in Values /\ w.content \in Values /\ w.source \in Sources
         /\ w.kind \notin {"create", "upload"} => w.target \in Ids
BY WritesAssumption

\* What a key says of its write.
KeyOK(k) ==
    /\ k.kind \in Kinds /\ k.target \in Values /\ k.name \in Values
    /\ k.parent \in Values /\ k.tag \in Values
    /\ k.kind \notin {"create", "upload"} => k.target \in Ids

LEMMA KeyOfWrite ==
  ASSUME NEW w \in Writes
  PROVE  /\ Key(w) \in Keys /\ Key(w).kind = w.kind /\ Key(w).target = w.target
         /\ Key(w).streamed <=> w.source = "stream"
BY DEF Key, Keys

LEMMA KeyFields ==
  ASSUME NEW k \in Keys
  PROVE  KeyOK(k)
<1>1. PICK w \in Writes : k = Key(w)
  BY DEF Keys
<1>2. /\ k.kind = w.kind /\ k.target = w.target /\ k.name = w.name /\ k.parent = w.parent
      /\ k.tag \in {w.content, None}
  BY <1>1 DEF Key
<1> QED
  BY <1>2, WriteFields, DriveAssumption DEF KeyOK

LEMMA PathOfWrite ==
  ASSUME NEW w \in Writes, Bodied(w)
  PROVE  Path(w) \in Paths
BY DEF Paths

\* What Graph makes of a call is a drive again, and a replace is made on the
\* version it names only.
LEMMA EffectOK ==
  ASSUME drive \in [Ids -> Items], NEW k, KeyOK(k), NEW etag, NEW body \in Values,
         NEW e \in Effects(k, etag, body)
  PROVE  /\ e.drive \in [Ids -> Items] /\ e.out \in {"applied", "conflict", "error"}
         /\ e.id \in Ids \cup {None} /\ (e.out = "applied" => e.id \in Ids)
         /\ k.kind = "replace" /\ e.out = "applied" => drive[k.target].etag = etag
<1> DEFINE Same(out) == [drive |-> drive, out |-> out, id |-> None]
           Put(i, item) == [drive |-> [drive EXCEPT ![i] = item], out |-> "applied", id |-> i]
<1>1. ASSUME NEW i \in Ids, NEW item \in Items
      PROVE  /\ Put(i, item).drive \in [Ids -> Items] /\ Put(i, item).out = "applied"
             /\ Put(i, item).id \in Ids
  OBVIOUS
<1>2. None \in Values
  BY DriveAssumption
<1>3. CASE k.kind \in {"create", "upload"}
  <2>1. e = Same("error") \/ \E i \in Fresh :
          e = Put(i, [parent |-> k.target, name |-> k.name, content |-> body, etag |-> 1])
    BY <1>3 DEF Effects
  <2>2. CASE e = Same("error")
    BY <2>2, <1>3
  <2>3. ASSUME NEW i \in Fresh,
               e = Put(i, [parent |-> k.target, name |-> k.name, content |-> body,
                           etag |-> 1])
        PROVE  e.drive \in [Ids -> Items] /\ e.out = "applied" /\ e.id \in Ids
    <3>1. i \in Ids
      BY DEF Fresh, Unused
    <3>2. PICK item : item = [parent |-> k.target, name |-> k.name, content |-> body,
                              etag |-> 1]
      OBVIOUS
    <3>3. item \in Items
      BY <3>2 DEF Items, KeyOK
    <3> QED
      BY <2>3, <3>1, <3>2, <3>3
  <2> QED
    BY <1>3, <2>1, <2>2, <2>3
<1>4. CASE k.kind \in {"rename", "move"}
  <2>1. PICK to : to = Destination(k)
    OBVIOUS
  <2>2. PICK item : item = [drive[k.target] EXCEPT !.parent = to, !.name = k.name,
                                                   !.etag = @ + 1]
    OBVIOUS
  <2>3. e = Same("error") \/ e = Put(k.target, item)
    <3>1. CASE ~Live(k.target) \/ Taken(to, k.name, k.target)
      <4>1. Effects(k, etag, body) = {Same("error")}
        BY <1>4, <2>1, <3>1 DEF Effects
      <4> QED
        BY <4>1
    <3>2. CASE ~(~Live(k.target) \/ Taken(to, k.name, k.target))
      <4>1. Effects(k, etag, body) = {Put(k.target, item)}
        BY <1>4, <2>1, <2>2, <3>2 DEF Effects
      <4> QED
        BY <4>1
    <3> QED
      BY <3>1, <3>2
  <2>4. k.target \in Ids /\ drive[k.target] \in Items /\ to \in Values
    BY <1>4, <2>1 DEF KeyOK, Items, Destination
  <2>5. item \in Items
    <3>1. PICK old \in Items : old = drive[k.target]
      BY <2>4
    <3>2. old.etag + 1 \in Nat
      BY DEF Items
    <3>3. PICK n \in Nat : n = old.etag + 1
      BY <3>2
    <3>4. item = [old EXCEPT !.parent = to, !.name = k.name, !.etag = n]
      BY <2>2, <3>1, <3>3
    <3>5. k.name \in Values /\ to \in Values /\ n \in Nat
      BY <2>4 DEF KeyOK
    <3> QED
      BY <3>4, <3>5 DEF Items
  <2> QED
    BY <1>1, <1>4, <2>3, <2>4, <2>5
<1>5. CASE k.kind = "delete"
  <2>1. PICK item : item = [drive[k.target] EXCEPT !.parent = None]
    OBVIOUS
  <2>2. e = Same("error") \/ e = Put(k.target, item)
    BY <1>5, <2>1 DEF Effects
  <2>3. k.target \in Ids /\ drive[k.target] \in Items
    BY <1>5 DEF KeyOK
  <2>4. item \in Items
    BY <1>2, <2>1, <2>3 DEF Items
  <2> QED
    BY <1>1, <1>5, <2>2, <2>3, <2>4
<1>6. CASE k.kind = "replace"
  <2>1. PICK item : item = [drive[k.target] EXCEPT !.content = body, !.etag = @ + 1]
    OBVIOUS
  <2>2. \/ e = Same("error") \/ e = Same("conflict")
        \/ e = Put(k.target, item) /\ etag = drive[k.target].etag
    <3>1. CASE ~Live(k.target)
      <4>1. Effects(k, etag, body) = {Same("error")}
        BY <1>6, <3>1 DEF Effects
      <4> QED
        BY <4>1
    <3>2. CASE Live(k.target) /\ etag # drive[k.target].etag
      <4>1. Effects(k, etag, body) = {Same("conflict")}
        BY <1>6, <3>2 DEF Effects
      <4> QED
        BY <4>1
    <3>3. CASE Live(k.target) /\ etag = drive[k.target].etag
      <4>1. Effects(k, etag, body) = {Put(k.target, item)}
        BY <1>6, <2>1, <3>3 DEF Effects
      <4> QED
        BY <3>3, <4>1
    <3> QED
      BY <3>1, <3>2, <3>3
  <2>3. k.target \in Ids /\ drive[k.target] \in Items
    BY <1>6 DEF KeyOK
  <2>4. item \in Items
    <3>1. PICK old \in Items : old = drive[k.target]
      BY <2>3
    <3>2. old.etag + 1 \in Nat
      BY DEF Items
    <3>3. PICK n \in Nat : n = old.etag + 1
      BY <3>2
    <3>4. item = [old EXCEPT !.content = body, !.etag = n]
      BY <2>1, <3>1, <3>3
    <3> QED
      BY <3>4 DEF Items
  <2> QED
    BY <1>1, <1>6, <2>2, <2>3, <2>4
<1> QED
  BY <1>3, <1>4, <1>5, <1>6 DEF KeyOK, Kinds
-----------------------------------------------------------------------------
(* Rows *)

\* The UPDATE of a row leaves every other row and the rest of this one.
LEMMA SetState ==
  ASSUME rows \in [Keys -> Rows], NEW k \in Keys, NEW s \in States, NEW id \in Ids \cup {None},
         set_cloud_write_state(k, s, id)
  PROVE  /\ rows' \in [Keys -> Rows] /\ rows'[k].state = s /\ rows'[k].etag = rows[k].etag
         /\ \A j \in Keys : rows'[j].created = rows[j].created
         /\ \A j \in Keys : j # k => rows'[j] = rows[j]
<1>1. rows[k] \in Rows
  OBVIOUS
<1>2. PICK r : r = IF id = None THEN rows[k].result ELSE id
  OBVIOUS
<1>3. r \in Ids \cup {None}
  BY <1>1, <1>2 DEF Rows
<1>4. PICK row : row = [rows[k] EXCEPT !.state = s, !.result = r]
  OBVIOUS
<1>5. /\ row \in Rows /\ row.state = s /\ row.etag = rows[k].etag
      /\ row.created = rows[k].created
  BY <1>1, <1>3, <1>4 DEF Rows
<1>6. rows' = [rows EXCEPT ![k] = row]
  BY <1>1, <1>2, <1>4 DEF set_cloud_write_state, Rows
<1> QED
  BY <1>5, <1>6

\* A run goes on from a row to another, or from a row that stays.
RowsChange(k, s) ==
    \/ rows' = rows
    \/ /\ rows' \in [Keys -> Rows] /\ rows'[k].state = s /\ rows'[k].etag = rows[k].etag
       /\ s # "none" /\ rows[k].state # "none"
       /\ \A j \in Keys : rows'[j].created = rows[j].created
       /\ \A j \in Keys : j # k => rows'[j] = rows[j]

LEMMA RowsKept ==
  ASSUME IInv, NEW k \in Keys, NEW s, RowsChange(k, s)
  PROVE  /\ rows' \in [Keys -> Rows]
         /\ \A j \in Keys : rows'[j].created = 0 <=> rows'[j].state = "none"
         /\ \A i, j \in Keys :
              rows'[i].created = rows'[j].created => i = j \/ rows'[j].created = 0
         /\ \A j \in Keys : rows'[j].created <= requests
         /\ \A j \in Keys : rows[j].state # "none" => rows'[j].state # "none"
BY DEF IInv, TypeOK, RowsOK, RowsChange

\* The end of a run.
LEMMA FinishKept ==
  ASSUME IInv, NEW out, Finish(out)
  PROVE  /\ pc' \in {"next", "idle"} /\ files' \in [Paths -> Values]
         /\ UNCHANGED <<run, boot, queue>>
<1>1. files' \in [Paths -> Values]
  <2>1. CASE files' = files
    BY <2>1 DEF IInv, TypeOK
  <2>2. CASE files' = [files EXCEPT ![rows[run.key].path] = None]
    BY <2>2, DriveAssumption DEF IInv, TypeOK
  <2> QED
    BY <2>1, <2>2 DEF Finish
<1> QED
  BY <1>1 DEF Finish

\* A step that ends the run, with its row as it is or in state s.
LEMMA EndStep ==
  ASSUME IInv, NEW s, RowsChange(run.key, s),
         pc' \in {"next", "idle"}, files' \in [Paths -> Values],
         UNCHANGED <<run, boot, queue, drive, maker, reply, requests, foreign>>,
         faults' \in 0 .. MaxFaults
  PROVE  IInv'
<1>1. run.key \in Keys /\ queue \subseteq Keys
  BY DEF IInv, TypeOK
<1>2. /\ rows' \in [Keys -> Rows]
      /\ \A j \in Keys : rows'[j].created = 0 <=> rows'[j].state = "none"
      /\ \A i, j \in Keys :
           rows'[i].created = rows'[j].created => i = j \/ rows'[j].created = 0
      /\ \A j \in Keys : rows'[j].created <= requests
      /\ \A j \in Keys : rows[j].state # "none" => rows'[j].state # "none"
  BY <1>1, RowsKept
<1>3. TypeOK'
  BY <1>2 DEF IInv, TypeOK
<1>4. RowsOK'
  BY <1>1, <1>2 DEF IInv, RowsOK
<1>5. RunOK'
  BY DEF RunOK
<1> QED
  BY <1>3, <1>4, <1>5 DEF IInv

LEMMA InitIInv == Init => IInv
<1> SUFFICES ASSUME Init PROVE IInv
  OBVIOUS
<1>1. NoRow \in Rows /\ NoRow.created = 0 /\ NoRow.state = "none"
  BY Numbers DEF NoRow, Rows, States
<1>2. rows \in [Keys -> Rows] /\ \A k \in Keys : rows[k] = NoRow
  BY <1>1 DEF Init
<1>3. run.key \in Keys
  <2>1. \E k \in Keys : TRUE
    BY WritesAssumption DEF Keys
  <2> QED
    BY <2>1 DEF Init
<1>4. run \in [key : Keys, etag : Nat, fresh : BOOLEAN, before : Nat]
  BY <1>3 DEF Init
<1>5. files \in [Paths -> Values]
  <2> SUFFICES ASSUME NEW p \in Paths PROVE files[p] \in Values
    BY DEF Init
  <2>1. CASE \E w \in Writes : w.source = "file" /\ Path(w) = p
    <3>1. PICK w : w = CHOOSE v \in Writes : v.source = "file" /\ Path(v) = p
      OBVIOUS
    <3>2. w \in Writes
      BY <2>1, <3>1
    <3>3. files[p] = w.content
      BY <2>1, <3>1 DEF Init
    <3> QED
      BY <3>2, <3>3, WriteFields
  <2>2. CASE ~\E w \in Writes : w.source = "file" /\ Path(w) = p
    BY <2>2, DriveAssumption DEF Init
  <2> QED
    BY <2>1, <2>2
<1>6. /\ requests \in 0 .. MaxRequests /\ faults \in 0 .. MaxFaults
      /\ foreign \in 0 .. MaxForeign
  <2>1. requests = 0 /\ faults = 0 /\ foreign = 0
    BY DEF Init
  <2> QED
    BY <2>1, Numbers
<1>7. /\ \A k \in Keys : rows[k].created = 0 /\ rows[k].state = "none"
      /\ \A k \in Keys : rows[k].created <= requests
  <2>1. requests = 0
    BY DEF Init
  <2> QED
    BY <1>1, <1>2, <2>1
<1>8. drive \in [Ids -> Items] /\ maker \in [Ids -> Keys \cup {None}]
  BY DriveAssumption DEF Init
<1>9. /\ reply \in [out : {"none", "applied", "conflict", "error"}, id : Ids \cup {None}]
      /\ boot \in BOOLEAN /\ queue = {} /\ pc = "idle"
  BY DEF Init
<1>10. TypeOK
  BY <1>2, <1>4, <1>5, <1>6, <1>7, <1>8, <1>9 DEF TypeOK
<1>11. RunOK /\ RowsOK
  BY <1>7, <1>9 DEF RunOK, RowsOK
<1> QED
  BY <1>10, <1>11 DEF IInv

-----------------------------------------------------------------------------
(* One lemma per action *)

\* A step of the run that leaves its row, the drive and the files alone.
LEMMA QuietStep ==
  ASSUME IInv, UNCHANGED <<rows, drive, maker, files, requests, foreign>>,
         faults' \in 0 .. MaxFaults, run' \in [key : Keys, etag : Nat, fresh : BOOLEAN, before : Nat],
         reply' \in [out : {"none", "applied", "conflict", "error"}, id : Ids \cup {None}],
         pc' \in {"idle", "mark", "issue", "next", "recover", "probe", "settle"},
         boot' \in BOOLEAN, queue' \subseteq Keys,
         \A k \in queue' : rows[k].state # "none",
         RunOK'
  PROVE  IInv'
<1>1. TypeOK'
  BY DEF IInv, TypeOK
<1>2. RowsOK'
  BY DEF IInv, RowsOK
<1> QED
  BY <1>1, <1>2 DEF IInv

\* The version a caller has seen is a number.
LEMMA EtagOfRequest ==
  ASSUME IInv, NEW w \in Writes, NEW etag \in Etags(w)
  PROVE  etag \in Nat
<1>1. CASE w.kind = "replace"
  <2>1. drive[w.target] \in Items
    BY <1>1, WriteFields DEF IInv, TypeOK
  <2>2. drive[w.target].etag \in Nat
    BY <2>1 DEF Items
  <2> QED
    BY <1>1, <2>2 DEF Etags
<1>2. CASE w.kind # "replace"
  BY <1>2 DEF Etags
<1> QED
  BY <1>1, <1>2

LEMMA RequestNewStep ==
  ASSUME IInv, NEW w \in Writes, NEW etag \in Etags(w), RequestNew(w, etag)
  PROVE  IInv'
<1>1. PICK key \in Keys : key = Key(w)
  BY KeyOfWrite
<1>2. etag \in Nat
  BY EtagOfRequest
<1>3. /\ requests \in Nat /\ requests' = requests + 1 /\ requests' \in 0 .. MaxRequests
      /\ faults + foreign \in Nat
  <2>1. requests \in 0 .. MaxRequests /\ faults \in 0 .. MaxFaults /\ foreign \in 0 .. MaxForeign
    BY DEF IInv, TypeOK
  <2> QED
    BY <2>1, Numbers DEF RequestNew, Ask
<1>4. PICK row : row = [state |-> "pending", result |-> None, etag |-> etag,
                        path |-> IF Bodied(w) THEN Path(w) ELSE None,
                        staged |-> w.source = "staged", created |-> requests']
  OBVIOUS
<1>5. /\ row \in Rows /\ row.state = "pending" /\ row.etag = etag
      /\ row.created = requests'
  <2>1. PICK p \in Paths \cup {None} : p = IF Bodied(w) THEN Path(w) ELSE None
    BY PathOfWrite
  <2>2. PICK st \in BOOLEAN : st = (w.source = "staged")
    OBVIOUS
  <2>3. row = [state |-> "pending", result |-> None, etag |-> etag,
               path |-> p, staged |-> st, created |-> requests']
    BY <1>4, <2>1, <2>2
  <2> QED
    BY <1>2, <1>3, <2>1, <2>2, <2>3 DEF Rows, States
<1>6. rows' = [rows EXCEPT ![key] = row] /\ rows \in [Keys -> Rows]
  BY <1>1, <1>4 DEF RequestNew, IInv, TypeOK
<1>7. /\ rows' \in [Keys -> Rows] /\ rows'[key] = row
      /\ \A j \in Keys : j # key => rows'[j] = rows[j]
  BY <1>5, <1>6
<1>8. \A j \in Keys : rows[j].created \in Nat /\ rows[j].created <= requests
  <2> TAKE j \in Keys
  <2>1. rows[j] \in Rows
    BY <1>6
  <2>2. rows[j].created \in 0 .. MaxRequests
    BY <2>1 DEF Rows
  <2> QED
    BY <2>2, Numbers DEF IInv, RowsOK
<1>9. /\ \A j \in Keys : rows'[j].created = 0 <=> rows'[j].state = "none"
      /\ \A i, j \in Keys :
           rows'[i].created = rows'[j].created => i = j \/ rows'[j].created = 0
      /\ \A j \in Keys : rows'[j].created <= requests'
  <2>1. \A j \in Keys : rows[j].created = 0 <=> rows[j].state = "none"
    BY DEF IInv, TypeOK
  <2>2. \A i, j \in Keys : rows[i].created = rows[j].created => i = j \/ rows[j].created = 0
    BY DEF IInv, TypeOK
  <2>3. row.created # 0 /\ \A j \in Keys : rows[j].created < row.created
    BY <1>3, <1>5, <1>8
  <2>4. \A j \in Keys : rows'[j].created = 0 <=> rows'[j].state = "none"
    BY <1>5, <1>7, <2>1, <2>3
  <2>5. \A i, j \in Keys :
          rows'[i].created = rows'[j].created => i = j \/ rows'[j].created = 0
    <3> TAKE i, j \in Keys
    <3>1. CASE i # key /\ j # key
      BY <1>7, <2>2, <3>1
    <3>2. CASE i = key /\ j # key
      BY <1>3, <1>5, <1>7, <1>8, <2>3, <3>2
    <3>3. CASE i # key /\ j = key
      BY <1>3, <1>5, <1>7, <1>8, <2>3, <3>3
    <3> QED
      BY <3>1, <3>2, <3>3
  <2>6. \A j \in Keys : rows'[j].created <= requests'
    BY <1>3, <1>5, <1>7, <1>8
  <2> QED
    BY <2>4, <2>5, <2>6
<1>10. files' \in [Paths -> Values]
  <2>1. files \in [Paths -> Values]
    BY DEF IInv, TypeOK
  <2>2. CASE w.source = "staged"
    BY <2>1, <2>2, WriteFields DEF RequestNew
  <2>3. CASE w.source # "staged"
    BY <2>1, <2>3 DEF RequestNew
  <2> QED
    BY <2>2, <2>3
<1>11. /\ run' = [key |-> key, etag |-> etag, fresh |-> TRUE, before |-> faults + foreign]
       /\ pc' = "mark" /\ boot' = FALSE /\ reply' = [out |-> "none", id |-> None]
       /\ UNCHANGED <<queue, drive, maker, faults, foreign>>
  BY <1>1 DEF RequestNew, Ask, cloudVars
<1>12. run' \in [key : Keys, etag : Nat, fresh : BOOLEAN, before : Nat] /\ run'.key = key
       /\ run'.etag = etag
  BY <1>2, <1>3, <1>11
<1>13. TypeOK'
  BY <1>3, <1>7, <1>9, <1>10, <1>11, <1>12 DEF IInv, TypeOK
<1>14. RunOK'
  BY <1>5, <1>7, <1>11, <1>12 DEF RunOK, Settled
<1>15. RowsOK'
  <2>1. \A k \in queue : k \in Keys /\ rows[k].state # "none"
    BY DEF IInv, TypeOK, RowsOK
  <2>2. \A k \in queue' : rows'[k].state # "none"
    BY <1>5, <1>7, <1>11, <2>1
  <2> QED
    BY <1>9, <2>2 DEF RowsOK
<1> QED
  BY <1>13, <1>14, <1>15 DEF IInv

LEMMA RequestKnownStep ==
  ASSUME IInv, NEW w \in Writes, NEW etag \in Etags(w), RequestKnown(w, etag)
  PROVE  IInv'
<1>1. PICK key \in Keys : key = Key(w)
  BY KeyOfWrite
<1>2. etag \in Nat
  BY EtagOfRequest
<1>3. /\ requests \in Nat /\ requests' = requests + 1 /\ requests' \in 0 .. MaxRequests
      /\ faults + foreign \in Nat
  <2>1. requests \in 0 .. MaxRequests /\ faults \in 0 .. MaxFaults /\ foreign \in 0 .. MaxForeign
    BY DEF IInv, TypeOK
  <2> QED
    BY <2>1, Numbers DEF RequestKnown, Ask
<1>4. /\ run' = [key |-> key, etag |-> etag, fresh |-> FALSE, before |-> faults + foreign]
      /\ boot' = FALSE /\ reply' = [out |-> "none", id |-> None]
      /\ UNCHANGED <<rows, files, queue, drive, maker, faults, foreign>>
      /\ rows[key].state # "none"
  BY <1>1 DEF RequestKnown, Ask, cloudVars
<1>5. run' \in [key : Keys, etag : Nat, fresh : BOOLEAN, before : Nat] /\ run'.key = key
      /\ run'.etag = etag
  BY <1>2, <1>3, <1>4
<1>6. \/ pc' = "recover"
      \/ /\ pc' \in {"probe", "mark"} /\ key.streamed /\ rows[key].state \notin Settled
         /\ pc' = "probe" => key.kind = "upload"
  BY <1>1, KeyOfWrite DEF RequestKnown, Settled
<1>7. TypeOK'
  BY <1>3, <1>4, <1>5, <1>6 DEF IInv, TypeOK
<1>8. RunOK'
  BY <1>4, <1>5, <1>6 DEF RunOK
<1>9. RowsOK'
  <2>1. \A k \in Keys : rows[k].created \in Nat
    BY Numbers DEF IInv, TypeOK, Rows
  <2>2. \A k \in Keys : rows[k].created <= requests'
    BY <1>3, <2>1 DEF IInv, RowsOK
  <2> QED
    BY <1>4, <2>2 DEF IInv, RowsOK
<1> QED
  BY <1>7, <1>8, <1>9 DEF IInv

LEMMA MarkInflightStep ==
  ASSUME IInv, MarkInflight
  PROVE  IInv'
<1>1. run.key \in Keys /\ queue \subseteq Keys /\ rows \in [Keys -> Rows]
  BY DEF IInv, TypeOK
<1>2. /\ set_cloud_write_state(run.key, "inflight", None) /\ pc' = "issue"
      /\ UNCHANGED <<run, boot, queue, drive, maker, files, reply, requests, faults, foreign>>
      /\ rows[run.key].state # "none"
      /\ run.key.kind = "replace" /\ ~run.key.streamed => run.etag = rows[run.key].etag
  BY DEF MarkInflight, Goto, cloudVars, bounds, IInv, RunOK
<1>3. /\ rows' \in [Keys -> Rows] /\ rows'[run.key].state = "inflight"
      /\ rows'[run.key].etag = rows[run.key].etag
      /\ \A j \in Keys : rows'[j].created = rows[j].created
      /\ \A j \in Keys : j # run.key => rows'[j] = rows[j]
  BY <1>1, <1>2, SetState DEF States
<1>4. RowsChange(run.key, "inflight")
  BY <1>2, <1>3 DEF RowsChange
<1>5. /\ rows' \in [Keys -> Rows]
      /\ \A j \in Keys : rows'[j].created = 0 <=> rows'[j].state = "none"
      /\ \A i, j \in Keys :
           rows'[i].created = rows'[j].created => i = j \/ rows'[j].created = 0
      /\ \A j \in Keys : rows'[j].created <= requests
      /\ \A j \in Keys : rows[j].state # "none" => rows'[j].state # "none"
  BY <1>1, <1>4, RowsKept
<1>6. TypeOK'
  BY <1>2, <1>5 DEF IInv, TypeOK
<1>7. RunOK'
  BY <1>2, <1>3 DEF RunOK, Settled
<1>8. RowsOK'
  BY <1>1, <1>2, <1>5 DEF IInv, RowsOK
<1> QED
  BY <1>6, <1>7, <1>8 DEF IInv

LEMMA StartRecoveryStep ==
  ASSUME IInv, StartRecovery
  PROVE  IInv'
<1>1. /\ pc' = "next" /\ boot' = TRUE /\ queue' = pending_cloud_writes
      /\ UNCHANGED <<rows, drive, maker, files, run, reply, requests, faults, foreign>>
  BY DEF StartRecovery, cloudVars, bounds
<1>2. queue' \subseteq Keys /\ \A k \in queue' : rows[k].state # "none"
  BY <1>1 DEF pending_cloud_writes, Open
<1>3. RunOK'
  BY <1>1 DEF RunOK
<1> QED
  BY <1>1, <1>2, <1>3, QuietStep DEF IInv, TypeOK

LEMMA NextPendingStep ==
  ASSUME IInv, NextPending
  PROVE  IInv'
<1>1. PICK k \in queue :
        /\ run' = [key |-> k, etag |-> 0, fresh |-> FALSE, before |-> faults + foreign]
        /\ queue' = queue \ {k}
  BY DEF NextPending
<1>2. /\ pc' = "recover" /\ reply' = [out |-> "none", id |-> None]
      /\ UNCHANGED <<boot, rows, drive, maker, files, requests, faults, foreign>>
  BY DEF NextPending, cloudVars, bounds
<1>3. k \in Keys /\ rows[k].state # "none"
  BY DEF IInv, TypeOK, RowsOK
<1>4. faults + foreign \in Nat
  BY Numbers DEF IInv, TypeOK
<1>5. /\ run' \in [key : Keys, etag : Nat, fresh : BOOLEAN, before : Nat]
      /\ run'.key = k
  BY <1>1, <1>3, <1>4
<1>6. RunOK'
  BY <1>2, <1>3, <1>5 DEF RunOK
<1>7. queue' \subseteq Keys /\ \A j \in queue' : rows[j].state # "none"
  BY <1>1 DEF IInv, TypeOK, RowsOK
<1>8. reply' \in [out : {"none", "applied", "conflict", "error"}, id : Ids \cup {None}]
  BY <1>2
<1> QED
  BY <1>2, <1>5, <1>6, <1>7, <1>8, QuietStep DEF IInv, TypeOK

LEMMA RecoveryDoneStep ==
  ASSUME IInv, RecoveryDone
  PROVE  IInv'
<1>1. /\ pc' = "idle"
      /\ UNCHANGED <<run, boot, queue, rows, drive, maker, files, reply, requests, faults,
                     foreign>>
  BY DEF RecoveryDone, cloudVars, bounds
<1>2. RunOK'
  BY <1>1 DEF RunOK
<1> QED
  BY <1>1, <1>2, QuietStep DEF IInv, TypeOK, RowsOK

LEMMA RecoverSettledStep ==
  ASSUME IInv, RecoverSettled \/ RecoverStreamed
  PROVE  IInv'
<1>1. PICK out : Finish(out)
  BY DEF RecoverSettled, RecoverStreamed
<1>2. UNCHANGED <<rows, drive, maker, reply, requests, faults, foreign>>
  BY DEF RecoverSettled, RecoverStreamed, cloudVars, bounds
<1>3. /\ pc' \in {"next", "idle"} /\ files' \in [Paths -> Values]
      /\ UNCHANGED <<run, boot, queue>>
  BY <1>1, FinishKept
<1>4. RowsChange(run.key, "failed")
  BY <1>2 DEF RowsChange
<1>5. faults' \in 0 .. MaxFaults
  BY <1>2 DEF IInv, TypeOK
<1> QED
  BY <1>2, <1>3, <1>4, <1>5, EndStep

LEMMA RecoverStep ==
  ASSUME IInv, Recover
  PROVE  IInv'
<1>1. /\ rows[run.key].state \notin Settled
      /\ rows[run.key].state # "none"
      /\ UNCHANGED <<boot, queue, rows, drive, maker, files, reply, requests, faults, foreign>>
  BY DEF Recover, cloudVars, bounds, Settled, IInv, RunOK
<1>2. /\ run \in [key : Keys, etag : Nat, fresh : BOOLEAN, before : Nat]
      /\ rows[run.key].etag \in Nat
  BY DEF IInv, TypeOK, Rows
<1>3. PICK n \in Nat : n = IF run.key.kind = "replace" THEN rows[run.key].etag ELSE 0
  BY <1>2
<1>4. run' = [run EXCEPT !.etag = n]
  BY <1>3 DEF Recover, ResendEtag
<1>5. /\ run' \in [key : Keys, etag : Nat, fresh : BOOLEAN, before : Nat]
      /\ run'.key = run.key /\ run'.etag = n
  BY <1>2, <1>4
<1>6. \/ pc' = "issue"
      \/ pc' = "probe" /\ run.key.kind \in {"create", "upload"}
  BY DEF Recover
<1>7. RunOK'
  BY <1>1, <1>3, <1>5, <1>6 DEF RunOK
<1> QED
  BY <1>1, <1>5, <1>6, <1>7, QuietStep DEF IInv, TypeOK, RowsOK

LEMMA ProbeStep ==
  ASSUME IInv, Probe
  PROVE  IInv'
<1>1. /\ rows[run.key].state \notin {"none"} \cup Settled
      /\ run.key.kind \in {"create", "upload"}
      /\ UNCHANGED <<run, boot, queue, rows, drive, maker, files, requests, faults, foreign>>
  BY DEF Probe, Goto, cloudVars, bounds, IInv, RunOK
<1>2. \/ pc' \in {"mark", "issue"} /\ reply' = reply
      \/ pc' = "settle" /\ \E i \in Ids : reply' = [out |-> "applied", id |-> i]
  BY DEF Probe, Goto, Found, Children
<1>3. /\ reply' \in [out : {"none", "applied", "conflict", "error"}, id : Ids \cup {None}]
      /\ pc' = "settle" => reply'.out # "none"
  BY <1>2 DEF IInv, TypeOK
<1>4. RunOK'
  BY <1>1, <1>2, <1>3 DEF RunOK
<1> QED
  BY <1>1, <1>2, <1>3, <1>4, QuietStep DEF IInv, TypeOK, RowsOK

\* What a call sends is a content.
LEMMA BodyOK ==
  ASSUME IInv
  PROVE  Body(run.key) \in Values
<1>1. run.key \in Keys /\ rows[run.key] \in Rows /\ files \in [Paths -> Values]
  BY DEF IInv, TypeOK
<1>2. run.key.tag \in Values /\ None \in Values /\ rows[run.key].path \in Paths \cup {None}
  BY <1>1, KeyFields, DriveAssumption DEF KeyOK, Rows
<1> QED
  BY <1>1, <1>2 DEF Body

LEMMA LandStep ==
  ASSUME IInv, Land
  PROVE  /\ IInv'
         /\ reply'.out = "applied" /\ run.key.kind = "replace" /\ ~run.key.streamed =>
              drive[run.key.target].etag = rows[run.key].etag
<1>1. /\ run.key \in Keys /\ drive \in [Ids -> Items] /\ maker \in [Ids -> Keys \cup {None}]
      /\ rows[run.key].state \notin {"none"} \cup Settled
      /\ run.key.kind = "replace" /\ ~run.key.streamed => run.etag = rows[run.key].etag
  BY DEF Land, IInv, TypeOK, RunOK
<1>2. PICK e \in Effects(run.key, run.etag, Body(run.key)) :
        /\ drive' = e.drive /\ reply' = [out |-> e.out, id |-> e.id]
        /\ maker' = IF e.out = "applied" /\ run.key.kind \in {"create", "upload", "replace"}
                      THEN [maker EXCEPT ![e.id] = run.key] ELSE maker
  BY DEF Land
<1>3. pc' = "settle" /\ UNCHANGED <<run, boot, queue, rows, files, requests, faults, foreign>>
  BY DEF Land, Goto, bounds
<1>4. PICK b \in Values : b = Body(run.key)
  BY BodyOK
<1>5. KeyOK(run.key) /\ e \in Effects(run.key, run.etag, b)
  BY <1>1, <1>4, KeyFields
<1>6. /\ e.drive \in [Ids -> Items] /\ e.out \in {"applied", "conflict", "error"}
      /\ e.id \in Ids \cup {None} /\ (e.out = "applied" => e.id \in Ids)
      /\ run.key.kind = "replace" /\ e.out = "applied" =>
           drive[run.key.target].etag = run.etag
  BY <1>1, <1>5, EffectOK
<1>7. /\ reply' \in [out : {"none", "applied", "conflict", "error"}, id : Ids \cup {None}]
      /\ reply'.out = e.out /\ reply'.out # "none"
  BY <1>2, <1>6
<1>8. maker' \in [Ids -> Keys \cup {None}]
  BY <1>1, <1>2, <1>6
<1>9. TypeOK'
  BY <1>2, <1>3, <1>6, <1>7, <1>8 DEF IInv, TypeOK
<1>10. RunOK'
  BY <1>1, <1>3, <1>7 DEF RunOK
<1>11. RowsOK'
  BY <1>3 DEF IInv, RowsOK
<1> QED
  BY <1>1, <1>6, <1>7, <1>9, <1>10, <1>11 DEF IInv

\* The error path: the row stays as it is or is given up.
LEMMA ErroredKept ==
  ASSUME IInv, rows[run.key].state # "none", Errored
  PROVE  /\ RowsChange(run.key, "failed") /\ pc' \in {"next", "idle"}
         /\ files' \in [Paths -> Values] /\ UNCHANGED <<run, boot, queue>>
<1>1. run.key \in Keys /\ rows \in [Keys -> Rows]
  BY DEF IInv, TypeOK
<1>2. Finish("error")
  BY DEF Errored
<1>3. CASE rows' = rows
  BY <1>2, <1>3, FinishKept DEF RowsChange
<1>4. CASE set_cloud_write_state(run.key, "failed", None)
  <2>1. /\ rows' \in [Keys -> Rows] /\ rows'[run.key].state = "failed"
        /\ rows'[run.key].etag = rows[run.key].etag
        /\ \A j \in Keys : rows'[j].created = rows[j].created
        /\ \A j \in Keys : j # run.key => rows'[j] = rows[j]
    BY <1>1, <1>4, SetState DEF States
  <2>2. RowsChange(run.key, "failed")
    BY <2>1 DEF RowsChange
  <2> QED
    BY <1>2, <2>2, FinishKept
<1> QED
  BY <1>3, <1>4 DEF Errored

LEMMA BodyGoneStep ==
  ASSUME IInv, BodyGone
  PROVE  IInv'
<1>1. /\ Errored /\ rows[run.key].state # "none"
      /\ UNCHANGED <<drive, maker, reply, requests, faults, foreign>>
  BY DEF BodyGone, cloudVars, bounds, IInv, RunOK
<1>2. faults' \in 0 .. MaxFaults
  BY <1>1 DEF IInv, TypeOK
<1> QED
  BY <1>1, <1>2, ErroredKept, EndStep

\* One more disturbance is within the bound.
LEMMA FaultKept ==
  ASSUME IInv, Fault
  PROVE  faults' \in 0 .. MaxFaults /\ UNCHANGED <<requests, foreign>>
BY Numbers DEF IInv, TypeOK, Fault

LEMMA CallFailsStep ==
  ASSUME IInv, CallFails
  PROVE  IInv'
<1>1. /\ Errored /\ rows[run.key].state # "none"
      /\ UNCHANGED <<drive, maker, reply>>
  BY DEF CallFails, cloudVars, IInv, RunOK
<1>2. faults' \in 0 .. MaxFaults /\ UNCHANGED <<requests, foreign>>
  BY FaultKept DEF CallFails
<1> QED
  BY <1>1, <1>2, ErroredKept, EndStep

LEMMA SettleStep ==
  ASSUME IInv, Settle
  PROVE  IInv'
<1>1. /\ run.key \in Keys /\ rows \in [Keys -> Rows]
      /\ reply \in [out : {"none", "applied", "conflict", "error"}, id : Ids \cup {None}]
      /\ rows[run.key].state # "none" /\ reply.out # "none"
      /\ UNCHANGED <<drive, maker, reply, requests, faults, foreign>>
  BY DEF Settle, cloudVars, bounds, IInv, TypeOK, RunOK
<1>2. faults' \in 0 .. MaxFaults
  BY <1>1 DEF IInv, TypeOK
<1>3. CASE reply.out = "error"
  BY <1>1, <1>2, <1>3, ErroredKept, EndStep DEF Settle
<1>4. CASE reply.out # "error"
  <2>1. PICK id \in Ids \cup {None} :
          id = IF run.key.kind \in {"create", "upload", "replace"} THEN reply.id ELSE None
    BY <1>1
  <2>2. set_cloud_write_state(run.key, reply.out, id) /\ Finish(reply.out)
    BY <1>4, <2>1 DEF Settle
  <2>3. reply.out \in States
    BY <1>1, <1>4 DEF States
  <2>4. /\ rows' \in [Keys -> Rows] /\ rows'[run.key].state = reply.out
        /\ rows'[run.key].etag = rows[run.key].etag
        /\ \A j \in Keys : rows'[j].created = rows[j].created
        /\ \A j \in Keys : j # run.key => rows'[j] = rows[j]
    BY <1>1, <2>2, <2>3, SetState
  <2>5. RowsChange(run.key, reply.out)
    BY <1>1, <2>4 DEF RowsChange
  <2> QED
    BY <1>1, <1>2, <2>2, <2>5, FinishKept, EndStep
<1> QED
  BY <1>3, <1>4

LEMMA CrashStep ==
  ASSUME IInv, Crash
  PROVE  IInv'
<1>1. /\ pc' = "idle" /\ queue' = {}
      /\ UNCHANGED <<run, reply, boot, rows, drive, maker, files>>
  BY DEF Crash, cloudVars
<1>2. faults' \in 0 .. MaxFaults /\ UNCHANGED <<requests, foreign>>
  BY FaultKept DEF Crash
<1>3. RunOK'
  BY <1>1 DEF RunOK
<1> QED
  BY <1>1, <1>2, <1>3, QuietStep DEF IInv, TypeOK

\* Strangers and the user's files leave the ledger and the run alone.
LEMMA OutsideStep ==
  ASSUME IInv, UNCHANGED <<rows, pc, run, reply, boot, queue, requests, faults>>,
         foreign' \in 0 .. MaxForeign, drive' \in [Ids -> Items],
         maker' \in [Ids -> Keys \cup {None}], files' \in [Paths -> Values]
  PROVE  IInv'
<1>1. TypeOK'
  BY DEF IInv, TypeOK
<1>2. RunOK' /\ RowsOK'
  BY DEF IInv, RunOK, RowsOK
<1> QED
  BY <1>1, <1>2 DEF IInv

LEMMA StrangerStep ==
  ASSUME IInv, NEW k \in Strangers, Stranger(k)
  PROVE  IInv'
<1>1. /\ UNCHANGED <<rows, pc, run, reply, boot, queue, requests, faults, files>>
      /\ foreign < MaxForeign /\ foreign' = foreign + 1
  BY DEF Stranger, runVars
<1>2. foreign' \in 0 .. MaxForeign
  BY <1>1, Numbers DEF IInv, TypeOK
<1>3. PICK n : n = drive[k.target].etag
  OBVIOUS
<1>4. PICK e \in Effects(k, n, k.tag) :
        e.out = "applied" /\ drive' = e.drive /\ maker' = [maker EXCEPT ![e.id] = None]
  BY <1>3 DEF Stranger
<1>5. KeyOK(k) /\ k.tag \in Values
  BY WritesAssumption DEF KeyOK
<1>6. drive \in [Ids -> Items] /\ maker \in [Ids -> Keys \cup {None}]
      /\ files \in [Paths -> Values]
  BY DEF IInv, TypeOK
<1>7. e.drive \in [Ids -> Items] /\ e.id \in Ids
  BY <1>4, <1>5, <1>6, EffectOK
<1>8. drive' \in [Ids -> Items] /\ maker' \in [Ids -> Keys \cup {None}]
  BY <1>4, <1>6, <1>7
<1> QED
  BY <1>1, <1>2, <1>6, <1>8, OutsideStep

LEMMA FileChangesStep ==
  ASSUME IInv, FileChanges
  PROVE  IInv'
<1>1. PICK w \in Writes, c \in Values : Bodied(w) /\ ChangeFile(Path(w), c)
  BY WriteFields, DriveAssumption DEF FileChanges
<1>2. PICK p \in Paths : p = Path(w)
  BY <1>1, PathOfWrite
<1>3. /\ UNCHANGED <<rows, pc, run, reply, boot, queue, requests, faults, drive, maker>>
      /\ foreign < MaxForeign /\ foreign' = foreign + 1 /\ files' = [files EXCEPT ![p] = c]
  BY <1>1, <1>2 DEF ChangeFile, runVars, cloudVars
<1>4. foreign' \in 0 .. MaxForeign
  BY <1>3, Numbers DEF IInv, TypeOK
<1>5. files' \in [Paths -> Values]
  BY <1>3 DEF IInv, TypeOK
<1> QED
  BY <1>3, <1>4, <1>5, OutsideStep DEF IInv, TypeOK

-----------------------------------------------------------------------------
(* The theorems *)

LEMMA NextIInv ==
  IInv /\ [Next]_vars => IInv'
<1> SUFFICES ASSUME IInv, [Next]_vars PROVE IInv'
  OBVIOUS
<1>1. CASE UNCHANGED vars
  <2>1. UNCHANGED <<rows, drive, maker, files, pc, run, reply, boot, queue, requests, faults,
                    foreign>>
    BY <1>1 DEF vars
  <2> QED
    BY <2>1, OutsideStep DEF IInv, TypeOK
<1>2. ASSUME NEW w \in Writes, NEW etag \in Etags(w),
             RequestNew(w, etag) \/ RequestKnown(w, etag)
      PROVE  IInv'
  BY <1>2, RequestNewStep, RequestKnownStep
<1>3. CASE Work
  BY <1>3, MarkInflightStep, NextPendingStep, RecoveryDoneStep, RecoverSettledStep,
     RecoverStep, ProbeStep, LandStep, BodyGoneStep, SettleStep DEF Work
<1>4. CASE StartRecovery
  BY <1>4, StartRecoveryStep
<1>5. CASE CallFails \/ Crash
  BY <1>5, CallFailsStep, CrashStep
<1>6. CASE (\E k \in Strangers : Stranger(k)) \/ FileChanges
  BY <1>6, StrangerStep, FileChangesStep
<1> QED
  BY <1>1, <1>2, <1>3, <1>4, <1>5, <1>6 DEF Next, Request

\* The inductive invariant holds of the ledger.
THEOREM Invariance == Spec => []IInv
BY InitIInv, NextIInv, PTL DEF Spec

\* Every variable keeps its type, and no two rows are of the same age, so that
\* a recovery pass has one oldest row to begin with (ORDER BY created_at).
THEOREM TypeCorrect == Spec => []TypeOK
<1>1. IInv => TypeOK
  BY DEF IInv
<1> QED
  BY <1>1, Invariance, PTL

\* A row that was answered applied or conflict never changes again, whatever
\* is requested, repeated, recovered or interrupted (set_cloud_write_state is
\* only reached for rows that are open or failed).
THEOREM SettledRowsStay == Spec => SettledIsFinal
<1> DEFINE Kept == \A k \in Keys : rows[k].state \in {"applied", "conflict"} => rows'[k] = rows[k]
<1>1. IInv /\ [Next]_vars => [Kept]_vars
  <2> SUFFICES ASSUME IInv, Next PROVE Kept
    OBVIOUS
  <2>1. run.key \in Keys /\ rows \in [Keys -> Rows]
    BY DEF IInv, TypeOK
  <2>2. ASSUME NEW s, NEW id, set_cloud_write_state(run.key, s, id),
               pc \in {"mark", "issue", "probe", "settle"}
        PROVE  Kept
    <3>1. rows[run.key].state \notin Settled
      BY <2>2 DEF IInv, RunOK
    <3>2. \A k \in Keys : k # run.key => rows'[k] = rows[k]
      BY <2>1, <2>2 DEF set_cloud_write_state
    <3> QED
      BY <3>1, <3>2 DEF Settled
  <2>3. CASE rows' = rows
    BY <2>3
  <2>4. ASSUME NEW w \in Writes, NEW etag \in Etags(w), RequestNew(w, etag)
        PROVE  Kept
    <3>1. PICK key \in Keys : key = Key(w)
      BY KeyOfWrite
    <3>2. rows[key].state = "none" /\ \A k \in Keys : k # key => rows'[k] = rows[k]
      BY <2>1, <2>4, <3>1 DEF RequestNew
    <3> QED
      BY <3>2
  <2>5. CASE MarkInflight \/ BodyGone \/ Settle \/ CallFails
    BY <2>2, <2>3, <2>5 DEF MarkInflight, BodyGone, Settle, CallFails, Errored
  <2> QED
    BY <2>3, <2>4, <2>5 DEF Next, Work, Request, RequestKnown, StartRecovery, NextPending,
       RecoveryDone, RecoverSettled, RecoverStreamed, Recover, Probe, Land, Crash,
       Stranger, FileChanges, ChangeFile
<1> QED
  BY <1>1, Invariance, PTL DEF Spec, SettledIsFinal

\* A file is replaced only in the version that the request which made the row
\* had seen, whether the call is the first one or sent again by a recovery
\* pass after any number of crashes and writes of others (issue_once, the
\* guard etag stored with the row).
THEOREM NoBlindReplace == Spec => NoBlindOverwrite
<1> DEFINE Guarded == pc = "issue" /\ pc' = "settle" /\ reply'.out = "applied"
                        /\ run.key.kind = "replace" /\ ~run.key.streamed
                      => drive[run.key.target].etag = rows[run.key].etag
<1>1. IInv /\ [Next]_vars => [Guarded]_vars
  <2> SUFFICES ASSUME IInv, Next, pc = "issue", pc' = "settle" PROVE Guarded
    OBVIOUS
  <2>1. CASE Land
    BY <2>1, LandStep
  <2>2. CASE BodyGone \/ CallFails
    BY <2>2 DEF BodyGone, CallFails, Errored, Finish
  <2> QED
    BY <2>1, <2>2 DEF Next, Work, Request, RequestNew, RequestKnown, Ask, MarkInflight,
       StartRecovery, NextPending, RecoveryDone, RecoverSettled, RecoverStreamed, Recover,
       Probe, Settle, Crash, Stranger, FileChanges, ChangeFile, runVars
<1> QED
  BY <1>1, Invariance, PTL DEF Spec, NoBlindOverwrite
=============================================================================
