---------------------------- MODULE MCOneDriveWrite ----------------------------
(* Small instances of OneDriveWrite: a drive with two folders, root and    *)
(* dir, and a file f1; the ids n1, n2 and n3 are free.                     *)
EXTENDS OneDriveWrite

CONSTANTS root, dir, f1, n1, n2, n3, a, b, c, x, y

TheIds    == {f1, n1, n2, n3}
TheValues == TheIds \cup {root, dir, a, b, c, x, y, None}

TheDrive ==
    [i \in TheIds |-> IF i = f1
       THEN [parent |-> root, name |-> a, content |-> x, etag |-> 1]
       ELSE [parent |-> None, name |-> None, content |-> None, etag |-> 0]]

Write(kind, target, name, parent, content, source) ==
    [kind |-> kind, target |-> target, name |-> name, parent |-> parent,
     content |-> content, source |-> source]

Create       == Write("create", root, b, None, None, "none")
Rename       == Write("rename", f1, b, None, None, "none")
Move         == Write("move", f1, a, dir, None, "none")
Delete       == Write("delete", f1, None, None, None, "none")
Edit         == Write("replace", f1, None, None, y, "file")
StagedEdit   == Write("replace", f1, None, None, y, "staged")
StagedEdit2  == Write("replace", f1, None, None, x, "staged")
StagedUpload == Write("upload", dir, c, None, y, "staged")
StreamUpload == Write("upload", root, c, None, y, "stream")

SomeWrites   == {Create, Edit, Rename, Move, StreamUpload, StagedUpload, Delete}
EditWrites   == {StagedEdit, StagedEdit2}

StrangerWrites == {Key(Write("replace", f1, None, None, b, "staged")),
                   [Key(Write("upload", root, b, None, None, "none")) EXCEPT !.tag = x]}
Nobody         == {}
=============================================================================
