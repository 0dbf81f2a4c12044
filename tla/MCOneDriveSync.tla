---------------------------- MODULE MCOneDriveSync ----------------------------
(* Small instances of OneDriveSync. *)
EXTENDS OneDriveSync

CONSTANTS a, b

(* The first two versions have one size, the others another. *)
TheSizes == [c \in 1 .. MaxWrites |-> IF c <= 2 THEN 1 ELSE 2]

(* The points at which an edit of the user's is not seen: between the      *)
(* check of a file and the write over it, and between the upload of its    *)
(* bytes and the record of what is on disk.                                *)
Windows == {"download", "place", "mark", "ref", "stamp", "createref",
            "restamp", "modifyref"}

Idle           == {"idle"}
Seen           == Points \ (Windows \cup {"ingest", "aside"})
NotBeforeStamp == Points \ {"stamp"}
=============================================================================
