--------------------------- MODULE MCRestoreLedger ---------------------------
(* Small instances of RestoreLedger for TLC.                               *)
EXTENDS RestoreLedger, TLC

CONSTANTS mail1, cal1, cal2,   \* cal1 and cal2: two versions of one event
          mailItem, calItem, i1, i2, i3, w1, w2

OneMail    == {mail1}
OneCal     == {cal1}
TwoCals    == {cal1, cal2}
MailCal    == {mail1, cal1}
NoOps      == {}
TwoIds     == {i1, i2}
ThreeIds   == {i1, i2, i3}
OneWorker  == {w1}
TwoWorkers == {w1, w2}

ItemOf == [op \in Ops |-> IF op = mail1 THEN mailItem ELSE calItem]
Items  == {ItemOf[op] : op \in Ops}

(* Cloud ids are interchangeable; workers are too. Not for liveness.       *)
IdsAndWorkers == Permutations(CloudIds) \cup Permutations(Workers)
==============================================================================
