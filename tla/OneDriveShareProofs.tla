-------------------------- MODULE OneDriveShareProofs --------------------------
(***************************************************************************)
(* Proofs about OneDriveShare for any links, invitations, recipients and   *)
(* bounds.                                                                 *)
(***************************************************************************)
EXTENDS OneDriveShare, TLAPS

(* What the row of an intent says: a row not yet inflight stands for a     *)
(* call never made, and so does the request to retry.                      *)
RowOK(k) ==
    /\ state[k] \in {"none", "pending"} => sends[k] = 0 /\ error[k] = "none"
    /\ error[k] = NotStarted => state[k] = "failed" /\ sends[k] = 0
    /\ k \in Invites => sends[k] <= 1
    /\ state[k] = "applied" => reached[k] = Recipients
    /\ \A r \in Recipients : granted[k][r] > 0 => r \in reached[k]

(* What the run under way knows of its row; the run that is about to make  *)
(* an invite call is the first to make it.                                 *)
RunOK ==
    /\ pc = "recorded" => state[cur] \in {"pending", "failed"} /\ sends[cur] = 0
    /\ pc \in {"recover", "list", "call", "landed", "partial"} =>
         state[cur] \in {"pending", "inflight"}
    /\ pc \in {"list", "call", "landed", "partial"} /\ cur \in Invites =>
         state[cur] = "inflight"
    /\ pc = "call" /\ cur \in Invites => sends[cur] = 0
    /\ pc = "partial" => cur \in Invites
    /\ pc = "landed" => reached[cur] = Recipients

(* Boot recovery only goes through open rows, and not through the one it   *)
(* is working on.                                                          *)
QueueOK ==
    /\ \A k \in queue : state[k] \in {"pending", "inflight"}
    /\ pc \notin {"idle", "next"} => cur \notin queue
    /\ ~boot \/ pc = "idle" => queue = {}

(* The inductive invariant.                                                *)
IInv == TypeOK /\ (\A k \in Shares : RowOK(k)) /\ RunOK /\ QueueOK

-----------------------------------------------------------------------------
(* A row that is not touched stays right.                                  *)
LEMMA RowSame ==
    ASSUME NEW k \in Shares, RowOK(k), state'[k] = state[k], error'[k] = error[k],
           sends'[k] = sends[k], reached'[k] = reached[k], granted'[k] = granted[k]
    PROVE  RowOK(k)'
BY DEF RowOK

LEMMA InitInv == Init => IInv
<1> SUFFICES ASSUME Init PROVE IInv
  OBVIOUS
<1> USE ConstantsAssumption
<1>0. 0 \in 0..MaxRequests /\ 0 \in 0..MaxFaults /\ 0 \in 0..MaxForeign
  OBVIOUS
<1>g. granted \in [Shares -> [Recipients -> 0..2]] /\ sends \in [Shares -> Nat]
  BY DEF Init
<1>e. /\ state \in [Shares -> States] /\ error \in [Shares -> Errors]
      /\ reached \in [Shares -> SUBSET Recipients]
  BY DEF Init, States, Errors
<1>1. TypeOK
  BY <1>0, <1>g, <1>e DEF Init, TypeOK, Pcs
<1>2. \A k \in Shares : RowOK(k)
  BY DEF Init, RowOK, NotStarted
<1>3. RunOK /\ QueueOK
  BY DEF Init, RunOK, QueueOK
<1> QED
  BY <1>1, <1>2, <1>3 DEF IInv

LEMMA InvStep == IInv /\ [Next]_vars => IInv'
<1> SUFFICES ASSUME IInv, [Next]_vars PROVE IInv'
  OBVIOUS
<1> USE ConstantsAssumption
<1>ty. TypeOK
  BY DEF IInv
<1>row. \A k \in Shares : RowOK(k)
  BY DEF IInv
<1>run. RunOK /\ QueueOK
  BY DEF IInv
<1> DEFINE Rows == \A k \in Shares : RowOK(k)'
<1>goal. TypeOK' /\ Rows /\ RunOK' /\ QueueOK' => IInv'
  BY DEF IInv
<1>1. ASSUME NEW k \in Shares, RequestNew(k) PROVE IInv'
  <2>b. requests' \in 0..MaxRequests
    BY <1>1, <1>ty DEF TypeOK, RequestNew, Ask
  <2>1. TypeOK'
    BY <1>1, <1>ty, <2>b
    DEF TypeOK, States, Errors, Pcs, RequestNew, Ask, set_cloud_write_state, cloudVars
  <2>o. PICK o \in Shares : o = k
    BY <1>1, <1>ty DEF TypeOK
  <2>2. Rows
    <3>1. ASSUME NEW q \in Shares, q # o PROVE RowOK(q)'
      BY <1>1, <1>ty, <1>row, <2>o, <3>1, RowSame
      DEF TypeOK, RequestNew, Ask, set_cloud_write_state, cloudVars
    <3>2. RowOK(o)'
      BY <1>1, <1>ty, <1>row, <1>run, <2>o
      DEF RowOK, RunOK, TypeOK, NotStarted, Shares, RequestNew, Ask,
          set_cloud_write_state, cloudVars
    <3> QED
      BY <3>1, <3>2
  <2>3. RunOK' /\ QueueOK'
    BY <1>1, <1>ty, <1>row, <1>run, <2>o
    DEF RowOK, RunOK, QueueOK, TypeOK, Shares, NotStarted, RequestNew, Ask,
        set_cloud_write_state, cloudVars
  <2> QED
    BY <2>1, <2>2, <2>3, <1>goal
<1>2. ASSUME NEW k \in Shares, RequestAgain(k) PROVE IInv'
  <2>b. requests' \in 0..MaxRequests
    BY <1>2, <1>ty DEF TypeOK, RequestAgain, Ask
  <2>1. TypeOK'
    BY <1>2, <1>ty, <2>b
    DEF TypeOK, States, Errors, Pcs, RequestAgain, Ask, rowVars, cloudVars
  <2>2. Rows
    BY <1>2, <1>row, RowSame DEF RequestAgain, Ask, Restartable, rowVars, cloudVars
  <2>3. RunOK' /\ QueueOK'
    BY <1>2, <1>ty, <1>row, <1>run
    DEF RowOK, RunOK, QueueOK, TypeOK, States, NotStarted, RequestAgain, Ask,
        Restartable, rowVars, cloudVars
  <2> QED
    BY <2>1, <2>2, <2>3, <1>goal
<1>3. ASSUME NEW k \in Shares, RequestKnown(k) PROVE IInv'
  <2>b. requests' \in 0..MaxRequests
    BY <1>3, <1>ty DEF TypeOK, RequestKnown, Ask
  <2>1. TypeOK'
    BY <1>3, <1>ty, <2>b
    DEF TypeOK, States, Errors, Pcs, RequestKnown, Ask, rowVars, cloudVars
  <2>2. Rows
    BY <1>3, <1>row, RowSame DEF RequestKnown, Ask, Restartable, rowVars, cloudVars
  <2>3. RunOK' /\ QueueOK'
    BY <1>3, <1>ty, <1>row, <1>run
    DEF RowOK, RunOK, QueueOK, TypeOK, States, NotStarted, RequestKnown, Ask,
        Restartable, rowVars, cloudVars
  <2> QED
    BY <2>1, <2>2, <2>3, <1>goal
<1>4. ASSUME StartBoot PROVE IInv'
  <2>1. TypeOK'
    BY <1>4, <1>ty
    DEF TypeOK, States, Errors, Pcs, NotStarted, StartBoot, pending_cloud_writes,
        rowVars, cloudVars, bounds
  <2>2. Rows
    BY <1>4, <1>row, RowSame DEF StartBoot, pending_cloud_writes, rowVars, cloudVars, bounds
  <2>3. RunOK' /\ QueueOK'
    BY <1>4, <1>ty, <1>row, <1>run
    DEF RowOK, RunOK, QueueOK, TypeOK, States, NotStarted, StartBoot,
        pending_cloud_writes, rowVars, cloudVars, bounds
  <2> QED
    BY <2>1, <2>2, <2>3, <1>goal
<1>5. ASSUME MarkInflight PROVE IInv'
  <2>1. TypeOK'
    BY <1>5, <1>ty
    DEF TypeOK, States, Errors, Pcs, NotStarted, MarkInflight, Goto,
        set_cloud_write_state, cloudVars, bounds
  <2>o. PICK o \in Shares : o = cur
    BY <1>5, <1>ty DEF TypeOK
  <2>2. Rows
    <3>1. ASSUME NEW q \in Shares, q # o PROVE RowOK(q)'
      BY <1>5, <1>ty, <1>row, <2>o, <3>1, RowSame
      DEF TypeOK, MarkInflight, Goto, set_cloud_write_state, cloudVars, bounds
    <3>2. RowOK(o)'
      BY <1>5, <1>ty, <1>row, <1>run, <2>o
      DEF RowOK, RunOK, TypeOK, NotStarted, Shares, MarkInflight, Goto,
          set_cloud_write_state, cloudVars, bounds
    <3> QED
      BY <3>1, <3>2
  <2>3. RunOK' /\ QueueOK'
    BY <1>5, <1>ty, <1>row, <1>run, <2>o
    DEF RowOK, RunOK, QueueOK, TypeOK, Shares, NotStarted, MarkInflight, Goto,
        set_cloud_write_state, cloudVars, bounds
  <2> QED
    BY <2>1, <2>2, <2>3, <1>goal
<1>6. ASSUME NEW k \in Shares, NextPending(k) PROVE IInv'
  <2>1. TypeOK'
    BY <1>6, <1>ty
    DEF TypeOK, States, Errors, Pcs, NotStarted, NextPending, rowVars, cloudVars, bounds
  <2>2. Rows
    BY <1>6, <1>row, RowSame DEF NextPending, rowVars, cloudVars, bounds
  <2>3. RunOK' /\ QueueOK'
    BY <1>6, <1>ty, <1>row, <1>run
    DEF RowOK, RunOK, QueueOK, TypeOK, States, NotStarted, NextPending, rowVars,
        cloudVars, bounds
  <2> QED
    BY <2>1, <2>2, <2>3, <1>goal
<1>7. ASSUME BootDone PROVE IInv'
  <2>1. TypeOK'
    BY <1>7, <1>ty
    DEF TypeOK, States, Errors, Pcs, NotStarted, BootDone, rowVars, cloudVars, bounds
  <2>2. Rows
    BY <1>7, <1>row, RowSame DEF BootDone, rowVars, cloudVars, bounds
  <2>3. RunOK' /\ QueueOK'
    BY <1>7, <1>ty, <1>row, <1>run
    DEF RowOK, RunOK, QueueOK, TypeOK, States, NotStarted, BootDone, rowVars, cloudVars,
        bounds
  <2> QED
    BY <2>1, <2>2, <2>3, <1>goal
<1>8. ASSUME RecoverUnsent PROVE IInv'
  <2>1. TypeOK'
    BY <1>8, <1>ty
    DEF TypeOK, States, Errors, Pcs, NotStarted, RecoverUnsent, Finish,
        set_cloud_write_state, cloudVars, bounds
  <2>o. PICK o \in Shares : o = cur
    BY <1>8, <1>ty DEF TypeOK
  <2>2. Rows
    <3>1. ASSUME NEW q \in Shares, q # o PROVE RowOK(q)'
      BY <1>8, <1>ty, <1>row, <2>o, <3>1, RowSame
      DEF TypeOK, RecoverUnsent, Finish, set_cloud_write_state, cloudVars, bounds
    <3>2. RowOK(o)'
      BY <1>8, <1>ty, <1>row, <1>run, <2>o
      DEF RowOK, RunOK, TypeOK, NotStarted, Shares, RecoverUnsent, Finish,
          set_cloud_write_state, cloudVars, bounds
    <3> QED
      BY <3>1, <3>2
  <2>3. RunOK' /\ QueueOK'
    BY <1>8, <1>ty, <1>row, <1>run, <2>o
    DEF RowOK, RunOK, QueueOK, TypeOK, Shares, NotStarted, RecoverUnsent, Finish,
        set_cloud_write_state, cloudVars, bounds
  <2> QED
    BY <2>1, <2>2, <2>3, <1>goal
<1>9. ASSUME RecoverSent PROVE IInv'
  <2>1. TypeOK'
    BY <1>9, <1>ty
    DEF TypeOK, States, Errors, Pcs, NotStarted, RecoverSent, Goto, rowVars, cloudVars,
        bounds
  <2>2. Rows
    BY <1>9, <1>row, RowSame DEF RecoverSent, Goto, rowVars, cloudVars, bounds
  <2>3. RunOK' /\ QueueOK'
    BY <1>9, <1>ty, <1>row, <1>run
    DEF RowOK, RunOK, QueueOK, TypeOK, States, NotStarted, RecoverSent, Goto, rowVars,
        cloudVars, bounds
  <2> QED
    BY <2>1, <2>2, <2>3, <1>goal
<1>10. ASSUME ListFound PROVE IInv'
  <2>1. TypeOK'
    BY <1>10, <1>ty
    DEF TypeOK, States, Errors, Pcs, NotStarted, ListFound, Matched, Finish,
        set_cloud_write_state, cloudVars, bounds
  <2>o. PICK o \in Shares : o = cur
    BY <1>10, <1>ty DEF TypeOK
  <2>2. Rows
    <3>1. ASSUME NEW q \in Shares, q # o PROVE RowOK(q)'
      BY <1>10, <1>ty, <1>row, <2>o, <3>1, RowSame
      DEF TypeOK, ListFound, Matched, Finish, set_cloud_write_state, cloudVars, bounds
    <3>2. reached[o] = Recipients
      <4>1. \A r \in Recipients : granted[o][r] > 0
        BY <1>10, <2>o DEF ListFound, Matched
      <4>2. reached[o] \subseteq Recipients
        BY <1>ty DEF TypeOK
      <4> QED
        BY <1>row, <4>1, <4>2 DEF RowOK
    <3>3. /\ state'[o] = "applied" /\ error'[o] = "none"
          /\ granted' = granted /\ reached' = reached /\ sends' = sends
      BY <1>10, <1>ty, <2>o DEF TypeOK, ListFound, set_cloud_write_state, cloudVars
    <3>4. RowOK(o)'
      BY <1>row, <3>2, <3>3 DEF RowOK, NotStarted
    <3> QED
      BY <3>1, <3>4
  <2>3. RunOK' /\ QueueOK'
    BY <1>10, <1>ty, <1>row, <1>run, <2>o
    DEF RowOK, RunOK, QueueOK, TypeOK, Shares, NotStarted, ListFound, Matched, Finish,
        set_cloud_write_state, cloudVars, bounds
  <2> QED
    BY <2>1, <2>2, <2>3, <1>goal
<1>11. ASSUME ListNoLink PROVE IInv'
  <2>1. TypeOK'
    BY <1>11, <1>ty
    DEF TypeOK, States, Errors, Pcs, NotStarted, ListNoLink, Goto, rowVars, cloudVars,
        bounds
  <2>2. Rows
    BY <1>11, <1>row, RowSame DEF ListNoLink, Goto, rowVars, cloudVars, bounds
  <2>3. RunOK' /\ QueueOK'
    BY <1>11, <1>ty, <1>row, <1>run
    DEF RowOK, RunOK, QueueOK, TypeOK, States, NotStarted, ListNoLink, Goto, rowVars,
        cloudVars, bounds
  <2> QED
    BY <2>1, <2>2, <2>3, <1>goal
<1>12. ASSUME ListNoInvite PROVE IInv'
  <2>1. TypeOK'
    BY <1>12, <1>ty
    DEF TypeOK, States, Errors, Pcs, NotStarted, ListNoInvite, Finish,
        set_cloud_write_state, cloudVars, bounds
  <2>o. PICK o \in Shares : o = cur
    BY <1>12, <1>ty DEF TypeOK
  <2>2. Rows
    <3>1. ASSUME NEW q \in Shares, q # o PROVE RowOK(q)'
      BY <1>12, <1>ty, <1>row, <2>o, <3>1, RowSame
      DEF TypeOK, ListNoInvite, Finish, set_cloud_write_state, cloudVars, bounds
    <3>2. RowOK(o)'
      BY <1>12, <1>ty, <1>row, <1>run, <2>o
      DEF RowOK, RunOK, TypeOK, NotStarted, Shares, ListNoInvite, Finish,
          set_cloud_write_state, cloudVars, bounds
    <3> QED
      BY <3>1, <3>2
  <2>3. RunOK' /\ QueueOK'
    BY <1>12, <1>ty, <1>row, <1>run, <2>o
    DEF RowOK, RunOK, QueueOK, TypeOK, Shares, NotStarted, ListNoInvite, Finish,
        set_cloud_write_state, cloudVars, bounds
  <2> QED
    BY <2>1, <2>2, <2>3, <1>goal
<1>13. ASSUME LandLink PROVE IInv'
  <2>1. TypeOK'
    BY <1>13, <1>ty
    DEF TypeOK, States, Errors, Pcs, NotStarted, LandLink, Grant, Goto, rowVars, bounds
  <2>o. PICK o \in Shares : o = cur
    BY <1>13, <1>ty DEF TypeOK
  <2>2. Rows
    <3>1. ASSUME NEW q \in Shares, q # o PROVE RowOK(q)'
      BY <1>13, <1>ty, <1>row, <2>o, <3>1, RowSame
      DEF TypeOK, LandLink, Grant, Goto, rowVars, bounds
    <3>2. RowOK(o)'
      BY <1>13, <1>ty, <1>row, <1>run, <2>o
      DEF RowOK, RunOK, TypeOK, NotStarted, Shares, LandLink, Grant, Goto, rowVars,
          bounds
    <3> QED
      BY <3>1, <3>2
  <2>3. RunOK' /\ QueueOK'
    BY <1>13, <1>ty, <1>row, <1>run, <2>o
    DEF RowOK, RunOK, QueueOK, TypeOK, Shares, NotStarted, LandLink, Grant, Goto,
        rowVars, bounds
  <2> QED
    BY <2>1, <2>2, <2>3, <1>goal
<1>14. ASSUME NEW rs \in (SUBSET Recipients) \ {{}}, LandInvite(rs) PROVE IInv'
  <2>1. TypeOK'
    BY <1>14, <1>ty
    DEF TypeOK, States, Errors, Pcs, NotStarted, LandInvite, Grant, Goto, rowVars,
        bounds
  <2>o. PICK o \in Shares : o = cur
    BY <1>14, <1>ty DEF TypeOK
  <2>2. Rows
    <3>1. ASSUME NEW q \in Shares, q # o PROVE RowOK(q)'
      BY <1>14, <1>ty, <1>row, <2>o, <3>1, RowSame
      DEF TypeOK, LandInvite, Grant, Goto, rowVars, bounds
    <3>2. RowOK(o)'
      BY <1>14, <1>ty, <1>row, <1>run, <2>o
      DEF RowOK, RunOK, TypeOK, NotStarted, Shares, LandInvite, Grant, Goto, rowVars,
          bounds
    <3> QED
      BY <3>1, <3>2
  <2>3. RunOK' /\ QueueOK'
    BY <1>14, <1>ty, <1>row, <1>run, <2>o
    DEF RowOK, RunOK, QueueOK, TypeOK, Shares, NotStarted, LandInvite, Grant, Goto,
        rowVars, bounds
  <2> QED
    BY <2>1, <2>2, <2>3, <1>goal
<1>15. ASSUME Applied PROVE IInv'
  <2>1. TypeOK'
    BY <1>15, <1>ty
    DEF TypeOK, States, Errors, Pcs, NotStarted, Applied, Finish, set_cloud_write_state,
        cloudVars, bounds
  <2>o. PICK o \in Shares : o = cur
    BY <1>15, <1>ty DEF TypeOK
  <2>2. Rows
    <3>1. ASSUME NEW q \in Shares, q # o PROVE RowOK(q)'
      BY <1>15, <1>ty, <1>row, <2>o, <3>1, RowSame
      DEF TypeOK, Applied, Finish, set_cloud_write_state, cloudVars, bounds
    <3>2. RowOK(o)'
      BY <1>15, <1>ty, <1>row, <1>run, <2>o
      DEF RowOK, RunOK, TypeOK, NotStarted, Shares, Applied, Finish,
          set_cloud_write_state, cloudVars, bounds
    <3> QED
      BY <3>1, <3>2
  <2>3. RunOK' /\ QueueOK'
    BY <1>15, <1>ty, <1>row, <1>run, <2>o
    DEF RowOK, RunOK, QueueOK, TypeOK, Shares, NotStarted, Applied, Finish,
        set_cloud_write_state, cloudVars, bounds
  <2> QED
    BY <2>1, <2>2, <2>3, <1>goal
<1>16. ASSUME Partial PROVE IInv'
  <2>1. TypeOK'
    BY <1>16, <1>ty
    DEF TypeOK, States, Errors, Pcs, NotStarted, Partial, Finish, set_cloud_write_state,
        cloudVars, bounds
  <2>o. PICK o \in Shares : o = cur
    BY <1>16, <1>ty DEF TypeOK
  <2>2. Rows
    <3>1. ASSUME NEW q \in Shares, q # o PROVE RowOK(q)'
      BY <1>16, <1>ty, <1>row, <2>o, <3>1, RowSame
      DEF TypeOK, Partial, Finish, set_cloud_write_state, cloudVars, bounds
    <3>2. RowOK(o)'
      BY <1>16, <1>ty, <1>row, <1>run, <2>o
      DEF RowOK, RunOK, TypeOK, NotStarted, Shares, Partial, Finish,
          set_cloud_write_state, cloudVars, bounds
    <3> QED
      BY <3>1, <3>2
  <2>3. RunOK' /\ QueueOK'
    BY <1>16, <1>ty, <1>row, <1>run, <2>o
    DEF RowOK, RunOK, QueueOK, TypeOK, Shares, NotStarted, Partial, Finish,
        set_cloud_write_state, cloudVars, bounds
  <2> QED
    BY <2>1, <2>2, <2>3, <1>goal
<1>17. ASSUME CallFails PROVE IInv'
  <2>1. TypeOK'
    BY <1>17, <1>ty
    DEF TypeOK, States, Errors, Pcs, NotStarted, CallFails, Fault, Finish,
        set_cloud_write_state
  <2>o. PICK o \in Shares : o = cur
    BY <1>17, <1>ty DEF TypeOK
  <2>2. Rows
    <3>1. ASSUME NEW q \in Shares, q # o PROVE RowOK(q)'
      BY <1>17, <1>ty, <1>row, <2>o, <3>1, RowSame
      DEF TypeOK, CallFails, Fault, Finish, set_cloud_write_state
    <3>2. RowOK(o)'
      BY <1>17, <1>ty, <1>row, <1>run, <2>o
      DEF RowOK, RunOK, TypeOK, NotStarted, Shares, CallFails, Fault, Finish,
          set_cloud_write_state
    <3> QED
      BY <3>1, <3>2
  <2>3. RunOK' /\ QueueOK'
    BY <1>17, <1>ty, <1>row, <1>run, <2>o
    DEF RowOK, RunOK, QueueOK, TypeOK, Shares, NotStarted, CallFails, Fault, Finish,
        set_cloud_write_state
  <2> QED
    BY <2>1, <2>2, <2>3, <1>goal
<1>18. ASSUME ListFails PROVE IInv'
  <2>1. TypeOK'
    BY <1>18, <1>ty
    DEF TypeOK, States, Errors, Pcs, NotStarted, ListFails, Fault, Finish, rowVars,
        cloudVars
  <2>2. Rows
    BY <1>18, <1>row, RowSame DEF ListFails, Fault, Finish, rowVars, cloudVars
  <2>3. RunOK' /\ QueueOK'
    BY <1>18, <1>ty, <1>row, <1>run
    DEF RowOK, RunOK, QueueOK, TypeOK, States, NotStarted, ListFails, Fault, Finish,
        rowVars, cloudVars
  <2> QED
    BY <2>1, <2>2, <2>3, <1>goal
<1>19. ASSUME Crash PROVE IInv'
  <2>1. TypeOK'
    BY <1>19, <1>ty DEF TypeOK, States, Errors, Pcs, NotStarted, Crash, Fault, rowVars
  <2>o. PICK o \in Shares : o = cur
    BY <1>19, <1>ty DEF TypeOK
  <2>2. Rows
    <3>1. ASSUME NEW q \in Shares, q # o PROVE RowOK(q)'
      BY <1>19, <1>ty, <1>row, <2>o, <3>1, RowSame DEF TypeOK, Crash, Fault, rowVars
    <3>2. RowOK(o)'
      BY <1>19, <1>ty, <1>row, <1>run, <2>o
      DEF RowOK, RunOK, TypeOK, NotStarted, Shares, Crash, Fault, rowVars
    <3> QED
      BY <3>1, <3>2
  <2>3. RunOK' /\ QueueOK'
    BY <1>19, <1>ty, <1>row, <1>run, <2>o
    DEF RowOK, RunOK, QueueOK, TypeOK, Shares, NotStarted, Crash, Fault, rowVars
  <2> QED
    BY <2>1, <2>2, <2>3, <1>goal
<1>20. ASSUME NEW k \in Shares, NEW r \in Recipients, ForeignChange(k, r) PROVE IInv'
  <2>b. foreign' \in 0..MaxForeign
    BY <1>20, <1>ty DEF TypeOK, ForeignChange
  <2>s. /\ state' = state /\ error' = error /\ sends' = sends /\ pc' = pc
        /\ cur' = cur /\ boot' = boot /\ queue' = queue
        /\ requests' = requests /\ faults' = faults
    BY <1>20 DEF ForeignChange, rowVars
  <2>0. \A q \in Shares : q # k => granted'[q] = granted[q] /\ reached'[q] = reached[q]
    BY <1>20, <1>ty DEF ForeignChange, TypeOK
  <2>g. granted[k][r] \in 0..2
    BY <1>ty DEF TypeOK
  <2>n. PICK n \in 0..2 : /\ granted' = [granted EXCEPT ![k][r] = n]
                          /\ n > 0 => r \in reached'[k]
    <3>1. CASE granted' = [granted EXCEPT ![k][r] = 0]
      BY <3>1
    <3>2. CASE /\ granted[k][r] < 2
               /\ granted' = [granted EXCEPT ![k][r] = @ + 1]
               /\ reached' = [reached EXCEPT ![k] = @ \cup {r}]
      <4>1. granted[k][r] + 1 \in 0..2 /\ r \in reached'[k]
        BY <1>ty, <2>g, <3>2 DEF TypeOK
      <4> QED
        BY <3>2, <4>1
    <3> QED
      BY <1>20, <3>1, <3>2 DEF ForeignChange
  <2>r. /\ reached \in [Shares -> SUBSET Recipients]
        /\ \A q \in Shares : reached[q] \subseteq reached'[q]
        /\ reached' \in [Shares -> SUBSET Recipients]
    <3>0. reached \in [Shares -> SUBSET Recipients]
      BY <1>ty DEF TypeOK
    <3>1. CASE reached' = reached
      BY <3>0, <3>1
    <3>2. CASE reached' = [reached EXCEPT ![k] = @ \cup {r}]
      BY <3>0, <3>2
    <3> QED
      BY <1>20, <3>0, <3>1, <3>2 DEF ForeignChange
  <2>1. TypeOK'
    <3>1. granted' \in [Shares -> [Recipients -> 0..2]]
      BY <1>ty, <2>n DEF TypeOK
    <3> QED
      BY <1>ty, <2>b, <2>s, <2>r, <3>1 DEF TypeOK
  <2>2. Rows
    <3>1. ASSUME NEW q \in Shares, q # k PROVE RowOK(q)'
      BY <1>row, <2>0, <2>s, <3>1, RowSame
    <3>2. ASSUME NEW x \in Recipients, granted'[k][x] > 0 PROVE x \in reached'[k]
      <4>1. CASE x = r
        BY <1>ty, <2>n, <3>2, <4>1 DEF TypeOK
      <4>2. CASE x # r
        <5>1. granted'[k][x] = granted[k][x]
          BY <1>ty, <2>n, <4>2 DEF TypeOK
        <5> QED
          BY <1>row, <2>r, <3>2, <5>1 DEF RowOK
      <4> QED
        BY <4>1, <4>2
    <3>3. state[k] = "applied" => reached'[k] = Recipients
      BY <1>row, <2>r DEF RowOK
    <3>4. RowOK(k)'
      BY <1>row, <2>s, <3>2, <3>3 DEF RowOK
    <3> QED
      BY <3>1, <3>4
  <2>3. RunOK' /\ QueueOK'
    <3>1. pc = "landed" => reached'[cur] = Recipients
      BY <1>ty, <1>run, <2>r DEF RunOK, TypeOK
    <3> QED
      BY <1>run, <2>s, <3>1 DEF RunOK, QueueOK
  <2> QED
    BY <2>1, <2>2, <2>3, <1>goal
<1>21. CASE UNCHANGED vars
  <2>1. TypeOK'
    BY <1>21, <1>ty DEF TypeOK, vars
  <2>2. Rows
    BY <1>21, <1>row, RowSame DEF vars
  <2>3. RunOK' /\ QueueOK'
    BY <1>21, <1>run DEF RunOK, QueueOK, vars
  <2> QED
    BY <2>1, <2>2, <2>3, <1>goal
<1> QED
  BY <1>1, <1>2, <1>3, <1>4, <1>5, <1>6, <1>7, <1>8, <1>9, <1>10, <1>11, <1>12, <1>13,
     <1>14, <1>15, <1>16, <1>17, <1>18, <1>19, <1>20, <1>21
  DEF Next, Work

(* Always: the invariant.                                                  *)
LEMMA Invariant == Spec => []IInv
BY InitInv, InvStep, PTL DEF Spec

(* In every reachable state every variable has its type.                   *)
THEOREM TypeCorrect == Spec => []TypeOK
<1>1. IInv => TypeOK
  BY DEF IInv
<1> QED
  BY <1>1, Invariant, PTL

(* However often it is requested, crashes and is recovered, an invitation  *)
(* is sent at most once.                                                   *)
THEOREM InvitationsAreSentOnce == Spec => []InvitedOnce
<1>1. IInv => InvitedOnce
  BY DEF IInv, RowOK, InvitedOnce, Shares
<1> QED
  BY <1>1, Invariant, PTL

(* Whoever is told to retry an invitation may do so safely.                *)
THEOREM RetryIsSafe == Spec => []NotStartedIsUnsent
<1>1. IInv => NotStartedIsUnsent
  BY DEF IInv, RowOK, NotStartedIsUnsent, Shares
<1> QED
  BY <1>1, Invariant, PTL

(* An applied row is one whose recipients all had their permission.        *)
THEOREM AppliedRowsReachedAll == Spec => []AppliedReachedAll
<1>1. IInv => AppliedReachedAll
  BY DEF IInv, RowOK, AppliedReachedAll
<1> QED
  BY <1>1, Invariant, PTL
=============================================================================
