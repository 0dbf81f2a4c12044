----------------------------- MODULE OneDriveShare -----------------------------
(***************************************************************************)
(* Sharing links and invitations over the cloud-write ledger               *)
(* (crates/engine/src/onedrive_write.rs: run_share_link, run_invite,       *)
(* recover_share_write_op, recover_pending_cloud_writes; rows in           *)
(* crates/store). An invitation sends e-mail, so unlike a link it must     *)
(* never be issued twice.                                                  *)
(*                                                                         *)
(* Every entry opens the store first and keeps its file lock to the end    *)
(* (with_ledger), so one run is under way at a time: the variables pc,     *)
(* cur, boot and queue are the state of that run. One step is one ledger   *)
(* write or one Graph call; the process may die between any two.           *)
(***************************************************************************)
EXTENDS Naturals, FiniteSets

CONSTANTS
    Links,        \* sharing-link intents (item, type, scope)
    Embeds,       \* the links of type embed: some refusals are final
    Invites,      \* invitation intents (item, role, recipients)
    Recipients,   \* who is invited; a link has one grant, to anybody of them
    MaxRequests,  \* bound on user requests
    MaxFaults,    \* bound on crashes and failed calls
    MaxForeign    \* bound on permission changes made by others

Shares == Links \cup Invites

ASSUME ConstantsAssumption ==
    /\ Links \cap Invites = {}
    /\ Embeds \subseteq Links
    /\ Recipients # {}
    /\ MaxRequests \in Nat
    /\ MaxFaults \in Nat
    /\ MaxForeign \in Nat

VARIABLES
    state,     \* per intent the state column of its row; "none": no row
    error,     \* per intent the last_error column
    granted,   \* how many permissions of the item match, per recipient
    reached,   \* recipients that had a matching permission at some time
    sends,     \* how often the invite call of an intent was sent
    pc,        \* where the run that holds the store is
    cur,       \* the intent it works on, meaningful while pc is not idle
    boot,      \* is it boot recovery?
    queue,     \* boot recovery: rows still to reconcile
    requests,  \* requests so far
    faults,    \* faults so far
    foreign    \* changes by others so far

rowVars   == <<state, error>>
cloudVars == <<granted, reached, sends>>
bounds    == <<requests, faults, foreign>>
vars == <<state, error, granted, reached, sends, pc, cur, boot, queue,
          requests, faults, foreign>>

States == {"none", "pending", "inflight", "applied", "failed"}
Errors == {"none", "call", "share_policy_unsupported", "invite_partial_success",
           "invite_not_started_user_retry_required", "invite_recovery_ambiguous"}
NotStarted == "invite_not_started_user_retry_required"

(* Fault seeded for set_cloud_write_state: its parameters are swapped.     *)
set_cloud_write_state_swapped(k, s, e) ==
    /\ state' = [state EXCEPT ![k] = e]
    /\ error' = [error EXCEPT ![k] = s]

(* The UPDATE of a row: state and last_error are overwritten.              *)
set_cloud_write_state(k, s, e) ==
    /\ state' = [state EXCEPT ![k] = s]
    /\ error' = [error EXCEPT ![k] = e]

(* Fault seeded for pending_cloud_writes: rows not yet issued are missed.  *)
pending_inflight == {k \in Shares : state[k] = "inflight"}

pending_cloud_writes == {k \in Shares : state[k] \in {"pending", "inflight"}}

Goto(label) == pc' = label /\ UNCHANGED <<cur, boot, queue>>

(* A run of one intent is over: a request returns and closes the store,    *)
(* boot recovery goes on.                                                  *)
Finish == pc' = (IF boot THEN "next" ELSE "idle") /\ UNCHANGED <<cur, boot, queue>>

Fault == faults < MaxFaults /\ faults' = faults + 1 /\ UNCHANGED <<requests, foreign>>

-----------------------------------------------------------------------------
Ask(k) ==
    /\ pc = "idle"
    /\ requests < MaxRequests
    /\ requests' = requests + 1
    /\ cur' = k
    /\ boot' = FALSE
    /\ UNCHANGED <<queue, cloudVars, faults, foreign>>

(* run_share_link, run_invite: a new intent is recorded first.             *)
RequestNew(k) ==
    /\ Ask(k)
    /\ state[k] = "none"
    /\ set_cloud_write_state(k, "pending", "none")
    /\ pc' = "recorded"

(* run_invite of a known invitation that was not started: only now are the *)
(* addresses at hand again.                                                *)
Restartable(k) ==
    k \in Invites /\ (state[k] = "pending" \/ error[k] = NotStarted)

RequestAgain(k) ==
    /\ Ask(k)
    /\ Restartable(k)
    /\ pc' = "recorded"
    /\ UNCHANGED rowVars

(* Any other known intent: an applied or failed one is answered from its   *)
(* row, an open one is recovered.                                          *)
RequestKnown(k) ==
    /\ Ask(k)
    /\ state[k] # "none"
    /\ ~Restartable(k)
    /\ pc' = IF state[k] \in {"applied", "failed"} THEN "idle" ELSE "recover"
    /\ UNCHANGED rowVars

(* The row is marked before the call is made.                              *)
MarkInflight ==
    /\ pc = "recorded"
    /\ set_cloud_write_state(cur, "inflight", "none")
    /\ Goto("call")
    /\ UNCHANGED <<cloudVars, bounds>>

(* Boot recovery, or the recovery a mobile offline pass starts with.       *)
StartBoot ==
    /\ pc = "idle"
    /\ pending_cloud_writes # {}
    /\ pc' = "next"
    /\ boot' = TRUE
    /\ queue' = pending_cloud_writes
    /\ UNCHANGED <<cur, rowVars, cloudVars, bounds>>

NextPending(k) ==
    /\ pc = "next"
    /\ k \in queue
    /\ queue' = queue \ {k}
    /\ cur' = k
    /\ pc' = "recover"
    /\ UNCHANGED <<boot, rowVars, cloudVars, bounds>>

BootDone ==
    /\ pc = "next"
    /\ queue = {}
    /\ pc' = "idle"
    /\ UNCHANGED <<cur, boot, queue, rowVars, cloudVars, bounds>>

(* Fault seeded for RecoverUnsent: an inflight row is taken for one that   *)
(* was never issued.                                                       *)
RecoverInflight ==
    /\ pc = "recover"
    /\ cur \in Invites
    /\ set_cloud_write_state(cur, "failed", NotStarted)
    /\ Finish
    /\ UNCHANGED <<cloudVars, bounds>>

(* recover_invite_write_op of an invitation whose call was never made: the *)
(* addresses are not stored, so only the user can retry it.                *)
RecoverUnsent ==
    /\ pc = "recover"
    /\ cur \in Invites
    /\ state[cur] = "pending"
    /\ set_cloud_write_state(cur, "failed", NotStarted)
    /\ Finish
    /\ UNCHANGED <<cloudVars, bounds>>

(* Every other open row: ask the cloud for the permissions of the item.    *)
RecoverSent ==
    /\ pc = "recover"
    /\ cur \in Links \/ state[cur] # "pending"
    /\ Goto("list")
    /\ UNCHANGED <<rowVars, cloudVars, bounds>>

(* exact_link_matches and invite_recovered_permission_ids: exactly one     *)
(* matching permission, for every recipient.                               *)
Matched(k) == \A r \in Recipients : granted[k][r] = 1

ListFound ==
    /\ pc = "list"
    /\ Matched(cur)
    /\ set_cloud_write_state(cur, "applied", "none")
    /\ Finish
    /\ UNCHANGED <<cloudVars, bounds>>

(* recover_share_link_write_op: no link, or several: create it.            *)
ListNoLink ==
    /\ pc = "list"
    /\ cur \in Links
    /\ ~Matched(cur)
    /\ Goto("call")
    /\ UNCHANGED <<rowVars, cloudVars, bounds>>

(* Fault seeded for ListNoInvite: the invitation is sent again.            *)
ListNoInviteResend ==
    /\ pc = "list"
    /\ cur \in Invites
    /\ ~Matched(cur)
    /\ Goto("call")
    /\ UNCHANGED <<rowVars, cloudVars, bounds>>

(* recover_invite_write_op: fail closed.                                   *)
ListNoInvite ==
    /\ pc = "list"
    /\ cur \in Invites
    /\ ~Matched(cur)
    /\ set_cloud_write_state(cur, "failed", "invite_recovery_ambiguous")
    /\ Finish
    /\ UNCHANGED <<cloudVars, bounds>>

-----------------------------------------------------------------------------
(* The cloud: createLink answers with an existing link or makes one; an    *)
(* invitation may reach only some of the recipients (207).                 *)
Grant(k, rs) ==
    /\ granted' = [granted EXCEPT ![k] =
         [r \in Recipients |-> IF r \in rs /\ @[r] = 0 THEN 1 ELSE @[r]]]
    /\ reached' = [reached EXCEPT ![k] = @ \cup rs]

LandLink ==
    /\ pc = "call"
    /\ cur \in Links
    /\ Grant(cur, Recipients)
    /\ Goto("landed")
    /\ UNCHANGED <<sends, rowVars, bounds>>

LandInvite(rs) ==
    /\ pc = "call"
    /\ cur \in Invites
    /\ Grant(cur, rs)
    /\ sends' = [sends EXCEPT ![cur] = @ + 1]
    /\ Goto(IF rs = Recipients THEN "landed" ELSE "partial")
    /\ UNCHANGED <<rowVars, bounds>>

(* apply_share_link_permission, apply_invite_success.                      *)
Applied ==
    /\ pc = "landed"
    /\ set_cloud_write_state(cur, "applied", "none")
    /\ Finish
    /\ UNCHANGED <<cloudVars, bounds>>

(* Fault seeded for Partial: a 207 is taken for a success.                 *)
PartialApplied ==
    /\ pc = "partial"
    /\ set_cloud_write_state(cur, "applied", "none")
    /\ Finish
    /\ UNCHANGED <<cloudVars, bounds>>

Partial ==
    /\ pc = "partial"
    /\ set_cloud_write_state(cur, "failed", "invite_partial_success")
    /\ Finish
    /\ UNCHANGED <<cloudVars, bounds>>

(* The call fails, before or after it took effect: the row stays inflight, *)
(* except when an embed link is refused as unsupported.                    *)
CallFails ==
    /\ pc \in {"call", "landed", "partial"}
    /\ Fault
    /\ \/ set_cloud_write_state(cur, "inflight", "call")
       \/ /\ cur \in Embeds
          /\ set_cloud_write_state(cur, "failed", "share_policy_unsupported")
    /\ sends' = IF pc = "call" /\ cur \in Invites
                  THEN [sends EXCEPT ![cur] = @ + 1] ELSE sends
    /\ Finish
    /\ UNCHANGED <<granted, reached>>

ListFails ==
    /\ pc = "list"
    /\ Fault
    /\ Finish
    /\ UNCHANGED <<rowVars, cloudVars>>

(* The process dies; an invite call may have been sent.                    *)
Crash ==
    /\ pc # "idle"
    /\ Fault
    /\ pc' = "idle"
    /\ queue' = {}
    /\ sends' \in {sends} \cup
         (IF pc = "call" /\ cur \in Invites
            THEN {[sends EXCEPT ![cur] = @ + 1]} ELSE {})
    /\ UNCHANGED <<cur, boot, rowVars, granted, reached>>

(* Somebody revokes a permission, or grants one more that matches.         *)
ForeignChange(k, r) ==
    /\ foreign < MaxForeign
    /\ foreign' = foreign + 1
    /\ \/ /\ granted[k][r] > 0
          /\ granted' = [granted EXCEPT ![k][r] = 0]
          /\ UNCHANGED reached
       \/ /\ granted[k][r] < 2
          /\ granted' = [granted EXCEPT ![k][r] = @ + 1]
          /\ reached' = [reached EXCEPT ![k] = @ \cup {r}]
    /\ UNCHANGED <<pc, cur, boot, queue, rowVars, sends, requests, faults>>

-----------------------------------------------------------------------------
Init ==
    /\ state = [k \in Shares |-> "none"]
    /\ error = [k \in Shares |-> "none"]
    /\ granted = [k \in Shares |-> [r \in Recipients |-> 0]]
    /\ reached = [k \in Shares |-> {}]
    /\ sends = [k \in Shares |-> 0]
    /\ pc = "idle"
    /\ cur \in Shares
    /\ boot = FALSE
    /\ queue = {}
    /\ requests = 0
    /\ faults = 0
    /\ foreign = 0

Work ==
    \/ MarkInflight
    \/ \E k \in Shares : NextPending(k)
    \/ BootDone
    \/ RecoverUnsent \/ RecoverSent
    \/ ListFound \/ ListNoLink \/ ListNoInvite
    \/ LandLink
    \/ \E rs \in (SUBSET Recipients) \ {{}} : LandInvite(rs)
    \/ Applied \/ Partial

Next ==
    \/ \E k \in Shares : RequestNew(k) \/ RequestAgain(k) \/ RequestKnown(k)
    \/ StartBoot
    \/ Work
    \/ CallFails \/ ListFails \/ Crash
    \/ \E k \in Shares, r \in Recipients : ForeignChange(k, r)

Spec == Init /\ [][Next]_vars

(* The daemon is started, or an offline pass runs, again and again.        *)
FairSpec == Spec /\ WF_vars(Work) /\ WF_vars(StartBoot)

-----------------------------------------------------------------------------
Pcs == {"idle", "recorded", "next", "recover", "list", "call", "landed", "partial"}

(* Every variable has its type.                                            *)
TypeOK ==
    /\ state \in [Shares -> States]
    /\ error \in [Shares -> Errors]
    /\ granted \in [Shares -> [Recipients -> 0..2]]
    /\ reached \in [Shares -> SUBSET Recipients]
    /\ sends \in [Shares -> Nat]
    /\ pc \in Pcs
    /\ cur \in Shares
    /\ boot \in BOOLEAN
    /\ queue \in SUBSET Shares
    /\ requests \in 0..MaxRequests
    /\ faults \in 0..MaxFaults
    /\ foreign \in 0..MaxForeign

(* An invitation is sent at most once, whatever crashed, failed or was     *)
(* asked for again ("never a duplicate invite/link").                      *)
InvitedOnce == \A k \in Invites : sends[k] <= 1

(* The answer that asks the user to retry is only given for an invitation  *)
(* that was never sent, so retrying it is safe.                            *)
NotStartedIsUnsent ==
    \A k \in Invites : error[k] = NotStarted => sends[k] = 0

(* An applied row means that every recipient had the permission.           *)
AppliedReachedAll ==
    \A k \in Shares : state[k] = "applied" => reached[k] = Recipients

(* Recovery takes every open row to an end.                                *)
SharesSettle ==
    \A k \in Shares : state[k] \in {"pending", "inflight"} ~>
                        state[k] \notin {"pending", "inflight"}
=============================================================================
