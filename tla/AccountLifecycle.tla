-------------------------- MODULE AccountLifecycle --------------------------
(***************************************************************************)
(* The durable account lifecycle of the AI providers: connecting,          *)
(* disconnecting and reconnecting an account                               *)
(* (app-host/src/account_lifecycle.rs and its drivers in                   *)
(* app-host/src/lib.rs).                                                   *)
(*                                                                         *)
(* Every action below is one durable write of one handler, so that a       *)
(* crash or a failed store call can fall between any two of them.  One     *)
(* handler at a time works on a provider (the exclusive provider lease);   *)
(* handlers of different providers interleave except where they hold the   *)
(* product-runtime lock ("gate").  A grant is what the provider issued at  *)
(* a login; its number is also the generation of the credential made from  *)
(* it.  Reconnect stands for Switch too: both take the same transitions,   *)
(* and what the identity check decides is left open.                       *)
(***************************************************************************)
EXTENDS Naturals, Sequences

CONSTANTS
  Providers,   \* the providers whose accounts are modelled
  Selectable,  \* what the model switcher offers, Providers included
  Requests,    \* request ids of clients
  Modes,       \* the modes clients ask for
  MaxOps,      \* bound: operations ever begun
  MaxGrants,   \* bound: logins per provider that issue a grant
  MaxAttempts, \* MAX_ATTEMPTS of the code (8)
  MaxFaults    \* bound: crashes and failed store calls

ASSUME ConstantsOK ==
  /\ Providers \subseteq Selectable
  /\ Modes \subseteq {"connect", "disconnect", "reconnect"}
  /\ {MaxOps, MaxGrants, MaxAttempts, MaxFaults} \subseteq Nat /\ MaxGrants # 0

VARIABLES
  epoch,      \* authority: lifecycle_epoch and fence_epoch, bumped together
  active,     \* authority: active_operations, 0 or an operation per provider
  ops,        \* operations ever minted, by number
  journal,    \* the journal record of each operation
  candidate,  \* the candidate record of each operation
  intents,    \* operations with an exchange intent on disk
  receipts,   \* the terminal receipts
  bundle,     \* the stored credential of each provider
  activation, \* the product activation: 0 or a generation
  selection,  \* the selected provider
  at,         \* the handler that holds the provider's lease
  attempt,    \* in memory: the operation a sign-in attempt is bound to
  exch,       \* in memory: the code exchange under way, outside any lease
  boot,       \* providers the start-up pass has still to recover
  issued,     \* the provider's side: grants issued so far
  revoked,    \* the provider's side: grants revoked
  faults

vars == <<epoch, active, ops, journal, candidate, intents, receipts, bundle,
          activation, selection, at, attempt, exch, boot, issued, revoked,
          faults>>

authority == <<epoch, active>>
records == <<candidate, intents, receipts>>
product == <<bundle, activation, selection>>
memory == <<attempt, exch, boot>>
truth == <<issued, revoked>>

Nobody == "nobody"

Phases == {"prepared", "awaiting_login", "exchange_in_flight",
           "exchange_unknown", "candidate_stored", "candidate_validation",
           "candidate_cleanup", "revoke_in_flight", "revoke_unknown",
           "revoked_pending", "disconnected", "completed", "failed"}

\* One operation: its provider and mode, the client's request id, the epoch
\* its fence was reserved at and the grant it found stored.
Op == [p : Providers, mode : Modes, req : Requests, ep : Nat, prior : Nat]
\* "leg" is the grant reference of the revoke: none, the stored credential
\* or the candidate.
Journal == [phase : Phases, leg : {"none", "active", "candidate"},
            attempts : 0..MaxAttempts, timed : BOOLEAN]
NoJournal == [phase |-> "none"]
Candidate == [g : Nat, state : {"bearing", "unknown", "cleaned", "promoted"},
              gen : Nat]
NoCandidate == [state |-> "none"]
Receipt == [op : Nat, p : Providers, req : Requests, route : {"logout", "start"},
            code : {"disconnected", "connected", "failed"}]
Bundle == [g : Nat, life : {"active", "disconnecting"}]
NoBundle == [g |-> 0, life |-> "none"]

Pcs == {"idle", "journal", "recover", "mark", "claim", "call", "outcome",
        "candidate_state", "candidate_checkpoint", "candidate_failed", "wipe",
        "wipe_bundle", "wipe_selection", "interrupted", "checkpoint", "await",
        "receipt", "release", "clean", "intent", "exchange", "deadline",
        "candidate", "stored", "drop_intent", "validate", "judge", "bundle",
        "activate", "select", "complete", "promote", "revoke_late",
        "exchange_late"}
Hows == {"none", "logout", "connect", "resume", "maintain", "prepare", "commit"}

\* A handler: the next write "pc", its operation, which handler it is, if it
\* holds the gate, what a revoke call answered, the grant an exchange answered,
\* and the copy of the authority it will write back.
Handlers == [pc : Pcs, op : Nat, how : Hows, gate : BOOLEAN, ok : BOOLEAN, g : Nat,
             copy : {<<>>} \cup (Nat \X [Providers -> Nat])]
Exchanges == [op : Nat, st : {"none", "asked", "answered", "ended"}, g : Nat]

Idle == [pc |-> "idle", op |-> 0, how |-> "none", gate |-> FALSE,
         ok |-> FALSE, g |-> 0, copy |-> <<>>]
NoExchange == [op |-> 0, st |-> "none", g |-> 0]

Route(m) == IF m = "connect" THEN "start" ELSE "logout"
GateFree == \A p \in Providers : ~at[p].gate

Init ==
  /\ epoch = 1
  /\ active = [p \in Providers |-> 0]
  /\ ops = <<>>
  /\ journal = [n \in 1..MaxOps |-> NoJournal]
  /\ candidate = [n \in 1..MaxOps |-> NoCandidate]
  /\ intents = {}
  /\ receipts = {}
  /\ \E connected \in SUBSET Providers :
       /\ bundle = [p \in Providers |->
            IF p \in connected THEN [g |-> 1, life |-> "active"] ELSE NoBundle]
       /\ activation = [p \in Providers |-> IF p \in connected THEN 1 ELSE 0]
       /\ issued = [p \in Providers |-> IF p \in connected THEN 1 ELSE 0]
       /\ selection \in connected \cup (Selectable \ Providers) \cup {Nobody}
  /\ at = [p \in Providers |-> Idle]
  /\ attempt = [p \in Providers |-> 0]
  /\ exch = [p \in Providers |-> NoExchange]
  /\ boot = {}
  /\ revoked = [p \in Providers |-> {}]
  /\ faults = 0
-----------------------------------------------------------------------------
(* What every handler does *)

Goto(p, pc) == at' = [at EXCEPT ![p].pc = pc]
Return(p) == at' = [at EXCEPT ![p] = Idle]

\* The fence: the operation is still the provider's open one and nobody has
\* advanced the authority's epochs since it was reserved.
Fenced(n) == /\ active[ops[n].p] = n
             /\ epoch = ops[n].ep

\* One fenced write of the journal, or the StaleFence error.
WriteJournal(p, record, next) ==
  LET n == at[p].op IN
    /\ journal' = IF Fenced(n) THEN [journal EXCEPT ![n] = record] ELSE journal
    /\ at' = [at EXCEPT ![p] = IF Fenced(n) /\ next.pc # "idle" THEN next ELSE Idle]

\* transition_journal: the write of the next phase.
Transition(p, from, to, next) ==
  LET n == at[p].op IN
    IF journal[n].phase \in from
    THEN WriteJournal(p, [journal[n] EXCEPT !.phase = to, !.timed = FALSE], next)
    ELSE UNCHANGED journal /\ Return(p)

Then(p, pc) == [at[p] EXCEPT !.pc = pc]

NeverReplayed(p, req, route) == FALSE

\* The idempotency key of a request was used by an operation that ended.
Replayed(p, req, route) ==
  \E r \in receipts : r.p = p /\ r.req = req /\ r.route = route

\* begin_operation: reserve the operation in the authority.  The journal
\* follows in a write of its own.
Reserve(p, mode, req, how) ==
  /\ ~Replayed(p, req, Route(mode))
  /\ Len(ops) < MaxOps
  /\ epoch' = epoch + 1
  /\ ops' = Append(ops, [p |-> p, mode |-> mode, req |-> req, ep |-> epoch + 1,
                         prior |-> bundle[p].g])
  /\ active' = [active EXCEPT ![p] = Len(ops) + 1]
  /\ at' = [at EXCEPT ![p] = [Idle EXCEPT !.pc = "journal", !.op = Len(ops) + 1,
                                          !.how = how, !.gate = TRUE]]
  /\ UNCHANGED <<journal, records, product, memory, truth, faults>>

\* The lease and the runtime lock are tried, and a start-up pass comes first.
CanStart(p) == boot = {} /\ at[p] = Idle

\* oauth_logout: the etag a client must name is only shown while no operation
\* is open, and every reservation changes it.
Logout(p, mode, req) ==
  /\ CanStart(p) /\ GateFree
  /\ bundle[p] # NoBundle
  /\ active[p] = 0
  /\ Reserve(p, mode, req, "logout")

\* begin_connect_lifecycle for a new request.
Connect(p, req) ==
  /\ "connect" \in Modes
  /\ CanStart(p) /\ GateFree
  /\ bundle[p] = NoBundle
  /\ active[p] = 0
  /\ Reserve(p, "connect", req, "connect")

\* begin_connect_lifecycle for the request of the open operation.
ConnectAgain(p, req) ==
  /\ CanStart(p) /\ GateFree
  /\ bundle[p] = NoBundle
  /\ active[p] # 0
  /\ ops[active[p]].req = req /\ ops[active[p]].mode = "connect"
  /\ journal[active[p]] # NoJournal
  /\ at' = [at EXCEPT ![p] = [Idle EXCEPT !.pc = "await", !.op = active[p],
                                          !.how = "connect", !.gate = TRUE]]
  /\ UNCHANGED <<authority, ops, journal, records, product, memory, truth, faults>>

Prepared == [phase |-> "prepared", leg |-> "none", attempts |-> 0, timed |-> FALSE]

\* The end of begin_operation.
PutJournal(p) ==
  /\ at[p].pc = "journal"
  /\ journal' = [journal EXCEPT ![at[p].op] = Prepared]
  /\ at' = [at EXCEPT ![p] = IF @.how = "connect" THEN Then(p, "await")
                             ELSE [Then(p, "mark") EXCEPT !.gate = FALSE]]
  /\ UNCHANGED <<authority, ops, records, product, memory, truth, faults>>

\* persist_lifecycle_bundle: the credential is marked as disconnecting.
MarkDisconnecting(p) ==
  /\ at[p].pc = "mark" /\ GateFree
  /\ bundle' = [bundle EXCEPT ![p].life = "disconnecting"]
  /\ Goto(p, "claim")
  /\ UNCHANGED <<authority, ops, journal, records, activation, selection,
                 memory, truth, faults>>
-----------------------------------------------------------------------------
(* Revoking a grant *)

\* attempt_count, raised before every call to the provider.
MayTryOnceMore(j) == j.attempts <= MaxAttempts

MayTry(j) == j.attempts < MaxAttempts

\* start_active_revoke and start_candidate_revoke.
ClaimRevoke(p) ==
  LET n == at[p].op
      j == journal[n]
      leg == IF j.phase = "candidate_cleanup" THEN "candidate"
             ELSE IF j.leg = "none" THEN "active" ELSE j.leg
  IN /\ at[p].pc = "claim"
     /\ IF /\ j.phase \in {"prepared", "revoke_unknown", "candidate_cleanup"}
           /\ MayTry(j)
        THEN WriteJournal(p, [phase |-> "revoke_in_flight", leg |-> leg,
                              attempts |-> j.attempts + 1, timed |-> TRUE],
                          Then(p, "call"))
        ELSE UNCHANGED journal /\ Return(p)
     /\ UNCHANGED <<authority, ops, records, product, memory, truth, faults>>

\* revoke_product_credential: confirmed, or an answer that leaves it open.
CallRevoke(p) ==
  LET n == at[p].op
      g == IF journal[n].leg = "candidate" THEN candidate[n].g ELSE bundle[p].g
  IN /\ at[p].pc = "call"
     /\ \/ /\ revoked' = [revoked EXCEPT ![p] = @ \cup {g}]
           /\ at' = [at EXCEPT ![p] = [@ EXCEPT !.pc = "outcome", !.ok = TRUE]]
        \/ /\ revoked' = [revoked EXCEPT ![p] = @ \cup {g}]
           /\ at' = [at EXCEPT ![p] = [@ EXCEPT !.pc = "outcome", !.ok = FALSE]]
        \/ /\ at' = [at EXCEPT ![p] = [@ EXCEPT !.pc = "outcome", !.ok = FALSE]]
           /\ UNCHANGED revoked
     /\ UNCHANGED <<authority, ops, journal, records, product, memory, issued, faults>>

OutcomeTaken(ok) == "revoked_pending"

OutcomePhase(ok) == IF ok THEN "revoked_pending" ELSE "revoke_unknown"

\* publish_revoke_outcome; oauth_logout holds the gate from here on, a resumed
\* operation does not.
PublishOutcome(p) ==
  LET n == at[p].op
      next == IF journal[n].leg = "candidate" THEN "candidate_state"
              ELSE IF at[p].ok THEN "wipe" ELSE "idle"
      gated == at[p].how = "logout"
  IN /\ at[p].pc = "outcome"
     /\ gated => GateFree
     /\ Transition(p, {"revoke_in_flight"}, OutcomePhase(at[p].ok),
                   [Then(p, next) EXCEPT !.gate = gated])
     /\ UNCHANGED <<authority, ops, records, product, memory, truth, faults>>

\* mark_candidate_revoke_outcome: the candidate's own record.
PutCandidateState(p) ==
  LET n == at[p].op IN
    /\ at[p].pc = "candidate_state"
    /\ candidate' = [candidate EXCEPT ![n].state = IF at[p].ok THEN "cleaned" ELSE "unknown"]
    /\ IF at[p].ok THEN Goto(p, "candidate_checkpoint") ELSE Return(p)
    /\ UNCHANGED <<authority, ops, journal, intents, receipts, product, memory,
                   truth, faults>>

\* finish_candidate_cleanup: checkpoint_disconnected first.
CheckpointCandidate(p) ==
  /\ at[p].pc = "candidate_checkpoint"
  /\ Transition(p, {"revoked_pending"}, "disconnected", Then(p, "candidate_failed"))
  /\ UNCHANGED <<authority, ops, records, product, memory, truth, faults>>

\* finish_candidate_cleanup: then the terminal phase.
FailCandidate(p) ==
  /\ at[p].pc = "candidate_failed"
  /\ Transition(p, {"disconnected"}, "failed", Then(p, "receipt"))
  /\ UNCHANGED <<authority, ops, records, product, memory, truth, faults>>
-----------------------------------------------------------------------------
(* Local cleanup and the end of an operation *)

\* delete_provider_product_state_durable: the activation goes first.
WipeActivation(p) ==
  /\ at[p].pc = "wipe"
  /\ ~at[p].gate => GateFree
  /\ activation' = [activation EXCEPT ![p] = 0]
  /\ at' = [at EXCEPT ![p] = [@ EXCEPT !.pc = "wipe_bundle", !.gate = TRUE]]
  /\ UNCHANGED <<authority, ops, journal, records, bundle, selection, memory,
                 truth, faults>>

\* ... then the credential ...
WipeBundle(p) ==
  /\ at[p].pc = "wipe_bundle"
  /\ bundle' = [bundle EXCEPT ![p] = NoBundle]
  /\ Goto(p, "wipe_selection")
  /\ UNCHANGED <<authority, ops, journal, records, activation, selection, memory,
                 truth, faults>>

\* ... and a selection of this provider.  An activation that was cut short
\* goes on to its candidate, everything else to the checkpoint.
WipeSelection(p) ==
  /\ at[p].pc = "wipe_selection"
  /\ selection' = IF selection = p THEN Nobody ELSE selection
  /\ Goto(p, IF journal[at[p].op].phase = "candidate_validation"
             THEN "interrupted" ELSE "checkpoint")
  /\ UNCHANGED <<authority, ops, journal, records, bundle, activation, memory,
                 truth, faults>>

\* complete_disconnect and await_oauth_login begin with the same checkpoint.
\* Maintenance always tries to complete, which only a disconnect allows; a
\* connect has no way on from here.
Checkpoint(p) ==
  LET n == at[p].op
      m == ops[n].mode
      next == IF m = "disconnect" THEN "receipt" ELSE "await"
      refused == (m = "connect") \/ (m = "reconnect" /\ at[p].how = "maintain")
  IN /\ at[p].pc = "checkpoint"
     /\ IF refused THEN UNCHANGED journal /\ Return(p)
        ELSE Transition(p, {"revoked_pending", "disconnected"}, "disconnected",
                        Then(p, next))
     /\ UNCHANGED <<authority, ops, records, product, memory, truth, faults>>

\* await_oauth_login; it accepts a journal that waits already.
AwaitLogin(p) ==
  LET from == IF ops[at[p].op].mode = "connect" THEN {"prepared"} ELSE {"disconnected"}
  IN /\ at[p].pc = "await"
     /\ Transition(p, from, "awaiting_login", Idle)
     /\ UNCHANGED <<authority, ops, records, product, memory, truth, faults>>

Code(phase) == CASE phase = "completed" -> "connected"
                 [] phase = "failed" -> "failed"
                 [] OTHER -> "disconnected"

\* The terminal receipt; the authority it will be released from was loaded
\* before.
PutReceipt(p) ==
  LET n == at[p].op IN
    /\ at[p].pc = "receipt"
    /\ IF Fenced(n)
       THEN /\ receipts' = IF \E r \in receipts : r.op = n THEN receipts
                           ELSE receipts \cup
                             {[op |-> n, p |-> p, req |-> ops[n].req,
                               route |-> Route(ops[n].mode),
                               code |-> Code(journal[n].phase)]}
            /\ at' = [at EXCEPT ![p] = [@ EXCEPT !.pc = "release", !.copy = authority]]
       ELSE UNCHANGED receipts /\ Return(p)
    /\ UNCHANGED <<authority, ops, journal, candidate, intents, product, memory,
                   truth, faults>>

\* The authority without the operation, from the copy that was loaded.
Release(p) ==
  /\ at[p].pc = "release"
  /\ epoch' = at[p].copy[1]
  /\ active' = [at[p].copy[2] EXCEPT ![p] = 0]
  /\ at' = [at EXCEPT ![p] = [@ EXCEPT !.pc = "clean", !.copy = <<>>]]
  /\ UNCHANGED <<ops, journal, records, product, memory, truth, faults>>

\* An ended operation's records agree with its receipt.
Settled(r) ==
  /\ journal[r.op].phase \in
       CASE r.code = "connected" -> {"none", "completed"}
         [] r.code = "failed" -> {"none", "failed"}
         [] OTHER -> {"none", "disconnected"}
  /\ candidate[r.op].state \in
       CASE r.code = "connected" -> {"none", "promoted"}
         [] r.code = "failed" -> {"none", "cleaned"}
         [] OTHER -> {"none"}

Ended(p) == {r \in receipts : r.p = p /\ r.op # active[p]}
EndedOps(p) == {r.op : r \in Ended(p)}

\* cleanup_terminal_operation_artifacts: all or, on a mismatch, nothing.
CleanArtifacts(p) ==
  IF \A r \in Ended(p) : Settled(r)
  THEN /\ journal' = [n \in 1..MaxOps |-> IF n \in EndedOps(p) THEN NoJournal ELSE journal[n]]
       /\ candidate' = [n \in 1..MaxOps |-> IF n \in EndedOps(p) THEN NoCandidate ELSE candidate[n]]
       /\ intents' = intents \ EndedOps(p)
  ELSE UNCHANGED <<journal, candidate, intents>>

Clean(p) ==
  /\ at[p].pc = "clean"
  /\ CleanArtifacts(p)
  /\ Return(p)
  /\ UNCHANGED <<authority, ops, receipts, product, memory, truth, faults>>
-----------------------------------------------------------------------------
(* Signing in *)

\* oauth_start_request: bind an attempt to the operation that waits for it.
StartOAuth(p) ==
  LET n == active[p] IN
    /\ boot = {} /\ n # 0 /\ attempt[p] = 0
    /\ journal[n].phase = "awaiting_login"
    /\ attempt' = [attempt EXCEPT ![p] = n]
    /\ UNCHANGED <<authority, ops, journal, records, product, at, exch, boot,
                   truth, faults>>

\* oauth_cancel, or the attempt expired.
DropAttempt(p) ==
  /\ attempt[p] # 0
  /\ attempt' = [attempt EXCEPT ![p] = 0]
  /\ UNCHANGED <<authority, ops, journal, records, product, at, exch, boot,
                 truth, faults>>

\* oauth_complete and oauth_callback consume the attempt and prepare the
\* exchange under the lease; a busy provider ends the sign-in.
Callback(p) ==
  LET n == attempt[p] IN
    /\ n # 0
    /\ attempt' = [attempt EXCEPT ![p] = 0]
    /\ at' = IF at[p] = Idle /\ active[p] = n /\ journal[n].phase = "awaiting_login"
             THEN [at EXCEPT ![p] = [Idle EXCEPT !.pc = "intent", !.op = n, !.how = "prepare"]]
             ELSE at
    /\ UNCHANGED <<authority, ops, journal, records, product, exch, boot, truth, faults>>

\* prepare_exchange: the intent.
PutIntent(p) ==
  /\ at[p].pc = "intent"
  /\ intents' = intents \cup {at[p].op}
  /\ Goto(p, "exchange")
  /\ UNCHANGED <<authority, ops, journal, candidate, receipts, product, memory,
                 truth, faults>>

\* mark_exchange_in_flight: the phase.
EnterExchange(p) ==
  /\ at[p].pc = "exchange"
  /\ Transition(p, {"awaiting_login"}, "exchange_in_flight", Then(p, "deadline"))
  /\ UNCHANGED <<authority, ops, records, product, memory, truth, faults>>

\* mark_exchange_in_flight: the attempt and its deadline.  The lease is
\* dropped and the code is sent.
SetDeadline(p) ==
  LET n == at[p].op
      j == journal[n]
      goes == Fenced(n) /\ MayTry(j)
  IN /\ at[p].pc = "deadline"
     /\ journal' = IF goes THEN [journal EXCEPT ![n].attempts = @ + 1, ![n].timed = TRUE]
                   ELSE journal
     /\ exch' = IF goes THEN [exch EXCEPT ![p] = [op |-> n, st |-> "asked", g |-> 0]]
                ELSE exch
     /\ Return(p)
     /\ UNCHANGED <<authority, ops, records, product, attempt, boot, truth, faults>>

\* The provider issues a grant and answers, issues one and the answer is
\* lost, or refuses the code.
Answer(p) ==
  /\ exch[p].st = "asked"
  /\ \/ /\ issued[p] < MaxGrants
        /\ issued' = [issued EXCEPT ![p] = @ + 1]
        /\ exch' = [exch EXCEPT ![p].st = "answered", ![p].g = issued[p] + 1]
     \/ /\ issued[p] < MaxGrants
        /\ issued' = [issued EXCEPT ![p] = @ + 1]
        /\ exch' = [exch EXCEPT ![p].st = "ended"]
     \/ /\ exch' = [exch EXCEPT ![p].st = "ended"]
        /\ UNCHANGED issued
  /\ UNCHANGED <<authority, ops, journal, records, product, at, attempt, boot,
                 revoked, faults>>

\* process_oauth_candidate_with_transport, commit_codex_oauth_candidate: the
\* operation must still wait for this exchange, or the answer is dropped.
Commit(p) ==
  LET n == exch[p].op IN
    /\ exch[p].st = "answered"
    /\ IF at[p] = Idle /\ active[p] = n /\ journal[n].phase = "exchange_in_flight"
       THEN /\ at' = [at EXCEPT ![p] = [Idle EXCEPT !.pc = "candidate", !.op = n,
                                                    !.how = "commit", !.g = exch[p].g]]
            /\ exch' = [exch EXCEPT ![p] = NoExchange]
       ELSE /\ exch' = [exch EXCEPT ![p].st = "ended", ![p].g = 0]
            /\ UNCHANGED at
    /\ UNCHANGED <<authority, ops, journal, records, product, attempt, boot,
                   truth, faults>>

\* mark_product_oauth_exchange_unknown after an exchange or a commit failed;
\* its own failure is ignored.
MarkUnknown(p) ==
  LET n == exch[p].op IN
    /\ exch[p].st = "ended"
    /\ exch' = [exch EXCEPT ![p] = NoExchange]
    /\ journal' = IF /\ at[p] = Idle /\ Fenced(n)
                     /\ journal[n].phase = "exchange_in_flight"
                  THEN [journal EXCEPT ![n].phase = "exchange_unknown", ![n].timed = FALSE]
                  ELSE journal
    /\ UNCHANGED <<authority, ops, records, product, at, attempt, boot, truth, faults>>

\* publish_candidate: the candidate before its phase.
PutCandidate(p) ==
  /\ at[p].pc = "candidate"
  /\ candidate' = [candidate EXCEPT ![at[p].op] =
       [g |-> at[p].g, state |-> "bearing", gen |-> 0]]
  /\ Goto(p, "stored")
  /\ UNCHANGED <<authority, ops, journal, intents, receipts, product, memory,
                 truth, faults>>

StoreCandidate(p) ==
  /\ at[p].pc = "stored"
  /\ Transition(p, {"exchange_in_flight"}, "candidate_stored", Then(p, "drop_intent"))
  /\ UNCHANGED <<authority, ops, records, product, memory, truth, faults>>

DropIntent(p) ==
  /\ at[p].pc = "drop_intent"
  /\ intents' = intents \ {at[p].op}
  /\ Goto(p, "validate")
  /\ UNCHANGED <<authority, ops, journal, candidate, receipts, product, memory,
                 truth, faults>>

BeginValidation(p) ==
  /\ at[p].pc = "validate"
  /\ Transition(p, {"candidate_stored"}, "candidate_validation", Then(p, "judge"))
  /\ UNCHANGED <<authority, ops, records, product, memory, truth, faults>>

\* The identity check refuses the candidate: require_candidate_cleanup.
RejectIdentity(p) ==
  /\ at[p].pc = "judge"
  /\ Transition(p, {"candidate_validation"}, "candidate_cleanup", Idle)
  /\ UNCHANGED <<authority, ops, records, product, memory, truth, faults>>

\* It accepts it: bind_candidate_generation.
AcceptIdentity(p) ==
  /\ at[p].pc = "judge"
  /\ candidate' = [candidate EXCEPT ![at[p].op].gen = at[p].g]
  /\ Goto(p, "bundle")
  /\ UNCHANGED <<authority, ops, journal, intents, receipts, product, memory,
                 truth, faults>>

\* The credential, under the gate and only for the open operation.
PutBundle(p) ==
  /\ at[p].pc = "bundle" /\ GateFree
  /\ IF active[p] = at[p].op
     THEN /\ bundle' = [bundle EXCEPT ![p] = [g |-> at[p].g, life |-> "active"]]
          /\ at' = [at EXCEPT ![p] = [@ EXCEPT !.pc = "activate", !.gate = TRUE]]
     ELSE UNCHANGED bundle /\ Return(p)
  /\ UNCHANGED <<authority, ops, journal, records, activation, selection,
                 memory, truth, faults>>

\* persist_product_activation.
PutActivation(p) ==
  /\ at[p].pc = "activate"
  /\ activation' = [activation EXCEPT ![p] = at[p].g]
  /\ Goto(p, "select")
  /\ UNCHANGED <<authority, ops, journal, records, bundle, selection, memory,
                 truth, faults>>

\* store_agent_provider_selection.
PutSelection(p) ==
  /\ at[p].pc = "select"
  /\ selection' = p
  /\ Goto(p, "complete")
  /\ UNCHANGED <<authority, ops, journal, records, bundle, activation, memory,
                 truth, faults>>

\* checkpoint_candidate_promoted: the phase ...
Complete(p) ==
  /\ at[p].pc = "complete"
  /\ Transition(p, {"candidate_validation", "completed"}, "completed", Then(p, "promote"))
  /\ UNCHANGED <<authority, ops, records, product, memory, truth, faults>>

\* ... and the candidate.
Promote(p) ==
  /\ at[p].pc = "promote"
  /\ candidate' = [candidate EXCEPT ![at[p].op].state = "promoted"]
  /\ Goto(p, "receipt")
  /\ UNCHANGED <<authority, ops, journal, intents, receipts, product, memory,
                 truth, faults>>
-----------------------------------------------------------------------------
(* Resuming, maintenance and the switcher *)

\* resume_lifecycle_operation_with_transport: retry_revoke and resume_cleanup,
\* the two actions that change anything.
Resume(p) ==
  LET n == active[p]
      phase == journal[n].phase
      pc == IF phase = "revoked_pending" THEN "wipe" ELSE "claim"
  IN /\ CanStart(p) /\ n # 0
     /\ phase \in {"candidate_cleanup", "revoke_unknown", "revoked_pending"}
     /\ (phase = "revoke_unknown" /\ journal[n].leg = "active") => bundle[p] # NoBundle
     /\ at' = [at EXCEPT ![p] = [Idle EXCEPT !.pc = pc, !.op = n, !.how = "resume"]]
     /\ UNCHANGED <<authority, ops, journal, records, product, memory, truth, faults>>

\* The product state is that of the open operation's candidate, whole ...
CommitMatches(p) ==
  LET gen == candidate[active[p]].gen IN
    /\ candidate[active[p]] # NoCandidate /\ gen # 0
    /\ bundle[p] = [g |-> gen, life |-> "active"]
    /\ activation[p] = gen
    /\ selection = p

\* ... or in part.
PartialCommitIsOwned(p) ==
  LET c == candidate[active[p]] IN
    /\ c.state = "bearing"
    /\ IF c.gen # 0
       THEN /\ bundle[p] \in {NoBundle, [g |-> c.gen, life |-> "active"]}
            /\ activation[p] \in {0, c.gen}
       ELSE bundle[p] = NoBundle /\ activation[p] = 0 /\ selection # p

\* Where a maintenance pass takes up the open operation: an activation that
\* was cut short is completed or taken back ...
KeepPartialCommit(p) ==
  IF CommitMatches(p) THEN "complete"
  ELSE IF journal[active[p]].phase = "candidate_validation" /\ PartialCommitIsOwned(p)
  THEN "interrupted" ELSE "idle"

MaintainCandidate(p) ==
  IF CommitMatches(p) THEN "complete"
  ELSE IF journal[active[p]].phase = "candidate_validation" /\ PartialCommitIsOwned(p)
  THEN "wipe" ELSE "idle"

\* ... everything else goes by its phase.
ResumeBeforeCheckpoint(phase) ==
  CASE phase = "revoked_pending" -> "wipe"
    [] phase = "revoke_in_flight" -> "revoke_late"
    [] phase = "exchange_in_flight" -> "exchange_late"
    [] phase = "none" -> "recover"
    [] OTHER -> "idle"

ResumeAfter(phase) ==
  CASE phase \in {"revoked_pending", "disconnected"} -> "wipe"
    [] phase = "revoke_in_flight" -> "revoke_late"
    [] phase = "exchange_in_flight" -> "exchange_late"
    [] phase = "none" -> "recover"
    [] OTHER -> "idle"

MaintainFrom(p) ==
  LET phase == journal[active[p]].phase IN
    IF phase \in {"candidate_validation", "completed"} THEN MaintainCandidate(p)
    ELSE ResumeAfter(phase)

\* run_lifecycle_maintenance_once_at_with_recovery: the start-up pass and the
\* periodic one, under the lease and the gate.  An exchange is taken for
\* interrupted when its deadline has passed, or at start-up.
Maintain(p) ==
  LET n == active[p]
      from == MaintainFrom(p)
  IN /\ at[p] = Idle /\ GateFree
     /\ n # 0 /\ from # "idle"
     /\ from = "exchange_late" => /\ n \in intents
                                  /\ p \in boot \/ journal[n].timed
     /\ at' = [at EXCEPT ![p] = [Idle EXCEPT !.pc = from, !.op = n,
                                             !.how = "maintain", !.gate = TRUE]]
     /\ boot' = boot \ {p}
     /\ UNCHANGED <<authority, ops, journal, records, product, attempt, exch,
                    truth, faults>>

\* A start-up pass finds nothing to do, or a revoke whose deadline is to come.
Booted(p) ==
  /\ p \in boot /\ at[p] = Idle
  /\ IF active[p] = 0 THEN TRUE ELSE MaintainFrom(p) \in {"idle", "revoke_late"}
  /\ boot' = boot \ {p}
  /\ UNCHANGED <<authority, ops, journal, records, product, at, attempt, exch,
                 truth, faults>>

\* recover_active_journal: the journal the authority promised.
RecoverJournal(p) ==
  /\ at[p].pc = "recover"
  /\ WriteJournal(p, Prepared, Idle)
  /\ UNCHANGED <<authority, ops, records, product, memory, truth, faults>>

\* A revoke whose handler is gone is of unknown outcome.
RevokeLate(p) ==
  /\ at[p].pc = "revoke_late"
  /\ Transition(p, {"revoke_in_flight"}, "revoke_unknown", Idle)
  /\ UNCHANGED <<authority, ops, records, product, memory, truth, faults>>

\* So is an exchange.
ExchangeLate(p) ==
  /\ at[p].pc = "exchange_late"
  /\ Transition(p, {"exchange_in_flight"}, "exchange_unknown", Idle)
  /\ UNCHANGED <<authority, ops, records, product, memory, truth, faults>>

\* An activation that was cut short: its candidate has to be revoked.
Interrupted(p) ==
  /\ at[p].pc = "interrupted"
  /\ Transition(p, {"candidate_validation"}, "candidate_cleanup", Idle)
  /\ UNCHANGED <<authority, ops, records, product, memory, truth, faults>>

\* The second half of a pass removes what ended operations left.
Reap(p) ==
  /\ at[p] = Idle /\ GateFree /\ boot = {}
  /\ \E n \in EndedOps(p) :
       journal[n] # NoJournal \/ candidate[n] # NoCandidate \/ n \in intents
  /\ CleanArtifacts(p)
  /\ UNCHANGED <<authority, ops, receipts, product, at, memory, truth, faults>>

\* set_model needs a shared lease on every provider.
SetModel(q) ==
  /\ boot = {} /\ \A p \in Providers : at[p] = Idle
  /\ selection' = q
  /\ UNCHANGED <<authority, ops, journal, records, bundle, activation, at,
                 memory, truth, faults>>
-----------------------------------------------------------------------------
(* Faults *)

\* A store call fails and the handler returns its error.
StoreFails(p) ==
  /\ at[p].pc \notin {"idle", "call"} /\ faults < MaxFaults
  /\ faults' = faults + 1
  /\ exch' = IF at[p].how = "commit"
             THEN [exch EXCEPT ![p] = [op |-> at[p].op, st |-> "ended", g |-> 0]]
             ELSE exch
  /\ Return(p)
  /\ UNCHANGED <<authority, ops, journal, records, product, attempt, boot, truth>>

\* The process dies; the next one begins with the start-up pass.
Crash ==
  /\ faults < MaxFaults
  /\ faults' = faults + 1
  /\ at' = [p \in Providers |-> Idle]
  /\ attempt' = [p \in Providers |-> 0]
  /\ exch' = [p \in Providers |-> NoExchange]
  /\ boot' = Providers
  /\ UNCHANGED <<authority, ops, journal, records, product, truth>>

Work(p) ==
  \/ PutJournal(p) \/ MarkDisconnecting(p)
  \/ ClaimRevoke(p) \/ CallRevoke(p) \/ PublishOutcome(p)
  \/ PutCandidateState(p) \/ CheckpointCandidate(p) \/ FailCandidate(p)
  \/ WipeActivation(p) \/ WipeBundle(p) \/ WipeSelection(p) \/ Checkpoint(p) \/ AwaitLogin(p)
  \/ PutReceipt(p) \/ Release(p) \/ Clean(p)
  \/ PutIntent(p) \/ EnterExchange(p) \/ SetDeadline(p)
  \/ PutCandidate(p) \/ StoreCandidate(p) \/ DropIntent(p) \/ BeginValidation(p)
  \/ RejectIdentity(p) \/ AcceptIdentity(p)
  \/ PutBundle(p) \/ PutActivation(p) \/ PutSelection(p)
  \/ Complete(p) \/ Promote(p)
  \/ RecoverJournal(p) \/ RevokeLate(p) \/ ExchangeLate(p) \/ Interrupted(p)

Users(p) ==
  \/ \E mode \in Modes \ {"connect"}, req \in Requests : Logout(p, mode, req)
  \/ \E req \in Requests : Connect(p, req) \/ ConnectAgain(p, req)
  \/ StartOAuth(p) \/ DropAttempt(p) \/ Callback(p)
  \/ Answer(p) \/ Commit(p) \/ MarkUnknown(p)
  \/ Resume(p)

Pass(p) == Maintain(p) \/ Booted(p) \/ Reap(p)

Next ==
  \/ \E p \in Providers : Work(p) \/ Users(p) \/ Pass(p) \/ StoreFails(p)
  \/ \E q \in Selectable : SetModel(q)
  \/ Crash

\* Handlers run on, and passes are made again and again.  Nothing is assumed
\* of clients or of the provider.
Fairness == \A p \in Providers : WF_vars(Work(p)) /\ WF_vars(Pass(p))

Spec == Init /\ [][Next]_vars /\ Fairness
-----------------------------------------------------------------------------
(* Properties *)

\* The types; a credential store holds one bundle per provider, the provider
\* revokes only what it issued, and no claim exceeds MAX_ATTEMPTS.
TypeOK ==
  /\ epoch \in Nat
  /\ active \in [Providers -> 0..Len(ops)]
  /\ ops \in Seq(Op) /\ Len(ops) <= MaxOps
  /\ journal \in [1..MaxOps -> Journal \cup {NoJournal}]
  /\ candidate \in [1..MaxOps -> Candidate \cup {NoCandidate}]
  /\ intents \subseteq 1..Len(ops)
  /\ receipts \subseteq Receipt
  /\ bundle \in [Providers -> Bundle \cup {NoBundle}]
  /\ activation \in [Providers -> 0..MaxGrants]
  /\ selection \in Selectable \cup {Nobody}
  /\ at \in [Providers -> Handlers] /\ exch \in [Providers -> Exchanges]
  /\ attempt \in [Providers -> 0..Len(ops)]
  /\ boot \subseteq Providers
  /\ issued \in [Providers -> 0..MaxGrants]
  /\ revoked \in [Providers -> SUBSET Nat]
  /\ \A p \in Providers : revoked[p] \subseteq 1..issued[p]
  /\ faults \in 0..MaxFaults

\* No grant is forgotten: one the provider issued and has not revoked is the
\* stored credential, or a candidate of the open operation that still has to
\* be decided, or belongs to an exchange that is known to be of open outcome
\* (every transition of account_lifecycle.rs under crashes and lost answers).
GrantsAreKept ==
  \A p \in Providers : \A g \in (1..issued[p]) \ revoked[p] :
    LET n == active[p] IN
      \/ bundle[p].g = g
      \/ /\ n # 0
         /\ \/ candidate[n].state \in {"bearing", "unknown"} /\ candidate[n].g = g
            \/ journal[n].phase \in {"exchange_in_flight", "exchange_unknown"}

\* A provider shown as connected, with no operation open, has a credential
\* the provider did not revoke on the app's behalf: an activation that was
\* cut short is taken back before its candidate is revoked
\* (run_lifecycle_maintenance_once_at_with_recovery).
ConnectedIsLive ==
  \A p \in Providers :
    active[p] = 0 /\ bundle[p].life = "active" /\ activation[p] = bundle[p].g
      => bundle[p].g \notin revoked[p]

\* A request id ends at most one operation of a provider and route, over
\* repeated requests and restarts (begin_operation, finish_oauth_operation).
OneOperationPerRequest ==
  \A r, s \in receipts :
    r.p = s.p /\ r.req = s.req /\ r.route = s.route => r.op = s.op

\* The open operation of p is a disconnect whose revoke was begun.
Disconnecting(p) ==
  /\ active[p] # 0
  /\ ops[active[p]].mode = "disconnect"
  /\ journal[active[p]].phase \in {"revoke_in_flight", "revoked_pending", "disconnected"}

\* A disconnect that began to revoke ends, or becomes one of unknown outcome
\* that the client may retry, whatever crashed on the way: the passes of the
\* maintenance finish it (run_lifecycle_maintenance_once_at_with_recovery;
\* ADR-007 calls them "durable provider-scoped operations").
DisconnectNeverHangs ==
  \A p \in Providers : Disconnecting(p) ~> ~Disconnecting(p)
=============================================================================
