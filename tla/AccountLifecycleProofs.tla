------------------------ MODULE AccountLifecycleProofs ------------------------
(***************************************************************************)
(* Proofs about the account lifecycle of one provider, for any requests,   *)
(* modes and bounds. With two providers the properties fail: the epochs    *)
(* and the authority record are shared, and Release writes back a copy.    *)
(***************************************************************************)
EXTENDS AccountLifecycle, TLAPS

\* The grants that still work.
Unrevoked(iss, rev) == (1..iss) \ rev

\* The candidate is the one grant that works and is not yet decided upon.
Bears(c, iss, rev) ==
  /\ c \in Candidate /\ c.state = "bearing" /\ c.gen \in {0, c.g}
  /\ c.g \in Unrevoked(iss, rev) /\ Unrevoked(iss, rev) \subseteq {c.g}

\* What the stored credential b and the candidate c account for, by the phase
\* in the journal j of the open operation, which has mode m.
Kept(j, m, c, b, iss, rev) ==
  /\ j.phase \in {"none", "prepared"} =>
       /\ Unrevoked(iss, rev) \subseteq {b.g}
       /\ m = "connect" <=> b = NoBundle
  /\ j.phase = "prepared" => j.leg = "none"
  /\ j.phase \in {"revoke_in_flight", "revoke_unknown"} /\ j.leg = "candidate" =>
       /\ b = NoBundle /\ Unrevoked(iss, rev) \subseteq {c.g}
       /\ c \in Candidate /\ c.state \in {"bearing", "unknown"} /\ c.g \in 1..iss
  /\ j.phase \in {"revoke_in_flight", "revoke_unknown"} /\ j.leg # "candidate" =>
       b # NoBundle /\ Unrevoked(iss, rev) \subseteq {b.g}
  /\ j.phase = "revoked_pending" =>
       Unrevoked(iss, rev) = {} /\ (j.leg = "candidate" => b = NoBundle)
  /\ j.phase \in {"disconnected", "awaiting_login", "failed"} =>
       Unrevoked(iss, rev) = {} /\ b = NoBundle
  /\ j.phase \in {"exchange_in_flight", "exchange_unknown"} => b = NoBundle
  /\ j.phase \in {"candidate_stored", "candidate_cleanup"} =>
       Bears(c, iss, rev) /\ b = NoBundle
  /\ j.phase = "candidate_validation" =>
       /\ Bears(c, iss, rev)
       /\ b # NoBundle => c.gen = c.g /\ b = [g |-> c.g, life |-> "active"]
  /\ j.phase = "completed" =>
       /\ c \in Candidate /\ b = [g |-> c.g, life |-> "active"]
       /\ c.g \in Unrevoked(iss, rev) /\ Unrevoked(iss, rev) \subseteq {c.g}

\* What the handler h knows at each of its writes.
HandlerOK(h, j, m, c, b, iss, rev) ==
  /\ h.pc \in {"journal", "recover"} => j = NoJournal
  /\ h.pc = "journal" /\ h.how # "connect" => m # "connect"
  /\ h.pc \in {"mark", "claim"} /\ j.phase = "prepared" => m # "connect"
  /\ h.pc = "mark" => j.phase = "prepared"
  /\ h.pc \in {"call", "outcome"} => j.phase = "revoke_in_flight"
  /\ h.pc = "outcome" /\ h.ok => Unrevoked(iss, rev) = {}
  /\ h.pc = "candidate_state" =>
       /\ j.leg = "candidate" /\ c \in Candidate
       /\ j.phase = IF h.ok THEN "revoked_pending" ELSE "revoke_unknown"
  /\ h.pc = "candidate_checkpoint" => j.phase = "revoked_pending" /\ j.leg = "candidate"
  /\ h.pc \in {"wipe", "wipe_bundle", "wipe_selection"} =>
       j.phase \in {"revoked_pending", "disconnected", "candidate_validation"}
  /\ h.pc \in {"wipe_selection", "interrupted", "checkpoint"} => b = NoBundle
  /\ h.pc = "deadline" => j.phase = "exchange_in_flight" /\ Unrevoked(iss, rev) = {}
  /\ h.pc \in {"candidate", "stored"} =>
       /\ j.phase = "exchange_in_flight"
       /\ h.g \in Unrevoked(iss, rev) /\ Unrevoked(iss, rev) \subseteq {h.g}
  /\ h.pc = "stored" => c = [g |-> h.g, state |-> "bearing", gen |-> 0]
  /\ h.pc \in {"drop_intent", "validate"} => j.phase = "candidate_stored" /\ h.g = c.g
  /\ h.pc \in {"judge", "bundle", "activate", "select"} =>
       j.phase = "candidate_validation" /\ h.g = c.g
  /\ h.pc = "judge" => b = NoBundle
  /\ h.pc = "bundle" => c.gen = c.g
  /\ h.pc \in {"activate", "select", "complete"} => b # NoBundle
  /\ h.pc = "complete" => j.phase \in {"candidate_validation", "completed"}
  /\ h.pc = "promote" => j.phase = "completed"
  /\ h.pc \in {"receipt", "release"} => j.phase \in {"disconnected", "failed", "completed"}

\* An exchange x under way belongs to the open operation n, and the only grant
\* that nothing else accounts for is the one it was answered with.
ExchangeOK(x, pc, n, j, iss, rev) ==
  x.st \in {"asked", "answered"} =>
    /\ x.op = n /\ j.phase \in {"exchange_in_flight", "exchange_unknown"}
    /\ pc \notin {"deadline", "candidate", "stored"}
    /\ x.st = "asked" /\ j.phase = "exchange_in_flight" => Unrevoked(iss, rev) = {}
    /\ x.st = "answered" =>
         /\ x.g \in Unrevoked(iss, rev)
         /\ j.phase = "exchange_in_flight" => Unrevoked(iss, rev) \subseteq {x.g}

\* All of it about the open operation n of mode m.
Good(h, j, m, c, b, x, n, iss, rev) ==
  /\ Kept(j, m, c, b, iss, rev)
  /\ HandlerOK(h, j, m, c, b, iss, rev)
  /\ ExchangeOK(x, h.pc, n, j, iss, rev)

\* With no operation open, the stored credential is the only grant that works.
Rest(b, x, iss, rev) ==
  /\ Unrevoked(iss, rev) \subseteq {b.g}
  /\ b # NoBundle => b.g \notin rev
  /\ x.st \notin {"asked", "answered"}

\* The receipts are of operations, and the key of the open one is its own.
ReceiptsOK(p) ==
  /\ \A r \in receipts : r.op \in 1..Len(ops)
  /\ active[p] # 0 => \A r \in receipts :
       r.p = p /\ r.req = ops[active[p]].req /\ r.route = Route(ops[active[p]].mode)
         => r.op = active[p]
  /\ OneOperationPerRequest

\* The handler works on the open operation, whose fence holds.
FenceOK(p) ==
  /\ at[p].pc \notin {"idle", "clean"} => active[p] # 0 /\ at[p].op = active[p]
  /\ at[p].pc = "release" => at[p].copy = <<epoch, active>>
  /\ active[p] # 0 => epoch = ops[active[p]].ep

OpenOK(p) ==
  IF active[p] = 0
  THEN Rest(bundle[p], exch[p], issued[p], revoked[p])
  ELSE Good(at[p], journal[active[p]], ops[active[p]].mode, candidate[active[p]],
            bundle[p], exch[p], active[p], issued[p], revoked[p])

\* Operations not yet begun have no journal, and what is stored was issued.
StoredOK(p) ==
  /\ \A k \in 1..MaxOps : k > Len(ops) => journal[k] = NoJournal
  /\ bundle[p] # NoBundle => bundle[p].g \in 1..issued[p]

Inv(p) == TypeOK /\ ReceiptsOK(p) /\ FenceOK(p) /\ OpenOK(p) /\ StoredOK(p)

-----------------------------------------------------------------------------
(* The frame of the argument *)

LEMMA Numbers ==
  /\ MaxOps \in Nat /\ MaxGrants \in Nat /\ MaxAttempts \in Nat /\ MaxFaults \in Nat
  /\ MaxGrants # 0
BY ConstantsOK

LEMMA IdleHandler ==
  /\ Idle \in Handlers /\ Idle.pc = "idle" /\ Idle.op = 0 /\ Idle.how = "none"
  /\ Idle.gate = FALSE /\ Idle.ok = FALSE /\ Idle.g = 0
  /\ NoExchange \in Exchanges /\ NoExchange.st = "none"
BY DEF Idle, Handlers, Pcs, Hows, NoExchange, Exchanges

\* The parts of a state in which an operation is open.
LEMMA OpenFacts ==
  ASSUME NEW p, Providers = {p}, Inv(p), active[p] # 0
  PROVE  /\ active[p] \in Nat /\ active[p] \in 1..Len(ops) /\ active[p] \in 1..MaxOps
         /\ Len(ops) \in Nat /\ Len(ops) <= MaxOps
         /\ ops[active[p]] \in Op /\ ops[active[p]].p = p /\ Fenced(active[p])
         /\ journal[active[p]] \in Journal \cup {NoJournal}
         /\ candidate[active[p]] \in Candidate \cup {NoCandidate}
         /\ at[p] \in Handlers /\ exch[p] \in Exchanges
         /\ bundle[p] \in Bundle \cup {NoBundle}
         /\ issued[p] \in Nat /\ revoked[p] \subseteq 1..issued[p]
         /\ Good(at[p], journal[active[p]], ops[active[p]].mode, candidate[active[p]],
                 bundle[p], exch[p], active[p], issued[p], revoked[p])
<1>1. /\ active[p] \in 0..Len(ops) /\ Len(ops) \in Nat /\ Len(ops) <= MaxOps
      /\ ops \in Seq(Op)
  BY DEF Inv, TypeOK
<1>2. active[p] \in Nat /\ active[p] \in 1..Len(ops) /\ active[p] \in 1..MaxOps
  BY <1>1, Numbers
<1>3. ops[active[p]] \in Op
  BY <1>1, <1>2
<1>4. ops[active[p]].p = p
  BY <1>3 DEF Op
<1>5. Fenced(active[p])
  BY <1>4 DEF Inv, FenceOK, Fenced
<1>6. /\ journal[active[p]] \in Journal \cup {NoJournal}
      /\ candidate[active[p]] \in Candidate \cup {NoCandidate}
  BY <1>2 DEF Inv, TypeOK
<1>7. /\ at[p] \in Handlers /\ exch[p] \in Exchanges
      /\ bundle[p] \in Bundle \cup {NoBundle}
      /\ issued[p] \in Nat /\ revoked[p] \subseteq 1..issued[p]
  BY Numbers DEF Inv, TypeOK
<1> QED
  BY <1>1, <1>2, <1>3, <1>4, <1>5, <1>6, <1>7 DEF Inv, OpenOK

\* A step within the open operation: it is enough to look at its parts.
LEMMA OpenStep ==
  ASSUME NEW p, Providers = {p}, Inv(p), active[p] # 0, TypeOK',
         UNCHANGED <<epoch, active, ops, receipts>>,
         \A k \in 1..MaxOps : k # active[p] => journal'[k] = journal[k],
         at'[p].pc \notin {"idle", "clean"} => at'[p].op = active[p],
         at'[p].pc # "release",
         bundle'[p] # NoBundle => bundle'[p].g \in 1..issued'[p],
         Good(at'[p], journal'[active[p]], ops[active[p]].mode, candidate'[active[p]],
              bundle'[p], exch'[p], active[p], issued'[p], revoked'[p])
  PROVE  Inv(p)'
<1>1. active[p] \in 1..Len(ops) /\ active[p] \in 1..MaxOps /\ Len(ops) \in Nat
  BY OpenFacts
<1>2. ReceiptsOK(p)'
  BY DEF Inv, ReceiptsOK, OneOperationPerRequest
<1>3. FenceOK(p)'
  BY DEF Inv, FenceOK
<1>4. OpenOK(p)'
  BY DEF OpenOK
<1>5. StoredOK(p)'
  BY <1>1 DEF Inv, StoredOK
<1> QED
  BY <1>2, <1>3, <1>4, <1>5 DEF Inv

\* A handler that ends leaves nothing behind but what it wrote.
LEMMA IdleIsGood ==
  ASSUME NEW h, NEW j, NEW m, NEW c, NEW b, NEW x, NEW n, NEW iss, NEW rev,
         Good(h, j, m, c, b, x, n, iss, rev)
  PROVE  Good(Idle, j, m, c, b, x, n, iss, rev)
BY IdleHandler DEF Good, HandlerOK, ExchangeOK

\* A handler returns, with everything as it is.
LEMMA ReturnStep ==
  ASSUME NEW p, Providers = {p}, Inv(p), at[p].pc \notin {"idle", "clean"}, Return(p),
         UNCHANGED <<epoch, active, ops, journal, candidate, intents, receipts, bundle,
                     activation, selection, attempt, exch, boot, issued, revoked, faults>>
  PROVE  Inv(p)'
<1>1. active[p] # 0
  BY DEF Inv, FenceOK
<1>2. at' \in [Providers -> Handlers] /\ at'[p] = Idle
  BY IdleHandler DEF Inv, TypeOK, Return
<1>3. TypeOK'
  BY <1>2 DEF Inv, TypeOK
<1>4. Good(Idle, journal[active[p]], ops[active[p]].mode, candidate[active[p]],
           bundle[p], exch[p], active[p], issued[p], revoked[p])
  BY <1>1, OpenFacts, IdleIsGood
<1> QED
  BY <1>1, <1>2, <1>3, <1>4, OpenStep, IdleHandler DEF Inv, StoredOK

\* The steps that write the journal and nothing else but the handler's place.
JournalOnly ==
  UNCHANGED <<epoch, active, ops, candidate, intents, receipts, bundle, activation,
              selection, attempt, exch, boot, issued, revoked, faults>>

LEMMA ThenFacts ==
  ASSUME NEW p, at[p] \in Handlers, NEW pc \in Pcs
  PROVE  /\ Then(p, pc) \in Handlers /\ Then(p, pc).pc = pc /\ Then(p, pc).op = at[p].op
         /\ Then(p, pc).g = at[p].g /\ Then(p, pc).ok = at[p].ok
         /\ Then(p, pc).how = at[p].how
BY DEF Then, Handlers

\* A fenced write of the journal: for one provider the fence always holds.
LEMMA WriteStep ==
  ASSUME NEW p, Providers = {p}, Inv(p), at[p].pc \notin {"idle", "clean"},
         NEW record \in Journal, NEW next \in Handlers, next.pc \notin {"clean", "release"},
         next.pc # "idle" => next.op = active[p],
         WriteJournal(p, record, next), JournalOnly,
         Good(IF next.pc # "idle" THEN next ELSE Idle, record, ops[active[p]].mode,
              candidate[active[p]], bundle[p], exch[p], active[p], issued[p], revoked[p])
  PROVE  Inv(p)'
<1>1. active[p] # 0 /\ at[p].op = active[p]
  BY DEF Inv, FenceOK
<1>2. active[p] \in 1..MaxOps /\ Fenced(active[p])
  BY <1>1, OpenFacts
<1>3. PICK h : h = IF next.pc # "idle" THEN next ELSE Idle
  OBVIOUS
<1>4. h \in Handlers /\ h.pc \notin {"clean", "release"} /\ (h.pc # "idle" => h.op = active[p])
  BY <1>3, IdleHandler
<1>5. /\ journal' = [journal EXCEPT ![active[p]] = record]
      /\ at' = [at EXCEPT ![p] = h]
  BY <1>1, <1>2, <1>3 DEF WriteJournal
<1>6. /\ journal' \in [1..MaxOps -> Journal \cup {NoJournal}] /\ journal'[active[p]] = record
      /\ \A k \in 1..MaxOps : k # active[p] => journal'[k] = journal[k]
  BY <1>2, <1>5 DEF Inv, TypeOK
<1>7. at' \in [Providers -> Handlers] /\ at'[p] = h
  BY <1>4, <1>5 DEF Inv, TypeOK
<1>8. UNCHANGED <<epoch, active, ops, candidate, intents, receipts, bundle, activation,
                  selection, attempt, exch, boot, issued, revoked, faults>>
  BY DEF JournalOnly
<1>9. TypeOK'
  BY <1>6, <1>7, <1>8 DEF Inv, TypeOK
<1>10. bundle'[p] # NoBundle => bundle'[p].g \in 1..issued'[p]
  BY <1>8 DEF Inv, StoredOK
<1> QED
  BY <1>1, <1>3, <1>4, <1>6, <1>7, <1>8, <1>9, <1>10, OpenStep

\* The phase "to", reached from one of "from", with the handler next.
Leads(p, from, to, next) ==
  \A j \in Journal :
    /\ journal[active[p]].phase \in from
    /\ j.phase = to /\ j.leg = journal[active[p]].leg
    => Good(IF next.pc # "idle" THEN next ELSE Idle, j, ops[active[p]].mode,
            candidate[active[p]], bundle[p], exch[p], active[p], issued[p], revoked[p])

LEMMA TransitionStep ==
  ASSUME NEW p, Providers = {p}, Inv(p), at[p].pc \notin {"idle", "clean"},
         NEW from, "none" \notin from, NEW to \in Phases, NEW next \in Handlers,
         next.pc \notin {"clean", "release"}, next.pc # "idle" => next.op = active[p],
         Transition(p, from, to, next), JournalOnly,
         Leads(p, from, to, next)
  PROVE  Inv(p)'
<1>1. active[p] # 0 /\ at[p].op = active[p]
  BY DEF Inv, FenceOK
<1>2. CASE journal[active[p]].phase \notin from
  <2>1. journal' = journal /\ Return(p)
    BY <1>1, <1>2 DEF Transition
  <2> QED
    BY <2>1, ReturnStep DEF JournalOnly
<1>3. CASE journal[active[p]].phase \in from
  <2>1. journal[active[p]] \in Journal
    <3>1. journal[active[p]] \in Journal \cup {NoJournal} /\ NoJournal.phase = "none"
      BY <1>1, OpenFacts DEF NoJournal
    <3> QED
      BY <1>3, <3>1
  <2>2. PICK j : j = [journal[active[p]] EXCEPT !.phase = to, !.timed = FALSE]
    OBVIOUS
  <2>3. j \in Journal /\ j.phase = to /\ j.leg = journal[active[p]].leg
    BY <2>1, <2>2 DEF Journal
  <2>4. WriteJournal(p, j, next)
    BY <1>1, <1>3, <2>2 DEF Transition
  <2>5. Good(IF next.pc # "idle" THEN next ELSE Idle, j, ops[active[p]].mode,
             candidate[active[p]], bundle[p], exch[p], active[p], issued[p], revoked[p])
    BY <1>3, <2>3 DEF Leads
  <2> QED
    BY <2>3, <2>4, <2>5, WriteStep
<1> QED
  BY <1>2, <1>3

-----------------------------------------------------------------------------
(* One lemma per action: what writes the journal *)

LEMMA AwaitLoginStep ==
  ASSUME NEW p, Providers = {p}, Inv(p), AwaitLogin(p)
  PROVE  Inv(p)'
<1>1. at[p].pc = "await" /\ active[p] # 0 /\ at[p].op = active[p]
  BY DEF AwaitLogin, Inv, FenceOK
<1>2. PICK from : from = IF ops[at[p].op].mode = "connect" THEN {"prepared"}
                         ELSE {"disconnected"}
  OBVIOUS
<1>3. Transition(p, from, "awaiting_login", Idle) /\ JournalOnly
  BY <1>2 DEF AwaitLogin, JournalOnly, authority, records, product, memory, truth
<1>4. ASSUME NEW j \in Journal, journal[active[p]].phase \in from,
             j.phase = "awaiting_login", j.leg = journal[active[p]].leg
      PROVE  Good(Idle, j, ops[active[p]].mode, candidate[active[p]], bundle[p], exch[p],
                  active[p], issued[p], revoked[p])
  <2>1. Good(at[p], journal[active[p]], ops[active[p]].mode, candidate[active[p]],
                 bundle[p], exch[p], active[p], issued[p], revoked[p])
    BY <1>1, OpenFacts
  <2>2. Unrevoked(issued[p], revoked[p]) = {} /\ bundle[p] = NoBundle
    BY <1>1, <1>2, <1>4, <2>1, OpenFacts DEF Good, Kept, NoBundle, Unrevoked
  <2> QED
    BY <1>1, <1>2, <1>4, <2>1, <2>2, IdleHandler DEF Good, Kept, HandlerOK, ExchangeOK
<1>5. Leads(p, from, "awaiting_login", Idle)
  BY <1>4, IdleHandler DEF Leads
<1>6. "none" \notin from
  BY <1>2
<1> QED
  BY <1>1, <1>3, <1>5, <1>6, IdleHandler, TransitionStep DEF Phases

LEMMA CheckpointCandidateStep ==
  ASSUME NEW p, Providers = {p}, Inv(p), CheckpointCandidate(p)
  PROVE  Inv(p)'
<1>1. at[p].pc = "candidate_checkpoint" /\ active[p] # 0 /\ at[p].op = active[p]
  BY DEF CheckpointCandidate, Inv, FenceOK
<1>2. PICK h \in Handlers : /\ h = Then(p, "candidate_failed") /\ h.pc = "candidate_failed" /\ h.op = active[p]
                            /\ h.g = at[p].g
  BY <1>1, OpenFacts, ThenFacts DEF Pcs
<1>3. Transition(p, {"revoked_pending"}, "disconnected", h) /\ JournalOnly
  BY <1>2 DEF CheckpointCandidate, JournalOnly, authority, records, product, memory, truth
<1>4. Leads(p, {"revoked_pending"}, "disconnected", h)
  <2> SUFFICES ASSUME NEW j \in Journal, journal[active[p]].phase \in {"revoked_pending"},
                      j.phase = "disconnected", j.leg = journal[active[p]].leg
               PROVE  Good(h, j, ops[active[p]].mode, candidate[active[p]], bundle[p],
                           exch[p], active[p], issued[p], revoked[p])
    BY <1>2 DEF Leads
  <2>1. Good(at[p], journal[active[p]], ops[active[p]].mode, candidate[active[p]],
             bundle[p], exch[p], active[p], issued[p], revoked[p])
    BY <1>1, OpenFacts
  <2>2. Kept(j, ops[active[p]].mode, candidate[active[p]], bundle[p], issued[p], revoked[p])
    BY <1>1, <2>1 DEF Good, Kept, HandlerOK
  <2>3. HandlerOK(h, j, ops[active[p]].mode, candidate[active[p]], bundle[p], issued[p],
                  revoked[p])
    BY <1>1, <1>2, <2>1 DEF Good, Kept, HandlerOK
  <2>4. ExchangeOK(exch[p], h.pc, active[p], j, issued[p], revoked[p])
    BY <1>1, <1>2, <2>1 DEF Good, ExchangeOK
  <2> QED
    BY <2>2, <2>3, <2>4 DEF Good
<1> QED
  BY <1>1, <1>2, <1>3, <1>4, TransitionStep DEF Phases

LEMMA FailCandidateStep ==
  ASSUME NEW p, Providers = {p}, Inv(p), FailCandidate(p)
  PROVE  Inv(p)'
<1>1. at[p].pc = "candidate_failed" /\ active[p] # 0 /\ at[p].op = active[p]
  BY DEF FailCandidate, Inv, FenceOK
<1>2. PICK h \in Handlers : /\ h = Then(p, "receipt") /\ h.pc = "receipt" /\ h.op = active[p]
                            /\ h.g = at[p].g
  BY <1>1, OpenFacts, ThenFacts DEF Pcs
<1>3. Transition(p, {"disconnected"}, "failed", h) /\ JournalOnly
  BY <1>2 DEF FailCandidate, JournalOnly, authority, records, product, memory, truth
<1>4. Leads(p, {"disconnected"}, "failed", h)
  <2> SUFFICES ASSUME NEW j \in Journal, journal[active[p]].phase \in {"disconnected"},
                      j.phase = "failed", j.leg = journal[active[p]].leg
               PROVE  Good(h, j, ops[active[p]].mode, candidate[active[p]], bundle[p],
                           exch[p], active[p], issued[p], revoked[p])
    BY <1>2 DEF Leads
  <2>1. Good(at[p], journal[active[p]], ops[active[p]].mode, candidate[active[p]],
             bundle[p], exch[p], active[p], issued[p], revoked[p])
    BY <1>1, OpenFacts
  <2>2. Kept(j, ops[active[p]].mode, candidate[active[p]], bundle[p], issued[p], revoked[p])
    BY <1>1, <2>1 DEF Good, Kept, HandlerOK
  <2>3. HandlerOK(h, j, ops[active[p]].mode, candidate[active[p]], bundle[p], issued[p],
                  revoked[p])
    BY <1>1, <1>2, <2>1 DEF Good, Kept, HandlerOK
  <2>4. ExchangeOK(exch[p], h.pc, active[p], j, issued[p], revoked[p])
    BY <1>1, <1>2, <2>1 DEF Good, ExchangeOK
  <2> QED
    BY <2>2, <2>3, <2>4 DEF Good
<1> QED
  BY <1>1, <1>2, <1>3, <1>4, TransitionStep DEF Phases

LEMMA EnterExchangeStep ==
  ASSUME NEW p, Providers = {p}, Inv(p), EnterExchange(p)
  PROVE  Inv(p)'
<1>1. at[p].pc = "exchange" /\ active[p] # 0 /\ at[p].op = active[p]
  BY DEF EnterExchange, Inv, FenceOK
<1>2. PICK h \in Handlers : /\ h = Then(p, "deadline") /\ h.pc = "deadline" /\ h.op = active[p]
                            /\ h.g = at[p].g
  BY <1>1, OpenFacts, ThenFacts DEF Pcs
<1>3. Transition(p, {"awaiting_login"}, "exchange_in_flight", h) /\ JournalOnly
  BY <1>2 DEF EnterExchange, JournalOnly, authority, records, product, memory, truth
<1>4. Leads(p, {"awaiting_login"}, "exchange_in_flight", h)
  <2> SUFFICES ASSUME NEW j \in Journal, journal[active[p]].phase \in {"awaiting_login"},
                      j.phase = "exchange_in_flight", j.leg = journal[active[p]].leg
               PROVE  Good(h, j, ops[active[p]].mode, candidate[active[p]], bundle[p],
                           exch[p], active[p], issued[p], revoked[p])
    BY <1>2 DEF Leads
  <2>1. Good(at[p], journal[active[p]], ops[active[p]].mode, candidate[active[p]],
             bundle[p], exch[p], active[p], issued[p], revoked[p])
    BY <1>1, OpenFacts
  <2>2. Kept(j, ops[active[p]].mode, candidate[active[p]], bundle[p], issued[p], revoked[p])
    BY <1>1, <2>1 DEF Good, Kept, HandlerOK
  <2>3. HandlerOK(h, j, ops[active[p]].mode, candidate[active[p]], bundle[p], issued[p],
                  revoked[p])
    BY <1>1, <1>2, <2>1 DEF Good, Kept, HandlerOK
  <2>4. ExchangeOK(exch[p], h.pc, active[p], j, issued[p], revoked[p])
    BY <1>1, <1>2, <2>1 DEF Good, ExchangeOK
  <2> QED
    BY <2>2, <2>3, <2>4 DEF Good
<1> QED
  BY <1>1, <1>2, <1>3, <1>4, TransitionStep DEF Phases

LEMMA StoreCandidateStep ==
  ASSUME NEW p, Providers = {p}, Inv(p), StoreCandidate(p)
  PROVE  Inv(p)'
<1>1. at[p].pc = "stored" /\ active[p] # 0 /\ at[p].op = active[p]
  BY DEF StoreCandidate, Inv, FenceOK
<1>2. PICK h \in Handlers : /\ h = Then(p, "drop_intent") /\ h.pc = "drop_intent" /\ h.op = active[p]
                            /\ h.g = at[p].g
  BY <1>1, OpenFacts, ThenFacts DEF Pcs
<1>3. Transition(p, {"exchange_in_flight"}, "candidate_stored", h) /\ JournalOnly
  BY <1>2 DEF StoreCandidate, JournalOnly, authority, records, product, memory, truth
<1>4. Leads(p, {"exchange_in_flight"}, "candidate_stored", h)
  <2> SUFFICES ASSUME NEW j \in Journal, journal[active[p]].phase \in {"exchange_in_flight"},
                      j.phase = "candidate_stored", j.leg = journal[active[p]].leg
               PROVE  Good(h, j, ops[active[p]].mode, candidate[active[p]], bundle[p],
                           exch[p], active[p], issued[p], revoked[p])
    BY <1>2 DEF Leads
  <2>1. Good(at[p], journal[active[p]], ops[active[p]].mode, candidate[active[p]],
             bundle[p], exch[p], active[p], issued[p], revoked[p])
    BY <1>1, OpenFacts
  <2>2. Kept(j, ops[active[p]].mode, candidate[active[p]], bundle[p], issued[p], revoked[p])
    BY <1>1, <2>1 DEF Good, Kept, HandlerOK, Bears, Candidate, Unrevoked
  <2>3. HandlerOK(h, j, ops[active[p]].mode, candidate[active[p]], bundle[p], issued[p],
                  revoked[p])
    BY <1>1, <1>2, <2>1 DEF Good, Kept, HandlerOK
  <2>4. ExchangeOK(exch[p], h.pc, active[p], j, issued[p], revoked[p])
    BY <1>1, <1>2, <2>1 DEF Good, ExchangeOK
  <2> QED
    BY <2>2, <2>3, <2>4 DEF Good
<1> QED
  BY <1>1, <1>2, <1>3, <1>4, TransitionStep DEF Phases

LEMMA BeginValidationStep ==
  ASSUME NEW p, Providers = {p}, Inv(p), BeginValidation(p)
  PROVE  Inv(p)'
<1>1. at[p].pc = "validate" /\ active[p] # 0 /\ at[p].op = active[p]
  BY DEF BeginValidation, Inv, FenceOK
<1>2. PICK h \in Handlers : /\ h = Then(p, "judge") /\ h.pc = "judge" /\ h.op = active[p]
                            /\ h.g = at[p].g
  BY <1>1, OpenFacts, ThenFacts DEF Pcs
<1>3. Transition(p, {"candidate_stored"}, "candidate_validation", h) /\ JournalOnly
  BY <1>2 DEF BeginValidation, JournalOnly, authority, records, product, memory, truth
<1>4. Leads(p, {"candidate_stored"}, "candidate_validation", h)
  <2> SUFFICES ASSUME NEW j \in Journal, journal[active[p]].phase \in {"candidate_stored"},
                      j.phase = "candidate_validation", j.leg = journal[active[p]].leg
               PROVE  Good(h, j, ops[active[p]].mode, candidate[active[p]], bundle[p],
                           exch[p], active[p], issued[p], revoked[p])
    BY <1>2 DEF Leads
  <2>1. Good(at[p], journal[active[p]], ops[active[p]].mode, candidate[active[p]],
             bundle[p], exch[p], active[p], issued[p], revoked[p])
    BY <1>1, OpenFacts
  <2>2. Kept(j, ops[active[p]].mode, candidate[active[p]], bundle[p], issued[p], revoked[p])
    BY <1>1, <2>1 DEF Good, Kept, HandlerOK
  <2>3. HandlerOK(h, j, ops[active[p]].mode, candidate[active[p]], bundle[p], issued[p],
                  revoked[p])
    BY <1>1, <1>2, <2>1 DEF Good, Kept, HandlerOK
  <2>4. ExchangeOK(exch[p], h.pc, active[p], j, issued[p], revoked[p])
    BY <1>1, <1>2, <2>1 DEF Good, ExchangeOK
  <2> QED
    BY <2>2, <2>3, <2>4 DEF Good
<1> QED
  BY <1>1, <1>2, <1>3, <1>4, TransitionStep DEF Phases

LEMMA CompleteStep ==
  ASSUME NEW p, Providers = {p}, Inv(p), Complete(p)
  PROVE  Inv(p)'
<1>1. at[p].pc = "complete" /\ active[p] # 0 /\ at[p].op = active[p]
  BY DEF Complete, Inv, FenceOK
<1>2. PICK h \in Handlers : /\ h = Then(p, "promote") /\ h.pc = "promote" /\ h.op = active[p]
                            /\ h.g = at[p].g
  BY <1>1, OpenFacts, ThenFacts DEF Pcs
<1>3. Transition(p, {"candidate_validation", "completed"}, "completed", h) /\ JournalOnly
  BY <1>2 DEF Complete, JournalOnly, authority, records, product, memory, truth
<1>4. Leads(p, {"candidate_validation", "completed"}, "completed", h)
  <2> SUFFICES ASSUME NEW j \in Journal, journal[active[p]].phase \in {"candidate_validation", "completed"},
                      j.phase = "completed", j.leg = journal[active[p]].leg
               PROVE  Good(h, j, ops[active[p]].mode, candidate[active[p]], bundle[p],
                           exch[p], active[p], issued[p], revoked[p])
    BY <1>2 DEF Leads
  <2>1. Good(at[p], journal[active[p]], ops[active[p]].mode, candidate[active[p]],
             bundle[p], exch[p], active[p], issued[p], revoked[p])
    BY <1>1, OpenFacts
  <2>2. Kept(j, ops[active[p]].mode, candidate[active[p]], bundle[p], issued[p], revoked[p])
    BY <1>1, <2>1 DEF Good, Kept, HandlerOK, Bears
  <2>3. HandlerOK(h, j, ops[active[p]].mode, candidate[active[p]], bundle[p], issued[p],
                  revoked[p])
    BY <1>1, <1>2, <2>1 DEF Good, Kept, HandlerOK
  <2>4. ExchangeOK(exch[p], h.pc, active[p], j, issued[p], revoked[p])
    BY <1>1, <1>2, <2>1 DEF Good, ExchangeOK
  <2> QED
    BY <2>2, <2>3, <2>4 DEF Good
<1> QED
  BY <1>1, <1>2, <1>3, <1>4, TransitionStep DEF Phases

LEMMA InterruptedStep ==
  ASSUME NEW p, Providers = {p}, Inv(p), Interrupted(p)
  PROVE  Inv(p)'
<1>1. at[p].pc = "interrupted" /\ active[p] # 0 /\ at[p].op = active[p]
  BY DEF Interrupted, Inv, FenceOK
<1>2. Transition(p, {"candidate_validation"}, "candidate_cleanup", Idle) /\ JournalOnly
  BY DEF Interrupted, JournalOnly, authority, records, product, memory, truth
<1>3. Leads(p, {"candidate_validation"}, "candidate_cleanup", Idle)
  <2> SUFFICES ASSUME NEW j \in Journal, journal[active[p]].phase \in {"candidate_validation"},
                      j.phase = "candidate_cleanup", j.leg = journal[active[p]].leg
               PROVE  Good(Idle, j, ops[active[p]].mode, candidate[active[p]], bundle[p],
                           exch[p], active[p], issued[p], revoked[p])
    BY IdleHandler DEF Leads
  <2>1. Good(at[p], journal[active[p]], ops[active[p]].mode, candidate[active[p]],
             bundle[p], exch[p], active[p], issued[p], revoked[p])
    BY <1>1, OpenFacts
  <2> QED
    BY <1>1, <2>1, IdleHandler DEF Good, Kept, HandlerOK, ExchangeOK
<1> QED
  BY <1>1, <1>2, <1>3, IdleHandler, TransitionStep DEF Phases

LEMMA RejectIdentityStep ==
  ASSUME NEW p, Providers = {p}, Inv(p), RejectIdentity(p)
  PROVE  Inv(p)'
<1>1. at[p].pc = "judge" /\ active[p] # 0 /\ at[p].op = active[p]
  BY DEF RejectIdentity, Inv, FenceOK
<1>2. Transition(p, {"candidate_validation"}, "candidate_cleanup", Idle) /\ JournalOnly
  BY DEF RejectIdentity, JournalOnly, authority, records, product, memory, truth
<1>3. Leads(p, {"candidate_validation"}, "candidate_cleanup", Idle)
  <2> SUFFICES ASSUME NEW j \in Journal, journal[active[p]].phase \in {"candidate_validation"},
                      j.phase = "candidate_cleanup", j.leg = journal[active[p]].leg
               PROVE  Good(Idle, j, ops[active[p]].mode, candidate[active[p]], bundle[p],
                           exch[p], active[p], issued[p], revoked[p])
    BY IdleHandler DEF Leads
  <2>1. Good(at[p], journal[active[p]], ops[active[p]].mode, candidate[active[p]],
             bundle[p], exch[p], active[p], issued[p], revoked[p])
    BY <1>1, OpenFacts
  <2> QED
    BY <1>1, <2>1, IdleHandler DEF Good, Kept, HandlerOK, ExchangeOK
<1> QED
  BY <1>1, <1>2, <1>3, IdleHandler, TransitionStep DEF Phases

LEMMA RevokeLateStep ==
  ASSUME NEW p, Providers = {p}, Inv(p), RevokeLate(p)
  PROVE  Inv(p)'
<1>1. at[p].pc = "revoke_late" /\ active[p] # 0 /\ at[p].op = active[p]
  BY DEF RevokeLate, Inv, FenceOK
<1>2. Transition(p, {"revoke_in_flight"}, "revoke_unknown", Idle) /\ JournalOnly
  BY DEF RevokeLate, JournalOnly, authority, records, product, memory, truth
<1>3. Leads(p, {"revoke_in_flight"}, "revoke_unknown", Idle)
  <2> SUFFICES ASSUME NEW j \in Journal, journal[active[p]].phase \in {"revoke_in_flight"},
                      j.phase = "revoke_unknown", j.leg = journal[active[p]].leg
               PROVE  Good(Idle, j, ops[active[p]].mode, candidate[active[p]], bundle[p],
                           exch[p], active[p], issued[p], revoked[p])
    BY IdleHandler DEF Leads
  <2>1. Good(at[p], journal[active[p]], ops[active[p]].mode, candidate[active[p]],
             bundle[p], exch[p], active[p], issued[p], revoked[p])
    BY <1>1, OpenFacts
  <2> QED
    BY <1>1, <2>1, IdleHandler DEF Good, Kept, HandlerOK, ExchangeOK
<1> QED
  BY <1>1, <1>2, <1>3, IdleHandler, TransitionStep DEF Phases

LEMMA ExchangeLateStep ==
  ASSUME NEW p, Providers = {p}, Inv(p), ExchangeLate(p)
  PROVE  Inv(p)'
<1>1. at[p].pc = "exchange_late" /\ active[p] # 0 /\ at[p].op = active[p]
  BY DEF ExchangeLate, Inv, FenceOK
<1>2. Transition(p, {"exchange_in_flight"}, "exchange_unknown", Idle) /\ JournalOnly
  BY DEF ExchangeLate, JournalOnly, authority, records, product, memory, truth
<1>3. Leads(p, {"exchange_in_flight"}, "exchange_unknown", Idle)
  <2> SUFFICES ASSUME NEW j \in Journal, journal[active[p]].phase \in {"exchange_in_flight"},
                      j.phase = "exchange_unknown", j.leg = journal[active[p]].leg
               PROVE  Good(Idle, j, ops[active[p]].mode, candidate[active[p]], bundle[p],
                           exch[p], active[p], issued[p], revoked[p])
    BY IdleHandler DEF Leads
  <2>1. Good(at[p], journal[active[p]], ops[active[p]].mode, candidate[active[p]],
             bundle[p], exch[p], active[p], issued[p], revoked[p])
    BY <1>1, OpenFacts
  <2> QED
    BY <1>1, <2>1, IdleHandler DEF Good, Kept, HandlerOK, ExchangeOK
<1> QED
  BY <1>1, <1>2, <1>3, IdleHandler, TransitionStep DEF Phases

LEMMA CheckpointStep ==
  ASSUME NEW p, Providers = {p}, Inv(p), Checkpoint(p)
  PROVE  Inv(p)'
<1>1. at[p].pc = "checkpoint" /\ active[p] # 0 /\ at[p].op = active[p]
  BY DEF Checkpoint, Inv, FenceOK
<1>2. PICK next \in {"receipt", "await"} :
        next = IF ops[at[p].op].mode = "disconnect" THEN "receipt" ELSE "await"
  OBVIOUS
<1>3. PICK h \in Handlers : /\ h = Then(p, next) /\ h.pc = next /\ h.op = active[p]
  BY <1>1, OpenFacts, ThenFacts DEF Pcs
<1>4. JournalOnly
  BY DEF Checkpoint, JournalOnly, authority, records, product, memory, truth
<1>5. CASE UNCHANGED journal /\ Return(p)
  BY <1>1, <1>4, <1>5, ReturnStep DEF JournalOnly
<1>6. CASE Transition(p, {"revoked_pending", "disconnected"}, "disconnected", h)
  <2>1. Leads(p, {"revoked_pending", "disconnected"}, "disconnected", h)
    <3> SUFFICES ASSUME NEW j \in Journal,
                        journal[active[p]].phase \in {"revoked_pending", "disconnected"},
                        j.phase = "disconnected", j.leg = journal[active[p]].leg
                 PROVE  Good(h, j, ops[active[p]].mode, candidate[active[p]], bundle[p],
                             exch[p], active[p], issued[p], revoked[p])
      BY <1>3 DEF Leads
    <3>1. Good(at[p], journal[active[p]], ops[active[p]].mode, candidate[active[p]],
               bundle[p], exch[p], active[p], issued[p], revoked[p])
      BY <1>1, OpenFacts
    <3> QED
      BY <1>1, <1>3, <3>1 DEF Good, Kept, HandlerOK, ExchangeOK
  <2> QED
    BY <1>1, <1>3, <1>4, <1>6, <2>1, TransitionStep DEF Phases
<1> QED
  BY <1>2, <1>3, <1>5, <1>6 DEF Checkpoint

LEMMA PublishOutcomeStep ==
  ASSUME NEW p, Providers = {p}, Inv(p), PublishOutcome(p)
  PROVE  Inv(p)'
<1>1. at[p].pc = "outcome" /\ active[p] # 0 /\ at[p].op = active[p]
  BY DEF PublishOutcome, Inv, FenceOK
<1>2. PICK next \in Pcs :
        next = IF journal[active[p]].leg = "candidate" THEN "candidate_state"
               ELSE IF at[p].ok THEN "wipe" ELSE "idle"
  BY DEF Pcs
<1>3. next \in {"candidate_state", "wipe", "idle"}
  BY <1>2
<1>4. PICK gate \in BOOLEAN : gate = (at[p].how = "logout")
  OBVIOUS
<1>5. PICK h \in Handlers : /\ h = [Then(p, next) EXCEPT !.gate = gate]
                            /\ h.pc = next /\ h.op = active[p] /\ h.ok = at[p].ok
  <2>1. PICK h0 \in Handlers : /\ h0 = Then(p, next) /\ h0.pc = next /\ h0.op = active[p]
                               /\ h0.ok = at[p].ok
    BY <1>1, OpenFacts, ThenFacts
  <2>2. PICK h1 : h1 = [h0 EXCEPT !.gate = gate]
    OBVIOUS
  <2>3. h1 \in Handlers /\ h1.pc = next /\ h1.op = active[p] /\ h1.ok = at[p].ok
    BY <2>1, <2>2 DEF Handlers
  <2> QED
    BY <2>1, <2>2, <2>3
<1>6. PICK to \in Phases : to = OutcomePhase(at[p].ok)
  BY DEF OutcomePhase, Phases
<1>7. Transition(p, {"revoke_in_flight"}, to, h) /\ JournalOnly
  BY <1>1, <1>2, <1>4, <1>5, <1>6
     DEF PublishOutcome, JournalOnly, authority, records, product, memory, truth
<1>8. Leads(p, {"revoke_in_flight"}, to, h)
  <2> SUFFICES ASSUME NEW j \in Journal, journal[active[p]].phase = "revoke_in_flight",
                      j.phase = to, j.leg = journal[active[p]].leg
               PROVE  Good(IF h.pc # "idle" THEN h ELSE Idle, j, ops[active[p]].mode,
                           candidate[active[p]], bundle[p], exch[p], active[p], issued[p],
                           revoked[p])
    BY DEF Leads
  <2>1. Good(at[p], journal[active[p]], ops[active[p]].mode, candidate[active[p]],
             bundle[p], exch[p], active[p], issued[p], revoked[p])
    BY <1>1, OpenFacts
  <2>2. CASE at[p].ok
    <3>1. to = "revoked_pending" /\ h.pc # "idle"
      BY <1>2, <1>5, <1>6, <2>2 DEF OutcomePhase
    <3>2. Unrevoked(issued[p], revoked[p]) = {}
      BY <1>1, <2>1, <2>2 DEF Good, HandlerOK
    <3>3. Kept(j, ops[active[p]].mode, candidate[active[p]], bundle[p], issued[p], revoked[p])
      BY <2>1, <3>1, <3>2 DEF Good, Kept
    <3>4. HandlerOK(h, j, ops[active[p]].mode, candidate[active[p]], bundle[p], issued[p],
                    revoked[p])
      <4>1. CASE journal[active[p]].leg = "candidate"
        <5>1. h.pc = "candidate_state" /\ h.ok /\ candidate[active[p]] \in Candidate
          BY <1>2, <1>5, <2>1, <2>2, <4>1 DEF Good, Kept
        <5> QED
          BY <3>1, <4>1, <5>1 DEF HandlerOK
      <4>2. CASE journal[active[p]].leg # "candidate"
        <5>1. h.pc = "wipe"
          BY <1>2, <1>5, <2>2, <4>2
        <5> QED
          BY <3>1, <5>1 DEF HandlerOK
      <4> QED
        BY <4>1, <4>2
    <3>5. ExchangeOK(exch[p], h.pc, active[p], j, issued[p], revoked[p])
      BY <2>1 DEF Good, ExchangeOK
    <3> QED
      BY <3>1, <3>3, <3>4, <3>5 DEF Good
  <2>3. CASE ~at[p].ok
    <3>1. to = "revoke_unknown"
      BY <1>6, <2>3 DEF OutcomePhase
    <3> QED
      BY <1>1, <1>2, <1>5, <2>1, <2>3, <3>1, IdleHandler
         DEF Good, Kept, HandlerOK, ExchangeOK
  <2> QED
    BY <2>2, <2>3
<1> QED
  BY <1>1, <1>3, <1>5, <1>7, <1>8, TransitionStep

LEMMA ClaimRevokeStep ==
  ASSUME NEW p, Providers = {p}, Inv(p), ClaimRevoke(p)
  PROVE  Inv(p)'
<1>1. at[p].pc = "claim" /\ active[p] # 0 /\ at[p].op = active[p]
  BY DEF ClaimRevoke, Inv, FenceOK
<1>2. PICK h \in Handlers : /\ h = Then(p, "call") /\ h.pc = "call" /\ h.op = active[p]
  BY <1>1, OpenFacts, ThenFacts DEF Pcs
<1>3. JournalOnly
  BY DEF ClaimRevoke, JournalOnly, authority, records, product, memory, truth
<1>4. CASE UNCHANGED journal /\ Return(p)
  BY <1>1, <1>3, <1>4, ReturnStep DEF JournalOnly
<1>5. PICK old : old = journal[active[p]]
  OBVIOUS
<1>6. PICK leg : leg = IF old.phase = "candidate_cleanup" THEN "candidate"
                       ELSE IF old.leg = "none" THEN "active" ELSE old.leg
  OBVIOUS
<1>7. CASE /\ old.phase \in {"prepared", "revoke_unknown", "candidate_cleanup"}
           /\ MayTry(old)
           /\ WriteJournal(p, [phase |-> "revoke_in_flight", leg |-> leg,
                               attempts |-> old.attempts + 1, timed |-> TRUE], h)
  <2>1. old \in Journal
    BY <1>1, <1>5, <1>7, OpenFacts DEF NoJournal
  <2>2. old.attempts + 1 \in 0..MaxAttempts /\ leg \in {"none", "active", "candidate"}
    BY <1>6, <1>7, <2>1, Numbers DEF Journal, MayTry
  <2>3. PICK j : j = [phase |-> "revoke_in_flight", leg |-> leg,
                      attempts |-> old.attempts + 1, timed |-> TRUE]
    OBVIOUS
  <2>4. j \in Journal /\ j.phase = "revoke_in_flight" /\ j.leg = leg
    BY <2>2, <2>3 DEF Journal, Phases
  <2>5. Good(at[p], old, ops[active[p]].mode, candidate[active[p]],
             bundle[p], exch[p], active[p], issued[p], revoked[p])
    BY <1>1, <1>5, OpenFacts
  <2>6. /\ old.phase = "candidate_cleanup" => leg = "candidate"
        /\ old.phase = "revoke_unknown" => (leg = "candidate" <=> old.leg = "candidate")
    BY <1>6
  <2>7. old.phase = "prepared" => leg # "candidate"
    BY <1>6, <2>5 DEF Good, Kept
  <2>8. Kept(j, ops[active[p]].mode, candidate[active[p]], bundle[p], issued[p], revoked[p])
    <3>1. old.phase = "prepared" => bundle[p] # NoBundle
      BY <1>1, <2>5 DEF Good, Kept, HandlerOK
    <3> QED
      BY <1>7, <2>4, <2>5, <2>6, <2>7, <3>1 DEF Good, Kept, Bears, Unrevoked
  <2>9. Good(h, j, ops[active[p]].mode, candidate[active[p]],
             bundle[p], exch[p], active[p], issued[p], revoked[p])
    BY <1>2, <1>7, <2>4, <2>5, <2>8 DEF Good, HandlerOK, ExchangeOK
  <2> QED
    BY <1>1, <1>2, <1>3, <1>7, <2>3, <2>4, <2>9, WriteStep
<1> QED
  BY <1>1, <1>2, <1>4, <1>5, <1>6, <1>7 DEF ClaimRevoke

LEMMA RecoverJournalStep ==
  ASSUME NEW p, Providers = {p}, Inv(p), RecoverJournal(p)
  PROVE  Inv(p)'
<1>1. at[p].pc = "recover" /\ active[p] # 0 /\ at[p].op = active[p]
  BY DEF RecoverJournal, Inv, FenceOK
<1>2. WriteJournal(p, Prepared, Idle) /\ JournalOnly
  BY DEF RecoverJournal, JournalOnly, authority, records, product, memory, truth
<1>3. Prepared \in Journal /\ Prepared.phase = "prepared" /\ Prepared.leg = "none"
  BY Numbers DEF Prepared, Journal, Phases
<1>4. Good(at[p], journal[active[p]], ops[active[p]].mode, candidate[active[p]],
           bundle[p], exch[p], active[p], issued[p], revoked[p])
  BY <1>1, OpenFacts
<1>5. journal[active[p]].phase = "none"
  BY <1>1, <1>4 DEF Good, HandlerOK, NoJournal
<1>6. Good(Idle, Prepared, ops[active[p]].mode, candidate[active[p]],
           bundle[p], exch[p], active[p], issued[p], revoked[p])
  BY <1>3, <1>4, <1>5, IdleHandler DEF Good, Kept, HandlerOK, ExchangeOK
<1> QED
  BY <1>1, <1>2, <1>3, <1>6, IdleHandler, WriteStep

LEMMA PutJournalStep ==
  ASSUME NEW p, Providers = {p}, Inv(p), PutJournal(p)
  PROVE  Inv(p)'
<1>1. at[p].pc = "journal" /\ active[p] # 0 /\ at[p].op = active[p]
  BY DEF PutJournal, Inv, FenceOK
<1>2. Prepared \in Journal /\ Prepared.phase = "prepared" /\ Prepared.leg = "none"
  BY Numbers DEF Prepared, Journal, Phases
<1>3. Good(at[p], journal[active[p]], ops[active[p]].mode, candidate[active[p]],
           bundle[p], exch[p], active[p], issued[p], revoked[p])
  BY <1>1, OpenFacts
<1>4. PICK h \in Handlers : /\ h.op = active[p] /\ at' = [at EXCEPT ![p] = h]
                            /\ h.pc = IF at[p].how = "connect" THEN "await" ELSE "mark"
  <2>1. PICK h0 \in Handlers : h0 = Then(p, "await") /\ h0.pc = "await" /\ h0.op = active[p]
    BY <1>1, OpenFacts, ThenFacts DEF Pcs
  <2>2. PICK h1 \in Handlers : h1 = Then(p, "mark") /\ h1.pc = "mark" /\ h1.op = active[p]
    BY <1>1, OpenFacts, ThenFacts DEF Pcs
  <2>3. PICK h2 : h2 = [h1 EXCEPT !.gate = FALSE]
    OBVIOUS
  <2>4. h2 \in Handlers /\ h2.pc = "mark" /\ h2.op = active[p]
    BY <2>2, <2>3 DEF Handlers
  <2>5. at' = [at EXCEPT ![p] = IF at[p].how = "connect" THEN h0 ELSE h2]
    BY <2>1, <2>2, <2>3 DEF PutJournal, Inv, TypeOK
  <2> QED
    BY <2>1, <2>4, <2>5
<1>5. at[p].how # "connect" => ops[active[p]].mode # "connect"
  BY <1>1, <1>3 DEF Good, HandlerOK
<1>6. journal' = [journal EXCEPT ![active[p]] = Prepared] /\ JournalOnly
  BY <1>1 DEF PutJournal, JournalOnly, authority, records, product, memory, truth
<1>7. WriteJournal(p, Prepared, h)
  BY <1>1, <1>4, <1>6, OpenFacts DEF WriteJournal
<1>8. journal[active[p]].phase = "none"
  BY <1>1, <1>3 DEF Good, HandlerOK, NoJournal
<1>9. Good(h, Prepared, ops[active[p]].mode, candidate[active[p]],
           bundle[p], exch[p], active[p], issued[p], revoked[p])
  BY <1>2, <1>3, <1>4, <1>5, <1>8 DEF Good, Kept, HandlerOK, ExchangeOK
<1>10. h.pc # "idle" /\ h.pc \notin {"clean", "release"} /\ h.op = active[p]
  BY <1>4
<1> QED
  BY <1>1, <1>2, <1>6, <1>7, <1>9, <1>10, WriteStep

-----------------------------------------------------------------------------
(* What writes the candidate, the credential and the product state *)

LEMMA GotoFacts ==
  ASSUME NEW p, Providers = {p}, Inv(p), NEW pc \in Pcs, Goto(p, pc)
  PROVE  /\ at' \in [Providers -> Handlers] /\ at'[p].pc = pc /\ at'[p].op = at[p].op
         /\ at'[p].g = at[p].g /\ at'[p].ok = at[p].ok /\ at'[p].how = at[p].how
<1>1. at \in [Providers -> Handlers] /\ at[p] \in Handlers
  BY DEF Inv, TypeOK
<1>2. PICK h : h = [at[p] EXCEPT !.pc = pc]
  OBVIOUS
<1>3. /\ h \in Handlers /\ h.pc = pc /\ h.op = at[p].op
      /\ h.g = at[p].g /\ h.ok = at[p].ok /\ h.how = at[p].how
  BY <1>1, <1>2 DEF Handlers
<1>4. at' = [at EXCEPT ![p] = h]
  BY <1>2 DEF Goto
<1> QED
  BY <1>1, <1>3, <1>4

LEMMA MarkDisconnectingStep ==
  ASSUME NEW p, Providers = {p}, Inv(p), MarkDisconnecting(p)
  PROVE  Inv(p)'
<1>1. at[p].pc = "mark" /\ active[p] # 0 /\ at[p].op = active[p]
  BY DEF MarkDisconnecting, Inv, FenceOK
<1>2. /\ Goto(p, "claim") /\ bundle' = [bundle EXCEPT ![p].life = "disconnecting"]
      /\ UNCHANGED <<epoch, active, ops, journal, candidate, intents, receipts, activation,
                     selection, attempt, exch, boot, issued, revoked, faults>>
  BY DEF MarkDisconnecting, authority, records, memory, truth
<1>3. Good(at[p], journal[active[p]], ops[active[p]].mode, candidate[active[p]],
           bundle[p], exch[p], active[p], issued[p], revoked[p])
  BY <1>1, OpenFacts
<1>4. journal[active[p]].phase = "prepared" /\ bundle[p] # NoBundle
  BY <1>1, <1>3 DEF Good, Kept, HandlerOK
<1>5. bundle[p] \in Bundle
  BY <1>1, <1>4, OpenFacts
<1>6. PICK b : b = [bundle[p] EXCEPT !.life = "disconnecting"]
  OBVIOUS
<1>7. b \in Bundle /\ b.g = bundle[p].g /\ b # NoBundle
  <2>1. b \in Bundle /\ b.g = bundle[p].g /\ b.life = "disconnecting"
    BY <1>5, <1>6 DEF Bundle
  <2> QED
    BY <2>1 DEF NoBundle
<1>8. bundle' \in [Providers -> Bundle \cup {NoBundle}] /\ bundle'[p] = b
  BY <1>2, <1>6, <1>7 DEF Inv, TypeOK
<1>9. /\ at' \in [Providers -> Handlers] /\ at'[p].pc = "claim" /\ at'[p].op = active[p]
  BY <1>1, <1>2, GotoFacts DEF Pcs
<1>10. TypeOK'
  BY <1>2, <1>8, <1>9 DEF Inv, TypeOK
<1>11. Good(at'[p], journal[active[p]], ops[active[p]].mode, candidate[active[p]],
            b, exch[p], active[p], issued[p], revoked[p])
  <2>1. Kept(journal[active[p]], ops[active[p]].mode, candidate[active[p]], b, issued[p],
             revoked[p])
    BY <1>3, <1>4, <1>7 DEF Good, Kept
  <2>2. HandlerOK(at'[p], journal[active[p]], ops[active[p]].mode, candidate[active[p]], b,
                  issued[p], revoked[p])
    BY <1>1, <1>3, <1>4, <1>9 DEF Good, HandlerOK
  <2> QED
    BY <1>3, <1>9, <2>1, <2>2 DEF Good, ExchangeOK
<1>12. bundle'[p] # NoBundle => bundle'[p].g \in 1..issued'[p]
  BY <1>2, <1>4, <1>7, <1>8 DEF Inv, StoredOK
<1> QED
  BY <1>1, <1>2, <1>8, <1>9, <1>10, <1>11, <1>12, OpenStep

LEMMA CallRevokeStep ==
  ASSUME NEW p, Providers = {p}, Inv(p), CallRevoke(p)
  PROVE  Inv(p)'
<1>1. at[p].pc = "call" /\ active[p] # 0 /\ at[p].op = active[p]
  BY DEF CallRevoke, Inv, FenceOK
<1>2. UNCHANGED <<epoch, active, ops, journal, candidate, intents, receipts, bundle,
                  activation, selection, attempt, exch, boot, issued, faults>>
  BY DEF CallRevoke, authority, records, product, memory
<1>3. PICK g : g = IF journal[active[p]].leg = "candidate" THEN candidate[active[p]].g
                   ELSE bundle[p].g
  OBVIOUS
<1>4. PICK ok \in BOOLEAN :
        /\ at' = [at EXCEPT ![p] = [@ EXCEPT !.pc = "outcome", !.ok = ok]]
        /\ \/ revoked' = [revoked EXCEPT ![p] = @ \cup {g}]
           \/ ~ok /\ revoked' = revoked
  BY <1>1, <1>3 DEF CallRevoke
<1>5. Good(at[p], journal[active[p]], ops[active[p]].mode, candidate[active[p]],
           bundle[p], exch[p], active[p], issued[p], revoked[p])
  BY <1>1, OpenFacts
<1>6. /\ journal[active[p]].phase = "revoke_in_flight"
      /\ g \in 1..issued[p] /\ Unrevoked(issued[p], revoked[p]) \subseteq {g}
  BY <1>1, <1>3, <1>5 DEF Good, Kept, HandlerOK, Inv, StoredOK
<1>7. PICK h \in Handlers : /\ h = [at[p] EXCEPT !.pc = "outcome", !.ok = ok]
                            /\ h.pc = "outcome" /\ h.ok = ok /\ h.op = active[p]
  <2>1. PICK h : h = [at[p] EXCEPT !.pc = "outcome", !.ok = ok]
    OBVIOUS
  <2>2. PICK old \in Handlers : old = at[p] /\ old.op = active[p]
    BY <1>1, OpenFacts
  <2>3. h = [old EXCEPT !.pc = "outcome", !.ok = ok] /\ "outcome" \in Pcs /\ ok \in BOOLEAN
    BY <2>1, <2>2 DEF Pcs
  <2>4. h \in Handlers /\ h.pc = "outcome" /\ h.ok = ok /\ h.op = active[p]
    BY <2>2, <2>3 DEF Handlers
  <2> QED
    BY <2>1, <2>4
<1>8. at' \in [Providers -> Handlers] /\ at'[p] = h
  BY <1>4, <1>7 DEF Inv, TypeOK
<1>9. /\ revoked' \in [Providers -> SUBSET Nat] /\ revoked[p] \subseteq revoked'[p]
      /\ revoked'[p] \subseteq 1..issued[p] /\ (ok => revoked'[p] = revoked[p] \cup {g})
  <2>1. /\ revoked \in [Providers -> SUBSET Nat] /\ revoked[p] \subseteq 1..issued[p]
        /\ issued[p] \in Nat
    BY <1>1, OpenFacts DEF Inv, TypeOK
  <2>2. CASE revoked' = [revoked EXCEPT ![p] = @ \cup {g}]
    <3>1. revoked'[p] = revoked[p] \cup {g} /\ g \in Nat
      BY <1>6, <2>1, <2>2
    <3> QED
      BY <1>6, <2>1, <2>2, <3>1
  <2>3. CASE ~ok /\ revoked' = revoked
    BY <2>1, <2>3
  <2> QED
    BY <1>4, <2>2, <2>3
<1>10. /\ Unrevoked(issued[p], revoked'[p]) \subseteq {g}
       /\ ok => Unrevoked(issued[p], revoked'[p]) = {}
  BY <1>6, <1>9 DEF Unrevoked
<1>11. TypeOK'
  BY <1>2, <1>8, <1>9 DEF Inv, TypeOK
<1>12. Good(h, journal[active[p]], ops[active[p]].mode, candidate[active[p]],
            bundle[p], exch[p], active[p], issued[p], revoked'[p])
  <2>1. Kept(journal[active[p]], ops[active[p]].mode, candidate[active[p]], bundle[p],
             issued[p], revoked'[p])
    <3>1. /\ journal[active[p]].leg = "candidate" =>
               /\ bundle[p] = NoBundle /\ candidate[active[p]] \in Candidate
               /\ candidate[active[p]].state \in {"bearing", "unknown"}
               /\ g = candidate[active[p]].g
          /\ journal[active[p]].leg # "candidate" => bundle[p] # NoBundle /\ g = bundle[p].g
      BY <1>3, <1>5, <1>6 DEF Good, Kept
    <3> QED
      BY <1>6, <1>10, <3>1 DEF Kept
  <2>2. HandlerOK(h, journal[active[p]], ops[active[p]].mode, candidate[active[p]],
                  bundle[p], issued[p], revoked'[p])
    BY <1>6, <1>7, <1>10 DEF HandlerOK
  <2> QED
    BY <1>5, <1>6, <2>1, <2>2 DEF Good, ExchangeOK
<1>13. bundle'[p] # NoBundle => bundle'[p].g \in 1..issued'[p]
  BY <1>2 DEF Inv, StoredOK
<1> QED
  BY <1>1, <1>2, <1>7, <1>8, <1>11, <1>12, <1>13, OpenStep

\* The handler's new place.
Place(p, h) ==
  /\ h \in Handlers /\ at' = [at EXCEPT ![p] = h]
  /\ h.pc \notin {"clean", "release"} /\ (h.pc # "idle" => h.op = active[p])

\* A step that writes the candidate.
LEMMA CandidateStep ==
  ASSUME NEW p, Providers = {p}, Inv(p), active[p] # 0, NEW h, Place(p, h),
         NEW c \in Candidate, candidate' = [candidate EXCEPT ![active[p]] = c],
         UNCHANGED <<epoch, active, ops, journal, intents, receipts, bundle, activation,
                     selection, attempt, exch, boot, issued, revoked, faults>>,
         Good(h, journal[active[p]], ops[active[p]].mode, c, bundle[p], exch[p], active[p],
              issued[p], revoked[p])
  PROVE  Inv(p)'
<1>1. active[p] \in 1..MaxOps
  BY OpenFacts
<1>2. /\ candidate' \in [1..MaxOps -> Candidate \cup {NoCandidate}]
      /\ candidate'[active[p]] = c
  BY <1>1 DEF Inv, TypeOK
<1>3. at' \in [Providers -> Handlers] /\ at'[p] = h
  BY DEF Inv, TypeOK, Place
<1>4. TypeOK'
  BY <1>2, <1>3 DEF Inv, TypeOK
<1>5. bundle'[p] # NoBundle => bundle'[p].g \in 1..issued'[p]
  BY DEF Inv, StoredOK
<1> QED
  BY <1>2, <1>3, <1>4, <1>5, OpenStep DEF Place

\* A step that writes the product state or an intent.
LEMMA ProductStep ==
  ASSUME NEW p, Providers = {p}, Inv(p), active[p] # 0, NEW h, Place(p, h),
         NEW b \in Bundle \cup {NoBundle}, bundle' = [bundle EXCEPT ![p] = b],
         b # NoBundle => b.g \in 1..issued[p],
         activation' \in [Providers -> 0..MaxGrants],
         selection' \in Selectable \cup {Nobody}, intents' \subseteq 1..Len(ops),
         UNCHANGED <<epoch, active, ops, journal, candidate, receipts, attempt, exch, boot,
                     issued, revoked, faults>>,
         Good(h, journal[active[p]], ops[active[p]].mode, candidate[active[p]], b, exch[p],
              active[p], issued[p], revoked[p])
  PROVE  Inv(p)'
<1>1. bundle' \in [Providers -> Bundle \cup {NoBundle}] /\ bundle'[p] = b
  BY DEF Inv, TypeOK
<1>2. at' \in [Providers -> Handlers] /\ at'[p] = h
  BY DEF Inv, TypeOK, Place
<1>3. TypeOK'
  BY <1>1, <1>2 DEF Inv, TypeOK
<1> QED
  BY <1>1, <1>2, <1>3, OpenStep DEF Place

\* Going on to the next write.
LEMMA GotoPlace ==
  ASSUME NEW p, Providers = {p}, Inv(p), at[p].op = active[p], NEW pc \in Pcs,
         pc \notin {"clean", "release"}, Goto(p, pc)
  PROVE  \E h \in Handlers : /\ Place(p, h) /\ h.pc = pc /\ h.op = active[p]
                             /\ h.g = at[p].g /\ h.ok = at[p].ok /\ h.how = at[p].how
<1>1. at[p] \in Handlers
  BY DEF Inv, TypeOK
<1>2. PICK h : h = [at[p] EXCEPT !.pc = pc]
  OBVIOUS
<1>3. /\ h \in Handlers /\ h.pc = pc /\ h.op = active[p]
      /\ h.g = at[p].g /\ h.ok = at[p].ok /\ h.how = at[p].how
  BY <1>1, <1>2 DEF Handlers
<1>4. Place(p, h)
  BY <1>2, <1>3 DEF Goto, Place
<1> QED
  BY <1>3, <1>4

LEMMA ReturnPlace ==
  ASSUME NEW p, Providers = {p}, Return(p)
  PROVE  Place(p, Idle)
BY IdleHandler DEF Return, Place

\* What stays as it is when a step does not write it.
LEMMA Same ==
  ASSUME NEW p, Providers = {p}, Inv(p)
  PROVE  /\ bundle = [bundle EXCEPT ![p] = bundle[p]]
         /\ bundle[p] \in Bundle \cup {NoBundle}
         /\ bundle[p] # NoBundle => bundle[p].g \in 1..issued[p]
         /\ activation \in [Providers -> 0..MaxGrants]
         /\ selection \in Selectable \cup {Nobody} /\ intents \subseteq 1..Len(ops)
BY DEF Inv, TypeOK, StoredOK

LEMMA PutCandidateStateStep ==
  ASSUME NEW p, Providers = {p}, Inv(p), PutCandidateState(p)
  PROVE  Inv(p)'
<1>1. at[p].pc = "candidate_state" /\ active[p] # 0 /\ at[p].op = active[p]
  BY DEF PutCandidateState, Inv, FenceOK
<1>2. Good(at[p], journal[active[p]], ops[active[p]].mode, candidate[active[p]],
           bundle[p], exch[p], active[p], issued[p], revoked[p])
  BY <1>1, OpenFacts
<1>3. /\ candidate[active[p]] \in Candidate /\ journal[active[p]].leg = "candidate"
      /\ journal[active[p]].phase = IF at[p].ok THEN "revoked_pending" ELSE "revoke_unknown"
  BY <1>1, <1>2 DEF Good, HandlerOK
<1>4. PICK s \in {"cleaned", "unknown"} : s = IF at[p].ok THEN "cleaned" ELSE "unknown"
  OBVIOUS
<1>5. PICK c : c = [candidate[active[p]] EXCEPT !.state = s]
  OBVIOUS
<1>6. c \in Candidate /\ c.g = candidate[active[p]].g /\ c.state = s
  BY <1>3, <1>4, <1>5 DEF Candidate
<1>7. candidate' = [candidate EXCEPT ![active[p]] = c]
  BY <1>1, <1>4, <1>5 DEF PutCandidateState
<1>8. UNCHANGED <<epoch, active, ops, journal, intents, receipts, bundle, activation,
                  selection, attempt, exch, boot, issued, revoked, faults>>
  BY DEF PutCandidateState, authority, product, memory, truth
<1>9. CASE at[p].ok
  <2>1. Goto(p, "candidate_checkpoint") /\ journal[active[p]].phase = "revoked_pending"
    BY <1>3, <1>9 DEF PutCandidateState
  <2>2. PICK h \in Handlers : Place(p, h) /\ h.pc = "candidate_checkpoint"
    BY <1>1, <2>1, GotoPlace DEF Pcs
  <2>3. Good(h, journal[active[p]], ops[active[p]].mode, c, bundle[p], exch[p], active[p],
             issued[p], revoked[p])
    BY <1>2, <1>3, <2>1, <2>2 DEF Good, Kept, HandlerOK, ExchangeOK
  <2> QED
    BY <1>1, <1>6, <1>7, <1>8, <2>2, <2>3, CandidateStep
<1>10. CASE ~at[p].ok
  <2>1. Place(p, Idle) /\ journal[active[p]].phase = "revoke_unknown" /\ s = "unknown"
    BY <1>3, <1>4, <1>10, ReturnPlace DEF PutCandidateState
  <2>2. Good(Idle, journal[active[p]], ops[active[p]].mode, c, bundle[p], exch[p], active[p],
             issued[p], revoked[p])
    BY <1>2, <1>3, <1>6, <2>1, IdleHandler DEF Good, Kept, HandlerOK, ExchangeOK
  <2> QED
    BY <1>1, <1>6, <1>7, <1>8, <2>1, <2>2, CandidateStep
<1> QED
  BY <1>9, <1>10

LEMMA WipeActivationStep ==
  ASSUME NEW p, Providers = {p}, Inv(p), WipeActivation(p)
  PROVE  Inv(p)'
<1>1. at[p].pc = "wipe" /\ active[p] # 0 /\ at[p].op = active[p]
  BY DEF WipeActivation, Inv, FenceOK
<1>2. PICK h \in Handlers : Place(p, h) /\ h.pc = "wipe_bundle"
  <2>1. PICK h : h = [at[p] EXCEPT !.pc = "wipe_bundle", !.gate = TRUE]
    OBVIOUS
  <2>2. PICK old \in Handlers : old = at[p] /\ old.op = active[p]
    BY <1>1, OpenFacts
  <2>3. h = [old EXCEPT !.pc = "wipe_bundle", !.gate = TRUE] /\ "wipe_bundle" \in Pcs
    BY <2>1, <2>2 DEF Pcs
  <2>4. h \in Handlers /\ h.pc = "wipe_bundle" /\ h.op = active[p]
    BY <2>2, <2>3 DEF Handlers
  <2> QED
    BY <2>1, <2>4 DEF WipeActivation, Place
<1>3. /\ activation' \in [Providers -> 0..MaxGrants]
      /\ UNCHANGED <<epoch, active, ops, journal, candidate, intents, receipts, bundle,
                     selection, attempt, exch, boot, issued, revoked, faults>>
  BY Numbers DEF WipeActivation, authority, records, memory, truth, Inv, TypeOK
<1>4. Good(at[p], journal[active[p]], ops[active[p]].mode, candidate[active[p]],
           bundle[p], exch[p], active[p], issued[p], revoked[p])
  BY <1>1, OpenFacts
<1>5. Good(h, journal[active[p]], ops[active[p]].mode, candidate[active[p]],
           bundle[p], exch[p], active[p], issued[p], revoked[p])
  BY <1>1, <1>2, <1>4 DEF Good, HandlerOK, ExchangeOK
<1> QED
  BY <1>1, <1>2, <1>3, <1>5, Same, ProductStep

LEMMA WipeBundleStep ==
  ASSUME NEW p, Providers = {p}, Inv(p), WipeBundle(p)
  PROVE  Inv(p)'
<1>1. at[p].pc = "wipe_bundle" /\ active[p] # 0 /\ at[p].op = active[p]
  BY DEF WipeBundle, Inv, FenceOK
<1>2. /\ Goto(p, "wipe_selection") /\ bundle' = [bundle EXCEPT ![p] = NoBundle]
      /\ UNCHANGED <<epoch, active, ops, journal, candidate, intents, receipts, activation,
                     selection, attempt, exch, boot, issued, revoked, faults>>
  BY DEF WipeBundle, authority, records, memory, truth
<1>3. PICK h \in Handlers : Place(p, h) /\ h.pc = "wipe_selection"
  BY <1>1, <1>2, GotoPlace DEF Pcs
<1>4. Good(at[p], journal[active[p]], ops[active[p]].mode, candidate[active[p]],
           bundle[p], exch[p], active[p], issued[p], revoked[p])
  BY <1>1, OpenFacts
<1>5. Good(h, journal[active[p]], ops[active[p]].mode, candidate[active[p]],
           NoBundle, exch[p], active[p], issued[p], revoked[p])
  BY <1>1, <1>3, <1>4 DEF Good, Kept, HandlerOK, ExchangeOK
<1> QED
  BY <1>1, <1>2, <1>3, <1>5, Same, ProductStep

LEMMA WipeSelectionStep ==
  ASSUME NEW p, Providers = {p}, Inv(p), WipeSelection(p)
  PROVE  Inv(p)'
<1>1. at[p].pc = "wipe_selection" /\ active[p] # 0 /\ at[p].op = active[p]
  BY DEF WipeSelection, Inv, FenceOK
<1>2. PICK pc \in Pcs : pc = IF journal[active[p]].phase = "candidate_validation"
                             THEN "interrupted" ELSE "checkpoint"
  BY DEF Pcs
<1>3. /\ Goto(p, pc) /\ selection' \in Selectable \cup {Nobody}
      /\ UNCHANGED <<epoch, active, ops, journal, candidate, intents, receipts, bundle,
                     activation, attempt, exch, boot, issued, revoked, faults>>
  BY <1>1, <1>2, Same DEF WipeSelection, authority, records, memory, truth
<1>4. PICK h \in Handlers : Place(p, h) /\ h.pc = pc
  BY <1>1, <1>2, <1>3, GotoPlace
<1>5. Good(at[p], journal[active[p]], ops[active[p]].mode, candidate[active[p]],
           bundle[p], exch[p], active[p], issued[p], revoked[p])
  BY <1>1, OpenFacts
<1>6. Good(h, journal[active[p]], ops[active[p]].mode, candidate[active[p]],
           bundle[p], exch[p], active[p], issued[p], revoked[p])
  BY <1>1, <1>2, <1>4, <1>5 DEF Good, HandlerOK, ExchangeOK
<1> QED
  BY <1>1, <1>3, <1>4, <1>6, Same, ProductStep

LEMMA PutIntentStep ==
  ASSUME NEW p, Providers = {p}, Inv(p), PutIntent(p)
  PROVE  Inv(p)'
<1>1. at[p].pc = "intent" /\ active[p] # 0 /\ at[p].op = active[p]
  BY DEF PutIntent, Inv, FenceOK
<1>2. /\ Goto(p, "exchange") /\ intents' = intents \cup {at[p].op}
      /\ UNCHANGED <<epoch, active, ops, journal, candidate, receipts, bundle, activation,
                     selection, attempt, exch, boot, issued, revoked, faults>>
  BY DEF PutIntent, authority, product, memory, truth
<1>3. intents' \subseteq 1..Len(ops)
  BY <1>1, <1>2, Same, OpenFacts
<1>4. PICK h \in Handlers : Place(p, h) /\ h.pc = "exchange"
  BY <1>1, <1>2, GotoPlace DEF Pcs
<1>5. Good(at[p], journal[active[p]], ops[active[p]].mode, candidate[active[p]],
           bundle[p], exch[p], active[p], issued[p], revoked[p])
  BY <1>1, OpenFacts
<1>6. Good(h, journal[active[p]], ops[active[p]].mode, candidate[active[p]],
           bundle[p], exch[p], active[p], issued[p], revoked[p])
  BY <1>4, <1>5 DEF Good, HandlerOK, ExchangeOK
<1> QED
  BY <1>1, <1>2, <1>3, <1>4, <1>6, Same, ProductStep

LEMMA DropIntentStep ==
  ASSUME NEW p, Providers = {p}, Inv(p), DropIntent(p)
  PROVE  Inv(p)'
<1>1. at[p].pc = "drop_intent" /\ active[p] # 0 /\ at[p].op = active[p]
  BY DEF DropIntent, Inv, FenceOK
<1>2. /\ Goto(p, "validate") /\ intents' = intents \ {at[p].op}
      /\ UNCHANGED <<epoch, active, ops, journal, candidate, receipts, bundle, activation,
                     selection, attempt, exch, boot, issued, revoked, faults>>
  BY DEF DropIntent, authority, product, memory, truth
<1>3. intents' \subseteq 1..Len(ops)
  BY <1>2, Same
<1>4. PICK h \in Handlers : Place(p, h) /\ h.pc = "validate" /\ h.g = at[p].g
  BY <1>1, <1>2, GotoPlace DEF Pcs
<1>5. Good(at[p], journal[active[p]], ops[active[p]].mode, candidate[active[p]],
           bundle[p], exch[p], active[p], issued[p], revoked[p])
  BY <1>1, OpenFacts
<1>6. Good(h, journal[active[p]], ops[active[p]].mode, candidate[active[p]],
           bundle[p], exch[p], active[p], issued[p], revoked[p])
  BY <1>1, <1>4, <1>5 DEF Good, HandlerOK, ExchangeOK
<1> QED
  BY <1>1, <1>2, <1>3, <1>4, <1>6, Same, ProductStep

LEMMA PutCandidateStep ==
  ASSUME NEW p, Providers = {p}, Inv(p), PutCandidate(p)
  PROVE  Inv(p)'
<1>1. at[p].pc = "candidate" /\ active[p] # 0 /\ at[p].op = active[p]
  BY DEF PutCandidate, Inv, FenceOK
<1>2. PICK c : c = [g |-> at[p].g, state |-> "bearing", gen |-> 0]
  OBVIOUS
<1>3. c \in Candidate
  BY <1>1, <1>2, OpenFacts DEF Candidate, Handlers
<1>4. /\ Goto(p, "stored") /\ candidate' = [candidate EXCEPT ![active[p]] = c]
      /\ UNCHANGED <<epoch, active, ops, journal, intents, receipts, bundle, activation,
                     selection, attempt, exch, boot, issued, revoked, faults>>
  BY <1>1, <1>2 DEF PutCandidate, authority, product, memory, truth
<1>5. PICK h \in Handlers : Place(p, h) /\ h.pc = "stored" /\ h.g = at[p].g
  BY <1>1, <1>4, GotoPlace DEF Pcs
<1>6. Good(at[p], journal[active[p]], ops[active[p]].mode, candidate[active[p]],
           bundle[p], exch[p], active[p], issued[p], revoked[p])
  BY <1>1, OpenFacts
<1>7. Good(h, journal[active[p]], ops[active[p]].mode, c, bundle[p], exch[p], active[p],
           issued[p], revoked[p])
  BY <1>1, <1>2, <1>5, <1>6 DEF Good, Kept, HandlerOK, ExchangeOK
<1> QED
  BY <1>1, <1>3, <1>4, <1>5, <1>7, CandidateStep

LEMMA AcceptIdentityStep ==
  ASSUME NEW p, Providers = {p}, Inv(p), AcceptIdentity(p)
  PROVE  Inv(p)'
<1>1. at[p].pc = "judge" /\ active[p] # 0 /\ at[p].op = active[p]
  BY DEF AcceptIdentity, Inv, FenceOK
<1>2. Good(at[p], journal[active[p]], ops[active[p]].mode, candidate[active[p]],
           bundle[p], exch[p], active[p], issued[p], revoked[p])
  BY <1>1, OpenFacts
<1>3. /\ journal[active[p]].phase = "candidate_validation" /\ bundle[p] = NoBundle
      /\ at[p].g = candidate[active[p]].g
      /\ Bears(candidate[active[p]], issued[p], revoked[p])
  BY <1>1, <1>2 DEF Good, Kept, HandlerOK
<1>4. PICK c : c = [candidate[active[p]] EXCEPT !.gen = at[p].g]
  OBVIOUS
<1>5. /\ c \in Candidate /\ c.g = candidate[active[p]].g /\ c.gen = c.g
      /\ c.state = "bearing"
  BY <1>3, <1>4 DEF Candidate, Bears
<1>6. /\ Goto(p, "bundle") /\ candidate' = [candidate EXCEPT ![active[p]] = c]
      /\ UNCHANGED <<epoch, active, ops, journal, intents, receipts, bundle, activation,
                     selection, attempt, exch, boot, issued, revoked, faults>>
  BY <1>1, <1>4 DEF AcceptIdentity, authority, product, memory, truth
<1>7. PICK h \in Handlers : Place(p, h) /\ h.pc = "bundle" /\ h.g = at[p].g
  BY <1>1, <1>6, GotoPlace DEF Pcs
<1>8. Bears(c, issued[p], revoked[p])
  BY <1>3, <1>5 DEF Bears
<1>9. Good(h, journal[active[p]], ops[active[p]].mode, c, bundle[p], exch[p], active[p],
           issued[p], revoked[p])
  BY <1>2, <1>3, <1>5, <1>7, <1>8 DEF Good, Kept, HandlerOK, ExchangeOK
<1> QED
  BY <1>1, <1>5, <1>6, <1>7, <1>9, CandidateStep

LEMMA PutBundleStep ==
  ASSUME NEW p, Providers = {p}, Inv(p), PutBundle(p)
  PROVE  Inv(p)'
<1>1. at[p].pc = "bundle" /\ active[p] # 0 /\ at[p].op = active[p]
  BY DEF PutBundle, Inv, FenceOK
<1>2. Good(at[p], journal[active[p]], ops[active[p]].mode, candidate[active[p]],
           bundle[p], exch[p], active[p], issued[p], revoked[p])
  BY <1>1, OpenFacts
<1>3. /\ journal[active[p]].phase = "candidate_validation"
      /\ at[p].g = candidate[active[p]].g /\ candidate[active[p]].gen = at[p].g
      /\ Bears(candidate[active[p]], issued[p], revoked[p])
  BY <1>1, <1>2 DEF Good, Kept, HandlerOK
<1>4. PICK b : b = [g |-> at[p].g, life |-> "active"]
  OBVIOUS
<1>5. b \in Bundle /\ b.g \in 1..issued[p] /\ b.life = "active"
  BY <1>1, <1>3, <1>4, OpenFacts DEF Bundle, Bears, Unrevoked
<1>6. b # NoBundle
  BY <1>5 DEF NoBundle
<1>7. PICK h \in Handlers : Place(p, h) /\ h.pc = "activate" /\ h.g = at[p].g
  <2>1. PICK h : h = [at[p] EXCEPT !.pc = "activate", !.gate = TRUE]
    OBVIOUS
  <2>2. PICK old \in Handlers : old = at[p] /\ old.op = active[p]
    BY <1>1, OpenFacts
  <2>3. h = [old EXCEPT !.pc = "activate", !.gate = TRUE] /\ "activate" \in Pcs
    BY <2>1, <2>2 DEF Pcs
  <2>4. h \in Handlers /\ h.pc = "activate" /\ h.op = active[p] /\ h.g = at[p].g
    BY <2>2, <2>3 DEF Handlers
  <2> QED
    BY <1>1, <2>1, <2>4 DEF PutBundle, Place
<1>8. /\ bundle' = [bundle EXCEPT ![p] = b]
      /\ UNCHANGED <<epoch, active, ops, journal, candidate, intents, receipts, activation,
                     selection, attempt, exch, boot, issued, revoked, faults>>
  BY <1>1, <1>4 DEF PutBundle, authority, records, memory, truth
<1>9. Good(h, journal[active[p]], ops[active[p]].mode, candidate[active[p]],
           b, exch[p], active[p], issued[p], revoked[p])
  BY <1>2, <1>3, <1>4, <1>6, <1>7 DEF Good, Kept, HandlerOK, ExchangeOK
<1> QED
  BY <1>1, <1>5, <1>7, <1>8, <1>9, Same, ProductStep

LEMMA PutActivationStep ==
  ASSUME NEW p, Providers = {p}, Inv(p), PutActivation(p)
  PROVE  Inv(p)'
<1>1. at[p].pc = "activate" /\ active[p] # 0 /\ at[p].op = active[p]
  BY DEF PutActivation, Inv, FenceOK
<1>2. /\ Goto(p, "select") /\ activation' = [activation EXCEPT ![p] = at[p].g]
      /\ UNCHANGED <<epoch, active, ops, journal, candidate, intents, receipts, bundle,
                     selection, attempt, exch, boot, issued, revoked, faults>>
  BY DEF PutActivation, authority, records, memory, truth
<1>3. PICK h \in Handlers : Place(p, h) /\ h.pc = "select" /\ h.g = at[p].g
  BY <1>1, <1>2, GotoPlace DEF Pcs
<1>4. Good(at[p], journal[active[p]], ops[active[p]].mode, candidate[active[p]],
           bundle[p], exch[p], active[p], issued[p], revoked[p])
  BY <1>1, OpenFacts
<1>5. at[p].g \in 1..issued[p]
  BY <1>1, <1>4 DEF Good, Kept, HandlerOK, Bears, Unrevoked
<1>6. at[p].g \in 0..MaxGrants
  <2>1. issued[p] \in 0..MaxGrants
    BY DEF Inv, TypeOK
  <2> QED
    BY <1>5, <2>1, Numbers
<1>7. activation' \in [Providers -> 0..MaxGrants]
  BY <1>2, <1>6 DEF Inv, TypeOK
<1>8. Good(h, journal[active[p]], ops[active[p]].mode, candidate[active[p]],
           bundle[p], exch[p], active[p], issued[p], revoked[p])
  BY <1>1, <1>3, <1>4 DEF Good, HandlerOK, ExchangeOK
<1> QED
  BY <1>1, <1>2, <1>3, <1>7, <1>8, Same, ProductStep

LEMMA PutSelectionStep ==
  ASSUME NEW p, Providers = {p}, Inv(p), PutSelection(p)
  PROVE  Inv(p)'
<1>1. at[p].pc = "select" /\ active[p] # 0 /\ at[p].op = active[p]
  BY DEF PutSelection, Inv, FenceOK
<1>2. /\ Goto(p, "complete") /\ selection' = p
      /\ UNCHANGED <<epoch, active, ops, journal, candidate, intents, receipts, bundle,
                     activation, attempt, exch, boot, issued, revoked, faults>>
  BY DEF PutSelection, authority, records, memory, truth
<1>3. PICK h \in Handlers : Place(p, h) /\ h.pc = "complete" /\ h.g = at[p].g
  BY <1>1, <1>2, GotoPlace DEF Pcs
<1>4. Good(at[p], journal[active[p]], ops[active[p]].mode, candidate[active[p]],
           bundle[p], exch[p], active[p], issued[p], revoked[p])
  BY <1>1, OpenFacts
<1>5. selection' \in Selectable \cup {Nobody}
  BY <1>2, ConstantsOK
<1>6. Good(h, journal[active[p]], ops[active[p]].mode, candidate[active[p]],
           bundle[p], exch[p], active[p], issued[p], revoked[p])
  BY <1>1, <1>3, <1>4 DEF Good, HandlerOK, ExchangeOK
<1> QED
  BY <1>1, <1>2, <1>3, <1>5, <1>6, Same, ProductStep

LEMMA PromoteStep ==
  ASSUME NEW p, Providers = {p}, Inv(p), Promote(p)
  PROVE  Inv(p)'
<1>1. at[p].pc = "promote" /\ active[p] # 0 /\ at[p].op = active[p]
  BY DEF Promote, Inv, FenceOK
<1>2. Good(at[p], journal[active[p]], ops[active[p]].mode, candidate[active[p]],
           bundle[p], exch[p], active[p], issued[p], revoked[p])
  BY <1>1, OpenFacts
<1>3. journal[active[p]].phase = "completed" /\ candidate[active[p]] \in Candidate
  BY <1>1, <1>2 DEF Good, Kept, HandlerOK
<1>4. PICK c : c = [candidate[active[p]] EXCEPT !.state = "promoted"]
  OBVIOUS
<1>5. c \in Candidate /\ c.g = candidate[active[p]].g
  BY <1>3, <1>4 DEF Candidate
<1>6. /\ Goto(p, "receipt") /\ candidate' = [candidate EXCEPT ![active[p]] = c]
      /\ UNCHANGED <<epoch, active, ops, journal, intents, receipts, bundle, activation,
                     selection, attempt, exch, boot, issued, revoked, faults>>
  BY <1>1, <1>4 DEF Promote, authority, product, memory, truth
<1>7. PICK h \in Handlers : Place(p, h) /\ h.pc = "receipt"
  BY <1>1, <1>6, GotoPlace DEF Pcs
<1>8. Good(h, journal[active[p]], ops[active[p]].mode, c, bundle[p], exch[p], active[p],
           issued[p], revoked[p])
  BY <1>2, <1>3, <1>5, <1>7 DEF Good, Kept, HandlerOK, ExchangeOK
<1> QED
  BY <1>1, <1>5, <1>6, <1>7, <1>8, CandidateStep

-----------------------------------------------------------------------------
(* The beginning and the end of an operation *)

\* A step with no operation open.
LEMMA RestStep ==
  ASSUME NEW p, Providers = {p}, Inv(p), active[p] = 0, TypeOK',
         UNCHANGED <<epoch, active, ops, receipts, bundle, issued, revoked>>,
         \A k \in 1..MaxOps : k > Len(ops) => journal'[k] = NoJournal,
         at'[p].pc \in {"idle", "clean"}, exch'[p].st \notin {"asked", "answered"}
  PROVE  Inv(p)'
<1>1. ReceiptsOK(p)'
  BY DEF Inv, ReceiptsOK, OneOperationPerRequest
<1>2. FenceOK(p)'
  BY DEF Inv, FenceOK
<1>3. OpenOK(p)'
  BY DEF Inv, OpenOK, Rest
<1>4. StoredOK(p)'
  BY DEF Inv, StoredOK
<1> QED
  BY <1>1, <1>2, <1>3, <1>4 DEF Inv

LEMMA PutReceiptStep ==
  ASSUME NEW p, Providers = {p}, Inv(p), PutReceipt(p)
  PROVE  Inv(p)'
<1>1. at[p].pc = "receipt" /\ active[p] # 0 /\ at[p].op = active[p]
  BY DEF PutReceipt, Inv, FenceOK
<1>2. UNCHANGED <<epoch, active, ops, journal, candidate, intents, bundle, activation,
                  selection, attempt, exch, boot, issued, revoked, faults>>
  BY DEF PutReceipt, authority, product, memory, truth
<1>3. PICK n \in Nat : n = active[p] /\ n \in 1..Len(ops)
  BY <1>1, OpenFacts
<1>4. PICK o \in Op : o = ops[n] /\ o.p = p
  BY <1>1, <1>3, OpenFacts
<1>5. PICK r : r = [op |-> n, p |-> p, req |-> o.req, route |-> Route(o.mode),
                    code |-> Code(journal[n].phase)]
  OBVIOUS
<1>6. /\ r \in Receipt /\ r.op = n /\ r.p = p /\ r.req = o.req /\ r.route = Route(o.mode)
  <2>1. Route(o.mode) \in {"logout", "start"}
    BY DEF Route
  <2>2. Code(journal[n].phase) \in {"disconnected", "connected", "failed"}
    BY DEF Code
  <2>3. n \in Nat /\ p \in Providers /\ o.req \in Requests
    BY <1>4 DEF Op
  <2> QED
    BY <1>5, <2>1, <2>2, <2>3 DEF Receipt
<1>7. receipts' = receipts \/ (receipts' = receipts \cup {r} /\ \A q \in receipts : q.op # n)
  BY <1>1, <1>3, <1>4, <1>5 DEF PutReceipt
<1>8. PICK h \in Handlers : /\ h = [at[p] EXCEPT !.pc = "release", !.copy = authority]
                            /\ h.pc = "release" /\ h.op = n /\ h.copy = <<epoch, active>>
  <2>1. PICK h : h = [at[p] EXCEPT !.pc = "release", !.copy = authority]
    OBVIOUS
  <2>2. PICK cp : cp = <<epoch, active>>
    OBVIOUS
  <2>3. cp \in Nat \X [Providers -> Nat]
    BY <1>1, <2>2, OpenFacts DEF Inv, TypeOK
  <2>4. PICK old \in Handlers : old = at[p] /\ old.op = n
    BY <1>1, <1>3, OpenFacts
  <2>5. h = [old EXCEPT !.pc = "release", !.copy = cp] /\ "release" \in Pcs
    BY <2>1, <2>2, <2>4 DEF Pcs, authority
  <2>6. h \in Handlers /\ h.pc = "release" /\ h.op = n /\ h.copy = cp
    BY <2>3, <2>4, <2>5 DEF Handlers
  <2> QED
    BY <2>1, <2>2, <2>6
<1>9. at' = [at EXCEPT ![p] = h]
  BY <1>1, <1>8, OpenFacts DEF PutReceipt
<1>10. at' \in [Providers -> Handlers] /\ at'[p] = h
  BY <1>9 DEF Inv, TypeOK
<1>11. receipts' \subseteq Receipt
  BY <1>6, <1>7 DEF Inv, TypeOK
<1>12. TypeOK'
  BY <1>2, <1>10, <1>11 DEF Inv, TypeOK
<1>13. ReceiptsOK(p)'
  <2>1. \A q \in receipts :
          /\ q.op \in 1..Len(ops)
          /\ q.p = p /\ q.req = o.req /\ q.route = Route(o.mode) => q.op = n
    BY <1>1, <1>3, <1>4 DEF Inv, ReceiptsOK
  <2>2. \A q, s \in receipts :
          q.p = s.p /\ q.req = s.req /\ q.route = s.route => q.op = s.op
    BY DEF Inv, ReceiptsOK, OneOperationPerRequest
  <2>3. \A q \in receipts' :
          /\ q.op \in 1..Len(ops)
          /\ q.p = p /\ q.req = o.req /\ q.route = Route(o.mode) => q.op = n
    BY <1>3, <1>6, <1>7, <2>1
  <2>4. \A q, s \in receipts' :
          q.p = s.p /\ q.req = s.req /\ q.route = s.route => q.op = s.op
    BY <1>6, <1>7, <2>1, <2>2
  <2> QED
    BY <1>2, <1>3, <1>4, <2>3, <2>4 DEF ReceiptsOK, OneOperationPerRequest
<1>14. FenceOK(p)'
  BY <1>1, <1>2, <1>3, <1>8, <1>10 DEF Inv, FenceOK
<1>15. Good(at[p], journal[active[p]], ops[active[p]].mode, candidate[active[p]],
            bundle[p], exch[p], active[p], issued[p], revoked[p])
  BY <1>1, OpenFacts
<1>16. Good(h, journal[active[p]], ops[active[p]].mode, candidate[active[p]],
            bundle[p], exch[p], active[p], issued[p], revoked[p])
  BY <1>1, <1>8, <1>15 DEF Good, HandlerOK, ExchangeOK
<1>17. OpenOK(p)' /\ StoredOK(p)'
  BY <1>1, <1>2, <1>10, <1>16 DEF Inv, OpenOK, StoredOK
<1> QED
  BY <1>12, <1>13, <1>14, <1>17 DEF Inv

\* For one provider the copy that Release writes back is the authority.
LEMMA ReleaseStep ==
  ASSUME NEW p, Providers = {p}, Inv(p), Release(p)
  PROVE  Inv(p)'
<1>1. /\ at[p].pc = "release" /\ active[p] # 0 /\ at[p].op = active[p]
      /\ at[p].copy = <<epoch, active>>
  BY DEF Release, Inv, FenceOK
<1>2. epoch' = epoch /\ active' = [active EXCEPT ![p] = 0]
  BY <1>1 DEF Release
<1>3. UNCHANGED <<ops, journal, candidate, intents, receipts, bundle, activation,
                  selection, attempt, exch, boot, issued, revoked, faults>>
  BY DEF Release, records, product, memory, truth
<1>4. at' \in [Providers -> Handlers] /\ at'[p].pc = "clean"
  <2>1. PICK h : h = [at[p] EXCEPT !.pc = "clean", !.copy = <<>>]
    OBVIOUS
  <2>2. PICK old \in Handlers : old = at[p]
    BY <1>1, OpenFacts
  <2>3. h = [old EXCEPT !.pc = "clean", !.copy = <<>>] /\ "clean" \in Pcs
    BY <2>1, <2>2 DEF Pcs
  <2>4. h \in Handlers /\ h.pc = "clean"
    BY <2>2, <2>3 DEF Handlers
  <2>5. at' = [at EXCEPT ![p] = h]
    BY <2>1 DEF Release
  <2> QED
    BY <2>4, <2>5 DEF Inv, TypeOK
<1>5. active' \in [Providers -> 0..Len(ops)] /\ active'[p] = 0
  BY <1>1, <1>2, OpenFacts DEF Inv, TypeOK
<1>6. TypeOK'
  BY <1>2, <1>3, <1>4, <1>5 DEF Inv, TypeOK
<1>7. Good(at[p], journal[active[p]], ops[active[p]].mode, candidate[active[p]],
           bundle[p], exch[p], active[p], issued[p], revoked[p])
  BY <1>1, OpenFacts
<1>8. Rest(bundle[p], exch[p], issued[p], revoked[p])
  <2>1. journal[active[p]].phase \in {"disconnected", "failed", "completed"}
    BY <1>1, <1>7 DEF Good, HandlerOK
  <2>2. exch[p].st \notin {"asked", "answered"}
    BY <1>7, <2>1 DEF Good, ExchangeOK
  <2>3. CASE journal[active[p]].phase = "completed"
    BY <1>7, <2>2, <2>3 DEF Good, Kept, Rest, Unrevoked
  <2>4. CASE journal[active[p]].phase \in {"disconnected", "failed"}
    BY <1>7, <2>2, <2>4 DEF Good, Kept, Rest
  <2> QED
    BY <2>1, <2>3, <2>4
<1>9. OpenOK(p)' /\ FenceOK(p)' /\ StoredOK(p)'
  BY <1>3, <1>4, <1>5, <1>8 DEF OpenOK, FenceOK, StoredOK, Inv
<1>10. ReceiptsOK(p)'
  BY <1>3, <1>5 DEF Inv, ReceiptsOK, OneOperationPerRequest
<1> QED
  BY <1>6, <1>9, <1>10 DEF Inv

\* The cleanup leaves the records of the open operation.
LEMMA CleanKept ==
  ASSUME NEW p, Providers = {p}, Inv(p), CleanArtifacts(p)
  PROVE  /\ journal' \in [1..MaxOps -> Journal \cup {NoJournal}]
         /\ candidate' \in [1..MaxOps -> Candidate \cup {NoCandidate}]
         /\ intents' \subseteq 1..Len(ops)
         /\ \A k \in 1..MaxOps : k > Len(ops) => journal'[k] = NoJournal
         /\ active[p] # 0 => /\ journal'[active[p]] = journal[active[p]]
                             /\ candidate'[active[p]] = candidate[active[p]]
<1>1. /\ journal \in [1..MaxOps -> Journal \cup {NoJournal}]
      /\ candidate \in [1..MaxOps -> Candidate \cup {NoCandidate}]
      /\ intents \subseteq 1..Len(ops)
      /\ \A k \in 1..MaxOps : k > Len(ops) => journal[k] = NoJournal
  BY DEF Inv, TypeOK, StoredOK
<1>2. CASE UNCHANGED <<journal, candidate, intents>>
  BY <1>1, <1>2
<1>3. CASE /\ journal' = [n \in 1..MaxOps |-> IF n \in EndedOps(p) THEN NoJournal ELSE journal[n]]
           /\ candidate' = [n \in 1..MaxOps |->
                              IF n \in EndedOps(p) THEN NoCandidate ELSE candidate[n]]
           /\ intents' = intents \ EndedOps(p)
  <2>1. active[p] \notin EndedOps(p)
    BY DEF EndedOps, Ended
  <2>2. active[p] # 0 => active[p] \in 1..MaxOps
    BY OpenFacts
  <2> QED
    BY <1>1, <1>3, <2>1, <2>2
<1> QED
  BY <1>2, <1>3 DEF CleanArtifacts

\* A cleanup, after which the handler is idle.
LEMMA CleanStep ==
  ASSUME NEW p, Providers = {p}, Inv(p), CleanArtifacts(p),
         at' \in [Providers -> Handlers], at'[p] = Idle,
         UNCHANGED <<epoch, active, ops, receipts, bundle, activation, selection, attempt,
                     exch, boot, issued, revoked, faults>>
  PROVE  Inv(p)'
<1>1. /\ journal' \in [1..MaxOps -> Journal \cup {NoJournal}]
      /\ candidate' \in [1..MaxOps -> Candidate \cup {NoCandidate}]
      /\ intents' \subseteq 1..Len(ops)
      /\ \A k \in 1..MaxOps : k > Len(ops) => journal'[k] = NoJournal
      /\ active[p] # 0 => /\ journal'[active[p]] = journal[active[p]]
                          /\ candidate'[active[p]] = candidate[active[p]]
  BY CleanKept
<1>2. TypeOK'
  BY <1>1 DEF Inv, TypeOK
<1>3. CASE active[p] = 0
  BY <1>1, <1>2, <1>3, IdleHandler, RestStep DEF Inv, OpenOK, Rest
<1>4. CASE active[p] # 0
  <2>1. Good(Idle, journal[active[p]], ops[active[p]].mode, candidate[active[p]],
             bundle[p], exch[p], active[p], issued[p], revoked[p])
    BY <1>4, OpenFacts, IdleIsGood
  <2>2. OpenOK(p)'
    BY <1>1, <1>4, <2>1 DEF OpenOK
  <2>3. FenceOK(p)' /\ ReceiptsOK(p)' /\ StoredOK(p)'
    BY <1>1, IdleHandler DEF Inv, FenceOK, ReceiptsOK, OneOperationPerRequest, StoredOK
  <2> QED
    BY <1>2, <2>2, <2>3 DEF Inv
<1> QED
  BY <1>3, <1>4

-----------------------------------------------------------------------------
(* What lives in memory *)

\* The steps that write no record of the lifecycle.
MemoryOnly ==
  /\ UNCHANGED <<epoch, active, ops, journal, candidate, intents, receipts, bundle,
                 activation, issued, revoked>>
  /\ at' \in [Providers -> Handlers] /\ exch' \in [Providers -> Exchanges]
  /\ attempt' \in [Providers -> 0..Len(ops)] /\ boot' \subseteq Providers
  /\ selection' \in Selectable \cup {Nobody} /\ faults' \in 0..MaxFaults

LEMMA MemoryStep ==
  ASSUME NEW p, Providers = {p}, Inv(p), MemoryOnly,
         \/ at'[p] = at[p] \/ at'[p].pc = "idle"
         \/ active[p] # 0 /\ at'[p].op = active[p] /\ at'[p].pc \notin {"clean", "release"},
         active[p] = 0 => exch'[p].st \notin {"asked", "answered"},
         active[p] # 0 =>
           Good(at'[p], journal[active[p]], ops[active[p]].mode, candidate[active[p]],
                bundle[p], exch'[p], active[p], issued[p], revoked[p])
  PROVE  Inv(p)'
<1>1. UNCHANGED <<epoch, active, ops, journal, candidate, intents, receipts, bundle,
                  activation, issued, revoked>>
  BY DEF MemoryOnly
<1>2. TypeOK'
  BY DEF Inv, TypeOK, MemoryOnly
<1>3. ReceiptsOK(p)' /\ StoredOK(p)'
  BY <1>1 DEF Inv, ReceiptsOK, OneOperationPerRequest, StoredOK
<1>4. FenceOK(p)'
  BY <1>1 DEF Inv, FenceOK
<1>5. OpenOK(p)'
  BY <1>1 DEF Inv, OpenOK, Rest
<1> QED
  BY <1>2, <1>3, <1>4, <1>5 DEF Inv

\* What a step that leaves a variable alone finds there.
LEMMA MemoryTypes ==
  ASSUME NEW p, Providers = {p}, Inv(p)
  PROVE  /\ at \in [Providers -> Handlers] /\ exch \in [Providers -> Exchanges]
         /\ attempt \in [Providers -> 0..Len(ops)] /\ boot \subseteq Providers
         /\ selection \in Selectable \cup {Nobody} /\ faults \in 0..MaxFaults
         /\ Len(ops) \in Nat /\ active[p] \in 0..Len(ops)
         /\ active[p] = 0 => exch[p].st \notin {"asked", "answered"}
         /\ active[p] # 0 =>
              Good(at[p], journal[active[p]], ops[active[p]].mode, candidate[active[p]],
                   bundle[p], exch[p], active[p], issued[p], revoked[p])
BY DEF Inv, TypeOK, OpenOK, Rest

\* An exchange that is over asks nothing of the rest.
LEMMA OverIsGood ==
  ASSUME NEW h, NEW j, NEW m, NEW c, NEW b, NEW x, NEW y, NEW n, NEW iss, NEW rev,
         Good(h, j, m, c, b, x, n, iss, rev), y.st \notin {"asked", "answered"}
  PROVE  Good(h, j, m, c, b, y, n, iss, rev)
BY DEF Good, ExchangeOK

LEMMA StartOAuthStep ==
  ASSUME NEW p, Providers = {p}, Inv(p), StartOAuth(p)
  PROVE  Inv(p)'
<1>1. at' = at /\ exch' = exch /\ MemoryOnly
  BY MemoryTypes DEF StartOAuth, MemoryOnly, authority, records, product, truth
<1> QED
  BY <1>1, MemoryTypes, MemoryStep

LEMMA DropAttemptStep ==
  ASSUME NEW p, Providers = {p}, Inv(p), DropAttempt(p)
  PROVE  Inv(p)'
<1>1. 0 \in 0..Len(ops)
  BY MemoryTypes
<1>2. attempt' \in [Providers -> 0..Len(ops)]
  BY <1>1, MemoryTypes DEF DropAttempt
<1>3. at' = at /\ exch' = exch /\ MemoryOnly
  BY <1>2, MemoryTypes DEF DropAttempt, MemoryOnly, authority, records, product, truth
<1> QED
  BY <1>3, MemoryTypes, MemoryStep

LEMMA BootedStep ==
  ASSUME NEW p, Providers = {p}, Inv(p), Booted(p)
  PROVE  Inv(p)'
<1>1. at' = at /\ exch' = exch /\ MemoryOnly
  BY MemoryTypes DEF Booted, MemoryOnly, authority, records, product, truth
<1> QED
  BY <1>1, MemoryTypes, MemoryStep

LEMMA SetModelStep ==
  ASSUME NEW p, Providers = {p}, Inv(p), NEW q \in Selectable, SetModel(q)
  PROVE  Inv(p)'
<1>1. at' = at /\ exch' = exch /\ MemoryOnly
  BY MemoryTypes DEF SetModel, MemoryOnly, authority, records, memory, truth
<1> QED
  BY <1>1, MemoryTypes, MemoryStep

LEMMA StutterStep ==
  ASSUME NEW p, Providers = {p}, Inv(p), UNCHANGED vars
  PROVE  Inv(p)'
<1>1. at' = at /\ exch' = exch /\ MemoryOnly
  BY MemoryTypes DEF vars, MemoryOnly
<1> QED
  BY <1>1, MemoryTypes, MemoryStep

LEMMA CleanUpStep ==
  ASSUME NEW p, Providers = {p}, Inv(p), Clean(p) \/ Reap(p)
  PROVE  Inv(p)'
<1>1. CASE Clean(p)
  <2>1. at' \in [Providers -> Handlers] /\ at'[p] = Idle
    BY <1>1, MemoryTypes, IdleHandler DEF Clean, Return
  <2> QED
    BY <1>1, <2>1, CleanStep DEF Clean, authority, product, memory, truth
<1>2. CASE Reap(p)
  <2>1. at' \in [Providers -> Handlers] /\ at'[p] = Idle
    BY <1>2, MemoryTypes DEF Reap
  <2> QED
    BY <1>2, <2>1, CleanStep DEF Reap, authority, product, memory, truth
<1> QED
  BY <1>1, <1>2

LEMMA CrashStep ==
  ASSUME NEW p, Providers = {p}, Inv(p), Crash
  PROVE  Inv(p)'
<1>1. faults' \in 0..MaxFaults
  BY MemoryTypes, Numbers DEF Crash
<1>2. at'[p] = Idle /\ exch'[p] = NoExchange
  BY DEF Crash
<1>3. MemoryOnly
  BY <1>1, MemoryTypes, IdleHandler DEF Crash, MemoryOnly, authority, records, product, truth
<1>4. ASSUME active[p] # 0
      PROVE  Good(Idle, journal[active[p]], ops[active[p]].mode, candidate[active[p]],
                  bundle[p], NoExchange, active[p], issued[p], revoked[p])
  <2>1. Good(Idle, journal[active[p]], ops[active[p]].mode, candidate[active[p]],
             bundle[p], exch[p], active[p], issued[p], revoked[p])
    BY <1>4, OpenFacts, IdleIsGood
  <2> QED
    BY <2>1, IdleHandler, OverIsGood
<1> QED
  BY <1>2, <1>3, <1>4, IdleHandler, MemoryStep

LEMMA StoreFailsStep ==
  ASSUME NEW p, Providers = {p}, Inv(p), StoreFails(p)
  PROVE  Inv(p)'
<1>1. faults' \in 0..MaxFaults
  BY MemoryTypes, Numbers DEF StoreFails
<1>2. PICK y : y = [op |-> at[p].op, st |-> "ended", g |-> 0]
  OBVIOUS
<1>3. y \in Exchanges /\ y.st = "ended"
  BY <1>2, MemoryTypes DEF Exchanges, Handlers
<1>4. exch' = exch \/ exch' = [exch EXCEPT ![p] = y]
  BY <1>2 DEF StoreFails
<1>5. exch' \in [Providers -> Exchanges] /\ exch'[p] \in {exch[p], y}
  BY <1>3, <1>4, MemoryTypes
<1>6. at' \in [Providers -> Handlers] /\ at'[p] = Idle
  BY MemoryTypes, IdleHandler DEF StoreFails, Return
<1>7. MemoryOnly
  BY <1>1, <1>5, <1>6, MemoryTypes
     DEF StoreFails, MemoryOnly, authority, records, product, truth
<1>8. ASSUME active[p] # 0
      PROVE  Good(Idle, journal[active[p]], ops[active[p]].mode, candidate[active[p]],
                  bundle[p], exch'[p], active[p], issued[p], revoked[p])
  <2>1. Good(Idle, journal[active[p]], ops[active[p]].mode, candidate[active[p]],
             bundle[p], exch[p], active[p], issued[p], revoked[p])
    BY <1>8, OpenFacts, IdleIsGood
  <2> QED
    BY <1>3, <1>5, <2>1, OverIsGood
<1> QED
  BY <1>3, <1>5, <1>6, <1>7, <1>8, IdleHandler, MemoryTypes, MemoryStep

-----------------------------------------------------------------------------
(* How a handler begins on the open operation *)

\* The new handler's first write, made from an idle handler.
LEMMA BeginStep ==
  ASSUME NEW p, Providers = {p}, Inv(p), active[p] # 0, MemoryOnly,
         NEW h \in Handlers, at'[p] = h, h.op = active[p], h.pc \notin {"clean", "release"},
         exch'[p] = exch[p] \/ exch'[p].st \notin {"asked", "answered"},
         HandlerOK(h, journal[active[p]], ops[active[p]].mode, candidate[active[p]],
                   bundle[p], issued[p], revoked[p]),
         exch'[p].st \in {"asked", "answered"} => h.pc \notin {"deadline", "candidate", "stored"}
  PROVE  Inv(p)'
<1>1. Good(at[p], journal[active[p]], ops[active[p]].mode, candidate[active[p]],
           bundle[p], exch[p], active[p], issued[p], revoked[p])
  BY OpenFacts
<1>2. Good(h, journal[active[p]], ops[active[p]].mode, candidate[active[p]],
           bundle[p], exch'[p], active[p], issued[p], revoked[p])
  BY <1>1 DEF Good, ExchangeOK
<1> QED
  BY <1>2, MemoryStep

LEMMA CallbackStep ==
  ASSUME NEW p, Providers = {p}, Inv(p), Callback(p)
  PROVE  Inv(p)'
<1>1. PICK h : h = [Idle EXCEPT !.pc = "intent", !.op = attempt[p], !.how = "prepare"]
  OBVIOUS
<1>2. attempt[p] \in Nat /\ 0 \in 0..Len(ops)
  BY MemoryTypes
<1>3. h \in Handlers /\ h.pc = "intent" /\ h.op = attempt[p]
  BY <1>1, <1>2 DEF Idle, Handlers, Pcs, Hows
<1>4. \/ at' = at
      \/ active[p] # 0 /\ active[p] = attempt[p] /\ at' = [at EXCEPT ![p] = h]
  BY <1>1 DEF Callback
<1>5. at' \in [Providers -> Handlers] /\ attempt' \in [Providers -> 0..Len(ops)]
  BY <1>2, <1>3, <1>4, MemoryTypes DEF Callback
<1>6. exch' = exch /\ MemoryOnly
  BY <1>5, MemoryTypes DEF Callback, MemoryOnly, authority, records, product, truth
<1>7. CASE at' = at
  BY <1>6, <1>7, MemoryTypes, MemoryStep
<1>8. CASE active[p] # 0 /\ active[p] = attempt[p] /\ at' = [at EXCEPT ![p] = h]
  <2>1. at'[p] = h
    BY <1>8, MemoryTypes
  <2>2. HandlerOK(h, journal[active[p]], ops[active[p]].mode, candidate[active[p]],
                  bundle[p], issued[p], revoked[p])
    BY <1>3 DEF HandlerOK
  <2> QED
    BY <1>3, <1>6, <1>8, <2>1, <2>2, BeginStep
<1> QED
  BY <1>4, <1>7, <1>8

LEMMA ConnectAgainStep ==
  ASSUME NEW p, Providers = {p}, Inv(p), NEW req, ConnectAgain(p, req)
  PROVE  Inv(p)'
<1>1. PICK h : h = [Idle EXCEPT !.pc = "await", !.op = active[p], !.how = "connect",
                                !.gate = TRUE]
  OBVIOUS
<1>2. active[p] # 0 /\ active[p] \in Nat
  BY OpenFacts DEF ConnectAgain
<1>3. h \in Handlers /\ h.pc = "await" /\ h.op = active[p]
  BY <1>1, <1>2 DEF Idle, Handlers, Pcs, Hows
<1>4. at' \in [Providers -> Handlers] /\ at'[p] = h
  BY <1>1, <1>3, MemoryTypes DEF ConnectAgain
<1>5. exch' = exch /\ MemoryOnly
  BY <1>4, MemoryTypes DEF ConnectAgain, MemoryOnly, authority, records, product, truth, memory
<1>6. HandlerOK(h, journal[active[p]], ops[active[p]].mode, candidate[active[p]],
                bundle[p], issued[p], revoked[p])
  BY <1>3 DEF HandlerOK
<1> QED
  BY <1>2, <1>3, <1>4, <1>5, <1>6, BeginStep

LEMMA ResumeStep ==
  ASSUME NEW p, Providers = {p}, Inv(p), Resume(p)
  PROVE  Inv(p)'
<1>1. PICK pc : pc = IF journal[active[p]].phase = "revoked_pending" THEN "wipe" ELSE "claim"
  OBVIOUS
<1>2. PICK h : h = [Idle EXCEPT !.pc = pc, !.op = active[p], !.how = "resume"]
  OBVIOUS
<1>3. /\ active[p] # 0 /\ active[p] \in Nat
      /\ journal[active[p]].phase \in {"candidate_cleanup", "revoke_unknown", "revoked_pending"}
  BY OpenFacts DEF Resume
<1>4. h \in Handlers /\ h.pc = pc /\ h.op = active[p] /\ pc \in {"wipe", "claim"}
  BY <1>1, <1>2, <1>3 DEF Idle, Handlers, Pcs, Hows
<1>5. at' \in [Providers -> Handlers] /\ at'[p] = h
  BY <1>1, <1>2, <1>4, MemoryTypes DEF Resume
<1>6. exch' = exch /\ MemoryOnly
  BY <1>5, MemoryTypes DEF Resume, MemoryOnly, authority, records, product, truth, memory
<1>7. HandlerOK(h, journal[active[p]], ops[active[p]].mode, candidate[active[p]],
                bundle[p], issued[p], revoked[p])
  BY <1>1, <1>3, <1>4 DEF HandlerOK
<1> QED
  BY <1>3, <1>4, <1>5, <1>6, <1>7, BeginStep

\* Where a maintenance pass may take up the operation, and what it found there.
LEMMA MaintainPlace ==
  ASSUME NEW p, Providers = {p}, Inv(p), active[p] # 0, MaintainFrom(p) # "idle",
         NEW h \in Handlers, h.pc = MaintainFrom(p)
  PROVE  /\ h.pc \in {"complete", "wipe", "revoke_late", "exchange_late", "recover"}
         /\ HandlerOK(h, journal[active[p]], ops[active[p]].mode, candidate[active[p]],
                      bundle[p], issued[p], revoked[p])
<1>1. journal[active[p]] \in Journal \cup {NoJournal}
  BY OpenFacts
<1>2. CASE journal[active[p]].phase \in {"candidate_validation", "completed"}
  <2>1. MaintainFrom(p) = MaintainCandidate(p)
    BY <1>2 DEF MaintainFrom
  <2>2. CASE CommitMatches(p)
    <3>1. h.pc = "complete"
      BY <2>1, <2>2 DEF MaintainCandidate
    <3>2. bundle[p] # NoBundle
      <4>1. bundle[p].life = "active"
        BY <2>2 DEF CommitMatches
      <4> QED
        BY <4>1 DEF NoBundle
    <3> QED
      BY <1>2, <3>1, <3>2 DEF HandlerOK
  <2>3. CASE ~CommitMatches(p)
    <3>1. h.pc = "wipe" /\ journal[active[p]].phase = "candidate_validation"
      BY <2>1, <2>3 DEF MaintainCandidate
    <3> QED
      BY <3>1 DEF HandlerOK
  <2> QED
    BY <2>2, <2>3
<1>3. CASE journal[active[p]].phase \notin {"candidate_validation", "completed"}
  <2>1. h.pc = ResumeAfter(journal[active[p]].phase)
    BY <1>3 DEF MaintainFrom
  <2>2. CASE journal[active[p]].phase \in {"revoked_pending", "disconnected"}
    <3>1. h.pc = "wipe"
      BY <2>1, <2>2 DEF ResumeAfter
    <3> QED
      BY <2>2, <3>1 DEF HandlerOK
  <2>3. CASE journal[active[p]].phase = "revoke_in_flight"
    <3>1. h.pc = "revoke_late"
      BY <2>1, <2>3 DEF ResumeAfter
    <3> QED
      BY <2>3, <3>1 DEF HandlerOK
  <2>4. CASE journal[active[p]].phase = "exchange_in_flight"
    <3>1. h.pc = "exchange_late"
      BY <2>1, <2>4 DEF ResumeAfter
    <3> QED
      BY <2>4, <3>1 DEF HandlerOK
  <2>5. CASE journal[active[p]].phase = "none"
    <3>1. h.pc = "recover"
      BY <2>1, <2>5 DEF ResumeAfter
    <3>2. journal[active[p]] = NoJournal
      BY <1>1, <2>5 DEF Journal, Phases
    <3> QED
      BY <3>1, <3>2 DEF HandlerOK
  <2>6. CASE journal[active[p]].phase \notin {"revoked_pending", "disconnected",
               "revoke_in_flight", "exchange_in_flight", "none"}
    BY <2>1, <2>6 DEF ResumeAfter
  <2> QED
    BY <2>2, <2>3, <2>4, <2>5, <2>6
<1> QED
  BY <1>2, <1>3

LEMMA MaintainStep ==
  ASSUME NEW p, Providers = {p}, Inv(p), Maintain(p)
  PROVE  Inv(p)'
<1>1. PICK pc : pc = MaintainFrom(p)
  OBVIOUS
<1>2. PICK h : h = [Idle EXCEPT !.pc = pc, !.op = active[p], !.how = "maintain", !.gate = TRUE]
  OBVIOUS
<1>3. active[p] # 0 /\ active[p] \in Nat /\ pc # "idle"
  BY <1>1, OpenFacts DEF Maintain
<1>4. pc \in {"complete", "wipe", "revoke_late", "exchange_late", "recover"}
  <2>1. PICK k : k = [Idle EXCEPT !.pc = MaintainFrom(p)]
    OBVIOUS
  <2>2. MaintainFrom(p) \in Pcs
    <3>1. MaintainCandidate(p) \in {"complete", "wipe", "idle"}
      BY DEF MaintainCandidate
    <3>2. ResumeAfter(journal[active[p]].phase) \in
            {"wipe", "revoke_late", "exchange_late", "recover", "idle"}
      BY DEF ResumeAfter
    <3> QED
      BY <3>1, <3>2 DEF MaintainFrom, Pcs
  <2>3. k \in Handlers /\ k.pc = MaintainFrom(p)
    BY <2>1, <2>2 DEF Idle, Handlers, Hows
  <2> QED
    BY <1>1, <1>3, <2>3, MaintainPlace
<1>5. h \in Handlers /\ h.pc = pc /\ h.op = active[p]
  BY <1>2, <1>3, <1>4 DEF Idle, Handlers, Pcs, Hows
<1>6. at' \in [Providers -> Handlers] /\ at'[p] = h
  BY <1>1, <1>2, <1>5, MemoryTypes DEF Maintain
<1>7. exch' = exch /\ MemoryOnly
  BY <1>6, MemoryTypes DEF Maintain, MemoryOnly, authority, records, product, truth
<1>8. HandlerOK(h, journal[active[p]], ops[active[p]].mode, candidate[active[p]],
                bundle[p], issued[p], revoked[p])
  BY <1>1, <1>3, <1>5, MaintainPlace
<1> QED
  BY <1>3, <1>4, <1>5, <1>6, <1>7, <1>8, BeginStep

-----------------------------------------------------------------------------
(* The code exchange *)

LEMMA SetDeadlineStep ==
  ASSUME NEW p, Providers = {p}, Inv(p), SetDeadline(p)
  PROVE  Inv(p)'
<1>1. at[p].pc = "deadline" /\ active[p] # 0 /\ at[p].op = active[p]
  BY DEF SetDeadline, Inv, FenceOK
<1>2. Good(at[p], journal[active[p]], ops[active[p]].mode, candidate[active[p]],
           bundle[p], exch[p], active[p], issued[p], revoked[p])
  BY <1>1, OpenFacts
<1>3. /\ journal[active[p]].phase = "exchange_in_flight" /\ bundle[p] = NoBundle
      /\ Unrevoked(issued[p], revoked[p]) = {}
  BY <1>1, <1>2 DEF Good, HandlerOK, Kept
<1>4. PICK j \in Journal : j = journal[active[p]]
  BY <1>1, <1>3, OpenFacts DEF NoJournal
<1>5. UNCHANGED <<epoch, active, ops, candidate, intents, receipts, bundle, activation,
                  selection, attempt, boot, issued, revoked, faults>>
  BY DEF SetDeadline, authority, records, product, truth
<1>6. CASE MayTry(j)
  <2>1. PICK k : k = [j EXCEPT !.attempts = j.attempts + 1, !.timed = TRUE]
    OBVIOUS
  <2>2. j.attempts \in 0..MaxAttempts /\ j.attempts < MaxAttempts
    BY <1>6 DEF MayTry, Journal
  <2>3. j.attempts + 1 \in 0..MaxAttempts
    BY <2>2, Numbers
  <2>4. k \in Journal /\ k.phase = "exchange_in_flight"
    BY <1>3, <1>4, <2>1, <2>3 DEF Journal
  <2>5. active[p] \in 1..MaxOps /\ Fenced(active[p]) /\ active[p] \in Nat
    BY <1>1, OpenFacts
  <2>6. journal' = [journal EXCEPT ![active[p]] = k]
    <3>1. journal' = [journal EXCEPT ![active[p]].attempts = @ + 1, ![active[p]].timed = TRUE]
      BY <1>1, <1>4, <1>6, <2>5 DEF SetDeadline
    <3> QED
      BY <1>4, <2>1, <2>5, <3>1 DEF Inv, TypeOK
  <2>7. PICK x : x = [op |-> active[p], st |-> "asked", g |-> 0]
    OBVIOUS
  <2>8. x \in Exchanges /\ x.st = "asked" /\ x.op = active[p]
    BY <2>5, <2>7 DEF Exchanges
  <2>9. exch' = [exch EXCEPT ![p] = x]
    BY <1>1, <1>4, <1>6, <2>5, <2>7 DEF SetDeadline
  <2>10. exch' \in [Providers -> Exchanges] /\ exch'[p] = x
    BY <2>8, <2>9, MemoryTypes
  <2>11. /\ journal' \in [1..MaxOps -> Journal \cup {NoJournal}] /\ journal'[active[p]] = k
         /\ \A i \in 1..MaxOps : i # active[p] => journal'[i] = journal[i]
    BY <2>4, <2>5, <2>6 DEF Inv, TypeOK
  <2>12. at' \in [Providers -> Handlers] /\ at'[p] = Idle
    BY IdleHandler, MemoryTypes DEF SetDeadline, Return
  <2>13. TypeOK'
    BY <1>5, <2>10, <2>11, <2>12 DEF Inv, TypeOK
  <2>14. Good(Idle, k, ops[active[p]].mode, candidate[active[p]], bundle[p], x, active[p],
              issued[p], revoked[p])
    BY <1>3, <2>4, <2>8, IdleHandler DEF Good, Kept, HandlerOK, ExchangeOK
  <2> QED
    BY <1>1, <1>3, <1>5, <2>10, <2>11, <2>12, <2>13, <2>14, IdleHandler, OpenStep
<1>7. CASE ~MayTry(j)
  <2>1. UNCHANGED <<journal, exch>> /\ Return(p)
    BY <1>1, <1>4, <1>7 DEF SetDeadline
  <2> QED
    BY <1>1, <1>5, <2>1, ReturnStep
<1> QED
  BY <1>6, <1>7

LEMMA AnswerStep ==
  ASSUME NEW p, Providers = {p}, Inv(p), Answer(p)
  PROVE  Inv(p)'
<1>1. exch[p].st = "asked" /\ active[p] # 0
  BY DEF Answer, Inv, OpenOK, Rest
<1>2. Good(at[p], journal[active[p]], ops[active[p]].mode, candidate[active[p]],
           bundle[p], exch[p], active[p], issued[p], revoked[p])
  BY <1>1, OpenFacts
<1>3. /\ exch[p].op = active[p]
      /\ journal[active[p]].phase \in {"exchange_in_flight", "exchange_unknown"}
      /\ at[p].pc \notin {"deadline", "candidate", "stored"}
      /\ journal[active[p]].phase = "exchange_in_flight" => Unrevoked(issued[p], revoked[p]) = {}
  BY <1>1, <1>2 DEF Good, ExchangeOK
<1>4. bundle[p] = NoBundle /\ at[p].pc # "release"
  BY <1>2, <1>3 DEF Good, Kept, HandlerOK
<1>5. PICK old \in Exchanges : old = exch[p] /\ old.op = active[p]
  BY <1>1, <1>3, OpenFacts
<1>6. PICK iss \in Nat : iss = issued[p] /\ revoked[p] \subseteq 1..iss
  BY <1>1, OpenFacts
<1>7. PICK x \in Exchanges, new \in Nat :
        /\ exch' = [exch EXCEPT ![p] = x]
        /\ issued' = [issued EXCEPT ![p] = new] /\ x.op = active[p]
        /\ \/ x.st = "answered" /\ x.g = iss + 1 /\ new = iss + 1 /\ iss < MaxGrants
           \/ x.st = "ended" /\ new \in {iss, iss + 1} /\ (new # iss => iss < MaxGrants)
  <2>1. PICK succ \in Nat : succ = iss + 1
    BY <1>6
  <2>2. PICK y : y = [old EXCEPT !.st = "answered", !.g = succ]
    OBVIOUS
  <2>3. PICK z : z = [old EXCEPT !.st = "ended"]
    OBVIOUS
  <2>4. y \in Exchanges /\ y.st = "answered" /\ y.g = succ /\ y.op = active[p]
    BY <1>5, <2>1, <2>2 DEF Exchanges
  <2>5. z \in Exchanges /\ z.st = "ended" /\ z.op = active[p]
    BY <1>5, <2>3 DEF Exchanges
  <2>6. \/ /\ iss < MaxGrants /\ issued' = [issued EXCEPT ![p] = succ]
           /\ exch' = [exch EXCEPT ![p] = y]
        \/ /\ iss < MaxGrants /\ issued' = [issued EXCEPT ![p] = succ]
           /\ exch' = [exch EXCEPT ![p] = z]
        \/ issued' = issued /\ exch' = [exch EXCEPT ![p] = z]
    BY <1>5, <1>6, <2>1, <2>2, <2>3, MemoryTypes DEF Answer, Inv, TypeOK
  <2>7. issued = [issued EXCEPT ![p] = iss]
    BY <1>6 DEF Inv, TypeOK
  <2>8. CASE /\ iss < MaxGrants /\ issued' = [issued EXCEPT ![p] = succ]
             /\ exch' = [exch EXCEPT ![p] = y]
    BY <2>1, <2>4, <2>8
  <2>9. CASE /\ iss < MaxGrants /\ issued' = [issued EXCEPT ![p] = succ]
             /\ exch' = [exch EXCEPT ![p] = z]
    BY <2>1, <2>5, <2>9
  <2>10. CASE issued' = issued /\ exch' = [exch EXCEPT ![p] = z]
    BY <1>6, <2>5, <2>7, <2>10
  <2> QED
    BY <2>6, <2>8, <2>9, <2>10
<1>8. exch' \in [Providers -> Exchanges] /\ exch'[p] = x
  BY <1>7, MemoryTypes
<1>9. new \in 0..MaxGrants
  BY <1>6, <1>7, Numbers DEF Inv, TypeOK
<1>10. issued' \in [Providers -> 0..MaxGrants] /\ issued'[p] = new
  BY <1>7, <1>9 DEF Inv, TypeOK
<1>11. revoked[p] \subseteq 1..new
  BY <1>6, <1>7
<1>12. UNCHANGED <<epoch, active, ops, journal, candidate, intents, receipts, bundle,
                   activation, selection, at, attempt, boot, revoked, faults>>
  BY DEF Answer, authority, records, product
<1>13. TypeOK'
  <2>1. \A q \in Providers : revoked'[q] \subseteq 1..issued'[q]
    BY <1>10, <1>11, <1>12
  <2> QED
    BY <1>8, <1>10, <1>12, <2>1 DEF Inv, TypeOK
<1>14. Kept(journal[active[p]], ops[active[p]].mode, candidate[active[p]], bundle[p], new,
            revoked[p])
  BY <1>3, <1>4 DEF Kept
<1>15. HandlerOK(at[p], journal[active[p]], ops[active[p]].mode, candidate[active[p]],
                 bundle[p], new, revoked[p])
  BY <1>2, <1>3 DEF Good, HandlerOK
<1>16. ExchangeOK(x, at[p].pc, active[p], journal[active[p]], new, revoked[p])
  <2>1. CASE x.st = "ended"
    BY <2>1 DEF ExchangeOK
  <2>2. CASE x.st = "answered"
    <3>1. new = iss + 1 /\ x.g = new
      BY <1>7, <2>2
    <3>2. new \in Unrevoked(new, revoked[p])
      BY <1>6, <3>1 DEF Unrevoked
    <3>3. Unrevoked(new, revoked[p]) \subseteq Unrevoked(iss, revoked[p]) \cup {new}
      BY <1>6, <3>1 DEF Unrevoked
    <3> QED
      BY <1>3, <1>6, <1>7, <2>2, <3>1, <3>2, <3>3 DEF ExchangeOK
  <2> QED
    BY <1>7, <2>1, <2>2
<1>17. Good(at[p], journal[active[p]], ops[active[p]].mode, candidate[active[p]],
            bundle[p], x, active[p], new, revoked[p])
  BY <1>14, <1>15, <1>16 DEF Good
<1>18. at[p].pc \notin {"idle", "clean"} => at[p].op = active[p]
  BY DEF Inv, FenceOK
<1> QED
  BY <1>1, <1>4, <1>8, <1>10, <1>12, <1>13, <1>17, <1>18, OpenStep

LEMMA CommitStep ==
  ASSUME NEW p, Providers = {p}, Inv(p), Commit(p)
  PROVE  Inv(p)'
<1>1. exch[p].st = "answered" /\ active[p] # 0
  BY DEF Commit, Inv, OpenOK, Rest
<1>2. Good(at[p], journal[active[p]], ops[active[p]].mode, candidate[active[p]],
           bundle[p], exch[p], active[p], issued[p], revoked[p])
  BY <1>1, OpenFacts
<1>3. /\ exch[p].op = active[p] /\ exch[p].g \in Unrevoked(issued[p], revoked[p])
      /\ journal[active[p]].phase = "exchange_in_flight" =>
           Unrevoked(issued[p], revoked[p]) \subseteq {exch[p].g}
  BY <1>1, <1>2 DEF Good, ExchangeOK
<1>4. PICK old \in Exchanges : old = exch[p]
  BY <1>1, OpenFacts
<1>5. active[p] \in Nat /\ exch \in [Providers -> Exchanges] /\ at \in [Providers -> Handlers]
  BY <1>1, OpenFacts, MemoryTypes
<1>6. CASE at[p] = Idle /\ journal[active[p]].phase = "exchange_in_flight"
  <2>1. PICK h : h = [Idle EXCEPT !.pc = "candidate", !.op = active[p], !.how = "commit",
                                  !.g = old.g]
    OBVIOUS
  <2>2. h \in Handlers /\ h.pc = "candidate" /\ h.op = active[p] /\ h.g = old.g
    BY <1>4, <1>5, <2>1 DEF Idle, Handlers, Pcs, Hows, Exchanges
  <2>3. at' = [at EXCEPT ![p] = h] /\ exch' = [exch EXCEPT ![p] = NoExchange]
    BY <1>3, <1>4, <1>6, <2>1 DEF Commit
  <2>4. /\ at' \in [Providers -> Handlers] /\ at'[p] = h
        /\ exch' \in [Providers -> Exchanges] /\ exch'[p] = NoExchange
    BY <1>5, <2>2, <2>3, IdleHandler
  <2>5. MemoryOnly
    BY <2>4, MemoryTypes DEF Commit, MemoryOnly, authority, records, product, truth
  <2>6. HandlerOK(h, journal[active[p]], ops[active[p]].mode, candidate[active[p]],
                  bundle[p], issued[p], revoked[p])
    BY <1>3, <1>4, <1>6, <2>2 DEF HandlerOK
  <2> QED
    BY <1>1, <2>2, <2>4, <2>5, <2>6, IdleHandler, BeginStep
<1>7. CASE ~(at[p] = Idle /\ journal[active[p]].phase = "exchange_in_flight")
  <2>1. PICK x : x = [old EXCEPT !.st = "ended", !.g = 0]
    OBVIOUS
  <2>2. x \in Exchanges /\ x.st = "ended"
    BY <2>1 DEF Exchanges
  <2>3. at' = at /\ exch' = [exch EXCEPT ![p] = x]
    BY <1>3, <1>4, <1>5, <1>7, <2>1 DEF Commit
  <2>4. exch' \in [Providers -> Exchanges] /\ exch'[p] = x
    BY <1>5, <2>2, <2>3
  <2>5. MemoryOnly
    BY <2>3, <2>4, MemoryTypes DEF Commit, MemoryOnly, authority, records, product, truth
  <2>6. Good(at[p], journal[active[p]], ops[active[p]].mode, candidate[active[p]],
             bundle[p], x, active[p], issued[p], revoked[p])
    BY <1>2, <2>2, OverIsGood
  <2> QED
    BY <2>2, <2>3, <2>4, <2>5, <2>6, MemoryStep
<1> QED
  BY <1>6, <1>7

\* The exchange may be of an operation that is no longer open; the fence then
\* keeps its journal.
LEMMA MarkUnknownStep ==
  ASSUME NEW p, Providers = {p}, Inv(p), MarkUnknown(p)
  PROVE  Inv(p)'
<1>1. PICK n : n = exch[p].op
  OBVIOUS
<1>2. UNCHANGED <<epoch, active, ops, candidate, intents, receipts, bundle, activation,
                  selection, at, attempt, boot, issued, revoked, faults>>
  BY DEF MarkUnknown, authority, records, product, truth
<1>3. exch' \in [Providers -> Exchanges] /\ exch'[p] = NoExchange
  BY MemoryTypes, IdleHandler DEF MarkUnknown
<1>4. ASSUME journal' = journal
      PROVE  Inv(p)'
  <2>1. MemoryOnly
    BY <1>2, <1>3, <1>4, MemoryTypes DEF MemoryOnly
  <2>2. active[p] # 0 =>
          Good(at[p], journal[active[p]], ops[active[p]].mode, candidate[active[p]],
               bundle[p], NoExchange, active[p], issued[p], revoked[p])
    BY MemoryTypes, IdleHandler, OverIsGood
  <2> QED
    BY <1>2, <1>3, <2>1, <2>2, IdleHandler, MemoryStep
<1>5. ASSUME journal' # journal
      PROVE  Inv(p)'
  <2>1. /\ at[p] = Idle /\ Fenced(n) /\ journal[n].phase = "exchange_in_flight"
        /\ journal' = [journal EXCEPT ![n].phase = "exchange_unknown", ![n].timed = FALSE]
    BY <1>1, <1>5 DEF MarkUnknown
  <2>2. journal \in [1..MaxOps -> Journal \cup {NoJournal}]
    BY DEF Inv, TypeOK
  <2>3. n \in 1..MaxOps
    <3>1. n \notin 1..MaxOps => journal' = journal
      BY <2>1, <2>2
    <3> QED
      BY <1>5, <3>1
  <2>4. PICK j \in Journal : j = journal[n] /\ j.phase = "exchange_in_flight"
    BY <2>1, <2>2, <2>3 DEF NoJournal
  <2>5. n \in 1..Len(ops)
    <3>1. Len(ops) \in Nat /\ \A k \in 1..MaxOps : k > Len(ops) => journal[k] = NoJournal
      BY MemoryTypes DEF Inv, StoredOK
    <3>2. NoJournal.phase = "none"
      BY DEF NoJournal
    <3>3. ~(n > Len(ops))
      BY <2>1, <2>3, <3>1, <3>2
    <3> QED
      BY <2>3, <3>1, <3>3, Numbers
  <2>6. active[p] = n /\ n # 0
    <3>1. ops[n] \in Op
      BY <2>5 DEF Inv, TypeOK
    <3>2. ops[n].p = p
      BY <3>1 DEF Op
    <3>3. n # 0
      BY <2>5, MemoryTypes
    <3> QED
      BY <2>1, <3>2, <3>3 DEF Fenced
  <2>7. PICK k : k = [j EXCEPT !.phase = "exchange_unknown", !.timed = FALSE]
    OBVIOUS
  <2>8. k \in Journal /\ k.phase = "exchange_unknown"
    BY <2>7 DEF Journal, Phases
  <2>9. journal' = [journal EXCEPT ![n] = k]
    BY <2>1, <2>2, <2>3, <2>4, <2>7
  <2>10. /\ journal' \in [1..MaxOps -> Journal \cup {NoJournal}] /\ journal'[n] = k
         /\ \A i \in 1..MaxOps : i # n => journal'[i] = journal[i]
    BY <2>2, <2>3, <2>8, <2>9
  <2>11. TypeOK'
    BY <1>2, <1>3, <2>10 DEF Inv, TypeOK
  <2>12. bundle[p] = NoBundle
    BY <2>4, <2>6, OpenFacts DEF Good, Kept
  <2>13. Good(Idle, k, ops[n].mode, candidate[n], bundle[p], NoExchange, n, issued[p],
              revoked[p])
    BY <2>8, <2>12, IdleHandler DEF Good, Kept, HandlerOK, ExchangeOK
  <2> QED
    BY <1>2, <1>3, <2>1, <2>6, <2>10, <2>11, <2>12, <2>13, IdleHandler, OpenStep
<1> QED
  BY <1>4, <1>5
-----------------------------------------------------------------------------
(* A new operation *)

LEMMA ReserveStep ==
  ASSUME NEW p, Providers = {p}, Inv(p), active[p] = 0, NEW mode \in Modes,
         NEW req \in Requests, NEW how \in {"logout", "connect"}, Reserve(p, mode, req, how),
         mode = "connect" <=> bundle[p] = NoBundle, how # "connect" => mode # "connect"
  PROVE  Inv(p)'
<1>1. UNCHANGED <<journal, candidate, intents, receipts, bundle, activation, selection,
                  attempt, exch, boot, issued, revoked, faults>>
  BY DEF Reserve, records, product, memory, truth
<1>2. PICK len \in Nat : len = Len(ops) /\ len < MaxOps
  BY MemoryTypes DEF Reserve
<1>3. PICK n \in Nat : n = len + 1 /\ n \in 1..MaxOps /\ n > len
  BY <1>2, Numbers
<1>4. PICK e \in Nat : e = epoch + 1 /\ epoch' = e
  BY DEF Inv, TypeOK, Reserve
<1>5. PICK b \in Bundle \cup {NoBundle} : b = bundle[p] /\ b.g \in Nat
  <2>1. bundle[p] \in Bundle \cup {NoBundle}
    BY DEF Inv, TypeOK
  <2> QED
    BY <2>1 DEF Bundle, NoBundle
<1>6. PICK o : o = [p |-> p, mode |-> mode, req |-> req, ep |-> e, prior |-> b.g]
  OBVIOUS
<1>7. o \in Op /\ o.mode = mode /\ o.req = req /\ o.ep = e
  BY <1>5, <1>6 DEF Op
<1>8. ops \in Seq(Op) /\ ops' = Append(ops, o)
  BY <1>4, <1>5, <1>6 DEF Inv, TypeOK, Reserve
<1>9. /\ ops' \in Seq(Op) /\ Len(ops') = n /\ ops'[n] = o
      /\ \A i \in 1..len : ops'[i] = ops[i]
  BY <1>2, <1>3, <1>7, <1>8
<1>10. PICK h : h = [Idle EXCEPT !.pc = "journal", !.op = n, !.how = how, !.gate = TRUE]
  OBVIOUS
<1>11. h \in Handlers /\ h.pc = "journal" /\ h.op = n /\ h.how = how
  BY <1>3, <1>10 DEF Idle, Handlers, Pcs, Hows
<1>12. at' \in [Providers -> Handlers] /\ at'[p] = h
  BY <1>2, <1>3, <1>10, <1>11, MemoryTypes DEF Reserve
<1>13. active' = [active EXCEPT ![p] = n]
  BY <1>2, <1>3 DEF Reserve
<1>14. n \in 0..n /\ 0..len \subseteq 0..n /\ 1..len \subseteq 1..n /\ n # 0
  BY <1>3
<1>15. active' \in [Providers -> 0..n] /\ active'[p] = n
  <2>1. active \in [Providers -> 0..len]
    BY <1>2 DEF Inv, TypeOK
  <2> QED
    BY <1>13, <1>14, <2>1
<1>16. attempt \in [Providers -> 0..n] /\ intents \subseteq 1..n
  <2>1. attempt \in [Providers -> 0..len] /\ intents \subseteq 1..len
    BY <1>2 DEF Inv, TypeOK
  <2> QED
    BY <1>14, <2>1
<1>17. n <= MaxOps
  BY <1>3, Numbers
<1>18. TypeOK'
  BY <1>1, <1>4, <1>9, <1>12, <1>15, <1>16, <1>17 DEF Inv, TypeOK
<1>19. ReceiptsOK(p)'
  <2>1. \A r \in receipts : r.op \in 1..len
    BY <1>2 DEF Inv, ReceiptsOK
  <2>2. \A r \in receipts : ~(r.p = p /\ r.req = req /\ r.route = Route(mode))
    BY DEF Reserve, Replayed
  <2>3. OneOperationPerRequest'
    BY <1>1 DEF Inv, ReceiptsOK, OneOperationPerRequest
  <2>4. \A r \in receipts : r.op \in 1..n
    BY <1>14, <2>1
  <2> QED
    BY <1>1, <1>7, <1>9, <1>15, <2>2, <2>3, <2>4 DEF ReceiptsOK
<1>20. FenceOK(p)'
  BY <1>4, <1>7, <1>9, <1>11, <1>12, <1>14, <1>15 DEF FenceOK
<1>21. journal[n] = NoJournal /\ \A k \in 1..MaxOps : k > n => journal[k] = NoJournal
  <2>1. \A k \in 1..MaxOps : k > len => journal[k] = NoJournal
    BY <1>2 DEF Inv, StoredOK
  <2>2. \A k \in 1..MaxOps : k > n => k > len
    BY <1>3, Numbers
  <2> QED
    BY <1>3, <2>1, <2>2
<1>22. Good(h, NoJournal, mode, candidate[n], b, exch[p], n, issued[p], revoked[p])
  <2>1. Rest(b, exch[p], issued[p], revoked[p]) /\ NoJournal.phase = "none"
    BY <1>5 DEF Inv, OpenOK, NoJournal
  <2>2. Kept(NoJournal, mode, candidate[n], b, issued[p], revoked[p])
    BY <1>5, <2>1 DEF Kept, Rest
  <2>3. HandlerOK(h, NoJournal, mode, candidate[n], b, issued[p], revoked[p])
    BY <1>11 DEF HandlerOK
  <2>4. ExchangeOK(exch[p], h.pc, n, NoJournal, issued[p], revoked[p])
    BY <2>1 DEF ExchangeOK, Rest
  <2> QED
    BY <2>2, <2>3, <2>4 DEF Good
<1>23. OpenOK(p)'
  BY <1>1, <1>5, <1>7, <1>9, <1>12, <1>14, <1>15, <1>21, <1>22 DEF OpenOK
<1>24. StoredOK(p)'
  BY <1>1, <1>9, <1>21 DEF Inv, StoredOK
<1> QED
  BY <1>18, <1>19, <1>20, <1>23, <1>24 DEF Inv

LEMMA LogoutStep ==
  ASSUME NEW p, Providers = {p}, Inv(p), NEW mode \in Modes \ {"connect"},
         NEW req \in Requests, Logout(p, mode, req)
  PROVE  Inv(p)'
<1>1. bundle[p] # NoBundle /\ active[p] = 0 /\ Reserve(p, mode, req, "logout")
  BY DEF Logout
<1> QED
  BY <1>1, ReserveStep

LEMMA ConnectStep ==
  ASSUME NEW p, Providers = {p}, Inv(p), NEW req \in Requests, Connect(p, req)
  PROVE  Inv(p)'
<1>1. /\ "connect" \in Modes /\ bundle[p] = NoBundle /\ active[p] = 0
      /\ Reserve(p, "connect", req, "connect")
  BY DEF Connect
<1> QED
  BY <1>1, ReserveStep
-----------------------------------------------------------------------------
(* The invariant *)

LEMMA InitInv ==
  ASSUME NEW p, Providers = {p}, Init
  PROVE  Inv(p)
<1>1. PICK con \in SUBSET Providers :
        /\ bundle = [q \in Providers |->
             IF q \in con THEN [g |-> 1, life |-> "active"] ELSE NoBundle]
        /\ activation = [q \in Providers |-> IF q \in con THEN 1 ELSE 0]
        /\ issued = [q \in Providers |-> IF q \in con THEN 1 ELSE 0]
        /\ selection \in con \cup (Selectable \ Providers) \cup {Nobody}
  BY DEF Init
<1>2. /\ epoch = 1 /\ active = [q \in Providers |-> 0] /\ ops = <<>>
      /\ journal = [n \in 1..MaxOps |-> NoJournal]
      /\ candidate = [n \in 1..MaxOps |-> NoCandidate]
      /\ intents = {} /\ receipts = {} /\ boot = {} /\ faults = 0
      /\ at = [q \in Providers |-> Idle] /\ attempt = [q \in Providers |-> 0]
      /\ exch = [q \in Providers |-> NoExchange] /\ revoked = [q \in Providers |-> {}]
  BY DEF Init
<1>3. PICK b : b = [g |-> 1, life |-> "active"]
  OBVIOUS
<1>4. b \in Bundle /\ b.g = 1 /\ NoBundle.g = 0 /\ b # NoBundle
  BY <1>3 DEF Bundle, NoBundle
<1>5. ops \in Seq(Op) /\ Len(ops) = 0 /\ 0 <= MaxOps
  BY <1>2, Numbers
<1>6. 0 \in 0..0 /\ 0 \in 0..MaxGrants /\ 1 \in 0..MaxGrants /\ 0 \in 0..MaxFaults
  BY Numbers
<1>7. /\ bundle \in [Providers -> Bundle \cup {NoBundle}]
      /\ activation \in [Providers -> 0..MaxGrants] /\ issued \in [Providers -> 0..MaxGrants]
  BY <1>1, <1>3, <1>4, <1>6
<1>8. /\ (bundle[p] = b /\ issued[p] = 1) \/ (bundle[p] = NoBundle /\ issued[p] = 0)
      /\ revoked[p] = {} /\ active[p] = 0 /\ at[p] = Idle /\ exch[p] = NoExchange
  BY <1>1, <1>2, <1>3
<1>9. selection \in Selectable \cup {Nobody}
  BY <1>1, ConstantsOK
<1>10. TypeOK
  <2>1. epoch \in Nat /\ active \in [Providers -> 0..Len(ops)] /\ Len(ops) <= MaxOps
    BY <1>2, <1>5, <1>6
  <2>2. /\ journal \in [1..MaxOps -> Journal \cup {NoJournal}]
        /\ candidate \in [1..MaxOps -> Candidate \cup {NoCandidate}]
        /\ intents \subseteq 1..Len(ops) /\ receipts \subseteq Receipt
    BY <1>2
  <2>3. /\ at \in [Providers -> Handlers] /\ exch \in [Providers -> Exchanges]
        /\ attempt \in [Providers -> 0..Len(ops)] /\ boot \subseteq Providers
        /\ revoked \in [Providers -> SUBSET Nat] /\ faults \in 0..MaxFaults
        /\ \A q \in Providers : revoked[q] \subseteq 1..issued[q]
    BY <1>2, <1>5, <1>6, IdleHandler
  <2> QED
    BY <1>5, <1>7, <1>9, <2>1, <2>2, <2>3 DEF TypeOK
<1>11. ReceiptsOK(p) /\ FenceOK(p)
  BY <1>2, <1>8, IdleHandler DEF ReceiptsOK, FenceOK, OneOperationPerRequest
<1>12. OpenOK(p)
  <2>1. Unrevoked(issued[p], revoked[p]) \subseteq {bundle[p].g}
    BY <1>4, <1>8 DEF Unrevoked
  <2> QED
    BY <1>8, <2>1, IdleHandler DEF OpenOK, Rest
<1>13. StoredOK(p)
  BY <1>2, <1>4, <1>8 DEF StoredOK
<1> QED
  BY <1>10, <1>11, <1>12, <1>13 DEF Inv

LEMMA WorkStep ==
  ASSUME NEW p, Providers = {p}, Inv(p), Work(p)
  PROVE  Inv(p)'
<1>1. CASE PutJournal(p) \/ MarkDisconnecting(p) \/ ClaimRevoke(p) \/ CallRevoke(p)
           \/ PublishOutcome(p) \/ PutCandidateState(p) \/ CheckpointCandidate(p)
           \/ FailCandidate(p)
  BY <1>1, PutJournalStep, MarkDisconnectingStep, ClaimRevokeStep, CallRevokeStep,
     PublishOutcomeStep, PutCandidateStateStep, CheckpointCandidateStep, FailCandidateStep
<1>2. CASE WipeActivation(p) \/ WipeBundle(p) \/ WipeSelection(p) \/ Checkpoint(p)
           \/ AwaitLogin(p) \/ PutReceipt(p) \/ Release(p) \/ Clean(p)
  BY <1>2, WipeActivationStep, WipeBundleStep, WipeSelectionStep, CheckpointStep,
     AwaitLoginStep, PutReceiptStep, ReleaseStep, CleanUpStep
<1>3. CASE PutIntent(p) \/ EnterExchange(p) \/ SetDeadline(p) \/ PutCandidate(p)
           \/ StoreCandidate(p) \/ DropIntent(p) \/ BeginValidation(p)
           \/ RejectIdentity(p) \/ AcceptIdentity(p)
  BY <1>3, PutIntentStep, EnterExchangeStep, SetDeadlineStep, PutCandidateStep,
     StoreCandidateStep, DropIntentStep, BeginValidationStep, RejectIdentityStep,
     AcceptIdentityStep
<1>4. CASE PutBundle(p) \/ PutActivation(p) \/ PutSelection(p) \/ Complete(p) \/ Promote(p)
  BY <1>4, PutBundleStep, PutActivationStep, PutSelectionStep, CompleteStep, PromoteStep
<1>5. CASE RecoverJournal(p) \/ RevokeLate(p) \/ ExchangeLate(p) \/ Interrupted(p)
  BY <1>5, RecoverJournalStep, RevokeLateStep, ExchangeLateStep, InterruptedStep
<1> QED
  BY <1>1, <1>2, <1>3, <1>4, <1>5 DEF Work

LEMMA UsersStep ==
  ASSUME NEW p, Providers = {p}, Inv(p), Users(p)
  PROVE  Inv(p)'
<1>1. CASE \E mode \in Modes \ {"connect"}, req \in Requests : Logout(p, mode, req)
  BY <1>1, LogoutStep
<1>2. CASE \E req \in Requests : Connect(p, req) \/ ConnectAgain(p, req)
  BY <1>2, ConnectStep, ConnectAgainStep
<1>3. CASE \/ StartOAuth(p) \/ DropAttempt(p) \/ Callback(p)
           \/ Answer(p) \/ Commit(p) \/ MarkUnknown(p) \/ Resume(p)
  BY <1>3, StartOAuthStep, DropAttemptStep, CallbackStep, AnswerStep, CommitStep,
     MarkUnknownStep, ResumeStep
<1> QED
  BY <1>1, <1>2, <1>3 DEF Users

LEMMA NextInv ==
  ASSUME NEW p, Providers = {p}, Inv(p), [Next]_vars
  PROVE  Inv(p)'
<1>1. CASE \E q \in Providers : Work(q) \/ Users(q) \/ Pass(q) \/ StoreFails(q)
  <2>1. Work(p) \/ Users(p) \/ Maintain(p) \/ Booted(p) \/ Reap(p) \/ StoreFails(p)
    BY <1>1 DEF Pass
  <2> QED
    BY <2>1, WorkStep, UsersStep, MaintainStep, BootedStep, CleanUpStep, StoreFailsStep
<1>2. CASE \E q \in Selectable : SetModel(q)
  BY <1>2, SetModelStep
<1>3. CASE Crash
  BY <1>3, CrashStep
<1>4. CASE UNCHANGED vars
  BY <1>4, StutterStep
<1> QED
  BY <1>1, <1>2, <1>3, <1>4 DEF Next

\* The inductive invariant: by its phase, the journal of the open operation
\* says which grants can still be alive and who accounts for them, at every
\* durable write of every handler, over crashes and failed store calls.
THEOREM Invariance ==
  ASSUME NEW CONSTANT p, Providers = {p}
  PROVE  Spec => []Inv(p)
<1>1. Init => Inv(p)
  BY InitInv
<1>2. Inv(p) /\ [Next]_vars => Inv(p)'
  BY NextInv
<1> QED
  BY <1>1, <1>2, PTL DEF Spec

\* Type correctness: the provider revokes only what it issued, no claim exceeds
\* MAX_ATTEMPTS and every record has the shape account_lifecycle.rs gives it.
THEOREM TypeCorrect ==
  ASSUME NEW CONSTANT p, Providers = {p}
  PROVE  Spec => []TypeOK
<1>1. Inv(p) => TypeOK
  BY DEF Inv
<1> QED
  BY <1>1, Invariance, PTL

\* No grant the provider issued is forgotten: it is revoked, or the stored
\* credential, or a candidate still to be decided, or the open operation is in
\* an exchange of open outcome.
THEOREM GrantsKept ==
  ASSUME NEW CONSTANT p, Providers = {p}
  PROVE  Spec => []GrantsAreKept
<1>1. Inv(p) => GrantsAreKept
  <2> SUFFICES ASSUME Inv(p), NEW g \in (1..issued[p]) \ revoked[p]
               PROVE  \/ bundle[p].g = g
                      \/ /\ active[p] # 0
                         /\ \/ /\ candidate[active[p]].state \in {"bearing", "unknown"}
                               /\ candidate[active[p]].g = g
                            \/ journal[active[p]].phase \in
                                 {"exchange_in_flight", "exchange_unknown"}
    BY DEF GrantsAreKept
  <2>1. g \in Unrevoked(issued[p], revoked[p])
    BY DEF Unrevoked
  <2>2. CASE active[p] = 0
    BY <2>1, <2>2 DEF Inv, OpenOK, Rest
  <2>3. CASE active[p] # 0
    <3>1. Kept(journal[active[p]], ops[active[p]].mode, candidate[active[p]], bundle[p],
               issued[p], revoked[p])
      BY <2>3, OpenFacts DEF Good
    <3>2. journal[active[p]].phase \in Phases \cup {"none"}
      BY <2>3, OpenFacts DEF Journal, NoJournal
    <3>3. CASE journal[active[p]].phase \in {"none", "prepared"}
      BY <2>1, <3>1, <3>3 DEF Kept
    <3>4. CASE journal[active[p]].phase \in {"revoke_in_flight", "revoke_unknown"}
      BY <2>1, <2>3, <3>1, <3>4 DEF Kept
    <3>5. CASE journal[active[p]].phase \in
                 {"revoked_pending", "disconnected", "awaiting_login", "failed"}
      BY <2>1, <3>1, <3>5 DEF Kept
    <3>6. CASE journal[active[p]].phase \in
                 {"candidate_stored", "candidate_cleanup", "candidate_validation"}
      BY <2>1, <2>3, <3>1, <3>6 DEF Kept, Bears
    <3>7. CASE journal[active[p]].phase = "completed"
      <4>1. bundle[p].g = candidate[active[p]].g /\ g = candidate[active[p]].g
        BY <2>1, <3>1, <3>7 DEF Kept
      <4> QED
        BY <4>1
    <3>8. CASE journal[active[p]].phase \in {"exchange_in_flight", "exchange_unknown"}
      BY <2>3, <3>8
    <3> QED
      BY <3>2, <3>3, <3>4, <3>5, <3>6, <3>7, <3>8 DEF Phases
  <2> QED
    BY <2>2, <2>3
<1> QED
  BY <1>1, Invariance, PTL

\* With no operation open, a credential the app shows as connected was never
\* revoked by the app.
THEOREM ConnectedLive ==
  ASSUME NEW CONSTANT p, Providers = {p}
  PROVE  Spec => []ConnectedIsLive
<1>1. Inv(p) => ConnectedIsLive
  <2> SUFFICES ASSUME Inv(p), active[p] = 0, bundle[p].life = "active"
               PROVE  bundle[p].g \notin revoked[p]
    BY DEF ConnectedIsLive
  <2>1. bundle[p] # NoBundle
    BY DEF NoBundle
  <2> QED
    BY <2>1 DEF Inv, OpenOK, Rest
<1> QED
  BY <1>1, Invariance, PTL

\* A client's request id ends at most one operation of a route, over repeated
\* requests, crashes and restarts.
THEOREM OnePerRequest ==
  ASSUME NEW CONSTANT p, Providers = {p}
  PROVE  Spec => []OneOperationPerRequest
<1>1. Inv(p) => OneOperationPerRequest
  BY DEF Inv, ReceiptsOK
<1> QED
  BY <1>1, Invariance, PTL
=============================================================================
