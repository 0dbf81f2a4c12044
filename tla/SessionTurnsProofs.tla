-------------------------- MODULE SessionTurnsProofs --------------------------
(***************************************************************************)
(* Proofs about the shared agent session, for every number of hosts,       *)
(* steps, tasks and faults and all times within TimesAssumption.           *)
(***************************************************************************)
EXTENDS SessionTurns, TLAPS

-----------------------------------------------------------------------------
(* The inductive invariant *)

\* Phases after which the next step may be called.
Callable == {"none", "accepted", "completed"}

\* Steps that may have been called when the journal reads j.
Called(j) == {s \in Steps : s < j.step \/ (s = j.step /\ j.phase = "started")}

\* How one publication moves the journal: not at all, to the start of the
\* next step, or from a step that was called to its outcome.
Follows(j, k) ==
    \/ k = j
    \/ j.phase \in Callable /\ k = [phase |-> "started", step |-> j.step]
    \/ /\ j.phase = "started" /\ j.step \in Steps /\ calls[j.step] = 1
       /\ k.phase \in {"completed", "final", "invalid"} /\ k.step = j.step + 1

\* What holds of every manifest, stored, cached or under way.
Valid(x) ==
    /\ x \in Manifests
    /\ ~x.bound => x.journal = NoJournal /\ x.tomb = "none"
    /\ x.journal.phase = "final" => x.tomb # "unknown"

InTurn == {"ready", "started", "reads", "writes", "text", "badids",
           "final", "awaits", "unknown", "failed"}
Answered == {"reads", "writes", "text", "badids"}
Ended == {"final", "awaits", "unknown", "failed"}

\* A turn in a guard's hands: what it has in memory against what it cached.
TurnOK(g) ==
    /\ g.turn \in InTurn \cup {"maintains", "stopped"}
    /\ g.turn \in InTurn => /\ g.cur.bound /\ g.cur.tomb = "none"
                            /\ Follows(g.cur.journal, g.journal)
    /\ g.turn \in {"ready", "started"} \cup Answered => g.journal = g.cur.journal
    /\ g.turn = "ready" => g.journal.phase \in Callable
    /\ g.turn \in {"started"} \cup Answered =>
         g.journal.phase = "started" /\ g.journal.step \in Steps
    /\ g.turn \in Answered => calls[g.journal.step] = 1
    /\ g.turn = "unknown" => g.journal.phase = "started"
    /\ g.out # "none" => /\ g.turn \in Ended /\ g.out = EndOf(g.turn)
                         /\ g.turn = "final" \/ g.exited

\* A host that waits for no call.
Settled(h, g) ==
    /\ g \in Guards /\ g.op = "none" /\ g.at # "wait" /\ Valid(g.cur)
    /\ g.at # "idle" => g.lease \in Leases /\ g.lease.holder = h
    /\ g.at = "staged" => ~g.cur.bound /\ g.journal = NoJournal /\ g.out = "none"
    /\ g.at = "hold" => TurnOK(g)
    /\ g.at = "reaps" => /\ ~g.lost /\ g.cur.lease = g.lease /\ g.out = "none"
                         /\ g.sample + Safety <= g.lease.exp
    /\ g.at # "hold" => g.turn \in {"none", "reaped"}

\* A host alone: while it waits, what a failure would make of it.
Local(h) ==
    IF host[h].at = "wait"
      THEN /\ host[h] \in Guards /\ host[h].op # "none" /\ Settled(h, Failed(host[h]))
           /\ host[h].op = "compact" => Settled(h, Stopped(host[h]))
      ELSE Settled(h, host[h])

\* What a host has cached was the manifest of that generation.
Cached(h) ==
    host[h].at \notin {"idle", "reread"} =>
        /\ host[h].cur.gen <= man.gen
        /\ host[h].cur.gen = man.gen => host[h].cur = man

\* A guard in use that lost nothing is alone on the current manifest, or its
\* lease may be taken over.
Alone(h) ==
    host[h].at \in {"hold", "reaps"} /\ host[h].turn # "stopped" /\ ~host[h].lost
      /\ host[h].cur.lease = host[h].lease
    => \/ Free(host[h].lease, clock)
       \/ host[h].cur = man /\ \A m \in net : m.base # man.gen

\* An answer that is on its way to the client is the tombstone's.
Replies(h) ==
    host[h].out # "none" /\ (\/ host[h].at \in {"drop", "reread"}
                             \/ host[h].op \in {"release", "clear"})
    => host[h].out = man.tomb

\* An admission that can still succeed found the lease free, and its binding
\* is there.
Staged(h) ==
    host[h].at = "staged" /\ host[h].cur.gen = man.gen
    => Free(man.lease, clock) /\ binding # 0

\* A step about to be called was not called, and is the published one.
About(h) ==
    host[h].turn = "started"
    => /\ host[h].journal.phase = "started" /\ host[h].journal.step \in Steps
       /\ calls[host[h].journal.step] = 0
       /\ man.journal = host[h].journal \/ man.tomb # "none"

HostOK(h) == Local(h) /\ Cached(h) /\ Alone(h) /\ Replies(h) /\ Staged(h) /\ About(h)

\* A replacement that would still land: how it changes the manifest.
Lands(m) ==
    /\ m.to.tomb = man.tomb \/ (man.tomb = "none" /\ m.to.journal = man.journal)
    /\ \/ Follows(man.journal, m.to.journal)
       \/ man.journal = NoJournal /\ m.to.journal = [phase |-> "accepted", step |-> 0]
       \/ man.tomb # "none" /\ m.to.journal = NoJournal
    /\ \/ m.to.lease = man.lease
       \/ Free(man.lease, clock)
       \/ m.from = Nobody \/ m.from = man.lease.holder
    /\ m.to.bound => man.bound \/ binding # 0

MsgOK(m) ==
    /\ m \in Replacements /\ Valid(m.to)
    /\ m.base <= man.gen /\ m.to.gen = m.base + 1
    /\ m.base = man.gen => Lands(m)
    /\ m.from # Nobody => /\ host[m.from].at = "wait"
                          /\ Settled(m.from, Accepted(host[m.from], m.to))
                          /\ host[m.from].op = "finish" => m.to.tomb = host[m.from].out
                          /\ host[m.from].op = "start" =>
                               /\ host[m.from].cur.journal.phase \in Callable
                               /\ host[m.from].cur.tomb = "none"
                               /\ host[m.from].cur.gen = m.base

\* A host has one call under way, and one host at most is about to call.
OneCall == \A m, n \in net : m.from = n.from /\ m.from # Nobody => m = n
OneStarted == \A h, i \in Hosts :
                 host[h].turn = "started" /\ host[i].turn = "started" => h = i

Counted ==
    \A s \in Steps : /\ calls[s] \in 0 .. 1
                     /\ calls[s] = 1 => s \in Called(man.journal) \/ man.tomb # "none"

IInv ==
    /\ clock \in 1 .. MaxClock /\ binding \in 0 .. MaxClock
    /\ calls \in [Steps -> Nat] /\ told \subseteq Ends
    /\ tasks \in 0 .. MaxTasks /\ faults \in 0 .. MaxFaults
    /\ host \in [Hosts -> Guards]
    /\ Valid(man)
    /\ OneTerminalAnswer /\ ReachedIsKept /\ Counted
    /\ \A h \in Hosts : HostOK(h)
    /\ \A m \in net : MsgOK(m)
    /\ OneCall /\ OneStarted

-----------------------------------------------------------------------------
(* Guards *)

\* The bounds are natural numbers.
LEMMA Numbers ==
  /\ TTL \in Nat /\ Margin \in Nat /\ Safety \in Nat /\ Renewal \in Nat
  /\ Retention \in Nat /\ Budget \in Nat
  /\ MaxSteps \in Nat \ {0} /\ MaxClock \in Nat \ {0} /\ MaxGen \in Nat \ {0}
  /\ MaxTasks \in Nat /\ MaxFaults \in Nat
  /\ Renewal + Safety <= TTL /\ Budget <= Safety + Margin
  /\ NoLease # Nobody /\ Nobody \notin Hosts
BY TimesAssumption, NamesAssumption

\* The manifest of a session nobody has used.
LEMMA NoManifestValid == Valid(NoManifest)
BY Numbers DEF Valid, NoManifest, NoJournal, Manifests, Journals, Phases, Ends

\* A host that does nothing.
LEMMA IdleSettled ==
  ASSUME NEW h \in Hosts
  PROVE  Settled(h, Idle)
<1>1. Valid(NoManifest) /\ NoManifest \in Manifests
  BY NoManifestValid DEF Valid
<1>2. NoJournal \in Journals
  BY Numbers DEF NoJournal, Journals, Phases
<1>3. Idle \in Guards
  BY <1>1, <1>2, Numbers DEF Idle, Guards, Ends
<1> QED
  BY <1>1, <1>3 DEF Settled, Idle

\* A guard that was lost, and one that is dropped.
LEMMA LoseSettled ==
  ASSUME NEW h \in Hosts, NEW g, g.lease \in Leases, g.lease.holder = h,
         g.out \in Ends \cup {"none"}
  PROVE  /\ Settled(h, Lose(g))
         /\ Lose(g).at = "reread" /\ Lose(g).out = g.out /\ Lose(g).turn = "none"
         /\ Lose(g).op = "none"
<1>1. Idle \in Guards /\ Idle.op = "none" /\ Idle.turn = "none" /\ Valid(Idle.cur)
  BY IdleSettled, NoManifestValid DEF Settled, Idle
<1>2. Lose(g) \in Guards
  BY <1>1 DEF Lose, Guards
<1>3. /\ Lose(g).at = "reread" /\ Lose(g).out = g.out /\ Lose(g).turn = "none"
      /\ Lose(g).op = "none" /\ Lose(g).lease = g.lease /\ Lose(g).cur = Idle.cur
  BY <1>1 DEF Lose, Guards
<1> QED
  BY <1>1, <1>2, <1>3 DEF Settled

LEMMA DropSettled ==
  ASSUME NEW h \in Hosts, NEW g, g.lease \in Leases, g.lease.holder = h,
         g.out \in Ends \cup {"none"}, Valid(g.cur)
  PROVE  /\ Settled(h, Drop(g))
         /\ Drop(g).at = "reread" \/ (Drop(g).at = "drop" /\ ~g.lost)
         /\ Drop(g).out = g.out /\ Drop(g).turn = "none" /\ Drop(g).op = "none"
         /\ Drop(g).at = "drop" => Drop(g).cur = g.cur /\ Drop(g).lease = g.lease
<1>1. CASE g.lost
  BY <1>1, LoseSettled DEF Drop
<1>2. CASE ~g.lost
  <2>1. Idle \in Guards /\ Idle.op = "none" /\ Idle.turn = "none" /\ g.cur \in Manifests
    BY IdleSettled DEF Settled, Idle, Valid
  <2>2. Drop(g) \in Guards
    BY <1>2, <2>1 DEF Drop, Guards
  <2>3. /\ Drop(g).at = "drop" /\ Drop(g).out = g.out /\ Drop(g).turn = "none"
        /\ Drop(g).op = "none" /\ Drop(g).lease = g.lease /\ Drop(g).cur = g.cur
    BY <1>2, <2>1 DEF Drop, Guards
  <2> QED
    BY <1>2, <2>2, <2>3 DEF Settled
<1> QED
  BY <1>1, <1>2

\* Initially nobody does anything.
LEMMA InitIInv == Init => IInv
<1> SUFFICES ASSUME Init PROVE IInv
  OBVIOUS
<1>1. \A h \in Hosts : host[h] = Idle /\ Settled(h, Idle)
  BY IdleSettled DEF Init
<1>2. host \in [Hosts -> Guards] /\ Valid(man)
  BY <1>1, NoManifestValid DEF Init, Settled
<1>3. ASSUME NEW h \in Hosts PROVE HostOK(h)
  BY <1>1 DEF HostOK, Local, Cached, Alone, Replies, Staged, About, Idle
<1>4. Counted
  BY Numbers DEF Counted, Init
<1>5. OneStarted
  BY <1>1 DEF OneStarted, Idle
<1> QED
  BY <1>2, <1>3, <1>4, <1>5, Numbers
  DEF IInv, Init, OneTerminalAnswer, ReachedIsKept, NoManifest, OneCall

-----------------------------------------------------------------------------
(* What a step leaves alone *)

\* A lease that may be taken over may be taken over later too.
LEMMA FreeStable ==
  ASSUME NEW lease \in Leases \cup {NoLease}, NEW now \in Nat, NEW later \in Nat,
         now <= later, Free(lease, now)
  PROVE  Free(lease, later)
<1>1. CASE lease = NoLease
  BY <1>1 DEF Free
<1>2. CASE lease # NoLease
  <2>1. lease.exp \in Nat /\ Margin \in Nat
    BY <1>2, Numbers DEF Leases
  <2> QED
    BY <1>2, <2>1 DEF Free
<1> QED
  BY <1>1, <1>2

\* No call is taken back.
Grows == \A t \in Steps : calls[t] = 1 => calls'[t] = 1

\* A guard stays as good as it is when no call is taken back.
LEMMA FollowsKept ==
  ASSUME Grows, NEW j, NEW k, Follows(j, k)
  PROVE  Follows(j, k)'
BY DEF Grows, Follows

LEMMA SettledKept ==
  ASSUME Grows, NEW h, NEW g, Settled(h, g)
  PROVE  Settled(h, g)'
<1>1. g.at = "hold" => TurnOK(g)
  BY DEF Settled
<1>2. TurnOK(g) => TurnOK(g)'
  <2> SUFFICES ASSUME TurnOK(g) PROVE TurnOK(g)'
    OBVIOUS
  <2>1. g.turn \in InTurn => Follows(g.cur.journal, g.journal)'
    BY FollowsKept DEF TurnOK
  <2>2. g.turn \in Answered => calls'[g.journal.step] = 1
    BY DEF TurnOK, Grows
  <2> QED
    BY <2>1, <2>2 DEF TurnOK
<1> QED
  BY <1>1, <1>2 DEF Settled, Valid

\* A host that takes no part in a step that leaves the manifest.
LEMMA HostKept ==
  ASSUME NEW i \in Hosts, HostOK(i), host'[i] = host[i], man' = man, Grows,
         clock \in Nat, clock' \in Nat, clock <= clock', Valid(man),
         host[i].turn = "started" => calls'[host[i].journal.step] = calls[host[i].journal.step],
         \A m \in net' : \/ (\E n \in net : n.base = m.base) \/ m.base # man.gen
                         \/ Free(man.lease, clock) \/ man.lease.holder # i,
         host[i].at = "staged" /\ host[i].cur.gen = man.gen /\ binding # 0 => binding' # 0
  PROVE  HostOK(i)'
<1>1. Local(i)'
  <2>1. CASE host[i].at = "wait"
    <3> PICK w : w = host[i]
      OBVIOUS
    <3>1. /\ w \in Guards /\ w.op # "none" /\ Settled(i, Failed(w))
          /\ w.op = "compact" => Settled(i, Stopped(w))
      BY <2>1 DEF HostOK, Local
    <3>2. Settled(i, Failed(w))'
      BY <3>1, SettledKept
    <3>3. w.op = "compact" => Settled(i, Stopped(w))'
      BY <3>1, SettledKept
    <3> QED
      BY <3>1, <3>2, <3>3, <2>1 DEF Local
  <2>2. CASE host[i].at # "wait"
    <3> PICK w : w = host[i]
      OBVIOUS
    <3>1. Settled(i, w)'
      BY <2>2, SettledKept DEF HostOK, Local
    <3> QED
      BY <3>1, <2>2 DEF Local
  <2> QED
    BY <2>1, <2>2
<1>2. Cached(i)' /\ Replies(i)' /\ About(i)'
  BY DEF HostOK, Cached, Replies, About
<1>3. Staged(i)'
  BY FreeStable DEF HostOK, Staged, Valid, Manifests
<1>4. Alone(i)'
  <2> SUFFICES ASSUME host[i].at \in {"hold", "reaps"}, host[i].turn # "stopped",
                      ~host[i].lost, host[i].cur.lease = host[i].lease
               PROVE  \/ Free(host[i].lease, clock')
                      \/ host[i].cur = man /\ \A m \in net' : m.base # man.gen
    BY DEF Alone
  <2>1. host[i].lease \in Leases /\ host[i].lease.holder = i
    BY DEF HostOK, Local, Settled
  <2>2. Free(host[i].lease, clock) => Free(host[i].lease, clock')
    BY <2>1, FreeStable
  <2>3. \/ Free(host[i].lease, clock)
        \/ host[i].cur = man /\ \A m \in net : m.base # man.gen
    BY DEF HostOK, Alone
  <2> QED
    BY <2>1, <2>2, <2>3
<1> QED
  BY <1>1, <1>2, <1>3, <1>4 DEF HostOK

\* A replacement that is neither sent nor lands in the step.
LEMMA MsgKept ==
  ASSUME NEW m \in net, MsgOK(m), man' = man, Grows,
         clock \in Nat, clock' \in Nat, clock <= clock', Valid(man),
         m.from # Nobody => host'[m.from] = host[m.from],
         m.base = man.gen /\ binding # 0 => binding' # 0
  PROVE  MsgOK(m)'
<1>1. m.base = man.gen => Lands(m)'
  <2> SUFFICES ASSUME m.base = man.gen PROVE Lands(m)'
    OBVIOUS
  <2> PICK j : j = man.journal
    OBVIOUS
  <2>1. Lands(m)
    BY DEF MsgOK
  <2>2. Follows(j, m.to.journal) => Follows(j, m.to.journal)'
    BY FollowsKept
  <2>3. Free(man.lease, clock) => Free(man.lease, clock')
    BY FreeStable DEF Valid, Manifests
  <2> QED
    BY <2>1, <2>2, <2>3 DEF Lands
<1>2. m.from # Nobody => Settled(m.from, Accepted(host[m.from], m.to))'
  <2> SUFFICES ASSUME m.from # Nobody
               PROVE  Settled(m.from, Accepted(host[m.from], m.to))'
    OBVIOUS
  <2> PICK w : w = host[m.from]
    OBVIOUS
  <2>1. Settled(m.from, Accepted(w, m.to))'
    BY SettledKept DEF MsgOK
  <2> QED
    BY <2>1
<1> QED
  BY <1>1, <1>2 DEF MsgOK, Valid

-----------------------------------------------------------------------------
(* The two kinds of steps of a host: it changes, or it sends a replacement *)

\* What both leave alone.
Rest ==
    /\ UNCHANGED <<clock, man, calls>>
    /\ told' \subseteq Ends /\ told' \subseteq {man.tomb}
    /\ tasks' \in 0 .. MaxTasks /\ faults' \in 0 .. MaxFaults

\* A host that does not wait changes to g and sends nothing.
LEMMA HostStep ==
  ASSUME IInv, NEW h \in Hosts, NEW g, host[h].at # "wait",
         host' = [host EXCEPT ![h] = g], UNCHANGED <<net, binding>>, Rest,
         Settled(h, g),
         g.at \notin {"idle", "reread"} =>
           g.cur = host[h].cur /\ host[h].at \notin {"idle", "reread"},
         g.at \in {"hold", "reaps"} /\ g.turn # "stopped" /\ ~g.lost /\ g.cur.lease = g.lease =>
           /\ host[h].at \in {"hold", "reaps"} /\ host[h].turn # "stopped" /\ ~host[h].lost
           /\ host[h].lease = g.lease,
         g.out # "none" /\ g.at \in {"drop", "reread"} => g.out = man.tomb,
         g.at # "staged",
         g.turn = "started" => host[h].turn = "started" /\ g.journal = host[h].journal
  PROVE  IInv'
<1>1. Grows /\ clock \in Nat /\ clock' = clock /\ man' = man /\ calls' = calls
  BY Numbers DEF IInv, Grows, Rest
<1>2. \A i \in Hosts : host'[i] = IF i = h THEN g ELSE host[i]
  BY DEF IInv
<1>3. host' \in [Hosts -> Guards] /\ host'[h] = g
  BY <1>2 DEF IInv, Settled
<1>4. \A m \in net : m.from # h
  BY Numbers DEF IInv, MsgOK
<1>5. ASSUME NEW i \in Hosts, i # h PROVE HostOK(i)'
  BY <1>1, <1>2, <1>5, HostKept DEF IInv
<1>6. HostOK(h)'
  <2>1. Settled(h, g)' /\ g.op = "none" /\ g.at # "wait"
    BY <1>1, SettledKept DEF Settled
  <2>2. Local(h)'
    BY <2>1, <1>3 DEF Local
  <2>3. Cached(h)' /\ Replies(h)' /\ Staged(h)' /\ About(h)'
    BY <2>1, <1>1, <1>3 DEF IInv, HostOK, Cached, Replies, Staged, About
  <2>4. Alone(h)'
    BY <1>1, <1>3 DEF IInv, HostOK, Alone
  <2> QED
    BY <2>2, <2>3, <2>4 DEF HostOK
<1>7. ASSUME NEW m \in net' PROVE MsgOK(m)'
  <2>1. m \in net /\ MsgOK(m) /\ (m.from # Nobody => host'[m.from] = host[m.from])
    BY <1>2, <1>4 DEF IInv, MsgOK, Replacements
  <2> QED
    BY <2>1, <1>1, MsgKept DEF IInv
<1>8. OneStarted'
  BY <1>2 DEF IInv, OneStarted
<1> QED
  BY <1>1, <1>3, <1>5, <1>6, <1>7, <1>8
  DEF IInv, Rest, Valid, OneTerminalAnswer, ReachedIsKept, Counted, OneCall

\* A host that does not wait sends m and waits as w.
LEMMA SendStep ==
  ASSUME IInv, NEW h \in Hosts, NEW w, NEW m, host[h].at # "wait",
         host' = [host EXCEPT ![h] = w], net' = net \cup {m}, binding' = binding, Rest,
         w \in Guards, w.at = "wait", w.op # "none", Settled(h, Failed(w)),
         w.op = "compact" => Settled(h, Stopped(w)),
         m \in Replacements, m.from = h, m.base = w.cur.gen, m.to.gen = m.base + 1,
         Valid(m.to), Settled(h, Accepted(w, m.to)),
         w.op = "finish" => m.to.tomb = w.out,
         w.op = "start" => w.cur.journal.phase \in Callable /\ w.cur.tomb = "none",
         w.cur.gen <= man.gen,
         w.cur.gen = man.gen =>
           w.cur = man /\ Lands(m) /\ (Free(man.lease, clock) \/ man.lease.holder = h),
         w.out # "none" /\ w.op \in {"release", "clear"} => w.out = man.tomb,
         w.turn = "started" => host[h].turn = "started" /\ w.journal = host[h].journal
  PROVE  IInv'
<1>1. Grows /\ clock \in Nat /\ clock' = clock /\ man' = man /\ calls' = calls
  BY Numbers DEF IInv, Grows, Rest
<1>2. \A i \in Hosts : host'[i] = IF i = h THEN w ELSE host[i]
  BY DEF IInv
<1>3. host' \in [Hosts -> Guards] /\ host'[h] = w
  BY <1>2 DEF IInv
<1>4. \A n \in net : n.from # h
  BY Numbers DEF IInv, MsgOK
<1>5. ASSUME NEW i \in Hosts, i # h PROVE HostOK(i)'
  BY <1>1, <1>2, <1>5, HostKept DEF IInv
<1>6. HostOK(h)'
  <2>1. Settled(h, Failed(w))' /\ (w.op = "compact" => Settled(h, Stopped(w))')
    BY <1>1, SettledKept
  <2>2. Local(h)'
    BY <2>1, <1>3 DEF Local
  <2>3. Cached(h)' /\ Replies(h)' /\ Staged(h)' /\ About(h)' /\ Alone(h)'
    BY <1>1, <1>3 DEF IInv, HostOK, Cached, Replies, Staged, About, Alone
  <2> QED
    BY <2>2, <2>3 DEF HostOK
<1>7. ASSUME NEW n \in net' PROVE MsgOK(n)'
  <2>1. CASE n \in net
    <3>1. MsgOK(n) /\ (n.from # Nobody => host'[n.from] = host[n.from])
      BY <1>2, <1>4, <2>1 DEF IInv, MsgOK, Replacements
    <3> QED
      BY <2>1, <3>1, <1>1, MsgKept DEF IInv
  <2>2. CASE n = m
    <3>1. Settled(h, Accepted(w, m.to))'
      BY <1>1, SettledKept
    <3>2. m.base = man.gen => Lands(m)'
      BY <1>1 DEF Lands, Follows
    <3> QED
      BY <2>2, <3>1, <3>2, <1>1, <1>3 DEF MsgOK, Valid
  <2> QED
    BY <2>1, <2>2
<1>8. OneStarted'
  BY <1>2 DEF IInv, OneStarted
<1>9. OneCall'
  BY <1>4 DEF IInv, OneCall
<1> QED
  BY <1>1, <1>3, <1>5, <1>6, <1>7, <1>8, <1>9
  DEF IInv, Rest, Valid, OneTerminalAnswer, ReachedIsKept, Counted
-----------------------------------------------------------------------------
(* Steps of a guard *)

\* A step that leaves the server alone and tells nobody anything.
LEMMA RestKept ==
  ASSUME IInv, UNCHANGED <<clock, man, calls, told>>,
         tasks' \in 0 .. MaxTasks, faults' \in 0 .. MaxFaults
  PROVE  Rest
BY DEF IInv, Rest, OneTerminalAnswer

\* What the invariant says of a guard in use.
LEMMA GuardFacts ==
  ASSUME IInv, NEW h \in Hosts, host[h].at \in {"hold", "drop", "reaps"}
  PROVE  /\ host[h] \in Guards /\ host[h].op = "none" /\ Valid(host[h].cur)
         /\ host[h].lease \in Leases /\ host[h].lease.holder = h
         /\ host[h].out \in Ends \cup {"none"}
         /\ host[h].at = "hold" => TurnOK(host[h])
         /\ host[h].out # "none" /\ host[h].at = "drop" => host[h].out = man.tomb
         /\ host[h].cur.gen <= man.gen
         /\ host[h].cur.gen = man.gen => host[h].cur = man
<1>1. HostOK(h) /\ host[h] \in Guards
  BY DEF IInv
<1>2. Settled(h, host[h])
  BY <1>1 DEF HostOK, Local
<1>3. host[h].out \in Ends \cup {"none"}
  BY <1>1 DEF Guards
<1> QED
  BY <1>1, <1>2, <1>3 DEF HostOK, Settled, Replies, Cached

\* A turn goes on without a call of the manifest.
LEMMA HoldStep ==
  ASSUME IInv, NEW h \in Hosts, NEW g, host[h].at = "hold",
         host' = [host EXCEPT ![h] = g], UNCHANGED <<net, binding>>, Rest,
         g \in Guards, g.at = "hold", g.op = "none", g.cur = host[h].cur,
         g.lease = host[h].lease, host[h].lost => g.lost, TurnOK(g),
         host[h].turn = "stopped" => g.turn = "stopped",
         g.turn = "started" => host[h].turn = "started" /\ g.journal = host[h].journal
  PROVE  IInv'
<1>1. Settled(h, g)
  BY GuardFacts DEF Settled
<1> QED
  BY <1>1, HostStep

LEMMA StepLimitStep ==
  ASSUME IInv, NEW h \in Hosts, StepLimit(h)
  PROVE  IInv'
<1>1. PICK g : g = [host[h] EXCEPT !.turn = "failed"]
  OBVIOUS
<1>2. /\ host[h].at = "hold" /\ Rest /\ UNCHANGED <<net, binding>>
      /\ host' = [host EXCEPT ![h] = g]
  BY <1>1, RestKept DEF StepLimit, Become, others, bounds, IInv
<1>3. host[h] \in Guards /\ TurnOK(host[h]) /\ host[h].op = "none"
  BY <1>2, GuardFacts
<1>4. /\ g \in Guards /\ g.at = "hold" /\ g.op = "none" /\ g.cur = host[h].cur
      /\ g.lease = host[h].lease /\ g.lost = host[h].lost /\ g.turn = "failed"
      /\ g.journal = host[h].journal /\ g.out = host[h].out
  BY <1>1, <1>2, <1>3 DEF Guards
<1>5. host[h].turn \in InTurn /\ host[h].turn \notin Ended
  BY DEF StepLimit, InTurn, Ended
<1>6. TurnOK(g)
  BY <1>3, <1>4, <1>5 DEF TurnOK, InTurn, Answered, Ended
<1> QED
  BY <1>2, <1>4, <1>5, <1>6, HoldStep DEF InTurn

LEMMA CancelStep ==
  ASSUME IInv, NEW h \in Hosts, Cancel(h)
  PROVE  IInv'
<1>1. PICK e \in BOOLEAN : e = (host[h].turn = "final")
  OBVIOUS
<1>2. PICK g : g = [host[h] EXCEPT !.turn = "failed", !.exited = e]
  OBVIOUS
<1>3. /\ host[h].at = "hold" /\ Rest /\ UNCHANGED <<net, binding>>
      /\ host' = [host EXCEPT ![h] = g] /\ host[h].out = "none"
  BY <1>1, <1>2, RestKept DEF Cancel, Become, others, bounds, IInv
<1>4. host[h] \in Guards /\ TurnOK(host[h]) /\ host[h].op = "none"
  BY <1>3, GuardFacts
<1>5. /\ g \in Guards /\ g.at = "hold" /\ g.op = "none" /\ g.cur = host[h].cur
      /\ g.lease = host[h].lease /\ g.lost = host[h].lost /\ g.turn = "failed"
      /\ g.journal = host[h].journal /\ g.out = "none"
  <2>1. e \in BOOLEAN
    BY <1>1
  <2> QED
    BY <1>2, <1>3, <1>4, <2>1 DEF Guards
<1>6. host[h].turn \in InTurn
  BY DEF Cancel, InTurn
<1>7. TurnOK(g)
  BY <1>4, <1>5, <1>6 DEF TurnOK, InTurn, Answered, Ended
<1> QED
  BY <1>3, <1>5, <1>6, <1>7, HoldStep DEF InTurn

\* A guard whose maintenance ended with an error.
LEMMA StoppedSettled ==
  ASSUME NEW h \in Hosts, NEW g \in Guards, g.lease \in Leases, g.lease.holder = h,
         Valid(g.cur), g.out = "none"
  PROVE  /\ Settled(h, Stopped(g)) /\ Stopped(g).at = "hold"
         /\ Stopped(g).turn = "stopped" /\ Stopped(g).cur = g.cur
<1>1. PICK f : f = Stopped(g)
  OBVIOUS
<1>2. /\ f \in Guards /\ f.at = "hold" /\ f.op = "none" /\ f.cur = g.cur
      /\ f.lease = g.lease /\ f.turn = "stopped" /\ f.out = "none"
  BY <1>1 DEF Stopped, Guards
<1>3. TurnOK(f)
  BY <1>2 DEF TurnOK, InTurn, Answered, Ended
<1> QED
  BY <1>1, <1>2, <1>3 DEF Settled

LEMMA StagingFailsStep ==
  ASSUME IInv, NEW h \in Hosts, StagingFails(h)
  PROVE  IInv'
<1>1. /\ host[h].at = "hold" /\ Rest /\ UNCHANGED <<net, binding>>
  BY RestKept DEF StagingFails, Become, others, bounds, IInv
<1>2. host[h] \in Guards /\ TurnOK(host[h]) /\ host[h].op = "none"
  BY <1>1, GuardFacts
<1>3. host[h].journal \in Journals /\ host[h].journal.step \in 0 .. MaxSteps
  BY <1>2 DEF Guards, Journals
<1>4. CASE host[h].turn = "ready"
  <2>1. PICK g : g = [host[h] EXCEPT !.journal.phase = "started", !.turn = "unknown"]
    OBVIOUS
  <2>2. host' = [host EXCEPT ![h] = g] /\ host[h].journal.step < MaxSteps
    BY <1>4, <2>1 DEF StagingFails, Become, Compactable
  <2>3. g.journal = [host[h].journal EXCEPT !.phase = "started"]
    BY <2>1, <1>2 DEF Guards
  <2>4. /\ g.journal \in Journals /\ g.journal.phase = "started"
        /\ g.journal.step = host[h].journal.step
        /\ g.journal = [phase |-> "started", step |-> host[h].journal.step]
    BY <2>3, <1>3 DEF Journals, Phases
  <2>5. /\ g \in Guards /\ g.at = "hold" /\ g.op = "none" /\ g.cur = host[h].cur
        /\ g.lease = host[h].lease /\ g.lost = host[h].lost /\ g.turn = "unknown"
        /\ g.out = host[h].out
    BY <1>1, <1>2, <2>1, <2>4 DEF Guards
  <2>6. TurnOK(g)
    BY <1>2, <1>4, <2>4, <2>5 DEF TurnOK, InTurn, Answered, Ended, Follows
  <2> QED
    BY <1>1, <1>4, <2>2, <2>5, <2>6, HoldStep
<1>5. CASE host[h].turn \in {"reads", "writes", "text"}
  <2>1. PICK k : k = [phase |-> IF host[h].turn = "text" THEN "final" ELSE "completed",
                      step |-> host[h].journal.step + 1]
    OBVIOUS
  <2>2. PICK g : g = [host[h] EXCEPT !.turn = "failed", !.journal = k]
    OBVIOUS
  <2>3. host' = [host EXCEPT ![h] = g]
    BY <1>5, <2>1, <2>2 DEF StagingFails, Become, Compactable
  <2>4. host[h].journal.step \in Steps /\ calls[host[h].journal.step] = 1
    BY <1>2, <1>5 DEF TurnOK, Answered
  <2>5. k \in Journals /\ k.phase \in {"completed", "final"}
    BY <2>1, <2>4, Numbers DEF Journals, Phases, Steps
  <2>6. /\ g \in Guards /\ g.at = "hold" /\ g.op = "none" /\ g.cur = host[h].cur
        /\ g.lease = host[h].lease /\ g.lost = host[h].lost /\ g.turn = "failed"
        /\ g.journal = k /\ g.out = host[h].out
    BY <1>1, <1>2, <2>2, <2>5 DEF Guards
  <2>7. TurnOK(g)
    BY <1>2, <1>5, <2>1, <2>4, <2>5, <2>6 DEF TurnOK, InTurn, Answered, Ended, Follows
  <2> QED
    BY <1>1, <1>5, <2>3, <2>6, <2>7, HoldStep
<1>6. CASE Compactable(host[h])
  <2>1. PICK g : g = Stopped(host[h])
    OBVIOUS
  <2>2. host' = [host EXCEPT ![h] = g]
    BY <1>6, <2>1 DEF StagingFails, Become, Compactable
  <2>3. host[h].out = "none"
    BY <1>2, <1>6 DEF Compactable, TurnOK, Ended
  <2>4. Settled(h, g) /\ g.at = "hold" /\ g.turn = "stopped" /\ g.cur = host[h].cur
    BY <1>1, <1>2, <2>1, <2>3, GuardFacts, StoppedSettled
  <2> QED
    BY <1>1, <2>2, <2>4, HostStep
<1> QED
  BY <1>4, <1>5, <1>6 DEF StagingFails

LEMMA BindRecordsStep ==
  ASSUME IInv, NEW h \in Hosts, BindRecords(h)
  PROVE  IInv'
<1>1. /\ host[h].at = "hold" /\ Rest /\ UNCHANGED <<net, binding>> /\ host[h].out = "none"
  BY RestKept DEF BindRecords, Become, others, bounds, IInv
<1>2. /\ host[h] \in Guards /\ TurnOK(host[h]) /\ host[h].op = "none"
      /\ host[h].lease \in Leases
  BY <1>1, GuardFacts
<1>3. CASE host[h].lost
  <2>1. PICK g, w : g = host[h] /\ w = Drop(g)
    OBVIOUS
  <2>2. host' = [host EXCEPT ![h] = w]
    BY <1>3, <2>1 DEF BindRecords, Become
  <2>3. Settled(h, w) /\ w.at = "reread" /\ w.out = "none" /\ w.turn = "none"
    BY <1>1, <1>2, <1>3, <2>1, GuardFacts, DropSettled
  <2> QED
    BY <1>1, <2>2, <2>3, HostStep
<1>4. CASE ~host[h].lost
  <2>1. PICK g : g = [host[h] EXCEPT !.exp = host[h].lease.exp, !.out = EndOf(host[h].turn)]
    OBVIOUS
  <2>2. host' = [host EXCEPT ![h] = g]
    BY <1>4, <2>1 DEF BindRecords, Become
  <2>3. /\ host[h].turn \in Ended /\ EndOf(host[h].turn) \in Ends
        /\ host[h].turn = "final" \/ host[h].exited
    BY DEF BindRecords, Ended, EndOf, Ends
  <2>4. host[h].lease.exp \in 0 .. MaxClock + TTL
    BY <1>2 DEF Leases
  <2>5. /\ g \in Guards /\ g.at = "hold" /\ g.op = "none" /\ g.cur = host[h].cur
        /\ g.lease = host[h].lease /\ g.lost = host[h].lost /\ g.turn = host[h].turn
        /\ g.journal = host[h].journal /\ g.out = EndOf(g.turn) /\ g.exited = host[h].exited
    BY <1>1, <1>2, <2>1, <2>3, <2>4 DEF Guards
  <2>6. TurnOK(g)
    BY <1>2, <2>3, <2>5 DEF TurnOK
  <2> QED
    BY <1>1, <2>2, <2>3, <2>5, <2>6, HoldStep DEF Ended
<1> QED
  BY <1>3, <1>4

LEMMA StartReapingStep ==
  ASSUME IInv, NEW h \in Hosts, StartReaping(h)
  PROVE  IInv'
<1>1. /\ host[h].at = "hold" /\ Rest /\ UNCHANGED <<net, binding>>
      /\ host[h].turn = "maintains" /\ clock \in 1 .. MaxClock
  BY RestKept DEF StartReaping, Become, others, bounds, IInv
<1>2. /\ host[h] \in Guards /\ TurnOK(host[h]) /\ host[h].op = "none"
      /\ Valid(host[h].cur) /\ host[h].lease \in Leases /\ host[h].lease.holder = h
      /\ host[h].out = "none"
  BY <1>1, GuardFacts DEF TurnOK, Ended
<1>3. CASE Holds(host[h])
  <2>1. PICK g : g = [host[h] EXCEPT !.at = "reaps", !.turn = "reaped", !.sample = clock]
    OBVIOUS
  <2>2. host' = [host EXCEPT ![h] = g]
    BY <1>3, <2>1 DEF StartReaping, Become
  <2>3. clock \in 0 .. MaxClock + TTL
    BY <1>1, Numbers
  <2>4. /\ g \in Guards /\ g.at = "reaps" /\ g.op = "none" /\ g.cur = host[h].cur
        /\ g.lease = host[h].lease /\ g.lost = host[h].lost /\ g.turn = "reaped"
        /\ g.out = "none" /\ g.sample = clock
    BY <1>1, <1>2, <2>1, <2>3 DEF Guards
  <2>5. Settled(h, g)
    BY <1>2, <1>3, <2>4 DEF Settled, Holds
  <2> QED
    BY <1>1, <2>2, <2>4, <2>5, HostStep
<1>4. CASE ~Holds(host[h])
  <2>1. PICK g, w : g = host[h] /\ w = Lose(g)
    OBVIOUS
  <2>2. host' = [host EXCEPT ![h] = w]
    BY <1>4, <2>1 DEF StartReaping, Become
  <2>3. Settled(h, w) /\ w.at = "reread" /\ w.out = "none" /\ w.turn = "none"
    BY <1>2, <2>1, LoseSettled
  <2> QED
    BY <1>1, <2>2, <2>3, HostStep
<1> QED
  BY <1>3, <1>4

LEMMA EndMaintenanceStep ==
  ASSUME IInv, NEW h \in Hosts, EndMaintenance(h)
  PROVE  IInv'
<1>1. /\ Rest /\ UNCHANGED <<net, binding>>
      /\ host[h].at = "reaps" \/ (host[h].at = "hold" /\ host[h].turn = "stopped")
  BY RestKept DEF EndMaintenance, Become, others, bounds, IInv
<1>2. PICK g, w : g = host[h] /\ w = Drop(g)
  OBVIOUS
<1>3. host' = [host EXCEPT ![h] = w]
  BY <1>2 DEF EndMaintenance, Become
<1>4. g.lease \in Leases /\ g.lease.holder = h /\ Valid(g.cur) /\ g.out = "none"
  BY <1>1, <1>2 DEF IInv, HostOK, Local, Settled, TurnOK, Ended
<1>5. /\ Settled(h, w) /\ w.out = "none" /\ w.turn = "none"
      /\ w.at = "reread" \/ (w.at = "drop" /\ ~g.lost)
      /\ w.at = "drop" => w.cur = g.cur /\ w.lease = g.lease
  BY <1>2, <1>4, DropSettled
<1> QED
  BY <1>1, <1>2, <1>3, <1>5, HostStep
-----------------------------------------------------------------------------
(* Replacements of the manifest *)

Ops == {"acquire", "renew", "start", "complete", "exit", "finish",
        "compact", "release", "clear", "archive"}

\* What Send makes of a guard and a manifest.
Waits(w, g, op) ==
    /\ w \in Guards /\ w.at = "wait" /\ w.op = op /\ w.cur = g.cur /\ w.lease = g.lease
    /\ w.lost = g.lost /\ w.turn = g.turn /\ w.journal = g.journal
    /\ w.exited = g.exited /\ w.out = g.out
Carries(m, h, base, to) ==
    /\ m \in Replacements /\ m.from = h /\ m.base = base /\ Valid(m.to)
    /\ m.to.gen = base + 1 /\ m.to.lease = to.lease /\ m.to.journal = to.journal
    /\ m.to.tomb = to.tomb /\ m.to.bound = to.bound

LEMMA SendFields ==
  ASSUME NEW h \in Hosts, NEW g \in Guards, NEW op \in Ops, NEW to, Valid(to),
         to.gen = g.cur.gen, Send(h, g, op, to)
  PROVE  \E w, m : /\ host' = [host EXCEPT ![h] = w] /\ net' = net \cup {m}
                   /\ Waits(w, g, op) /\ Carries(m, h, g.cur.gen, to)
<1>1. /\ g.cur \in Manifests /\ g.cur.gen \in 0 .. MaxGen /\ g.cur.gen < MaxGen
      /\ to \in Manifests
  BY DEF Guards, Manifests, Send, Valid
<1>2. PICK x : x = Bumped(to)
  OBVIOUS
<1>3. /\ x \in Manifests /\ x.gen = g.cur.gen + 1 /\ x.lease = to.lease
      /\ x.journal = to.journal /\ x.tomb = to.tomb /\ x.bound = to.bound
  <2>1. to.gen + 1 \in 0 .. MaxGen
    BY <1>1, Numbers
  <2> QED
    BY <1>1, <1>2, <2>1 DEF Bumped, Manifests
<1>4. Valid(x)
  BY <1>3 DEF Valid
<1>5. PICK m : m = [from |-> h, base |-> g.cur.gen, to |-> x]
  OBVIOUS
<1>6. Carries(m, h, g.cur.gen, to)
  BY <1>1, <1>3, <1>4, <1>5 DEF Carries, Replacements
<1>7. PICK w : w = [g EXCEPT !.at = "wait", !.op = op]
  OBVIOUS
<1>8. Waits(w, g, op)
  BY <1>7 DEF Waits, Guards, Ops
<1>9. host' = [host EXCEPT ![h] = w] /\ net' = net \cup {m}
  BY <1>2, <1>5, <1>7 DEF Send
<1> QED
  BY <1>6, <1>8, <1>9

\* A call of a guard that failed, except a renewal.
LEMMA FailedLoses ==
  ASSUME NEW h \in Hosts, NEW w \in Guards, w.lease \in Leases, w.lease.holder = h,
         w.op \in {"start", "complete", "exit", "finish", "compact", "release"}
  PROVE  Settled(h, Failed(w))
<1>1. CASE w.op = "release"
  <2>1. Failed(w) = Lose(w) /\ w.out \in Ends \cup {"none"}
    BY <1>1 DEF Failed, Guards
  <2> QED
    BY <2>1, LoseSettled
<1>2. CASE w.op # "release"
  <2>1. PICK g : g = [w EXCEPT !.out = "none"]
    OBVIOUS
  <2>2. Failed(w) = Lose(g)
    BY <1>2, <2>1 DEF Failed
  <2>3. g.lease = w.lease /\ g.out = "none"
    BY <2>1 DEF Guards
  <2> QED
    BY <2>2, <2>3, LoseSettled
<1> QED
  BY <1>1, <1>2

\* The guard whose call was answered.
Holding(w, to) == [w EXCEPT !.cur = to, !.at = "hold", !.op = "none"]

LEMMA HoldingFields ==
  ASSUME NEW w \in Guards, NEW to \in Manifests
  PROVE  /\ Holding(w, to) \in Guards /\ Holding(w, to).at = "hold"
         /\ Holding(w, to).op = "none" /\ Holding(w, to).cur = to
         /\ Holding(w, to).lease = w.lease /\ Holding(w, to).lost = w.lost
         /\ Holding(w, to).turn = w.turn /\ Holding(w, to).journal = w.journal
         /\ Holding(w, to).exited = w.exited /\ Holding(w, to).out = w.out
BY DEF Holding, Guards

\* A guard replaces the manifest it caches: it waits as w for m.
GuardSends(h, w, m) ==
    /\ host[h].at \in {"hold", "drop"} /\ host[h].cur.lease = host[h].lease
    /\ w \in Guards /\ w.at = "wait" /\ w.op # "none" /\ w.cur = host[h].cur
    /\ m \in Replacements /\ m.from = h /\ m.base = w.cur.gen
    /\ m.to.gen = m.base + 1 /\ Valid(m.to) /\ (m.to.bound => w.cur.bound)
    /\ \/ m.to.tomb = w.cur.tomb
       \/ w.cur.tomb = "none" /\ m.to.journal = w.cur.journal
    /\ \/ Follows(w.cur.journal, m.to.journal)
       \/ w.cur.tomb # "none" /\ m.to.journal = NoJournal
    /\ Settled(h, Failed(w)) /\ Settled(h, Accepted(w, m.to))
    /\ w.op = "compact" => Settled(h, Stopped(w))
    /\ w.op = "finish" => m.to.tomb = w.out
    /\ w.op = "start" => w.cur.journal.phase \in Callable /\ w.cur.tomb = "none"
    /\ w.out # "none" /\ w.op \in {"release", "clear"} => w.out = man.tomb
    /\ w.turn = "started" => host[h].turn = "started" /\ w.journal = host[h].journal

LEMMA GuardSend ==
  ASSUME IInv, NEW h \in Hosts, NEW w, NEW m, GuardSends(h, w, m),
         host' = [host EXCEPT ![h] = w], net' = net \cup {m}, binding' = binding, Rest
  PROVE  IInv'
<1>1. /\ host[h].at \in {"hold", "drop"} /\ host[h].cur.lease = host[h].lease
      /\ w \in Guards /\ w.at = "wait" /\ w.op # "none" /\ w.cur = host[h].cur
      /\ m \in Replacements /\ m.from = h /\ m.base = w.cur.gen
      /\ m.to.gen = m.base + 1 /\ Valid(m.to)
      /\ Settled(h, Failed(w)) /\ Settled(h, Accepted(w, m.to))
      /\ w.op = "compact" => Settled(h, Stopped(w))
      /\ w.op = "finish" => m.to.tomb = w.out
      /\ w.op = "start" => w.cur.journal.phase \in Callable /\ w.cur.tomb = "none"
      /\ w.out # "none" /\ w.op \in {"release", "clear"} => w.out = man.tomb
      /\ w.turn = "started" => host[h].turn = "started" /\ w.journal = host[h].journal
  BY DEF GuardSends
<1>2. /\ host[h].cur.gen <= man.gen /\ (host[h].cur.gen = man.gen => host[h].cur = man)
      /\ host[h].lease.holder = h
  BY <1>1, GuardFacts
<1>3. w.cur.gen = man.gen => w.cur = man /\ Lands(m) /\ man.lease.holder = h
  BY <1>1, <1>2 DEF Lands, GuardSends
<1>4. host[h].at # "wait" /\ w.cur.gen <= man.gen
  BY <1>1, <1>2
<1> QED
  BY <1>1, <1>3, <1>4, SendStep

\* What a turn needs does not depend on the rest of its guard.
LEMMA TurnKept ==
  ASSUME NEW g, NEW n, TurnOK(g), n.turn = g.turn, n.journal = g.journal,
         n.out = g.out, n.exited = g.exited, n.cur.bound = g.cur.bound,
         n.cur.tomb = g.cur.tomb, n.cur.journal = g.cur.journal
  PROVE  TurnOK(n)
BY DEF TurnOK

LEMMA RenewStep ==
  ASSUME IInv, NEW h \in Hosts, Renew(h)
  PROVE  IInv'
<1>1. host[h].at = "hold" /\ Rest /\ binding' = binding /\ clock \in 1 .. MaxClock
  BY RestKept DEF Renew, others, bounds, IInv
<1>2. PICK g : g = host[h]
  OBVIOUS
<1>3. /\ g \in Guards /\ TurnOK(g) /\ g.op = "none" /\ Valid(g.cur)
      /\ g.lease \in Leases /\ g.lease.holder = h /\ g.at = "hold"
  BY <1>1, <1>2, GuardFacts
<1>4. CASE Holds(host[h])
  <2>1. PICK lease : lease = [g.lease EXCEPT !.exp = clock + TTL]
    OBVIOUS
  <2>2. PICK to : to = [g.cur EXCEPT !.lease = lease]
    OBVIOUS
  <2>3. lease \in Leases /\ lease.holder = h
    <3>1. clock + TTL \in 0 .. MaxClock + TTL
      BY <1>1, Numbers
    <3> QED
      BY <1>3, <2>1, <3>1 DEF Leases
  <2>4. /\ to \in Manifests /\ to.gen = g.cur.gen /\ to.lease = lease
        /\ to.journal = g.cur.journal /\ to.tomb = g.cur.tomb /\ to.bound = g.cur.bound
    BY <1>3, <2>2, <2>3 DEF Valid, Manifests
  <2>5. Valid(to)
    BY <1>3, <2>4 DEF Valid
  <2>6. Send(h, g, "renew", to) /\ g.cur.lease = g.lease
    BY <1>2, <1>4, <2>1, <2>2 DEF Renew, Holds
  <2>7. PICK w, m : /\ host' = [host EXCEPT ![h] = w] /\ net' = net \cup {m}
                    /\ Waits(w, g, "renew") /\ Carries(m, h, g.cur.gen, to)
    BY <1>3, <2>4, <2>5, <2>6, SendFields DEF Ops
  <2>8. Settled(h, Failed(w))
    <3>1. PICK f : f = [w EXCEPT !.at = "hold", !.op = "none", !.lost = TRUE]
      OBVIOUS
    <3>2. Failed(w) = f
      BY <2>7, <3>1 DEF Failed, Waits
    <3>3. /\ f \in Guards /\ f.at = "hold" /\ f.op = "none" /\ f.cur = g.cur
          /\ f.lease = g.lease /\ f.turn = g.turn /\ f.journal = g.journal
          /\ f.out = g.out /\ f.exited = g.exited
      BY <2>7, <3>1 DEF Waits, Guards
    <3>4. TurnOK(f)
      BY <1>3, <3>3, TurnKept
    <3> QED
      BY <1>3, <3>2, <3>3, <3>4 DEF Settled
  <2>9. Settled(h, Accepted(w, m.to))
    <3>1. /\ w \in Guards /\ m.to \in Manifests /\ m.to.lease = lease /\ Valid(m.to)
          /\ m.to.journal = g.cur.journal /\ m.to.tomb = g.cur.tomb
          /\ m.to.bound = g.cur.bound
      BY <2>4, <2>7 DEF Waits, Carries, Valid
    <3>2. PICK n : n = Holding(w, m.to)
      OBVIOUS
    <3>3. PICK a : a = [n EXCEPT !.lease = m.to.lease]
      OBVIOUS
    <3>4. Accepted(w, m.to) = a
      BY <2>7, <3>2, <3>3 DEF Accepted, Waits, Holding
    <3>5. /\ n \in Guards /\ n.at = "hold" /\ n.op = "none" /\ n.cur = m.to
          /\ n.turn = g.turn /\ n.journal = g.journal
          /\ n.exited = g.exited /\ n.out = g.out
      BY <2>7, <3>1, <3>2, HoldingFields DEF Waits
    <3>6. /\ a \in Guards /\ a.at = "hold" /\ a.op = "none" /\ a.cur = m.to
          /\ a.lease = lease /\ a.turn = g.turn /\ a.journal = g.journal
          /\ a.exited = g.exited /\ a.out = g.out
      BY <2>3, <3>1, <3>3, <3>5 DEF Guards
    <3>7. TurnOK(a)
      BY <1>3, <3>1, <3>6, TurnKept
    <3> QED
      BY <2>3, <3>1, <3>4, <3>6, <3>7 DEF Settled
  <2>10. /\ w \in Guards /\ w.at = "wait" /\ w.op = "renew" /\ w.cur = host[h].cur
         /\ m \in Replacements /\ m.from = h /\ m.base = w.cur.gen
         /\ m.to.gen = m.base + 1 /\ Valid(m.to) /\ (m.to.bound => w.cur.bound)
         /\ m.to.tomb = w.cur.tomb /\ m.to.journal = w.cur.journal
         /\ w.turn = host[h].turn /\ w.journal = host[h].journal
    BY <1>2, <2>4, <2>7 DEF Waits, Carries
  <2>11. host[h].cur.lease = host[h].lease /\ Follows(w.cur.journal, m.to.journal)
    BY <1>2, <2>6, <2>10 DEF Follows
  <2>12. GuardSends(h, w, m)
    BY <1>1, <2>8, <2>9, <2>10, <2>11 DEF GuardSends
  <2> QED
    BY <1>1, <2>7, <2>12, GuardSend
<1>5. CASE ~Holds(host[h])
  <2>1. PICK f : f = [g EXCEPT !.lost = TRUE]
    OBVIOUS
  <2>2. host' = [host EXCEPT ![h] = f] /\ net' = net
    BY <1>2, <1>5, <2>1 DEF Renew, Become
  <2>3. /\ f \in Guards /\ f.at = "hold" /\ f.op = "none" /\ f.cur = g.cur
        /\ f.lease = g.lease /\ f.turn = g.turn /\ f.journal = g.journal
        /\ f.out = g.out /\ f.exited = g.exited /\ f.lost
    BY <1>3, <2>1 DEF Guards
  <2>4. TurnOK(f)
    BY <1>3, <2>3, TurnKept
  <2> QED
    BY <1>1, <1>2, <2>2, <2>3, <2>4, HoldStep
<1> QED
  BY <1>4, <1>5
\* The guard g of a turn in host h's hands publishes its journal.
Publishes(h, g, op) ==
    /\ host[h].at = "hold" /\ g \in Guards /\ g.cur = host[h].cur
    /\ g.lease = host[h].lease /\ g.out = "none" /\ g.turn # "started"
    /\ g.cur.bound /\ g.cur.tomb = "none" /\ Follows(g.cur.journal, g.journal)
    /\ \/ /\ op = "start" /\ g.cur.journal.phase \in Callable
          /\ g.journal.phase = "started" /\ g.journal.step \in Steps
       \/ /\ op = "complete" /\ g.turn \in Answered
          /\ g.turn = "reads" => g.journal.phase = "completed"
       \/ /\ op = "exit" /\ g.turn \in {"awaits", "unknown", "failed"}
          /\ g.turn = "unknown" => g.journal.phase = "started"

\* The turn goes on when its journal is published.
LEMMA PublishedSettled ==
  ASSUME NEW h \in Hosts, NEW g, NEW op, NEW w, NEW x, Publishes(h, g, op),
         Waits(w, g, op), Valid(x), x.journal = g.journal, x.bound, x.tomb = "none",
         g.lease \in Leases, g.lease.holder = h
  PROVE  Settled(h, Accepted(w, x))
<1>1. w \in Guards /\ x \in Manifests
  BY DEF Waits, Valid
<1>2. PICK n : n = Holding(w, x)
  OBVIOUS
<1>3. /\ n \in Guards /\ n.at = "hold" /\ n.op = "none" /\ n.cur = x
      /\ n.lease = g.lease /\ n.turn = g.turn /\ n.journal = g.journal
      /\ n.exited = g.exited /\ n.out = "none"
  BY <1>1, <1>2, HoldingFields DEF Waits, Publishes
<1>4. w.op = op /\ w.turn = g.turn
  BY DEF Waits
<1>5. Follows(x.journal, g.journal)
  BY DEF Follows
<1>6. ASSUME NEW turn \in InTurn, NEW a, a = [n EXCEPT !.turn = turn],
             turn \in {"started"} \cup Answered =>
               /\ g.journal.phase = "started" /\ g.journal.step \in Steps
               /\ turn # "started" => calls[g.journal.step] = 1,
             turn = "ready" => g.journal.phase \in Callable,
             turn = "unknown" => g.journal.phase = "started"
      PROVE  Settled(h, a)
  <2>1. /\ a \in Guards /\ a.at = "hold" /\ a.op = "none" /\ a.cur = x
        /\ a.lease = g.lease /\ a.turn = turn /\ a.journal = g.journal /\ a.out = "none"
    BY <1>3, <1>6 DEF Guards, InTurn
  <2>2. TurnOK(a)
    BY <2>1, <1>5, <1>6 DEF TurnOK, Answered
  <2> QED
    BY <2>1, <2>2 DEF Settled
<1>7. CASE op = "start"
  <2>1. PICK a : a = [n EXCEPT !.turn = "started"]
    OBVIOUS
  <2>2. Accepted(w, x) = a
    BY <1>2, <1>4, <1>7, <2>1 DEF Accepted, Holding
  <2> QED
    BY <1>6, <1>7, <2>1, <2>2 DEF Publishes, InTurn, Answered
<1>8. CASE op = "complete"
  <2>1. PICK turn : turn = CASE g.turn = "text" -> "final"
                             [] g.turn = "badids" -> "failed"
                             [] g.turn = "writes" -> "awaits"
                             [] OTHER -> "ready"
    OBVIOUS
  <2>2. PICK a : a = [n EXCEPT !.turn = turn]
    OBVIOUS
  <2>3. Accepted(w, x) = a
    BY <1>2, <1>4, <1>8, <2>1, <2>2 DEF Accepted, Holding
  <2>4. /\ turn \in {"final", "failed", "awaits", "ready"}
        /\ turn = "ready" => g.journal.phase = "completed"
    BY <1>8, <2>1 DEF Publishes, Answered
  <2> QED
    BY <1>6, <2>2, <2>3, <2>4 DEF InTurn, Answered, Callable
<1>9. CASE op = "exit"
  <2>1. PICK a : a = [n EXCEPT !.exited = TRUE]
    OBVIOUS
  <2>2. Accepted(w, x) = a
    BY <1>2, <1>4, <1>9, <2>1 DEF Accepted, Holding
  <2>3. /\ a \in Guards /\ a.at = "hold" /\ a.op = "none" /\ a.cur = x
        /\ a.lease = g.lease /\ a.turn = g.turn /\ a.journal = g.journal /\ a.out = "none"
    BY <1>3, <2>1 DEF Guards
  <2>4. TurnOK(a)
    BY <1>5, <1>9, <2>3 DEF TurnOK, Publishes, Answered, InTurn
  <2> QED
    BY <2>2, <2>3, <2>4 DEF Settled
<1> QED
  BY <1>7, <1>8, <1>9 DEF Publishes

LEMMA PublishStep ==
  ASSUME IInv, NEW h \in Hosts, NEW g, NEW op, Publishes(h, g, op),
         PublishJournal(h, g, op), binding' = binding, Rest
  PROVE  IInv'
<1>1. /\ host[h].at = "hold" /\ g \in Guards /\ g.cur = host[h].cur
      /\ g.lease = host[h].lease /\ g.out = "none" /\ g.turn # "started"
      /\ g.cur.bound /\ g.cur.tomb = "none" /\ Follows(g.cur.journal, g.journal)
      /\ op \in {"start", "complete", "exit"}
  BY DEF Publishes
<1>2. Valid(g.cur) /\ g.lease \in Leases /\ g.lease.holder = h
  BY <1>1, GuardFacts
<1>3. CASE Holds(g)
  <2>1. PICK to : to = [g.cur EXCEPT !.journal = g.journal]
    OBVIOUS
  <2>2. /\ to \in Manifests /\ to.gen = g.cur.gen /\ to.lease = g.cur.lease
        /\ to.journal = g.journal /\ to.tomb = "none" /\ to.bound
    BY <1>1, <1>2, <2>1 DEF Valid, Manifests, Guards
  <2>3. Valid(to) /\ op \in Ops /\ Send(h, g, op, to)
    BY <1>1, <1>3, <2>1, <2>2 DEF Valid, Ops, PublishJournal
  <2>4. PICK w, m : /\ host' = [host EXCEPT ![h] = w] /\ net' = net \cup {m}
                    /\ Waits(w, g, op) /\ Carries(m, h, g.cur.gen, to)
    BY <1>1, <2>2, <2>3, SendFields
  <2>5. /\ w \in Guards /\ w.at = "wait" /\ w.op = op /\ w.cur = g.cur
        /\ w.lease = g.lease /\ w.turn # "started" /\ w.out = "none"
        /\ m \in Replacements /\ m.from = h /\ m.base = w.cur.gen
        /\ m.to.gen = m.base + 1 /\ Valid(m.to) /\ m.to.bound /\ m.to.tomb = "none"
        /\ m.to.journal = g.journal
    BY <1>1, <2>2, <2>4 DEF Waits, Carries
  <2>6. Settled(h, Failed(w))
    BY <1>1, <1>2, <2>5, FailedLoses
  <2>7. Settled(h, Accepted(w, m.to))
    BY <1>2, <2>4, <2>5, PublishedSettled
  <2>8. w.op = "start" => g.cur.journal.phase \in Callable
    BY <2>5 DEF Publishes
  <2>9. GuardSends(h, w, m)
    BY <1>1, <1>3, <2>5, <2>6, <2>7, <2>8 DEF GuardSends, Holds
  <2> QED
    BY <2>4, <2>9, GuardSend
<1>4. CASE ~Holds(g)
  <2>1. PICK w : w = Lose(g)
    OBVIOUS
  <2>2. host' = [host EXCEPT ![h] = w] /\ net' = net
    BY <1>4, <2>1 DEF PublishJournal, Become
  <2>3. Settled(h, w) /\ w.at = "reread" /\ w.out = "none" /\ w.turn = "none"
    BY <1>1, <1>2, <2>1, LoseSettled
  <2> QED
    BY <1>1, <2>2, <2>3, HostStep
<1> QED
  BY <1>3, <1>4
LEMMA StartStepStep ==
  ASSUME IInv, NEW h \in Hosts, StartStep(h)
  PROVE  IInv'
<1>1. /\ host[h].at = "hold" /\ Rest /\ binding' = binding
      /\ host[h].turn = "ready" /\ host[h].journal.step < MaxSteps
  BY RestKept DEF StartStep, others, bounds, IInv
<1>2. host[h] \in Guards /\ TurnOK(host[h])
  BY <1>1, GuardFacts
<1>3. /\ host[h].journal \in Journals /\ host[h].journal.step \in Steps
      /\ host[h].journal = host[h].cur.journal /\ host[h].journal.phase \in Callable
      /\ host[h].cur.bound /\ host[h].cur.tomb = "none" /\ host[h].out = "none"
  BY <1>1, <1>2, Numbers DEF Guards, Journals, Steps, TurnOK, InTurn, Ended
<1>4. PICK g : g = [host[h] EXCEPT !.journal.phase = "started"]
  OBVIOUS
<1>5. g.journal = [host[h].journal EXCEPT !.phase = "started"]
  BY <1>2, <1>4 DEF Guards
<1>6. /\ g.journal \in Journals /\ g.journal.phase = "started"
      /\ g.journal.step = host[h].journal.step
      /\ g.journal = [phase |-> "started", step |-> host[h].journal.step]
  BY <1>3, <1>5 DEF Journals, Phases
<1>7. /\ g \in Guards /\ g.cur = host[h].cur /\ g.lease = host[h].lease
      /\ g.turn = "ready" /\ g.out = "none"
  BY <1>1, <1>2, <1>3, <1>4, <1>6 DEF Guards
<1>8. Publishes(h, g, "start")
  BY <1>1, <1>3, <1>6, <1>7 DEF Publishes, Follows
<1>9. PublishJournal(h, g, "start")
  BY <1>4 DEF StartStep
<1> QED
  BY <1>1, <1>8, <1>9, PublishStep

LEMMA CompleteStepStep ==
  ASSUME IInv, NEW h \in Hosts, CompleteStep(h)
  PROVE  IInv'
<1>1. /\ host[h].at = "hold" /\ Rest /\ binding' = binding
      /\ host[h].turn \in Answered
  BY RestKept DEF CompleteStep, others, bounds, IInv, Answered
<1>2. host[h] \in Guards /\ TurnOK(host[h])
  BY <1>1, GuardFacts
<1>3. /\ host[h].journal.step \in Steps /\ host[h].journal.phase = "started"
      /\ calls[host[h].journal.step] = 1 /\ host[h].journal = host[h].cur.journal
      /\ host[h].cur.bound /\ host[h].cur.tomb = "none" /\ host[h].out = "none"
  BY <1>1, <1>2 DEF TurnOK, InTurn, Ended, Answered
<1>4. PICK phase : phase = CASE host[h].turn = "text"   -> "final"
                             [] host[h].turn = "badids" -> "invalid"
                             [] OTHER                   -> "completed"
  OBVIOUS
<1>5. PICK k : k = [phase |-> phase, step |-> host[h].journal.step + 1]
  OBVIOUS
<1>6. PICK g : g = [host[h] EXCEPT !.journal = k]
  OBVIOUS
<1>7. /\ k \in Journals /\ k.phase \in {"completed", "final", "invalid"}
      /\ k.step = host[h].journal.step + 1
      /\ host[h].turn = "reads" => k.phase = "completed"
  BY <1>3, <1>4, <1>5, Numbers DEF Journals, Phases, Steps
<1>8. /\ g \in Guards /\ g.cur = host[h].cur /\ g.lease = host[h].lease
      /\ g.turn = host[h].turn /\ g.out = "none" /\ g.journal = k
  BY <1>1, <1>2, <1>3, <1>6, <1>7 DEF Guards
<1>9. Publishes(h, g, "complete")
  BY <1>1, <1>3, <1>7, <1>8 DEF Publishes, Follows, Answered
<1>10. PublishJournal(h, g, "complete")
  BY <1>4, <1>5, <1>6 DEF CompleteStep
<1> QED
  BY <1>1, <1>9, <1>10, PublishStep

LEMMA PublishExitStep ==
  ASSUME IInv, NEW h \in Hosts, PublishExit(h)
  PROVE  IInv'
<1>1. /\ host[h].at = "hold" /\ Rest /\ binding' = binding /\ ~host[h].exited
      /\ host[h].turn \in {"awaits", "unknown", "failed"}
  BY RestKept DEF PublishExit, others, bounds, IInv
<1>2. host[h] \in Guards /\ TurnOK(host[h])
  BY <1>1, GuardFacts
<1>3. PICK g : g = host[h]
  OBVIOUS
<1>4. Publishes(h, g, "exit")
  BY <1>1, <1>2, <1>3 DEF Publishes, TurnOK, InTurn
<1>5. PublishJournal(h, g, "exit")
  BY <1>3 DEF PublishExit
<1> QED
  BY <1>1, <1>4, <1>5, PublishStep
LEMMA FinishTurnStep ==
  ASSUME IInv, NEW h \in Hosts, FinishTurn(h)
  PROVE  IInv'
<1>1. host[h].at = "hold" /\ Rest /\ binding' = binding /\ host[h].out # "none"
  BY RestKept DEF FinishTurn, others, bounds, IInv
<1>2. PICK g : g = host[h]
  OBVIOUS
<1>3. /\ g \in Guards /\ TurnOK(g) /\ g.op = "none" /\ Valid(g.cur) /\ g.out \in Ends
      /\ g.lease \in Leases /\ g.lease.holder = h /\ g.at = "hold" /\ g.out # "none"
  BY <1>1, <1>2, GuardFacts
<1>4. PICK f : f = [g EXCEPT !.out = "none"]
  OBVIOUS
<1>5. /\ f.out = "none" /\ f.lease = g.lease /\ f.cur = g.cur /\ f.lost = g.lost
  BY <1>3, <1>4 DEF Guards
<1>6. CASE ~Holds(g)
  <2>1. PICK w : w = Lose(f)
    OBVIOUS
  <2>2. host' = [host EXCEPT ![h] = w] /\ net' = net
    BY <1>2, <1>4, <1>6, <2>1 DEF FinishTurn, Become
  <2>3. Settled(h, w) /\ w.at = "reread" /\ w.out = "none" /\ w.turn = "none"
    BY <1>3, <1>5, <2>1, LoseSettled
  <2> QED
    BY <1>1, <2>2, <2>3, HostStep
<1>7. CASE Holds(g) /\ g.exp # g.lease.exp
  <2>1. PICK w : w = Drop(f)
    OBVIOUS
  <2>2. host' = [host EXCEPT ![h] = w] /\ net' = net
    BY <1>2, <1>4, <1>7, <2>1 DEF FinishTurn, Become
  <2>3. /\ Settled(h, w) /\ w.out = "none" /\ w.turn = "none"
        /\ w.at = "reread" \/ (w.at = "drop" /\ ~f.lost)
        /\ w.at = "drop" => w.cur = f.cur /\ w.lease = f.lease
    BY <1>3, <1>5, <2>1, DropSettled
  <2>4. ~host[h].lost
    BY <1>2, <1>7 DEF Holds
  <2>5. w.at = "drop" => w.cur = host[h].cur /\ w.lease = host[h].lease
    BY <1>2, <1>5, <2>3
  <2> QED
    BY <1>1, <2>2, <2>3, <2>4, <2>5, HostStep
<1>8. CASE Holds(g) /\ g.exp = g.lease.exp
  <2>1. PICK to : to = [g.cur EXCEPT !.tomb = g.out]
    OBVIOUS
  <2>2. /\ g.turn \in Ended /\ g.out = EndOf(g.turn) /\ g.cur.bound /\ g.cur.tomb = "none"
        /\ Follows(g.cur.journal, g.journal)
        /\ g.turn = "unknown" => g.journal.phase = "started"
    BY <1>3 DEF TurnOK, InTurn, Ended
  <2>3. g.cur.journal.phase = "final" => g.out # "unknown"
    BY <2>2 DEF EndOf, Ended, Follows, Callable
  <2>4. /\ to \in Manifests /\ to.gen = g.cur.gen /\ to.lease = g.cur.lease
        /\ to.journal = g.cur.journal /\ to.tomb = g.out /\ to.bound
    BY <1>3, <2>1, <2>2 DEF Valid, Manifests
  <2>5. Valid(to) /\ "finish" \in Ops /\ Send(h, g, "finish", to)
    BY <1>2, <1>8, <2>1, <2>3, <2>4 DEF Valid, Ops, FinishTurn
  <2>6. PICK w, m : /\ host' = [host EXCEPT ![h] = w] /\ net' = net \cup {m}
                    /\ Waits(w, g, "finish") /\ Carries(m, h, g.cur.gen, to)
    BY <1>3, <2>4, <2>5, SendFields
  <2>7. /\ w \in Guards /\ w.at = "wait" /\ w.op = "finish" /\ w.cur = g.cur
        /\ w.lease = g.lease /\ w.turn # "started" /\ w.out = g.out
        /\ m \in Replacements /\ m.from = h /\ m.base = w.cur.gen
        /\ m.to.gen = m.base + 1 /\ Valid(m.to) /\ m.to.bound /\ m.to.tomb = g.out
        /\ m.to.journal = w.cur.journal
    BY <2>2, <2>4, <2>6 DEF Waits, Carries, Ended
  <2>8. Settled(h, Failed(w))
    BY <1>3, <2>7, FailedLoses
  <2>9. Settled(h, Accepted(w, m.to))
    <3>1. PICK n : n = Holding(w, m.to)
      OBVIOUS
    <3>2. Accepted(w, m.to) = Drop(n)
      BY <2>7, <3>1 DEF Accepted, Holding
    <3>3. n.cur = m.to /\ n.lease = g.lease /\ n.out = g.out
      BY <2>7, <3>1, HoldingFields DEF Valid
    <3> QED
      BY <1>3, <2>7, <3>2, <3>3, DropSettled
  <2>10. Follows(w.cur.journal, m.to.journal)
    BY <2>7 DEF Follows
  <2>11. GuardSends(h, w, m)
    BY <1>1, <1>2, <1>8, <2>2, <2>7, <2>8, <2>9, <2>10 DEF GuardSends, Holds
  <2> QED
    BY <1>1, <2>6, <2>11, GuardSend
<1> QED
  BY <1>6, <1>7, <1>8

LEMMA CompactStep ==
  ASSUME IInv, NEW h \in Hosts, Compact(h)
  PROVE  IInv'
<1>1. /\ host[h].at = "hold" /\ Rest /\ binding' = binding
      /\ host[h].turn = "maintains" /\ host[h].cur.tomb # "none"
  BY RestKept DEF Compact, Compactable, others, bounds, IInv
<1>2. PICK g : g = host[h]
  OBVIOUS
<1>3. /\ g \in Guards /\ TurnOK(g) /\ Valid(g.cur) /\ g.out = "none"
      /\ g.lease \in Leases /\ g.lease.holder = h /\ g.at = "hold"
      /\ g.turn = "maintains" /\ g.cur.tomb # "none" /\ g.cur.bound
  BY <1>1, <1>2, GuardFacts DEF TurnOK, Ended, Valid
<1>4. CASE Holds(g)
  <2>1. PICK to : to = [g.cur EXCEPT !.journal = NoJournal]
    OBVIOUS
  <2>2. /\ to \in Manifests /\ to.gen = g.cur.gen /\ to.lease = g.cur.lease
        /\ to.journal = NoJournal /\ to.tomb = g.cur.tomb /\ to.bound
    BY <1>3, <2>1, NoManifestValid DEF Valid, Manifests, NoManifest
  <2>3. Valid(to) /\ "compact" \in Ops /\ Send(h, g, "compact", to)
    BY <1>2, <1>4, <2>1, <2>2 DEF Valid, Ops, Compact, NoJournal
  <2>4. PICK w, m : /\ host' = [host EXCEPT ![h] = w] /\ net' = net \cup {m}
                    /\ Waits(w, g, "compact") /\ Carries(m, h, g.cur.gen, to)
    BY <1>3, <2>2, <2>3, SendFields
  <2>5. /\ w \in Guards /\ w.at = "wait" /\ w.op = "compact" /\ w.cur = g.cur
        /\ w.lease = g.lease /\ w.turn = "maintains" /\ w.out = "none"
        /\ m \in Replacements /\ m.from = h /\ m.base = w.cur.gen
        /\ m.to.gen = m.base + 1 /\ Valid(m.to) /\ m.to.tomb = g.cur.tomb
        /\ m.to.journal = NoJournal
    BY <1>3, <2>2, <2>4 DEF Waits, Carries
  <2>6. Settled(h, Failed(w)) /\ Settled(h, Stopped(w))
    BY <1>3, <2>5, FailedLoses, StoppedSettled
  <2>7. Settled(h, Accepted(w, m.to))
    <3>1. PICK n : n = Holding(w, m.to)
      OBVIOUS
    <3>2. Accepted(w, m.to) = n
      BY <2>5, <3>1 DEF Accepted, Holding
    <3>3. /\ n \in Guards /\ n.at = "hold" /\ n.op = "none" /\ n.cur = m.to
          /\ n.lease = g.lease /\ n.turn = "maintains" /\ n.out = "none"
      BY <2>5, <3>1, HoldingFields DEF Valid
    <3>4. TurnOK(n)
      BY <3>3 DEF TurnOK, InTurn, Answered, Ended
    <3> QED
      BY <1>3, <2>5, <3>2, <3>3, <3>4 DEF Settled
  <2>8. GuardSends(h, w, m)
    BY <1>1, <1>2, <1>3, <1>4, <2>5, <2>6, <2>7 DEF GuardSends, Holds
  <2> QED
    BY <1>1, <2>4, <2>8, GuardSend
<1>5. CASE ~Holds(g)
  <2>1. PICK w : w = Lose(g)
    OBVIOUS
  <2>2. host' = [host EXCEPT ![h] = w] /\ net' = net
    BY <1>2, <1>5, <2>1 DEF Compact, Become
  <2>3. Settled(h, w) /\ w.at = "reread" /\ w.out = "none" /\ w.turn = "none"
    BY <1>3, <2>1, LoseSettled
  <2> QED
    BY <1>1, <2>2, <2>3, HostStep
<1> QED
  BY <1>4, <1>5

LEMMA ReleaseStep ==
  ASSUME IInv, NEW h \in Hosts, Release(h)
  PROVE  IInv'
<1>1. host[h].at = "drop" /\ Rest /\ binding' = binding
  BY RestKept DEF Release, others, bounds, IInv
<1>2. PICK g : g = host[h]
  OBVIOUS
<1>3. /\ g \in Guards /\ Valid(g.cur) /\ g.out \in Ends \cup {"none"}
      /\ g.lease \in Leases /\ g.lease.holder = h
      /\ g.out # "none" => g.out = man.tomb
      /\ g.turn # "started"
  <2>1. Settled(h, host[h])
    BY <1>1 DEF IInv, HostOK, Local
  <2> QED
    BY <1>1, <1>2, <2>1, GuardFacts DEF Settled
<1>4. CASE g.cur.lease = g.lease
  <2>1. PICK to : to = [g.cur EXCEPT !.lease = NoLease]
    OBVIOUS
  <2>2. /\ to \in Manifests /\ to.gen = g.cur.gen /\ to.journal = g.cur.journal
        /\ to.tomb = g.cur.tomb /\ to.bound = g.cur.bound
    BY <1>3, <2>1 DEF Valid, Manifests
  <2>3. Valid(to) /\ "release" \in Ops /\ Send(h, g, "release", to)
    BY <1>2, <1>3, <1>4, <2>1, <2>2 DEF Valid, Ops, Release
  <2>4. PICK w, m : /\ host' = [host EXCEPT ![h] = w] /\ net' = net \cup {m}
                    /\ Waits(w, g, "release") /\ Carries(m, h, g.cur.gen, to)
    BY <1>3, <2>2, <2>3, SendFields
  <2>5. /\ w \in Guards /\ w.at = "wait" /\ w.op = "release" /\ w.cur = g.cur
        /\ w.lease = g.lease /\ w.turn # "started" /\ w.out = g.out
        /\ m \in Replacements /\ m.from = h /\ m.base = w.cur.gen
        /\ m.to.gen = m.base + 1 /\ Valid(m.to) /\ (m.to.bound => w.cur.bound)
        /\ m.to.tomb = w.cur.tomb /\ m.to.journal = w.cur.journal
    BY <1>3, <2>2, <2>4 DEF Waits, Carries
  <2>6. Settled(h, Failed(w))
    BY <1>3, <2>5, FailedLoses
  <2>7. Settled(h, Accepted(w, m.to))
    BY <2>5, IdleSettled DEF Accepted
  <2>8. Follows(w.cur.journal, m.to.journal)
    BY <2>5 DEF Follows
  <2>9. GuardSends(h, w, m)
    BY <1>1, <1>2, <1>3, <1>4, <2>5, <2>6, <2>7, <2>8 DEF GuardSends
  <2> QED
    BY <1>1, <2>4, <2>9, GuardSend
<1>5. CASE g.cur.lease # g.lease
  <2>1. PICK w : w = Lose(g)
    OBVIOUS
  <2>2. host' = [host EXCEPT ![h] = w] /\ net' = net
    BY <1>2, <1>5, <2>1 DEF Release, Become
  <2>3. /\ Settled(h, w) /\ w.at = "reread" /\ w.turn = "none"
        /\ w.out # "none" => w.out = man.tomb
    BY <1>3, <2>1, LoseSettled
  <2> QED
    BY <1>1, <2>2, <2>3, HostStep
<1> QED
  BY <1>4, <1>5
-----------------------------------------------------------------------------
(* Tasks *)

\* A host without a guard replaces the manifest it read: it waits as w for m.
TaskSends(h, w, m) ==
    /\ host[h].at # "wait" /\ w.turn # "started"
    /\ w \in Guards /\ w.at = "wait" /\ w.op \in {"acquire", "archive", "clear"}
    /\ m \in Replacements /\ m.from = h /\ m.base = w.cur.gen
    /\ m.to.gen = m.base + 1 /\ Valid(m.to) /\ w.cur.gen <= man.gen
    /\ w.cur.gen = man.gen =>
         w.cur = man /\ Lands(m) /\ (Free(man.lease, clock) \/ man.lease.holder = h)
    /\ w.op = "acquire" => Settled(h, Holding(w, m.to))
    /\ w.out # "none" => w.out = man.tomb

LEMMA TaskSend ==
  ASSUME IInv, NEW h \in Hosts, NEW w, NEW m, TaskSends(h, w, m),
         host' = [host EXCEPT ![h] = w], net' = net \cup {m}, binding' = binding, Rest
  PROVE  IInv'
<1>1. /\ host[h].at # "wait" /\ w.turn # "started" /\ w \in Guards /\ w.at = "wait"
      /\ w.op # "none" /\ w.op # "finish" /\ w.op # "start" /\ w.op # "compact"
      /\ m \in Replacements /\ m.from = h /\ m.base = w.cur.gen
      /\ m.to.gen = m.base + 1 /\ Valid(m.to) /\ w.cur.gen <= man.gen
      /\ w.cur.gen = man.gen =>
           w.cur = man /\ Lands(m) /\ (Free(man.lease, clock) \/ man.lease.holder = h)
      /\ w.out # "none" => w.out = man.tomb
  BY DEF TaskSends
<1>2. Settled(h, Failed(w))
  BY IdleSettled DEF TaskSends, Failed
<1>3. Settled(h, Accepted(w, m.to))
  <2>1. CASE w.op = "acquire"
    BY <2>1 DEF TaskSends, Accepted, Holding
  <2>2. CASE w.op \in {"archive", "clear"}
    BY <2>2, IdleSettled DEF Accepted
  <2> QED
    BY <2>1, <2>2 DEF TaskSends
<1> QED
  BY <1>1, <1>2, <1>3, SendStep

LEMMA AdmitStep ==
  ASSUME IInv, NEW h \in Hosts, Admit(h)
  PROVE  IInv'
<1>1. host[h].at = "staged" /\ Rest /\ binding' = binding
  BY RestKept DEF Admit, others, bounds, IInv
<1>2. PICK g : g = host[h]
  OBVIOUS
<1>3. /\ g \in Guards /\ Valid(g.cur) /\ g.out = "none" /\ ~g.cur.bound
      /\ g.journal = NoJournal /\ g.lease \in Leases /\ g.lease.holder = h
      /\ g.cur.gen <= man.gen
      /\ g.cur.gen = man.gen => g.cur = man /\ Free(man.lease, clock) /\ binding # 0
  BY <1>1, <1>2 DEF IInv, HostOK, Local, Settled, Cached, Staged
<1>4. CASE clock + Renewal <= g.lease.exp
  <2>1. PICK f : f = [g EXCEPT !.journal.phase = "accepted", !.turn = "ready"]
    OBVIOUS
  <2>2. PICK to : to = [g.cur EXCEPT !.lease = g.lease, !.bound = TRUE,
                                     !.journal.phase = "accepted"]
    OBVIOUS
  <2>3. PICK j : j = [phase |-> "accepted", step |-> 0]
    OBVIOUS
  <2>4. j \in Journals /\ j = [NoJournal EXCEPT !.phase = "accepted"]
    BY <2>3, Numbers DEF Journals, Phases, NoJournal
  <2>5. /\ f \in Guards /\ f.cur = g.cur /\ f.lease = g.lease /\ f.journal = j
        /\ f.turn = "ready" /\ f.out = "none"
    BY <1>3, <2>1, <2>4 DEF Guards
  <2>6. g.cur \in Manifests /\ g.cur.journal = NoJournal /\ g.cur.tomb = "none"
    BY <1>3 DEF Valid
  <2>7. /\ to \in Manifests /\ to.gen = g.cur.gen /\ to.lease = g.lease /\ to.bound
        /\ to.journal = j /\ to.tomb = "none"
    BY <1>3, <2>2, <2>4, <2>6 DEF Manifests
  <2>8. Valid(to) /\ "acquire" \in Ops /\ Send(h, f, "acquire", to)
    BY <1>2, <1>4, <2>1, <2>2, <2>3, <2>7 DEF Valid, Ops, Admit
  <2>9. PICK w, m : /\ host' = [host EXCEPT ![h] = w] /\ net' = net \cup {m}
                    /\ Waits(w, f, "acquire") /\ Carries(m, h, f.cur.gen, to)
    BY <2>5, <2>7, <2>8, SendFields
  <2>10. /\ w \in Guards /\ w.at = "wait" /\ w.op = "acquire" /\ w.cur = g.cur
         /\ w.lease = g.lease /\ w.turn = "ready" /\ w.out = "none" /\ w.journal = j
         /\ m \in Replacements /\ m.from = h /\ m.base = w.cur.gen
         /\ m.to.gen = m.base + 1 /\ Valid(m.to) /\ m.to.bound /\ m.to.tomb = "none"
         /\ m.to.journal = j
    BY <2>5, <2>7, <2>9 DEF Waits, Carries
  <2>11. Settled(h, Holding(w, m.to))
    <3>1. PICK n : n = Holding(w, m.to)
      OBVIOUS
    <3>2. /\ n \in Guards /\ n.at = "hold" /\ n.op = "none" /\ n.cur = m.to
          /\ n.lease = g.lease /\ n.turn = "ready" /\ n.out = "none" /\ n.journal = j
      BY <2>10, <3>1, HoldingFields DEF Valid
    <3>3. TurnOK(n)
      BY <2>3, <2>10, <3>2 DEF TurnOK, InTurn, Answered, Follows, Callable
    <3> QED
      BY <1>3, <2>10, <3>1, <3>2, <3>3 DEF Settled
  <2>12. w.cur.gen = man.gen =>
           w.cur = man /\ Lands(m) /\ Free(man.lease, clock)
    BY <1>3, <2>3, <2>6, <2>10 DEF Lands
  <2>13. TaskSends(h, w, m)
    BY <1>1, <1>3, <2>10, <2>11, <2>12 DEF TaskSends
  <2> QED
    BY <1>1, <2>9, <2>13, TaskSend
<1>5. CASE ~(clock + Renewal <= g.lease.exp)
  <2>1. PICK w : w = Idle
    OBVIOUS
  <2>2. host' = [host EXCEPT ![h] = w] /\ net' = net
    BY <1>2, <1>5, <2>1 DEF Admit, Become
  <2>3. Settled(h, w) /\ w.at = "idle" /\ w.turn = "none"
    BY <2>1, IdleSettled DEF Idle
  <2> QED
    BY <1>1, <2>2, <2>3, HostStep
<1> QED
  BY <1>4, <1>5

\* The lease a task takes.
LEMMA NewLeaseType ==
  ASSUME IInv, NEW h \in Hosts, man.gen < MaxGen
  PROVE  NewLease(h) \in Leases /\ NewLease(h).holder = h
<1>1. man.gen \in 0 .. MaxGen /\ clock \in 1 .. MaxClock
  BY DEF IInv, Valid, Manifests
<1>2. man.gen + 1 \in 1 .. MaxGen /\ clock + TTL \in 0 .. MaxClock + TTL
  BY <1>1, Numbers
<1> QED
  BY <1>2 DEF NewLease, Leases

\* What a task has when it read the manifest.
LEMMA ReadFields ==
  ASSUME IInv, NEW h \in Hosts, man.gen < MaxGen
  PROVE  /\ Read(h) \in Guards /\ Read(h).cur = man /\ Read(h).lease = NewLease(h)
         /\ Read(h).out = "none" /\ Read(h).journal = NoJournal /\ Read(h).op = "none"
         /\ Read(h).turn = "none"
<1>1. Idle \in Guards /\ NewLease(h) \in Leases /\ man \in Manifests
  BY IdleSettled, NewLeaseType DEF Settled, IInv, Valid
<1>2. Idle.out = "none" /\ Idle.journal = NoJournal /\ Idle.op = "none" /\ Idle.turn = "none"
  BY DEF Idle
<1> QED
  BY <1>1, <1>2 DEF Read, Guards

LEMMA TaskFacts ==
  ASSUME IInv, NEW h \in Hosts, Task(h), UNCHANGED <<clock, man, calls, told>>
  PROVE  Rest /\ host[h].at = "idle"
<1>1. tasks' \in 0 .. MaxTasks /\ faults' \in 0 .. MaxFaults
  BY Numbers DEF Task, IInv
<1> QED
  BY <1>1, RestKept DEF Task
\* A task takes the lease and changes nothing else.
LEMMA AcquireStep ==
  ASSUME IInv, NEW h \in Hosts, NEW f \in Guards, NEW to, host[h].at = "idle", Open,
         f.cur = man, f.lease = NewLease(h), f.out = "none", f.turn # "started",
         TurnOK(f), to = [man EXCEPT !.lease = NewLease(h)],
         Send(h, f, "acquire", to), binding' = binding, Rest
  PROVE  IInv'
<1>1. /\ NewLease(h) \in Leases /\ NewLease(h).holder = h /\ Valid(man)
      /\ Free(man.lease, clock) /\ man.gen \in Nat
  BY NewLeaseType, Numbers DEF Open, IInv, Valid, Manifests
<1>2. /\ to \in Manifests /\ to.gen = f.cur.gen /\ to.lease = f.lease
      /\ to.journal = man.journal /\ to.tomb = man.tomb /\ to.bound = man.bound
  BY <1>1 DEF Valid, Manifests
<1>3. Valid(to) /\ "acquire" \in Ops
  BY <1>1, <1>2 DEF Valid, Ops
<1>4. PICK w, m : /\ host' = [host EXCEPT ![h] = w] /\ net' = net \cup {m}
                  /\ Waits(w, f, "acquire") /\ Carries(m, h, f.cur.gen, to)
  BY <1>2, <1>3, SendFields
<1>5. /\ w \in Guards /\ w.at = "wait" /\ w.op = "acquire" /\ w.cur = man
      /\ w.lease = f.lease /\ w.turn = f.turn /\ w.out = f.out /\ w.journal = f.journal
      /\ w.exited = f.exited
      /\ m \in Replacements /\ m.from = h /\ m.base = man.gen
      /\ m.to.gen = m.base + 1 /\ Valid(m.to) /\ m.to.bound = man.bound
      /\ m.to.tomb = man.tomb /\ m.to.journal = man.journal
  BY <1>2, <1>4 DEF Waits, Carries
<1>6. Settled(h, Holding(w, m.to))
  <2>1. PICK n : n = Holding(w, m.to)
    OBVIOUS
  <2>2. /\ n \in Guards /\ n.at = "hold" /\ n.op = "none" /\ n.cur = m.to
        /\ n.lease = f.lease /\ n.turn = f.turn /\ n.out = f.out
        /\ n.journal = f.journal /\ n.exited = f.exited
    BY <1>5, <2>1, HoldingFields DEF Valid
  <2>3. TurnOK(n)
    BY <1>5, <2>2, TurnKept
  <2> QED
    BY <1>1, <1>5, <2>1, <2>2, <2>3 DEF Settled
<1>7. Lands(m)
  BY <1>1, <1>5 DEF Lands, Follows
<1>8. TaskSends(h, w, m)
  BY <1>1, <1>5, <1>6, <1>7 DEF TaskSends
<1> QED
  BY <1>4, <1>8, TaskSend

LEMMA ResumeStep ==
  ASSUME IInv, NEW h \in Hosts, Resume(h)
  PROVE  IInv'
<1>1. /\ host[h].at = "idle" /\ Rest /\ binding' = binding /\ Open /\ man.gen < MaxGen
      /\ man.bound /\ man.tomb = "none" /\ man.journal \in Journals
  BY TaskFacts DEF Resume, others, Open, IInv, Valid, Manifests
<1>2. PICK turn : turn = ResumeAs(man.journal)
  OBVIOUS
<1>3. /\ turn \in {"unknown", "final", "failed", "ready"}
      /\ turn = "ready" => man.journal.phase \in Callable
      /\ turn = "unknown" => man.journal.phase = "started"
  BY <1>1, <1>2 DEF ResumeAs, Journals, Phases, Callable
<1>4. PICK f : f = [Read(h) EXCEPT !.turn = turn, !.journal = man.journal,
                                   !.exited = turn # "ready"]
  OBVIOUS
<1>5. /\ f \in Guards /\ f.cur = man /\ f.lease = NewLease(h) /\ f.out = "none"
      /\ f.turn = turn /\ f.journal = man.journal
  <2>1. PICK e \in BOOLEAN : e = (turn # "ready")
    OBVIOUS
  <2>2. PICK r : r = Read(h)
    OBVIOUS
  <2>3. r \in Guards /\ r.cur = man /\ r.lease = NewLease(h) /\ r.out = "none"
    BY <1>1, <2>2, ReadFields
  <2>4. f = [r EXCEPT !.turn = turn, !.journal = man.journal, !.exited = e]
    BY <1>4, <2>1, <2>2
  <2>5. /\ f.cur = r.cur /\ f.lease = r.lease /\ f.out = r.out
        /\ f.turn = turn /\ f.journal = man.journal
    BY <2>3, <2>4 DEF Guards
  <2>6. e \in BOOLEAN
    BY <2>1
  <2>7. f \in Guards
    <3>1. PICK q : q = [r EXCEPT !.turn = turn]
      OBVIOUS
    <3>2. q \in Guards
      BY <1>3, <2>3, <3>1 DEF Guards
    <3>3. PICK p : p = [q EXCEPT !.journal = man.journal]
      OBVIOUS
    <3>4. p \in Guards
      BY <1>1, <3>2, <3>3 DEF Guards
    <3>5. f = [p EXCEPT !.exited = e]
      BY <2>3, <2>4, <3>1, <3>3 DEF Guards
    <3> QED
      BY <2>6, <3>4, <3>5 DEF Guards
  <2> QED
    BY <2>3, <2>5, <2>7
<1>6. TurnOK(f)
  BY <1>1, <1>3, <1>5 DEF TurnOK, InTurn, Answered, Follows
<1>7. PICK to : to = [man EXCEPT !.lease = NewLease(h)]
  OBVIOUS
<1>8. Send(h, f, "acquire", to)
  BY <1>2, <1>4, <1>7 DEF Resume
<1> QED
  BY <1>1, <1>3, <1>5, <1>6, <1>7, <1>8, AcquireStep

LEMMA MaintainStep ==
  ASSUME IInv, NEW h \in Hosts, Maintain(h)
  PROVE  IInv'
<1>1. host[h].at = "idle" /\ Rest /\ binding' = binding /\ Open /\ man.gen < MaxGen
  BY TaskFacts DEF Maintain, others, Open
<1>2. PICK f : f = [Read(h) EXCEPT !.turn = "maintains"]
  OBVIOUS
<1>3. /\ f \in Guards /\ f.cur = man /\ f.lease = NewLease(h) /\ f.out = "none"
      /\ f.turn = "maintains"
  BY <1>1, <1>2, ReadFields DEF Guards
<1>4. TurnOK(f)
  BY <1>3 DEF TurnOK, InTurn, Answered
<1>5. PICK to : to = [man EXCEPT !.lease = NewLease(h)]
  OBVIOUS
<1>6. Send(h, f, "acquire", to)
  BY <1>2, <1>5 DEF Maintain
<1> QED
  BY <1>1, <1>3, <1>4, <1>5, <1>6, AcquireStep

\* A task, or the end of a guard, takes the lease out of the manifest it read.
LEMMA ClearStep ==
  ASSUME IInv, NEW h \in Hosts, NEW f \in Guards, NEW op \in {"archive", "clear"}, NEW to,
         host[h].at # "wait", f.cur = man, f.turn # "started",
         f.out # "none" => f.out = man.tomb,
         to \in Manifests, to.gen = man.gen, to.journal = man.journal, to.tomb = man.tomb,
         to.bound => man.bound, man.bound => to.bound,
         Free(man.lease, clock) \/ man.lease.holder = h,
         Send(h, f, op, to), binding' = binding, Rest
  PROVE  IInv'
<1>1. Valid(man) /\ man.gen \in Nat
  BY Numbers DEF IInv, Valid, Manifests
<1>2. Valid(to) /\ op \in Ops /\ to.gen = f.cur.gen
  BY <1>1 DEF Valid, Ops
<1>3. PICK w, m : /\ host' = [host EXCEPT ![h] = w] /\ net' = net \cup {m}
                  /\ Waits(w, f, op) /\ Carries(m, h, f.cur.gen, to)
  BY <1>2, SendFields
<1>4. /\ w \in Guards /\ w.at = "wait" /\ w.op = op /\ w.cur = man
      /\ w.turn = f.turn /\ w.out = f.out
      /\ m \in Replacements /\ m.from = h /\ m.base = man.gen
      /\ m.to.gen = m.base + 1 /\ Valid(m.to) /\ (m.to.bound => man.bound)
      /\ m.to.tomb = man.tomb /\ m.to.journal = man.journal
  BY <1>3 DEF Waits, Carries
<1>5. Lands(m)
  BY <1>4 DEF Lands, Follows
<1>6. TaskSends(h, w, m)
  BY <1>1, <1>4, <1>5 DEF TaskSends
<1> QED
  BY <1>3, <1>6, TaskSend

LEMMA ArchiveStep ==
  ASSUME IInv, NEW h \in Hosts, Archive(h)
  PROVE  IInv'
<1>1. /\ host[h].at = "idle" /\ Rest /\ binding' = binding /\ Free(man.lease, clock)
      /\ man \in Manifests
  BY TaskFacts DEF Archive, others, Open, IInv, Valid
<1>2. PICK f : f = [Idle EXCEPT !.cur = man]
  OBVIOUS
<1>3. Idle \in Guards /\ Idle.turn = "none" /\ Idle.out = "none"
  BY IdleSettled DEF Settled, Idle
<1>4. f \in Guards /\ f.cur = man /\ f.turn = "none" /\ f.out = "none"
  BY <1>1, <1>2, <1>3 DEF Guards
<1>5. PICK to : to = [man EXCEPT !.lease = NoLease, !.archived = TRUE]
  OBVIOUS
<1>6. /\ to \in Manifests /\ to.gen = man.gen /\ to.journal = man.journal
      /\ to.tomb = man.tomb /\ (to.bound => man.bound) /\ (man.bound => to.bound)
  BY <1>1, <1>5 DEF Manifests
<1>7. Send(h, f, "archive", to)
  BY <1>2, <1>5 DEF Archive
<1> QED
  BY <1>1, <1>4, <1>6, <1>7, ClearStep

LEMMA ReleaseRereadStep ==
  ASSUME IInv, NEW h \in Hosts, ReleaseReread(h)
  PROVE  IInv'
<1>1. PICK f : f = [host[h] EXCEPT !.cur = man]
  OBVIOUS
<1>2. /\ host[h] \in Guards /\ man \in Manifests /\ host[h].at = "reread"
      /\ host[h].lease.holder = h /\ host[h].turn # "started"
      /\ host[h].out # "none" => host[h].out = man.tomb
  <2>1. host[h].at = "reread"
    BY DEF ReleaseReread, IInv, Guards
  <2>2. Settled(h, host[h])
    BY <2>1 DEF IInv, HostOK, Local
  <2> QED
    BY <2>1, <2>2 DEF IInv, HostOK, Replies, Valid, Settled
<1>3. /\ f \in Guards /\ f.cur = man /\ f.out = host[h].out /\ f.turn = host[h].turn
      /\ f.lease = host[h].lease /\ f.at = "reread" /\ f.out \in Ends \cup {"none"}
  BY <1>1, <1>2 DEF Guards
<1>4. Rest /\ binding' = binding
  BY <1>1, <1>2, <1>3 DEF ReleaseReread, IInv, Rest, OneTerminalAnswer, bounds
<1>5. CASE man.lease = f.lease
  <2>1. PICK to : to = [man EXCEPT !.lease = NoLease]
    OBVIOUS
  <2>2. /\ to \in Manifests /\ to.gen = man.gen /\ to.journal = man.journal
        /\ to.tomb = man.tomb /\ (to.bound => man.bound) /\ (man.bound => to.bound)
    BY <1>2, <2>1 DEF Manifests
  <2>3. Send(h, f, "clear", to)
    BY <1>1, <1>5, <2>1 DEF ReleaseReread
  <2>4. f.turn # "started" /\ (f.out # "none" => f.out = man.tomb) /\ man.lease.holder = h
        /\ host[h].at # "wait"
    BY <1>2, <1>3, <1>5
  <2> QED
    BY <1>3, <1>4, <2>2, <2>3, <2>4, ClearStep
<1>6. CASE man.lease # f.lease
  <2>1. PICK w : w = Idle
    OBVIOUS
  <2>2. host' = [host EXCEPT ![h] = w] /\ net' = net
    BY <1>1, <1>6, <2>1 DEF ReleaseReread, Become
  <2>3. Settled(h, w) /\ w.at = "idle" /\ w.turn = "none"
    BY <2>1, IdleSettled DEF Idle
  <2> QED
    BY <1>2, <1>4, <2>2, <2>3, HostStep
<1> QED
  BY <1>5, <1>6
LEMMA StageAdmissionStep ==
  ASSUME IInv, NEW h \in Hosts, StageAdmission(h)
  PROVE  IInv'
<1>1. /\ Rest /\ host[h].at = "idle" /\ Free(man.lease, clock) /\ man.gen < MaxGen
      /\ ~man.bound /\ net' = net
  BY TaskFacts DEF StageAdmission, Open, Become
<1>2. PICK g : g = [Read(h) EXCEPT !.at = "staged"]
  OBVIOUS
<1>3. /\ g \in Guards /\ g.at = "staged" /\ g.cur = man /\ g.lease = NewLease(h)
      /\ g.out = "none" /\ g.journal = NoJournal /\ g.op = "none" /\ g.turn = "none"
  BY <1>1, <1>2, ReadFields DEF Guards
<1>4. host' = [host EXCEPT ![h] = g]
  BY <1>2 DEF StageAdmission, Become
<1>5. /\ clock \in 1 .. MaxClock /\ clock' = clock /\ man' = man /\ calls' = calls
      /\ Grows /\ Valid(man) /\ man.gen \in Nat
  BY <1>1, Numbers DEF IInv, Rest, Grows, Valid, Manifests
<1>6. binding' \in 0 .. MaxClock /\ binding' # 0
  BY <1>5 DEF StageAdmission, IInv
<1>7. \A i \in Hosts : host'[i] = IF i = h THEN g ELSE host[i]
  BY <1>4 DEF IInv
<1>8. host' \in [Hosts -> Guards] /\ host'[h] = g
  BY <1>3, <1>4, <1>7 DEF IInv
<1>9. \A m \in net : m.from # h
  BY <1>1, Numbers DEF IInv, MsgOK
<1>10. ASSUME NEW i \in Hosts, i # h PROVE HostOK(i)'
  <2>1. HostOK(i) /\ host'[i] = host[i] /\ clock \in Nat
    BY <1>5, <1>7, <1>10 DEF IInv
  <2>2. \A m \in net' : \E n \in net : n.base = m.base
    BY <1>1
  <2> QED
    BY <2>1, <2>2, <1>5, <1>6, HostKept
<1>11. HostOK(h)'
  <2>1. Settled(h, g)
    BY <1>1, <1>3, <1>5, NewLeaseType DEF Settled
  <2>2. Settled(h, g)'
    BY <1>5, <2>1, SettledKept
  <2>3. Local(h)'
    BY <1>3, <1>8, <2>2 DEF Local
  <2>4. Cached(h)' /\ Replies(h)' /\ Staged(h)' /\ About(h)' /\ Alone(h)'
    BY <1>1, <1>3, <1>5, <1>6, <1>8 DEF Cached, Replies, Staged, About, Alone
  <2> QED
    BY <2>3, <2>4 DEF HostOK
<1>12. ASSUME NEW m \in net' PROVE MsgOK(m)'
  <2>1. m \in net /\ MsgOK(m) /\ (m.from # Nobody => host'[m.from] = host[m.from])
    BY <1>1, <1>7, <1>9 DEF IInv, MsgOK, Replacements
  <2> QED
    BY <2>1, <1>5, <1>6, MsgKept DEF IInv
<1>13. OneStarted'
  BY <1>3, <1>7 DEF IInv, OneStarted
<1> QED
  BY <1>1, <1>5, <1>6, <1>8, <1>10, <1>11, <1>12, <1>13
  DEF IInv, Rest, Valid, OneTerminalAnswer, ReachedIsKept, Counted, OneCall

LEMMA CallProviderStep ==
  ASSUME IInv, NEW h \in Hosts, CallProvider(h)
  PROVE  IInv'
<1>1. /\ host[h].at = "hold" /\ host[h].turn = "started"
      /\ UNCHANGED <<net, clock, man, binding, told, tasks, faults>>
  BY DEF CallProvider, Become, bounds
<1>2. /\ host[h] \in Guards /\ TurnOK(host[h]) /\ host[h].op = "none" /\ Valid(host[h].cur)
      /\ host[h].lease \in Leases /\ host[h].lease.holder = h
  BY <1>1, GuardFacts
<1>3. PICK s : s = host[h].journal.step
  OBVIOUS
<1>4. /\ s \in Steps /\ calls[s] = 0 /\ host[h].journal.phase = "started"
      /\ man.journal = host[h].journal \/ man.tomb # "none"
      /\ calls \in [Steps -> Nat]
  BY <1>1, <1>3 DEF IInv, HostOK, About
<1>5. /\ calls' = [calls EXCEPT ![s] = 1] /\ calls' \in [Steps -> Nat] /\ calls'[s] = 1
      /\ \A t \in Steps : t # s => calls'[t] = calls[t]
  BY <1>3, <1>4 DEF CallProvider
<1>6. Grows /\ clock \in Nat /\ clock' = clock /\ Valid(man) /\ man' = man
  BY <1>1, <1>5, Numbers DEF Grows, IInv
<1>7. PICK turn \in Answered \cup {"failed", "unknown"} :
        host' = [host EXCEPT ![h] = [host[h] EXCEPT !.turn = turn]]
  <2>1. PICK a \in Answers :
          Become(h, [host[h] EXCEPT !.turn = CASE a = "rejects" -> "failed"
                                               [] a = "breaks"  -> "unknown"
                                               [] OTHER         -> a])
    BY DEF CallProvider
  <2>2. PICK turn : turn = CASE a = "rejects" -> "failed"
                             [] a = "breaks"  -> "unknown"
                             [] OTHER         -> a
    OBVIOUS
  <2>3. turn \in Answered \cup {"failed", "unknown"}
    BY <2>2 DEF Answers, Answered
  <2> QED
    BY <2>1, <2>2, <2>3 DEF Become
<1>8. PICK g : g = [host[h] EXCEPT !.turn = turn]
  OBVIOUS
<1>9. /\ g \in Guards /\ g.at = "hold" /\ g.op = "none" /\ g.cur = host[h].cur
      /\ g.lease = host[h].lease /\ g.lost = host[h].lost /\ g.turn = turn
      /\ g.journal = host[h].journal /\ g.out = host[h].out
  BY <1>1, <1>2, <1>7, <1>8 DEF Guards, Answered
<1>10. turn \in InTurn /\ turn # "started" /\ turn # "ready"
  BY <1>7 DEF Answered, InTurn
<1>11. \A i \in Hosts : host'[i] = IF i = h THEN g ELSE host[i]
  BY <1>7, <1>8 DEF IInv
<1>12. host' \in [Hosts -> Guards] /\ host'[h] = g
  BY <1>7, <1>8, <1>9, <1>11 DEF IInv
<1>13. \A m \in net : m.from # h
  BY <1>1, Numbers DEF IInv, MsgOK
<1>14. ASSUME NEW i \in Hosts, i # h PROVE HostOK(i)'
  <2>1. HostOK(i) /\ host'[i] = host[i] /\ host[i].turn # "started"
    BY <1>1, <1>11, <1>14 DEF IInv, OneStarted
  <2>2. \A m \in net' : \E n \in net : n.base = m.base
    BY <1>1
  <2> QED
    BY <2>1, <2>2, <1>1, <1>6, HostKept
<1>15. HostOK(h)'
  <2>1. host[h].out = "none" /\ host[h].journal = host[h].cur.journal
        /\ host[h].cur.bound /\ host[h].cur.tomb = "none"
    BY <1>1, <1>2 DEF TurnOK, Ended, InTurn
  <2>2. Follows(g.cur.journal, g.journal)'
    BY <1>9, <2>1 DEF Follows
  <2>3. TurnOK(g)'
    BY <1>3, <1>4, <1>5, <1>7, <1>9, <1>10, <2>1, <2>2 DEF TurnOK, Answered, InTurn
  <2>4. Settled(h, g)'
    BY <1>2, <1>9, <2>3 DEF Settled, Valid
  <2>5. Local(h)'
    BY <1>9, <1>12, <2>4 DEF Local
  <2>6. Cached(h)' /\ Replies(h)' /\ Staged(h)' /\ About(h)'
    BY <1>1, <1>9, <1>10, <1>12, <2>1 DEF IInv, HostOK, Cached, Replies, Staged, About
  <2>7. Alone(h)'
    BY <1>1, <1>9, <1>12 DEF IInv, HostOK, Alone
  <2> QED
    BY <2>5, <2>6, <2>7 DEF HostOK
<1>16. ASSUME NEW m \in net' PROVE MsgOK(m)'
  <2>1. m \in net /\ MsgOK(m) /\ (m.from # Nobody => host'[m.from] = host[m.from])
    BY <1>1, <1>11, <1>13 DEF IInv, MsgOK, Replacements
  <2> QED
    BY <2>1, <1>1, <1>6, MsgKept DEF IInv
<1>17. OneStarted'
  BY <1>9, <1>10, <1>11 DEF IInv, OneStarted
<1>18. Counted'
  <2>1. s \in Called(man.journal) \/ man.tomb # "none"
    BY <1>3, <1>4 DEF Called
  <2> QED
    BY <1>1, <1>5, <2>1 DEF IInv, Counted, Called
<1> QED
  BY <1>1, <1>5, <1>6, <1>12, <1>14, <1>15, <1>16, <1>17, <1>18
  DEF IInv, Valid, OneTerminalAnswer, ReachedIsKept, OneCall
-----------------------------------------------------------------------------
(* Steps that leave hosts, manifest and calls alone *)

LEMMA QuietStep ==
  ASSUME IInv, UNCHANGED <<man, host, calls>>, net' \subseteq net,
         clock' \in 1 .. MaxClock, clock <= clock', binding' \in 0 .. MaxClock,
         told' \subseteq Ends, told' \subseteq {man.tomb},
         tasks' \in 0 .. MaxTasks, faults' \in 0 .. MaxFaults,
         binding' = 0 /\ binding # 0 =>
           /\ ~man.bound /\ \A m \in net : m.base # man.gen
           /\ \A i \in Hosts : host[i].at = "staged" => host[i].cur.gen # man.gen
  PROVE  IInv'
<1>1. Grows /\ clock \in Nat /\ clock' \in Nat /\ Valid(man)
  BY Numbers DEF Grows, IInv
<1>2. ASSUME NEW i \in Hosts PROVE HostOK(i)'
  <2>1. HostOK(i)
    BY DEF IInv
  <2>2. \A m \in net' : \E n \in net : n.base = m.base
    OBVIOUS
  <2> QED
    BY <1>1, <2>1, <2>2, HostKept
<1>3. ASSUME NEW m \in net' PROVE MsgOK(m)'
  <2>1. m \in net /\ MsgOK(m)
    BY DEF IInv
  <2> QED
    BY <1>1, <2>1, MsgKept DEF IInv
<1>4. ReachedIsKept' /\ OneTerminalAnswer'
  BY DEF IInv, ReachedIsKept, OneTerminalAnswer
<1>5. Counted' /\ OneStarted' /\ OneCall'
  BY DEF IInv, Counted, OneStarted, OneCall
<1> QED
  BY <1>2, <1>3, <1>4, <1>5 DEF IInv, Valid

LEMMA TickStep == IInv /\ Tick => IInv'
<1> SUFFICES ASSUME IInv, Tick PROVE IInv'
  OBVIOUS
<1>1. clock \in 1 .. MaxClock /\ clock' \in 1 .. MaxClock /\ clock <= clock'
  BY Numbers DEF IInv, Tick
<1>2. UNCHANGED <<man, net, host, calls>> /\ binding' = binding
  BY DEF Tick, others
<1>3. /\ told' \subseteq Ends /\ told' \subseteq {man.tomb}
      /\ tasks' \in 0 .. MaxTasks /\ faults' \in 0 .. MaxFaults /\ binding \in 0 .. MaxClock
  BY DEF Tick, others, bounds, IInv, OneTerminalAnswer
<1> QED
  BY <1>1, <1>2, <1>3, QuietStep

LEMMA StutterStep == IInv /\ UNCHANGED vars => IInv'
<1> SUFFICES ASSUME IInv, UNCHANGED vars PROVE IInv'
  OBVIOUS
<1>1. clock \in 1 .. MaxClock /\ clock' \in 1 .. MaxClock /\ clock <= clock'
  BY Numbers DEF IInv, vars
<1>2. UNCHANGED <<man, net, host, calls>> /\ binding' = binding
  BY DEF vars
<1>3. /\ told' \subseteq Ends /\ told' \subseteq {man.tomb}
      /\ tasks' \in 0 .. MaxTasks /\ faults' \in 0 .. MaxFaults /\ binding \in 0 .. MaxClock
  BY DEF vars, IInv, OneTerminalAnswer
<1> QED
  BY <1>1, <1>2, <1>3, QuietStep

LEMMA ReplayStep ==
  ASSUME IInv, NEW h \in Hosts, Replay(h)
  PROVE  IInv'
<1>1. clock \in 1 .. MaxClock /\ clock' = clock /\ clock <= clock'
  BY Numbers DEF IInv, Replay
<1>2. UNCHANGED <<man, net, host, calls>> /\ binding' = binding
  BY DEF Replay
<1>3. man.tomb \in Ends
  BY DEF Replay, IInv, Valid, Manifests
<1>4. /\ told' \subseteq Ends /\ told' \subseteq {man.tomb}
      /\ tasks' \in 0 .. MaxTasks /\ faults' \in 0 .. MaxFaults /\ binding \in 0 .. MaxClock
  BY <1>3, Numbers DEF Replay, Task, IInv, OneTerminalAnswer
<1> QED
  BY <1>1, <1>2, <1>4, QuietStep

\* A lease that a guard checked and the reaper's budget leave no room for a
\* takeover.
LEMMA BudgetKeepsLease ==
  ASSUME NEW lease \in Leases, NEW sample \in Nat, NEW now \in Nat,
         sample + Safety <= lease.exp, now < sample + Budget
  PROVE  ~Free(lease, now)
<1>1. lease.exp \in Nat /\ lease # NoLease
  BY Numbers, LeaseAssumption DEF Leases
<1> QED
  BY <1>1, Numbers DEF Free

LEMMA ReapBindingStep ==
  ASSUME IInv, NEW h \in Hosts, ReapBinding(h)
  PROVE  IInv'
<1>1. /\ host[h].at = "reaps" /\ ~host[h].cur.bound /\ clock < host[h].sample + Budget
      /\ UNCHANGED <<man, net, host, calls>> /\ UNCHANGED <<clock, told, tasks, faults>>
      /\ binding' = 0
  BY DEF ReapBinding, bounds
<1>2. Settled(h, host[h]) /\ host[h] \in Guards
  BY <1>1 DEF IInv, HostOK, Local
<1>3. /\ ~host[h].lost /\ host[h].cur.lease = host[h].lease /\ host[h].lease \in Leases
      /\ host[h].sample + Safety <= host[h].lease.exp /\ host[h].turn # "stopped"
  BY <1>1, <1>2 DEF Settled
<1>4. host[h].sample \in Nat /\ clock \in Nat /\ clock \in 1 .. MaxClock
  BY <1>2, Numbers DEF Guards, IInv
<1>5. ~Free(host[h].lease, clock)
  BY <1>1, <1>3, <1>4, BudgetKeepsLease
<1>6. host[h].cur = man /\ \A m \in net : m.base # man.gen
  BY <1>1, <1>3, <1>5 DEF IInv, HostOK, Alone
<1>7. ~man.bound /\ ~Free(man.lease, clock)
  BY <1>1, <1>3, <1>5, <1>6
<1>8. \A i \in Hosts : host[i].at = "staged" => host[i].cur.gen # man.gen
  BY <1>7 DEF IInv, HostOK, Staged
<1>9. /\ told' \subseteq Ends /\ told' \subseteq {man.tomb} /\ clock <= clock'
      /\ tasks' \in 0 .. MaxTasks /\ faults' \in 0 .. MaxFaults /\ binding' \in 0 .. MaxClock
  BY <1>1, <1>4, Numbers DEF IInv, OneTerminalAnswer
<1> QED
  BY <1>1, <1>4, <1>6, <1>7, <1>8, <1>9, QuietStep
-----------------------------------------------------------------------------
(* Failures *)

\* What a host does when its call failed or is not answered.
AfterFailure(h, f) ==
    /\ Settled(h, f) /\ f.at \in {"hold", "reread", "idle"}
    /\ f.at = "hold" => /\ f.cur = host[h].cur /\ host[h].at = "wait"
                        /\ \/ f.turn = "stopped"
                           \/ /\ f.lost /\ f.turn = host[h].turn
                              /\ f.journal = host[h].journal
    /\ f.at # "hold" => f.turn = "none"
    /\ f.at = "reread" /\ f.out # "none" => f.out = man.tomb

LEMMA FailedAfter ==
  ASSUME IInv, NEW h \in Hosts, host[h].at = "wait"
  PROVE  AfterFailure(h, Failed(host[h]))
<1>1. PICK w : w = host[h]
  OBVIOUS
<1>2. /\ w \in Guards /\ w.op # "none" /\ Settled(h, Failed(w))
      /\ w.out # "none" /\ w.op = "release" => w.out = man.tomb
  BY <1>1 DEF IInv, HostOK, Local, Replies
<1>3. CASE w.op = "renew"
  <2>1. PICK f : f = [w EXCEPT !.at = "hold", !.op = "none", !.lost = TRUE]
    OBVIOUS
  <2>2. Failed(w) = f
    BY <1>3, <2>1 DEF Failed
  <2>3. f.at = "hold" /\ f.cur = w.cur /\ f.lost /\ f.turn = w.turn /\ f.journal = w.journal
    BY <1>2, <2>1 DEF Guards
  <2> QED
    BY <1>1, <1>2, <2>2, <2>3 DEF AfterFailure
<1>4. CASE w.op = "release"
  <2>1. Failed(w) = Lose(w)
    BY <1>4 DEF Failed
  <2>2. Lose(w).at = "reread" /\ Lose(w).turn = "none" /\ Lose(w).out = w.out
    BY IdleSettled, <1>2 DEF Lose, Settled, Guards, Idle
  <2> QED
    BY <1>1, <1>2, <1>4, <2>1, <2>2 DEF AfterFailure
<1>5. CASE w.op \in {"acquire", "clear", "archive"}
  <2>1. Failed(w) = Idle
    BY <1>5 DEF Failed
  <2>2. Idle.at = "idle" /\ Idle.turn = "none"
    BY DEF Idle
  <2> QED
    BY <1>1, <1>2, <2>1, <2>2 DEF AfterFailure
<1>6. CASE w.op \notin {"renew", "release", "acquire", "clear", "archive"}
  <2>1. PICK f : f = [w EXCEPT !.out = "none"]
    OBVIOUS
  <2>2. Failed(w) = Lose(f)
    BY <1>6, <2>1 DEF Failed
  <2>3. f.out = "none"
    BY <1>2, <2>1 DEF Guards
  <2>4. Lose(f).at = "reread" /\ Lose(f).turn = "none" /\ Lose(f).out = "none"
    BY IdleSettled, <2>3 DEF Lose, Settled, Guards, Idle
  <2> QED
    BY <1>1, <1>2, <2>2, <2>4 DEF AfterFailure
<1> QED
  BY <1>3, <1>4, <1>5, <1>6

\* A compaction that timed out.
LEMMA StoppedAfter ==
  ASSUME IInv, NEW h \in Hosts, host[h].at = "wait", host[h].op = "compact"
  PROVE  AfterFailure(h, Stopped(host[h]))
<1>1. PICK w : w = host[h]
  OBVIOUS
<1>2. w \in Guards /\ Settled(h, Stopped(w))
  BY <1>1 DEF IInv, HostOK, Local
<1>3. Stopped(w).at = "hold" /\ Stopped(w).turn = "stopped" /\ Stopped(w).cur = w.cur
  BY <1>2 DEF Stopped, Guards
<1> QED
  BY <1>1, <1>2, <1>3 DEF AfterFailure

LEMMA IdleAfter ==
  ASSUME NEW h \in Hosts
  PROVE  AfterFailure(h, Idle)
BY IdleSettled DEF AfterFailure, Idle

\* A host that failed as f is as good as the others.
LEMMA FailedHost ==
  ASSUME IInv, NEW h \in Hosts, NEW f, AfterFailure(h, f), host'[h] = f,
         UNCHANGED <<man, calls>>
  PROVE  HostOK(h)'
<1>1. Settled(h, f) /\ Grows
  BY DEF AfterFailure, Grows
<1>2. Settled(h, f)' /\ f.op = "none" /\ f.at # "wait"
  BY <1>1, SettledKept DEF Settled
<1>3. Local(h)'
  BY <1>2 DEF Local
<1>4. Cached(h)' /\ Replies(h)' /\ Staged(h)' /\ About(h)' /\ Alone(h)'
  BY <1>2 DEF AfterFailure, IInv, HostOK, Cached, Replies, Staged, About, Alone
<1> QED
  BY <1>3, <1>4 DEF HostOK

\* A host gives up its call: none of its replacements is left, or they are
\* nobody's.
LEMMA AbandonStep ==
  ASSUME IInv, NEW h \in Hosts, NEW f, AfterFailure(h, f),
         host' = [host EXCEPT ![h] = f], binding' = binding, Rest,
         \A n \in net' : \/ n \in net /\ n.from # h
                         \/ \E m \in net : m.from = h /\ n = [m EXCEPT !.from = Nobody]
  PROVE  IInv'
<1>1. Grows /\ clock \in Nat /\ clock' = clock /\ man' = man /\ calls' = calls /\ Valid(man)
  BY Numbers DEF IInv, Grows, Rest
<1>2. \A i \in Hosts : host'[i] = IF i = h THEN f ELSE host[i]
  BY DEF IInv
<1>3. host' \in [Hosts -> Guards] /\ host'[h] = f
  BY <1>2 DEF IInv, AfterFailure, Settled
<1>4. ASSUME NEW n \in net', ~(n \in net /\ n.from # h)
      PROVE  \E m \in net : /\ n \in Replacements /\ n.from = Nobody
                            /\ n.base = m.base /\ n.to = m.to
  <2>1. PICK m \in net : m.from = h /\ n = [m EXCEPT !.from = Nobody]
    BY <1>4
  <2>2. m \in Replacements
    BY DEF IInv, MsgOK
  <2>3. n \in Replacements /\ n.from = Nobody /\ n.base = m.base /\ n.to = m.to
    BY <2>1, <2>2 DEF Replacements
  <2> QED
    BY <2>3
<1>5. ASSUME NEW i \in Hosts, i # h PROVE HostOK(i)'
  <2>1. HostOK(i) /\ host'[i] = host[i]
    BY <1>2, <1>5 DEF IInv
  <2>2. \A n \in net' : \E m \in net : m.base = n.base
    BY <1>4
  <2> QED
    BY <2>1, <2>2, <1>1, HostKept
<1>6. HostOK(h)'
  BY <1>1, <1>3, FailedHost
<1>7. ASSUME NEW n \in net' PROVE MsgOK(n)'
  <2>1. CASE n \in net /\ n.from # h
    <3>1. MsgOK(n) /\ (n.from # Nobody => host'[n.from] = host[n.from])
      BY <1>2, <2>1 DEF IInv, MsgOK, Replacements
    <3> QED
      BY <2>1, <3>1, <1>1, MsgKept
  <2>2. CASE ~(n \in net /\ n.from # h)
    <3>1. PICK m \in net : /\ n \in Replacements /\ n.from = Nobody
                           /\ n.base = m.base /\ n.to = m.to
      BY <1>4, <2>2
    <3>2. /\ Valid(m.to) /\ m.base <= man.gen /\ m.to.gen = m.base + 1
          /\ m.base = man.gen => Lands(m)
      BY DEF IInv, MsgOK
    <3>3. m.base = man.gen => Lands(n)'
      BY <1>1, <3>1, <3>2 DEF Lands, Follows
    <3> QED
      BY <1>1, <3>1, <3>2, <3>3 DEF MsgOK, Valid
  <2> QED
    BY <2>1, <2>2
<1>8. OneStarted'
  BY <1>2 DEF IInv, OneStarted, AfterFailure
<1>9. OneCall'
  BY <1>4 DEF IInv, OneCall
<1> QED
  BY <1>1, <1>3, <1>5, <1>6, <1>7, <1>8, <1>9
  DEF IInv, Rest, Valid, OneTerminalAnswer, ReachedIsKept, Counted

LEMMA GiveUpStep ==
  ASSUME IInv, NEW h \in Hosts, GiveUp(h)
  PROVE  IInv'
<1>1. PICK f \in Unanswered(host[h]) : host' = [host EXCEPT ![h] = f]
  BY DEF GiveUp
<1>2. host[h].at = "wait" /\ host' = [host EXCEPT ![h] = f] /\ binding' = binding
  BY <1>1 DEF GiveUp, others
<1>3. AfterFailure(h, f)
  BY <1>1, <1>2, FailedAfter, StoppedAfter DEF Unanswered
<1>4. Rest
  <2>1. tasks' \in 0 .. MaxTasks /\ faults' \in 0 .. MaxFaults
    BY Numbers DEF GiveUp, IInv
  <2> QED
    BY <2>1, RestKept DEF GiveUp, others
<1>5. \A n \in net' : \/ n \in net /\ n.from # h
                      \/ \E m \in net : m.from = h /\ n = [m EXCEPT !.from = Nobody]
  BY DEF GiveUp
<1> QED
  BY <1>2, <1>3, <1>4, <1>5, AbandonStep

LEMMA CrashStep ==
  ASSUME IInv, NEW h \in Hosts, Crash(h)
  PROVE  IInv'
<1>1. PICK f : f = Idle
  OBVIOUS
<1>2. host' = [host EXCEPT ![h] = f] /\ binding' = binding /\ AfterFailure(h, f)
  BY <1>1, IdleAfter DEF Crash, others
<1>3. Rest
  <2>1. tasks' \in 0 .. MaxTasks /\ faults' \in 0 .. MaxFaults
    BY Numbers DEF Crash, IInv
  <2> QED
    BY <2>1, RestKept DEF Crash, others
<1>4. \A n \in net' : \/ n \in net /\ n.from # h
                      \/ \E m \in net : m.from = h /\ n = [m EXCEPT !.from = Nobody]
  BY DEF Crash
<1> QED
  BY <1>2, <1>3, <1>4, AbandonStep
-----------------------------------------------------------------------------
(* The manifest is replaced *)

\* What a host does when its replacement x was made.
AfterSuccess(h, x, a) ==
    /\ a.at \in {"hold", "drop", "reread", "idle"}
    /\ a.at \in {"hold", "drop"} => a.cur = x
    /\ a.at \in {"drop", "reread"} => host[h].op = "finish" /\ a.out = host[h].out
    /\ a.turn = "started" =>
         /\ a.at = "hold" /\ a.journal = host[h].journal
         /\ host[h].op = "start" \/ host[h].turn = "started"

LEMMA AcceptedAfter ==
  ASSUME IInv, NEW h \in Hosts, NEW x \in Manifests, host[h].at = "wait"
  PROVE  AfterSuccess(h, x, Accepted(host[h], x))
<1>1. PICK w : w = host[h]
  OBVIOUS
<1>2. w \in Guards /\ w.op # "none"
  BY <1>1 DEF IInv, HostOK, Local
<1>3. PICK n : n = Holding(w, x)
  OBVIOUS
<1>4. /\ n \in Guards /\ n.at = "hold" /\ n.cur = x /\ n.out = w.out
      /\ n.turn = w.turn /\ n.journal = w.journal
  BY <1>2, <1>3, HoldingFields
<1>5. CASE w.op = "renew"
  <2>1. PICK a : a = [n EXCEPT !.lease = x.lease]
    OBVIOUS
  <2>2. Accepted(w, x) = a
    BY <1>3, <1>5, <2>1 DEF Accepted, Holding
  <2>3. a.at = "hold" /\ a.cur = x /\ a.turn = w.turn /\ a.journal = w.journal
    BY <1>4, <2>1 DEF Guards
  <2> QED
    BY <1>1, <2>2, <2>3 DEF AfterSuccess
<1>6. CASE w.op \in {"start", "complete"}
  <2>1. PICK turn : turn = IF w.op = "start" THEN "started"
                           ELSE CASE w.turn = "text" -> "final"
                                  [] w.turn = "badids" -> "failed"
                                  [] w.turn = "writes" -> "awaits"
                                  [] OTHER -> "ready"
    OBVIOUS
  <2>2. PICK a : a = [n EXCEPT !.turn = turn]
    OBVIOUS
  <2>3. a.at = "hold" /\ a.cur = x /\ a.turn = turn /\ a.journal = w.journal
    BY <1>4, <2>2 DEF Guards
  <2>4. Accepted(w, x) = a
    BY <1>3, <1>6, <2>1, <2>2 DEF Accepted, Holding
  <2>5. turn = "started" => w.op = "start"
    BY <2>1
  <2> QED
    BY <1>1, <2>3, <2>4, <2>5 DEF AfterSuccess
<1>7. CASE w.op = "exit"
  <2>1. PICK a : a = [n EXCEPT !.exited = TRUE]
    OBVIOUS
  <2>2. Accepted(w, x) = a
    BY <1>3, <1>7, <2>1 DEF Accepted, Holding
  <2>3. a.at = "hold" /\ a.cur = x /\ a.turn = w.turn /\ a.journal = w.journal
    BY <1>4, <2>1 DEF Guards
  <2> QED
    BY <1>1, <2>2, <2>3 DEF AfterSuccess
<1>8. CASE w.op = "finish"
  <2>1. PICK a : a = Drop(n)
    OBVIOUS
  <2>2. Accepted(w, x) = a
    BY <1>3, <1>8, <2>1 DEF Accepted, Holding
  <2>3. /\ a.at \in {"drop", "reread"} /\ (a.at = "drop" => a.cur = x)
        /\ a.turn = "none" /\ a.out = w.out
    <3>1. Idle \in Guards /\ Idle.turn = "none"
      BY IdleSettled DEF Settled, Idle
    <3> QED
      BY <1>4, <2>1, <3>1 DEF Drop, Lose, Guards
  <2> QED
    BY <1>1, <1>8, <2>2, <2>3 DEF AfterSuccess
<1>9. CASE w.op \in {"release", "clear", "archive"}
  <2>1. Accepted(w, x) = Idle
    BY <1>9 DEF Accepted
  <2>2. Idle.at = "idle" /\ Idle.turn = "none"
    BY DEF Idle
  <2> QED
    BY <1>1, <2>1, <2>2 DEF AfterSuccess
<1>10. CASE w.op \in {"acquire", "compact"}
  <2>1. Accepted(w, x) = n
    BY <1>3, <1>10 DEF Accepted, Holding
  <2> QED
    BY <1>1, <1>4, <2>1 DEF AfterSuccess
<1> QED
  BY <1>2, <1>5, <1>6, <1>7, <1>8, <1>9, <1>10 DEF Guards

\* A step about to be called stays the published one.
LEMMA StartedStays ==
  ASSUME IInv, NEW m \in net, m.base = man.gen, NEW i \in Hosts, host[i].turn = "started"
  PROVE  m.to.journal = host[i].journal \/ m.to.tomb # "none"
<1>1. /\ host[i].journal.phase = "started" /\ host[i].journal.step \in Steps
      /\ calls[host[i].journal.step] = 0
      /\ man.journal = host[i].journal \/ man.tomb # "none"
  BY DEF IInv, HostOK, About
<1>2. Lands(m)
  BY DEF IInv, MsgOK
<1> QED
  BY <1>1, <1>2 DEF Lands, Follows, Callable, NoJournal

\* What was called stays accounted for.
LEMMA CountedStays ==
  ASSUME IInv, NEW m \in net, m.base = man.gen, NEW s \in Steps, calls[s] = 1
  PROVE  s \in Called(m.to.journal) \/ m.to.tomb # "none"
<1>1. Lands(m) /\ m.to.journal \in Journals /\ man.journal \in Journals
  BY DEF IInv, MsgOK, Valid, Manifests
<1>2. s \in Called(man.journal) \/ man.tomb # "none"
  BY DEF IInv, Counted
<1>3. CASE man.tomb # "none"
  BY <1>1, <1>3 DEF Lands
<1>4. CASE s \in Called(man.journal) /\ man.tomb = "none"
  <2>1. man.journal.step \in Nat /\ s \in Nat
    BY <1>1, Numbers DEF Journals, Steps
  <2>2. \/ Follows(man.journal, m.to.journal)
        \/ man.journal = NoJournal /\ m.to.journal = [phase |-> "accepted", step |-> 0]
    BY <1>1, <1>4 DEF Lands
  <2> QED
    BY <1>4, <2>1, <2>2 DEF Called, Follows, Callable, NoJournal
<1> QED
  BY <1>2, <1>3, <1>4
\* A replacement that lands.
LEMMA LandMade ==
  ASSUME IInv, NEW m \in net, Land(m), m.base = man.gen
  PROVE  IInv'
<1>1. PICK x : x = m.to
  OBVIOUS
<1>2. /\ man' = x /\ UNCHANGED <<clock, binding, calls, tasks, faults>>
      /\ net' \subseteq net \ {m}
  BY <1>1 DEF Land, Matches, bounds
<1>3. /\ m \in Replacements /\ Valid(x) /\ x.gen = man.gen + 1 /\ man.gen \in Nat
      /\ Lands(m) /\ Valid(man)
  BY <1>1, Numbers DEF IInv, MsgOK, Valid, Manifests
<1>4. man.tomb # "none" => x.tomb = man.tomb
  BY <1>1, <1>3 DEF Lands
<1>5. Grows /\ clock \in Nat
  BY <1>2, Numbers DEF Grows, IInv
<1>6. ASSUME m.from # Nobody
      PROVE  /\ m.from \in Hosts /\ host[m.from].at = "wait"
             /\ host' = [host EXCEPT ![m.from] = Accepted(host[m.from], x)]
             /\ Settled(m.from, Accepted(host[m.from], x))
             /\ AfterSuccess(m.from, x, Accepted(host[m.from], x))
             /\ host[m.from].op = "finish" => x.tomb = host[m.from].out
             /\ host[m.from].op = "start" => /\ man.journal.phase \in Callable
                                             /\ man.tomb = "none"
  <2>1. /\ m.from \in Hosts /\ host[m.from].at = "wait"
        /\ Settled(m.from, Accepted(host[m.from], x))
        /\ host[m.from].op = "finish" => x.tomb = host[m.from].out
        /\ host[m.from].op = "start" => /\ host[m.from].cur.journal.phase \in Callable
                                        /\ host[m.from].cur.tomb = "none"
                                        /\ host[m.from].cur.gen = man.gen
    BY <1>1, <1>3, <1>6 DEF IInv, MsgOK, Replacements
  <2>2. host[m.from].cur.gen = man.gen => host[m.from].cur = man
    BY <2>1 DEF IInv, HostOK, Cached
  <2>3. AfterSuccess(m.from, x, Accepted(host[m.from], x))
    BY <1>3, <2>1, AcceptedAfter DEF Valid
  <2>4. host' = [host EXCEPT ![m.from] = Accepted(host[m.from], x)]
    BY <1>1, <1>6 DEF Land, Matches
  <2> QED
    BY <2>1, <2>2, <2>3, <2>4
<1>7. ASSUME NEW i \in Hosts, i # m.from PROVE host'[i] = host[i]
  BY <1>6, <1>7 DEF Land, IInv
<1>8. m.from # Nobody => host'[m.from] = Accepted(host[m.from], x)
  BY <1>6 DEF IInv
<1>9. host' \in [Hosts -> Guards]
  <2>1. CASE m.from = Nobody
    BY <2>1 DEF Land, IInv
  <2>2. CASE m.from # Nobody
    BY <2>2, <1>6 DEF IInv, Settled
  <2> QED
    BY <2>1, <2>2
<1>10. ASSUME NEW i \in Hosts, i # m.from PROVE HostOK(i)'
  <2>1. HostOK(i) /\ host'[i] = host[i] /\ host[i] \in Guards
    BY <1>7, <1>10 DEF IInv
  <2>2. PICK w : w = host[i]
    OBVIOUS
  <2>3. Local(i)'
    <3>1. CASE w.at = "wait"
      <4>1. /\ w \in Guards /\ w.op # "none" /\ Settled(i, Failed(w))
            /\ w.op = "compact" => Settled(i, Stopped(w))
        BY <2>1, <2>2, <3>1 DEF HostOK, Local
      <4>2. Settled(i, Failed(w))' /\ (w.op = "compact" => Settled(i, Stopped(w))')
        BY <4>1, <1>5, SettledKept
      <4> QED
        BY <2>1, <2>2, <3>1, <4>1, <4>2 DEF Local
    <3>2. CASE w.at # "wait"
      <4>1. Settled(i, w)'
        BY <2>1, <2>2, <3>2, <1>5, SettledKept DEF HostOK, Local
      <4> QED
        BY <2>1, <2>2, <3>2, <4>1 DEF Local
    <3> QED
      BY <3>1, <3>2
  <2>4. w.at \notin {"idle", "reread"} => w.cur.gen <= man.gen /\ w.cur.gen \in Nat
    BY <2>1, <2>2, Numbers DEF HostOK, Cached, Guards, Manifests
  <2>5. Cached(i)' /\ Staged(i)'
    BY <1>2, <1>3, <2>1, <2>2, <2>4 DEF Cached, Staged
  <2>6. Alone(i)'
    BY <1>2, <2>1 DEF HostOK, Alone
  <2>7. Replies(i)'
    BY <1>2, <1>4, <2>1 DEF HostOK, Replies
  <2>8. About(i)'
    BY <1>1, <1>2, <2>1, StartedStays DEF HostOK, About
  <2> QED
    BY <2>3, <2>5, <2>6, <2>7, <2>8 DEF HostOK
<1>11. \A n \in net' : n \in net /\ n # m /\ MsgOK(n) /\ n.base \in Nat /\ n.base < x.gen
  BY <1>2, <1>3, Numbers DEF IInv, MsgOK, Replacements
<1>12. ASSUME m.from # Nobody PROVE HostOK(m.from)'
  <2>1. PICK h \in Hosts : h = m.from
    BY <1>6, <1>12
  <2>2. PICK a : a = Accepted(host[h], x)
    OBVIOUS
  <2>3. /\ host'[h] = a /\ Settled(h, a) /\ AfterSuccess(h, x, a)
        /\ host[h].op = "finish" => x.tomb = host[h].out
        /\ host[h].op = "start" => /\ man.journal.phase \in Callable
                                   /\ man.tomb = "none"
    BY <1>6, <1>8, <1>12, <2>1, <2>2
  <2>4. Settled(h, a)' /\ a.at # "wait" /\ a.op = "none"
    BY <1>5, <2>3, SettledKept DEF Settled
  <2>5. Local(h)'
    BY <2>3, <2>4 DEF Local
  <2>6. Cached(h)' /\ Replies(h)' /\ Staged(h)'
    BY <1>2, <1>3, <2>3, <2>4 DEF AfterSuccess, Cached, Replies, Staged
  <2>7. Alone(h)'
    BY <1>2, <1>3, <1>11, <2>3 DEF AfterSuccess, Alone
  <2>8. About(h)'
    <3> SUFFICES ASSUME a.turn = "started"
                 PROVE  /\ a.journal.phase = "started" /\ a.journal.step \in Steps
                        /\ calls[a.journal.step] = 0
                        /\ x.journal = a.journal \/ x.tomb # "none"
      BY <1>2, <2>3 DEF About
    <3>1. TurnOK(a) /\ a.cur = x /\ a.journal = host[h].journal
      BY <2>3 DEF AfterSuccess, Settled
    <3>2. /\ a.journal.phase = "started" /\ a.journal.step \in Steps
          /\ a.journal = x.journal
      BY <3>1 DEF TurnOK
    <3>3. CASE host[h].op = "start"
      <4>1. man.journal.phase \in Callable /\ man.tomb = "none"
        BY <2>3, <3>3
      <4>2. x.journal.step = man.journal.step
        BY <1>1, <1>3, <3>2, <4>1 DEF Lands, Follows, Callable, NoJournal
      <4>3. a.journal.step \notin Called(man.journal)
        BY <1>3, <3>2, <4>1, <4>2, Numbers DEF Called, Callable, Steps
      <4>4. calls[a.journal.step] = 0
        BY <3>2, <4>1, <4>3 DEF IInv, Counted
      <4> QED
        BY <3>2, <4>4
    <3>4. CASE host[h].turn = "started"
      BY <3>1, <3>2, <3>4 DEF IInv, HostOK, About
    <3> QED
      BY <2>3, <3>3, <3>4 DEF AfterSuccess
  <2> QED
    BY <2>1, <2>5, <2>6, <2>7, <2>8 DEF HostOK
<1>13. \A i \in Hosts : HostOK(i)'
  <2> TAKE i \in Hosts
  <2>1. CASE i = m.from
    BY <2>1, <1>12, Numbers
  <2>2. CASE i # m.from
    BY <2>2, <1>10
  <2> QED
    BY <2>1, <2>2
<1>14. ASSUME NEW n \in net' PROVE MsgOK(n)'
  <2>1. n \in net /\ n # m /\ MsgOK(n) /\ n.base \in Nat /\ n.base < x.gen
    BY <1>11
  <2>2. n.from # Nobody => n.from \in Hosts /\ n.from # m.from
    BY <2>1 DEF IInv, OneCall, MsgOK, Replacements
  <2>3. n.from # Nobody => host'[n.from] = host[n.from]
    BY <2>2, <1>7
  <2>4. n.from # Nobody => Settled(n.from, Accepted(host[n.from], n.to))'
    <3> SUFFICES ASSUME n.from # Nobody
                 PROVE  Settled(n.from, Accepted(host[n.from], n.to))'
      OBVIOUS
    <3> PICK w : w = host[n.from]
      OBVIOUS
    <3>1. Settled(n.from, Accepted(w, n.to))'
      BY <1>5, <2>1, SettledKept DEF MsgOK
    <3> QED
      BY <2>3, <3>1
  <2> QED
    BY <1>2, <1>3, <2>1, <2>3, <2>4 DEF MsgOK, Valid
<1>15. OneStarted'
  <2> SUFFICES ASSUME NEW i \in Hosts, NEW k \in Hosts, i # k,
                      host'[i].turn = "started", host'[k].turn = "started"
               PROVE  FALSE
    BY DEF OneStarted
  <2>1. ASSUME NEW p \in Hosts, host'[p].turn = "started"
        PROVE  \/ host[p].turn = "started"
               \/ p = m.from /\ \A q \in Hosts : host[q].turn # "started"
    <3>1. CASE p # m.from
      BY <3>1, <2>1, <1>7
    <3>2. CASE p = m.from
      <4>1. m.from # Nobody
        BY <3>2, Numbers
      <4>2. host[p].op = "start" \/ host[p].turn = "started"
        BY <1>6, <1>8, <2>1, <3>2, <4>1 DEF AfterSuccess
      <4>3. ASSUME host[p].op = "start", NEW q \in Hosts PROVE host[q].turn # "started"
        <5>1. man.journal.phase \in Callable /\ man.tomb = "none"
          BY <1>6, <3>2, <4>1, <4>3
        <5> QED
          BY <5>1 DEF IInv, HostOK, About, Callable
      <4> QED
        BY <3>2, <4>2, <4>3
    <3> QED
      BY <3>1, <3>2
  <2> QED
    BY <2>1 DEF IInv, OneStarted
<1>16. told' \subseteq Ends /\ told' \subseteq {x.tomb}
  <2>1. told \subseteq Ends /\ told \subseteq {man.tomb}
    BY DEF IInv, OneTerminalAnswer
  <2>2. "none" \notin Ends
    BY DEF Ends
  <2>3. CASE told' = told
    BY <1>4, <2>1, <2>2, <2>3
  <2>4. CASE told' # told
    <3>1. m.from # Nobody /\ host[m.from].op \in {"release", "clear"}
      BY <2>4 DEF Land
    <3>2. told' = told \cup ({host[m.from].out} \ {"none"})
      BY <2>4, <3>1 DEF Land, Matches
    <3>3. host[m.from].out # "none" => host[m.from].out = man.tomb
      BY <1>6, <3>1 DEF IInv, HostOK, Replies
    <3>4. man.tomb \in Ends \cup {"none"}
      BY <1>3 DEF Valid, Manifests
    <3> QED
      BY <1>4, <2>1, <2>2, <3>2, <3>3, <3>4
  <2> QED
    BY <2>3, <2>4
<1>17. Counted'
  BY <1>1, <1>2, CountedStays DEF IInv, Counted, Called
<1>18. ReachedIsKept'
  BY <1>1, <1>2, <1>3 DEF IInv, ReachedIsKept, Lands
<1>19. OneCall'
  BY <1>2 DEF IInv, OneCall
<1> QED
  BY <1>2, <1>3, <1>9, <1>13, <1>14, <1>15, <1>16, <1>17, <1>18, <1>19
  DEF IInv, Valid, OneTerminalAnswer
\* A replacement of a manifest that has changed.
LEMMA LandRefused ==
  ASSUME IInv, NEW m \in net, Land(m), m.base # man.gen
  PROVE  IInv'
<1>1. UNCHANGED <<man, clock, binding, calls, told, tasks, faults>> /\ net' \subseteq net \ {m}
  BY DEF Land, Matches, bounds
<1>2. Rest
  BY <1>1, RestKept DEF IInv
<1>3. CASE m.from = Nobody
  <2>1. host' = host /\ net' \subseteq net
    BY <1>1, <1>3 DEF Land
  <2>2. clock' \in 1 .. MaxClock /\ clock <= clock' /\ binding' \in 0 .. MaxClock
    BY <1>1, Numbers DEF IInv
  <2> QED
    BY <1>1, <1>2, <2>1, <2>2, QuietStep DEF Rest
<1>4. CASE m.from # Nobody
  <2>1. PICK h \in Hosts : h = m.from
    BY <1>4 DEF IInv, MsgOK, Replacements
  <2>2. PICK f : f = Failed(host[h])
    OBVIOUS
  <2>3. host' = [host EXCEPT ![h] = f] /\ host[h].at = "wait"
    BY <1>4, <2>1, <2>2 DEF Land, Matches, IInv, MsgOK
  <2>4. AfterFailure(h, f)
    BY <2>2, <2>3, FailedAfter
  <2>5. \A n \in net' : n \in net /\ n.from # h
    BY <1>1, <1>4, <2>1 DEF IInv, OneCall
  <2> QED
    BY <1>1, <1>2, <2>3, <2>4, <2>5, AbandonStep
<1> QED
  BY <1>3, <1>4

-----------------------------------------------------------------------------
(* The invariant holds *)

LEMMA NextIInv == IInv /\ [Next]_vars => IInv'
<1> SUFFICES ASSUME IInv, [Next]_vars PROVE IInv'
  OBVIOUS
<1>1. CASE UNCHANGED vars
  BY <1>1, StutterStep
<1>2. CASE Tick
  BY <1>2, TickStep
<1>3. ASSUME NEW m \in net, Land(m) PROVE IInv'
  BY <1>3, LandMade, LandRefused
<1>4. ASSUME NEW h \in Hosts,
             \/ Replay(h) \/ StageAdmission(h) \/ Admit(h) \/ Resume(h) \/ Renew(h)
             \/ StartStep(h) \/ CallProvider(h) \/ CompleteStep(h)
      PROVE  IInv'
  BY <1>4, ReplayStep, StageAdmissionStep, AdmitStep, ResumeStep, RenewStep,
     StartStepStep, CallProviderStep, CompleteStepStep
<1>5. ASSUME NEW h \in Hosts,
             \/ StepLimit(h) \/ Cancel(h) \/ StagingFails(h) \/ PublishExit(h)
             \/ BindRecords(h) \/ FinishTurn(h)
      PROVE  IInv'
  BY <1>5, StepLimitStep, CancelStep, StagingFailsStep, PublishExitStep, BindRecordsStep,
     FinishTurnStep
<1>6. ASSUME NEW h \in Hosts,
             \/ Maintain(h) \/ Compact(h) \/ StartReaping(h) \/ ReapBinding(h)
             \/ EndMaintenance(h) \/ Archive(h)
      PROVE  IInv'
  BY <1>6, MaintainStep, CompactStep, StartReapingStep, ReapBindingStep,
     EndMaintenanceStep, ArchiveStep
<1>7. ASSUME NEW h \in Hosts,
             Release(h) \/ ReleaseReread(h) \/ GiveUp(h) \/ Crash(h)
      PROVE  IInv'
  BY <1>7, ReleaseStep, ReleaseRereadStep, GiveUpStep, CrashStep
<1> QED
  BY <1>1, <1>2, <1>3, <1>4, <1>5, <1>6, <1>7 DEF Next

\* The inductive invariant holds for any hosts, steps, times and bounds.
THEOREM Invariance == Spec => []IInv
BY InitIInv, NextIInv, PTL DEF Spec

\* Types of the variables: the manifest, the calls under way, every host's
\* guard and turn.
THEOREM TypeCorrect == Spec => []TypeOK
<1>1. IInv => TypeOK
  BY DEF IInv, TypeOK, Valid, MsgOK
<1> QED
  BY Invariance, <1>1, PTL

\* No provider step is called twice, whatever hosts run the request, crash,
\* lose their lease or miss an answer (provider_step_started).
THEOREM CalledOnce == Spec => []StepsCalledOnce
<1>1. IInv => StepsCalledOnce
  BY DEF IInv, Counted, StepsCalledOnce
<1> QED
  BY Invariance, <1>1, PTL

\* All clients are told the tombstone's answer (request_replay_from_manifest,
\* finish_terminal).
THEOREM SameAnswer == Spec => []OneTerminalAnswer
<1>1. IInv => OneTerminalAnswer
  BY DEF IInv
<1> QED
  BY Invariance, <1>1, PTL

\* The reaper deletes nothing that the manifest reaches (reap_orphans).
THEOREM BindingKept == Spec => []ReachedIsKept
<1>1. IInv => ReachedIsKept
  BY DEF IInv
<1> QED
  BY Invariance, <1>1, PTL

\* A guard that passes its time check and that a turn or the reaper still uses
\* caches the manifest that OneDrive has (revalidate_publication_time against
\* the takeover margin); one whose compaction timed out need not.
THEOREM GuardCurrent == Spec => []GuardIsCurrent
<1>1. IInv => GuardIsCurrent
  <2> SUFFICES ASSUME IInv, NEW h \in Hosts, Holds(host[h]),
                      host[h].at \in {"hold", "reaps"}, host[h].turn # "stopped"
               PROVE  man = host[h].cur
    BY DEF GuardIsCurrent
  <2>1. host[h].lease \in Leases /\ clock \in Nat
    BY GuardFacts, Numbers DEF IInv
  <2>2. host[h].lease # NoLease /\ host[h].lease.exp \in Nat
    BY <2>1, LeaseAssumption, Numbers DEF Leases
  <2>3. ~Free(host[h].lease, clock)
    BY <2>1, <2>2, Numbers DEF Free, Holds
  <2> QED
    BY <2>3 DEF IInv, HostOK, Alone, Holds
<1> QED
  BY Invariance, <1>1, PTL

-----------------------------------------------------------------------------
(* What a step may do to the manifest *)

\* Only a replacement of the stored version changes the manifest.
LEMMA ManifestChanges ==
  ASSUME IInv, [Next]_vars
  PROVE  \/ man' = man
         \/ \E m \in net : man' = m.to /\ Lands(m) /\ Valid(m.to)
<1>1. CASE UNCHANGED vars
  BY <1>1 DEF vars
<1>2. ASSUME NEW m \in net, Land(m)
      PROVE  man' = man \/ (man' = m.to /\ Lands(m) /\ Valid(m.to))
  BY <1>2 DEF Land, Matches, IInv, MsgOK
<1>3. CASE Next /\ ~\E m \in net : Land(m)
  BY <1>3 DEF Next, Tick, Replay, StageAdmission, Admit, Resume, Renew, StartStep,
     CallProvider, CompleteStep, StepLimit, Cancel, StagingFails, PublishExit,
     BindRecords, FinishTurn, Maintain, Compact, StartReaping, ReapBinding,
     EndMaintenance, Archive, Release, ReleaseReread, GiveUp, Crash
<1> QED
  BY <1>1, <1>2, <1>3

\* The tombstone of a request is final (publish_terminal,
\* compact_terminal_request).
THEOREM TombstoneIsFinal == Spec => TombstoneStays
<1>1. IInv /\ [Next]_vars => (man.tomb # "none" => man'.tomb = man.tomb)
  BY ManifestChanges DEF Lands
<1> QED
  BY Invariance, <1>1, PTL DEF Spec, TombstoneStays

\* A request whose final text is published never ends as unknown
\* (classify_completed_recovery_v2).
THEOREM FinalTextKnown == Spec => FinalTextIsKnown
<1>1. IInv /\ [Next]_vars => (man.journal.phase = "final" => man'.tomb # "unknown")
  BY ManifestChanges DEF Lands, Valid, IInv
<1> QED
  BY Invariance, <1>1, PTL DEF Spec, FinalTextIsKnown

\* A lease is ended by its holder, or by others after it and the margin ran
\* out (release, archive_session, acquire_lease).
THEOREM LeaseIsFair == Spec => LeaseEndsFairly
<1>1. ASSUME IInv, [Next]_vars, NEW h \in Hosts, man.lease # NoLease,
             man.lease.holder = h, man'.lease # man.lease
      PROVE  \/ man'.lease # NoLease /\ man'.lease.fence = man.lease.fence
             \/ clock > man.lease.exp + Margin
             \/ \E m \in net : m.to = man' /\ m.from \in {h, Nobody}
  BY <1>1, ManifestChanges DEF Lands, Free
<1>2. IInv /\ [Next]_vars
      => \A h \in Hosts :
           man.lease # NoLease /\ man.lease.holder = h /\ man'.lease # man.lease
             => \/ man'.lease # NoLease /\ man'.lease.fence = man.lease.fence
                \/ clock > man.lease.exp + Margin
                \/ \E m \in net : m.to = man' /\ m.from \in {h, Nobody}
  BY <1>1
<1> QED
  BY Invariance, <1>2, PTL DEF Spec, LeaseEndsFairly
=============================================================================
