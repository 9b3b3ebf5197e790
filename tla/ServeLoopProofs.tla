-------------------------- MODULE ServeLoopProofs ---------------------------
(***************************************************************************)
(* The serve loop is sound for every number of slots, every backoff, cap,  *)
(* threshold and teardown budget: proofs of ServeLoop's LoopSound.         *)
(*                                                                         *)
(* The inductive invariant has one part for each thing that two tasks      *)
(* share: the slots (Slotted), the pace of the admissions (Paced), the     *)
(* sessions that may still flap (Rushed) and the end of the own grant      *)
(* (Ended).  Each part is kept by a step because of the ones before it.    *)
(*                                                                         *)
(* The map of a super peer's clients, which the direct path of a served    *)
(* host may run through, is proved about at the end.                       *)
(***************************************************************************)
EXTENDS ServeLoop, SuperPeer, FiniteSetTheorems, TLAPS

Busy == In({"run", "returned", "recorded", "aborted"})

\* Every slot is the semaphore's, the loop's or a session's.
Slotted == TypeOK /\ SlotsConserved

\* The sessions whose outcome is not recorded yet.
Unrecorded == In({"run", "returned"})

\* The half of a step is the least that the loop waits, a step (or a park's) is the most.
LeastWait == StepOf(hist.kind, hist.n) \div 2
MostWait == IF hist.kind = "park" THEN (Retry \div 2) + 2 * Retry ELSE StepOf(hist.kind, hist.n)

\* The streaks are what the history counts, and the loop is at no park before the wait is over.
Paced ==
    /\ hist.kind = "none" <=> hist.n = 0
    /\ streak.refused = (IF hist.kind = "refused" THEN hist.n ELSE 0)
    /\ streak.eof = (IF hist.kind = "eof" THEN hist.n ELSE 0)
    /\ streak.transient = (IF hist.kind = "transient" THEN hist.n ELSE 0)
    /\ hist.n > 0 =>
         /\ loop.st = "sleep" => loop.at >= hist.at + LeastWait /\ loop.at <= hist.at + MostWait
         /\ loop.st \in {"top", "load", "flap"} => now >= hist.at + LeastWait
         /\ loop.st = "admit" => loop.admit >= hist.at + LeastWait

\* The flaps since the last wait, the sessions that may still flap and the one being admitted
\* without a wait have a slot each.
Rushed ==
    /\ hist.rush <= flaps
    /\ hist.rush + Cardinality(Unrecorded) + (IF loop.st \in {"flap", "admit"} THEN 1 ELSE 0) <= max

\* Where the loop is tells how far the own grant's end has come.
Ended ==
    /\ Serving => now <= own /\ hist.end = "none" /\ In({"aborted"}) = {}
    /\ loop.st = "ending" => /\ now >= own /\ now <= loop.at /\ loop.at = own + Budget
                             /\ In({"aborted"}) = {}
    /\ loop.st = "aborting" => now <= own + Budget /\ now < loop.at /\ In({"run"}) = {}
    /\ loop.st = "stopped" => AllJoined
    /\ SessionsGetTheirTime

LoopInv == Slotted /\ Paced /\ Rushed /\ Ended

-----------------------------------------------------------------------------
(* The operators. *)

\* A power of two is a positive number: the number of subsets of n elements.
LEMMA PowerPositive == ASSUME NEW n \in Nat PROVE 2^n \in Nat /\ 2^n >= 1
  <1> DEFINE S == 1..n
  <1>1. IsFiniteSet(S) /\ Cardinality(S) = n
    BY FS_Interval
  <1>2. IsFiniteSet(SUBSET S) /\ Cardinality(SUBSET S) = 2^n
    BY <1>1, FS_SUBSET
  <1>3. Cardinality(SUBSET S) \in Nat
    BY <1>2, FS_CardinalityType
  <1>4. SUBSET S # {}
    BY S \in SUBSET S
  <1>5. Cardinality(SUBSET S) # 0
    BY <1>2, <1>4, FS_EmptySet
  <1> QED
    BY <1>2, <1>3, <1>5

\* A doubled backoff is between the plain one and its cap.
LEMMA DoubledType ==
    ASSUME NEW n \in Nat, NEW cap \in Nat, cap >= Retry
    PROVE  Least(Retry * 2^n, cap) \in Nat /\ Least(Retry * 2^n, cap) >= Retry
  <1>1. 2^n \in Nat /\ 2^n >= 1
    BY PowerPositive
  <1> DEFINE p == 2^n
  <1> HIDE DEF p
  <1>2. p \in Nat /\ p >= 1
    BY <1>1 DEF p
  <1>3. Retry * p \in Nat /\ Retry * p >= Retry
    BY <1>2, ServeAssumption
  <1>4. Least(Retry * p, cap) \in Nat /\ Least(Retry * p, cap) >= Retry
    BY <1>3 DEF Least
  <1> QED
    BY <1>4 DEF p

\* Sets of sessions are finite, and have as many elements as there are slots at most.
LEMMA InFinite ==
    ASSUME max \in Nat, NEW states
    PROVE  /\ IsFiniteSet(In(states)) /\ Cardinality(In(states)) \in Nat
           /\ Cardinality(In(states)) <= max
  <1>1. IsFiniteSet(Slots) /\ Cardinality(Slots) = max
    BY FS_Interval DEF Slots
  <1>2. In(states) \subseteq Slots
    BY DEF In
  <1> QED
    BY <1>1, <1>2, FS_Subset, FS_CardinalityType

\* More states, more sessions.
LEMMA InMonotone ==
    ASSUME max \in Nat, NEW A, NEW B, A \subseteq B
    PROVE  Cardinality(In(A)) <= Cardinality(In(B))
  <1>1. In(A) \subseteq In(B)
    BY DEF In
  <1> QED
    BY <1>1, InFinite, FS_Subset

-----------------------------------------------------------------------------
(* The slots. *)

\* The ranges of the variables that are records, by name.
SessionRecords ==
    [st : {"none", "run", "returned", "recorded", "aborted"}, started : Nat,
     how : {"ok", "error", "pin", "flap"}]
StreakRecords == [refused : Nat, eof : Nat, transient : Nat]
LoopRecords ==
    [st : {"top", "load", "flap", "admit", "sleep", "ending", "aborting", "stopped"},
     admit : Nat, at : Nat]
HistRecords ==
    [kind : {"none", "refused", "eof", "transient", "park", "panic"}, n : Nat, at : Nat,
     rush : Nat, end : {"none", "expiry", "refusal"}]

TypeParts ==
    /\ now \in Nat /\ own \in Expiries /\ revoked \in BOOLEAN /\ max \in Maxima /\ sem \in 0..max
    /\ sess \in [Slots -> SessionRecords]
    /\ flaps \in Nat
    /\ streak \in StreakRecords
    /\ loop \in LoopRecords
    /\ hist \in HistRecords

\* The type invariant as one record set for each variable.
LEMMA TypeByParts == TypeOK <=> TypeParts
  BY DEF TypeOK, TypeParts, SessionRecords, StreakRecords, LoopRecords, HistRecords

\* What the ranges say of the numbers and functions.
LEMMA TypeFacts ==
    ASSUME TypeOK
    PROVE  /\ now \in Nat /\ own \in Nat /\ max \in Nat /\ max >= 1 /\ sem \in Nat /\ flaps \in Nat
           /\ loop.at \in Nat /\ loop.admit \in Nat /\ hist.at \in Nat /\ hist.n \in Nat
           /\ hist.rush \in Nat
           /\ sess \in [Slots -> SessionRecords]
           /\ streak.refused \in Nat /\ streak.eof \in Nat /\ streak.transient \in Nat
  BY ServeAssumption DEF TypeOK, SessionRecords

\* Every wait after a failure is a number of ticks.
LEMMA WaitsType ==
    ASSUME NEW kind \in Failures, NEW after \in [refused : Nat, eof : Nat, transient : Nat],
           kind = "transient" => after.transient >= 1,
           NEW wait \in Waits(kind, after)
    PROVE  wait \in Nat
  <1> USE ServeAssumption
  <1>1. CASE kind = "eof"
    <2>1. Doubled(after.eof, EofCap) \in Nat
      BY DoubledType DEF Doubled
    <2> QED
      BY <1>1, <2>1 DEF Waits, EqualJitter, HandshakeEofBackoff
  <1>2. CASE kind = "transient"
    <2>1. Doubled(after.transient - 1, TransientCap) \in Nat
      BY <1>2, DoubledType DEF Doubled
    <2> QED
      BY <1>2, <2>1 DEF Waits, EqualJitter, TransientAdmissionBackoff
  <1>3. CASE kind \in Refusals
    <2>1. Doubled(after.refused, RefusedCap) \in Nat
      BY DoubledType DEF Doubled
    <2> QED
      BY <1>3, <2>1 DEF Waits, EqualJitter, AdmissionRetryBackoff, Refusals
  <1>4. CASE kind \in {"panic", "park"}
    BY <1>4 DEF Waits, ExReparkDelay
  <1> QED
    BY <1>1, <1>2, <1>3, <1>4 DEF Failures, Refusals

\* A slot that is taken over by a session, or given back by one.
LEMMA BusyGrows ==
    ASSUME max \in Nat, NEW s, s \notin Busy, Busy' = Busy \cup {s}
    PROVE  Cardinality(Busy') = Cardinality(Busy) + 1
  BY InFinite, FS_AddElement DEF Busy

\* A session that ends is one busy session less.
LEMMA BusyShrinks ==
    ASSUME max \in Nat, NEW s, s \in Busy, Busy' = Busy \ {s}
    PROVE  Cardinality(Busy') = Cardinality(Busy) - 1 /\ Cardinality(Busy) >= 1
  <1>1. IsFiniteSet(Busy) /\ Cardinality(Busy) \in Nat
    BY InFinite DEF Busy
  <1>2. Cardinality(Busy) # 0
    BY <1>1, FS_EmptySet
  <1> QED
    BY <1>1, <1>2, FS_RemoveElement

\* Nothing is held and nothing runs at first.
LEMMA SlottedInit == Init => Slotted
  <1> SUFFICES ASSUME Init PROVE Slotted
    OBVIOUS
  <1>0. sess \in [Slots -> SessionRecords]
    BY DEF Init, NoSession, Slots, SessionRecords
  <1>1. TypeOK
    <2>1. own \in Expiries /\ max \in Maxima /\ sem \in 0..max
      BY ServeAssumption DEF Init
    <2>2. streak \in StreakRecords
      BY DEF Init, NoStreak, StreakRecords
    <2>3. loop \in LoopRecords
      BY DEF Init, LoopRecords
    <2>4. hist \in HistRecords
      BY DEF Init, HistRecords
    <2>5. now \in Nat /\ revoked \in BOOLEAN /\ flaps \in Nat
      BY DEF Init
    <2> QED
      BY <1>0, <2>1, <2>2, <2>3, <2>4, <2>5, TypeByParts DEF TypeParts
  <1>2. Busy = {}
    BY DEF Init, Busy, In, NoSession, Slots
  <1>3. Cardinality(Busy) = 0
    BY <1>2, FS_EmptySet
  <1> QED
    BY <1>1, <1>3, TypeFacts DEF Slotted, SlotsConserved, Busy, Held, Init

\* The step of the loop's own state that Type needs: where it goes, since when and until when.
LEMMA LoopGoes ==
    ASSUME loop \in LoopRecords, NEW st \in {"top", "load", "flap", "admit", "sleep", "ending",
                                             "aborting", "stopped"},
           NEW n \in Nat
    PROVE  /\ [loop EXCEPT !.st = st] \in LoopRecords
           /\ [loop EXCEPT !.st = st, !.admit = n] \in LoopRecords
           /\ [loop EXCEPT !.st = st, !.at = n] \in LoopRecords
  BY DEF LoopRecords

\* Abortion keeps every busy slot busy.
LEMMA AbortKeepsBusy ==
    ASSUME TypeParts, max' = max, AbortAll
    PROVE  sess' \in [Slots -> SessionRecords] /\ Busy' = Busy
  <1>0. sess \in [Slots -> SessionRecords]
    BY DEF TypeParts
  <1>1. \A s \in Slots : sess'[s] \in SessionRecords
                         /\ sess'[s].st = IF sess[s].st = "run" THEN "aborted" ELSE sess[s].st
    BY <1>0 DEF AbortAll, SessionRecords
  <1>2. Slots' = Slots
    BY DEF Slots
  <1>3. sess' \in [Slots -> SessionRecords]
    BY <1>1 DEF AbortAll
  <1> QED
    BY <1>1, <1>2, <1>3 DEF Busy, In

\* No step loses or makes up a slot.
LEMMA SlottedNext == ASSUME Slotted, [Next]_vars PROVE Slotted'
  <1> USE ServeAssumption
  <1>0. /\ TypeParts /\ sem + Held + Cardinality(Busy) = max
        /\ sem \in Nat /\ max \in Nat /\ now \in Nat /\ Cardinality(Busy) \in Nat
        /\ sess \in [Slots -> SessionRecords] /\ loop \in LoopRecords /\ hist \in HistRecords
    <2>1. TypeParts /\ sem + Held + Cardinality(Busy) = max
      BY TypeByParts DEF Slotted, SlotsConserved, Busy
    <2>2. sem \in Nat /\ max \in Nat /\ now \in Nat
      BY <2>1 DEF TypeParts
    <2> QED
      BY <2>1, <2>2, InFinite DEF Busy, TypeParts
  <1> SUFFICES TypeParts' /\ (sem + Held + Cardinality(Busy) = max)'
    <2>1. TypeParts' => TypeOK'
      BY TypeByParts, PTL
    <2> QED
      BY <2>1 DEF Slotted, SlotsConserved, Busy
  <1>00. ASSUME max' = max, sess' = sess PROVE Busy' = Busy /\ Slots' = Slots
    BY <1>00 DEF Busy, In, Slots
  <1>1. CASE Acquire
    <2>1. Busy' = Busy /\ Slots' = Slots /\ loop' \in LoopRecords
      BY <1>0, <1>00, <1>1, LoopGoes DEF Acquire
    <2>2. Held = 0 /\ Held' = 1
      BY <1>0, <1>1 DEF Acquire, Held, LoopRecords
    <2> QED
      BY <1>0, <1>1, <2>1, <2>2 DEF Acquire, TypeParts
  <1>2. CASE LoadFlaps
    <2>1. Busy' = Busy /\ Slots' = Slots
      BY <1>00, <1>2 DEF LoadFlaps
    <2>2. /\ loop' \in LoopRecords /\ Held = 1 /\ Held' = 1
          /\ hist' \in HistRecords
      <3>1. CASE flaps = 0
        <4>1. loop' = [loop EXCEPT !.st = "admit", !.admit = now] /\ hist' = hist /\ loop.st = "load"
          BY <1>2, <3>1 DEF LoadFlaps
        <4>2. loop' \in LoopRecords
          BY <1>0, <4>1, LoopGoes
        <4> QED
          BY <1>0, <4>1, <4>2 DEF Held, LoopRecords
      <3>2. CASE flaps # 0
        <4>0. Doubled(flaps, FlapCap) \in Nat
          BY <1>0, DoubledType DEF Doubled, TypeParts
        <4>1. PICK wait \in EqualJitter(FlappingSessionBackoff(flaps)) :
                /\ loop' = [loop EXCEPT !.st = "flap", !.at = now + wait]
                /\ hist' = [hist EXCEPT !.rush = 0] /\ loop.st = "load"
          BY <1>2, <3>2 DEF LoadFlaps
        <4>2. now + wait \in Nat
          BY <1>0, <4>0 DEF EqualJitter, FlappingSessionBackoff
        <4>3. loop' \in LoopRecords
          BY <1>0, <4>1, <4>2, LoopGoes
        <4>4. hist' \in HistRecords
          BY <1>0, <4>1 DEF HistRecords
        <4> QED
          BY <1>0, <4>1, <4>3, <4>4 DEF Held, LoopRecords
      <3> QED
        BY <3>1, <3>2
    <2> QED
      BY <1>0, <1>2, <2>1, <2>2 DEF LoadFlaps, TypeParts
  <1>3. CASE FlapWaited
    <2>1. Busy' = Busy /\ Slots' = Slots /\ loop' \in LoopRecords
      BY <1>0, <1>00, <1>3, LoopGoes DEF FlapWaited
    <2>2. Held = 1 /\ Held' = 1
      BY <1>0, <1>3 DEF FlapWaited, Held, LoopRecords
    <2> QED
      BY <1>0, <1>3, <2>1, <2>2 DEF FlapWaited, TypeParts
  <1>4. CASE Paired
    <2>0. PICK s \in In({"none"}) :
            sess' = [sess EXCEPT ![s] = [st |-> "run", started |-> now, how |-> "ok"]]
      BY <1>4 DEF Paired
    <2>1. s \in Slots /\ s \notin Busy /\ Slots' = Slots
      BY <1>4 DEF In, Busy, Paired, Slots
    <2>2. [st |-> "run", started |-> now, how |-> "ok"] \in SessionRecords
      BY <1>0 DEF SessionRecords
    <2>3. sess' \in [Slots -> SessionRecords]
      BY <1>0, <2>0, <2>2
    <2>4. Busy' = Busy \cup {s}
      BY <1>0, <2>0, <2>1 DEF Busy, In
    <2>5. Cardinality(Busy') = Cardinality(Busy) + 1
      BY <1>0, <2>1, <2>4, BusyGrows
    <2>6. loop' \in LoopRecords /\ hist' \in HistRecords /\ streak' \in StreakRecords
      BY <1>0, <1>4, LoopGoes DEF Paired, HistRecords, NoStreak, StreakRecords
    <2>7. Held = 1 /\ Held' = 0
      BY <1>0, <1>4 DEF Paired, Held, LoopRecords
    <2> QED
      BY <1>0, <1>4, <2>1, <2>3, <2>5, <2>6, <2>7 DEF Paired, TypeParts
  <1>5. CASE SleepOver
    <2>1. Busy' = Busy /\ Slots' = Slots /\ loop' \in LoopRecords
      BY <1>0, <1>00, <1>5, LoopGoes DEF SleepOver
    <2>2. Held = 0 /\ Held' = 0
      BY <1>0, <1>5 DEF SleepOver, Held, LoopRecords
    <2> QED
      BY <1>0, <1>5, <2>1, <2>2 DEF SleepOver, TypeParts
  <1>6. ASSUME NEW kind \in Failures, AdmitFails(kind)
        PROVE  TypeParts' /\ (sem + Held + Cardinality(Busy) = max)'
    <2>1. Busy' = Busy /\ Slots' = Slots
      BY <1>00, <1>6 DEF AdmitFails
    <2>2. streak' \in StreakRecords /\ (kind = "transient" => streak'.transient >= 1)
      <3>1. streak.refused \in Nat /\ streak.eof \in Nat /\ streak.transient \in Nat
        BY <1>0 DEF TypeParts, StreakRecords
      <3> QED
        BY <3>1, <1>6 DEF AdmitFails, StreakAfter, StreakRecords
    <2>3. PICK wait \in Waits(kind, streak') : loop' = [loop EXCEPT !.st = "sleep", !.at = now + wait]
      BY <1>6 DEF AdmitFails
    <2>4. now + wait \in Nat
      BY <1>0, <2>2, WaitsType DEF StreakRecords
    <2>5. loop' \in LoopRecords
      BY <1>0, <2>3, <2>4, LoopGoes
    <2>6. hist' \in HistRecords
      <3>1. Class(kind) \in {"none", "refused", "eof", "transient", "park", "panic"}
        BY DEF Class, Failures, Refusals
      <3>2. Again(kind) \in Nat
        BY <1>0 DEF Again, HistRecords
      <3> QED
        BY <1>0, <1>6, <3>1, <3>2 DEF AdmitFails, HistRecords
    <2>7. Held = 1 /\ Held' = 0
      BY <1>0, <1>6, <2>3 DEF AdmitFails, Held, LoopRecords
    <2> QED
      BY <1>0, <1>6, <2>1, <2>2, <2>5, <2>6, <2>7 DEF AdmitFails, TypeParts
  <1>7. ASSUME NEW kind \in Failures, AdmitRefusedOwn(kind)
        PROVE  TypeParts' /\ (sem + Held + Cardinality(Busy) = max)'
    <2>1. /\ sess' \in [Slots -> SessionRecords] /\ Busy' = Busy /\ Slots' = Slots
      BY <1>0, <1>7, AbortKeepsBusy DEF AdmitRefusedOwn, Slots
    <2>2. loop' \in LoopRecords /\ hist' \in HistRecords
      <3>1. now + Budget \in Nat
        BY <1>0
      <3>2. loop' \in LoopRecords
        BY <1>0, <1>7, <3>1, LoopGoes DEF AdmitRefusedOwn, AbortAll
      <3> QED
        BY <1>0, <1>7, <3>2 DEF AdmitRefusedOwn, HistRecords
    <2>3. Held = 1 /\ Held' = 0
      BY <1>0, <1>7 DEF AdmitRefusedOwn, AbortAll, Held, LoopRecords
    <2> QED
      BY <1>0, <1>7, <2>1, <2>2, <2>3 DEF AdmitRefusedOwn, TypeParts
  <1>8. ASSUME NEW s \in Slots, NEW how \in {"ok", "error", "pin"}, SessionReturns(s, how)
        PROVE  TypeParts' /\ (sem + Held + Cardinality(Busy) = max)'
    <2>1. /\ sess' \in [Slots -> SessionRecords] /\ Slots' = Slots
          /\ \A r \in Slots : sess'[r].st = IF r = s THEN "returned" ELSE sess[r].st
      <3>1. PICK h \in {"ok", "error", "pin", "flap"} : h = IF IsFlappingSession(s, how) THEN "flap" ELSE how
        OBVIOUS
      <3>2. sess \in [Slots -> SessionRecords]
        BY <1>0
      <3>3. PICK e \in SessionRecords : e = [sess[s] EXCEPT !.st = "returned", !.how = h] /\ e.st = "returned"
        <4>1. PICK r \in SessionRecords : r = sess[s]
          BY <3>2
        <4>2. /\ [r EXCEPT !.st = "returned", !.how = h] \in SessionRecords
              /\ [r EXCEPT !.st = "returned", !.how = h].st = "returned"
          BY DEF SessionRecords
        <4> QED
          BY <4>1, <4>2
      <3>4. sess' = [sess EXCEPT ![s] = e] /\ max' = max
        BY <1>8, <3>1, <3>3 DEF SessionReturns
      <3> QED
        BY <3>2, <3>3, <3>4 DEF Slots
    <2>2. Busy' = Busy
      BY <1>8, <2>1 DEF Busy, In, SessionReturns
    <2>3. Held' = Held
      BY <1>8 DEF Held, SessionReturns
    <2> QED
      BY <1>0, <1>8, <2>1, <2>2, <2>3 DEF SessionReturns, TypeParts
  <1>9. ASSUME NEW s \in Slots, SessionEnds(s)
        PROVE  TypeParts' /\ (sem + Held + Cardinality(Busy) = max)'
    <2>1. CASE sess[s].st = "returned"
      <3>1. /\ sess' = [sess EXCEPT ![s].st = "recorded"] /\ RecordFlapOutcome(s)
            /\ UNCHANGED <<now, own, revoked, max, sem, streak, loop>>
        BY <1>9, <2>1 DEF SessionEnds
      <3>2. /\ sess' \in [Slots -> SessionRecords] /\ Slots' = Slots
            /\ \A r \in Slots : sess'[r].st = IF r = s THEN "recorded" ELSE sess[r].st
        BY <1>0, <3>1 DEF SessionRecords, Slots
      <3>3. Busy' = Busy
        BY <2>1, <3>2 DEF Busy, In
      <3>4. flaps' \in Nat /\ hist' \in HistRecords
        <4>1. flaps \in Nat /\ hist.rush \in Nat
          BY <1>0 DEF TypeParts, HistRecords
        <4> QED
          BY <1>0, <3>1, <4>1 DEF RecordFlapOutcome, HistRecords
      <3>5. Held' = Held
        BY <3>1 DEF Held
      <3> QED
        BY <1>0, <3>1, <3>2, <3>3, <3>4, <3>5 DEF TypeParts
    <2>2. CASE sess[s].st = "recorded"
      <3>1. /\ sess' = [sess EXCEPT ![s] = NoSession] /\ sem' = sem + 1
            /\ UNCHANGED <<now, own, revoked, max, flaps, streak, loop, hist>>
        BY <1>9, <2>2 DEF SessionEnds
      <3>2. NoSession \in SessionRecords /\ NoSession.st = "none"
        BY DEF NoSession, SessionRecords
      <3>3. /\ sess' \in [Slots -> SessionRecords] /\ Slots' = Slots /\ s \in Busy
            /\ Busy' = Busy \ {s}
        BY <1>0, <2>2, <3>1, <3>2 DEF Busy, In, Slots
      <3>4. Cardinality(Busy') = Cardinality(Busy) - 1 /\ Cardinality(Busy) >= 1
        BY <1>0, <3>3, BusyShrinks
      <3>5. Held' = Held /\ Held \in {0, 1}
        BY <3>1 DEF Held
      <3>6. sem' \in 0..max /\ (sem + Held + Cardinality(Busy) = max)'
        BY <1>0, <3>1, <3>4, <3>5
      <3> QED
        BY <1>0, <3>1, <3>3, <3>6 DEF TypeParts
    <2> QED
      BY <1>9, <2>1, <2>2 DEF SessionEnds
  <1>10. ASSUME NEW s \in Slots, SessionDropped(s)
         PROVE  TypeParts' /\ (sem + Held + Cardinality(Busy) = max)'
    <2>2. NoSession \in SessionRecords /\ NoSession.st = "none"
      BY DEF NoSession, SessionRecords
    <2>3. /\ sess' \in [Slots -> SessionRecords] /\ Slots' = Slots /\ s \in Busy
          /\ Busy' = Busy \ {s}
      BY <1>0, <1>10, <2>2 DEF Busy, In, Slots, SessionDropped
    <2>4. Cardinality(Busy') = Cardinality(Busy) - 1 /\ Cardinality(Busy) >= 1
      BY <1>0, <2>3, BusyShrinks
    <2>5. Held' = Held /\ Held \in {0, 1}
      BY <1>10 DEF Held, SessionDropped
    <2>6. sem' \in 0..max /\ (sem + Held + Cardinality(Busy) = max)'
      BY <1>0, <1>10, <2>4, <2>5 DEF SessionDropped
    <2> QED
      BY <1>0, <1>10, <2>3, <2>6 DEF TypeParts, SessionDropped
  <1>11. CASE OwnExpiry
    <2>1. Busy' = Busy /\ Slots' = Slots
      BY <1>00, <1>11 DEF OwnExpiry
    <2>2. loop' \in LoopRecords /\ hist' \in HistRecords
      <3>1. now + Budget \in Nat
        BY <1>0
      <3>2. loop' \in LoopRecords
        BY <1>0, <1>11, <3>1, LoopGoes DEF OwnExpiry
      <3> QED
        BY <1>0, <1>11, <3>2 DEF OwnExpiry, HistRecords
    <2>3. Held \in {0, 1} /\ Held' = 0
      BY <1>0, <1>11 DEF OwnExpiry, Held, LoopRecords
    <2> QED
      BY <1>0, <1>11, <2>1, <2>2, <2>3 DEF OwnExpiry, TypeParts
  <1>12. CASE EndingOver
    <2>1. /\ sess' \in [Slots -> SessionRecords] /\ Busy' = Busy /\ Slots' = Slots
      BY <1>0, <1>12, AbortKeepsBusy DEF EndingOver, Slots
    <2>2. loop' \in LoopRecords
      <3>1. now + Budget \in Nat
        BY <1>0
      <3> QED
        BY <1>0, <1>12, <3>1, LoopGoes DEF EndingOver, AbortAll
    <2>3. Held = 0 /\ Held' = 0
      BY <1>0, <1>12 DEF EndingOver, AbortAll, Held, LoopRecords
    <2> QED
      BY <1>0, <1>12, <2>1, <2>2, <2>3 DEF EndingOver, TypeParts
  <1>13. CASE Stop
    <2>1. Busy' = Busy /\ Slots' = Slots /\ loop' \in LoopRecords
      BY <1>0, <1>00, <1>13, LoopGoes DEF Stop
    <2>2. Held = 0 /\ Held' = 0
      BY <1>0, <1>13 DEF Stop, Held, LoopRecords
    <2> QED
      BY <1>0, <1>13, <2>1, <2>2 DEF Stop, TypeParts
  <1>14. CASE Revoke \/ Tick \/ UNCHANGED vars
    <2>1. Busy' = Busy /\ Slots' = Slots
      BY <1>00, <1>14 DEF Revoke, Tick, vars
    <2>2. Held' = Held
      BY <1>14 DEF Revoke, Tick, vars, Held
    <2>3. revoked' \in BOOLEAN /\ now' \in Nat
      <3>1. revoked' = TRUE \/ revoked' = revoked
        BY <1>14 DEF Revoke, Tick, vars
      <3>2. now' = now \/ now' = now + 1
        BY <1>14 DEF Revoke, Tick, vars
      <3>3. revoked \in BOOLEAN
        BY <1>0 DEF TypeParts
      <3>4. revoked' \in BOOLEAN
        BY <3>1, <3>3, Zenon
      <3> QED
        BY <1>0, <3>2, <3>4
    <2>4. UNCHANGED <<own, max, sem, sess, flaps, streak, loop, hist>>
      BY <1>14 DEF Revoke, Tick, vars
    <2> QED
      BY <1>0, <2>1, <2>2, <2>3, <2>4 DEF TypeParts
  <1> QED
    BY <1>1, <1>2, <1>3, <1>4, <1>5, <1>6, <1>7, <1>8, <1>9, <1>10, <1>11, <1>12, <1>13, <1>14
       DEF Next, Session

-----------------------------------------------------------------------------
(* The pace of the admissions. *)

\* Every step of the history is a number of ticks.
LEMMA StepType ==
    ASSUME NEW kind, NEW n \in Nat, n > 0
    PROVE  StepOf(kind, n) \in Nat
  <1> USE ServeAssumption
  <1>1. /\ Least(Retry * 2^n, RefusedCap) \in Nat /\ Least(Retry * 2^n, EofCap) \in Nat
        /\ Least(Retry * 2^(n - 1), TransientCap) \in Nat
    <2>1. n - 1 \in Nat
      OBVIOUS
    <2> QED
      BY <2>1, DoubledType
  <1> QED
    BY <1>1 DEF StepOf

\* What the loop waits after a failure is what the history says of a failure that is the n-th of
\* its kind.
LEMMA WaitsMatch ==
    ASSUME NEW kind \in Failures, NEW after \in StreakRecords, NEW n \in Nat, n > 0,
           kind \in Refusals => after.refused = n,
           kind = "eof" => after.eof = n,
           kind = "transient" => after.transient = n,
           NEW wait \in Waits(kind, after)
    PROVE  /\ wait \in Nat
           /\ wait >= StepOf(Class(kind), n) \div 2
           /\ wait <= (IF Class(kind) = "park" THEN (Retry \div 2) + 2 * Retry
                       ELSE StepOf(Class(kind), n))
  <1> USE ServeAssumption
  <1>0. StepOf(Class(kind), n) \in Nat
    BY StepType
  <1>1. CASE kind \in Refusals
    <2>1. Class(kind) = "refused" /\ kind \notin {"panic", "park", "eof", "transient"}
      BY <1>1 DEF Class, Refusals
    <2>2. wait \in EqualJitter(StepOf("refused", n))
      BY <1>1, <2>1 DEF Waits, AdmissionRetryBackoff, Doubled, StepOf
    <2> QED
      BY <1>0, <2>1, <2>2 DEF EqualJitter
  <1>2. CASE kind = "eof"
    <2>1. Class(kind) = "eof"
      BY <1>2 DEF Class, Refusals
    <2>2. wait \in EqualJitter(StepOf("eof", n))
      BY <1>2 DEF Waits, HandshakeEofBackoff, Doubled, StepOf
    <2> QED
      BY <1>0, <2>1, <2>2 DEF EqualJitter
  <1>3. CASE kind = "transient"
    <2>1. Class(kind) = "transient"
      BY <1>3 DEF Class, Refusals
    <2>2. wait \in EqualJitter(StepOf("transient", n))
      BY <1>3 DEF Waits, TransientAdmissionBackoff, Doubled, StepOf
    <2> QED
      BY <1>0, <2>1, <2>2 DEF EqualJitter
  <1>4. CASE kind = "park"
    <2>1. Class(kind) = "park"
      BY <1>4 DEF Class, Refusals
    <2> QED
      BY <1>4, <2>1 DEF Waits, ExReparkDelay, StepOf
  <1>5. CASE kind = "panic"
    <2>1. Class(kind) = "panic"
      BY <1>5 DEF Class, Refusals
    <2> QED
      BY <1>5, <2>1 DEF Waits, StepOf
  <1> QED
    BY <1>1, <1>2, <1>3, <1>4, <1>5 DEF Failures, Refusals

\* No failure at first.
LEMMA PacedInit == Init => Paced
  BY DEF Init, Paced, NoStreak

\* A step that leaves the streaks and the history's count alone: only the loop's place matters.
LEMMA PacedByPlace ==
    ASSUME Paced, TypeOK, streak' = streak, hist'.kind = hist.kind, hist'.n = hist.n,
           hist'.at = hist.at,
           hist.n > 0 =>
             /\ loop'.st = "sleep" => loop.st = "sleep" /\ loop'.at = loop.at
             /\ loop'.st \in {"top", "load", "flap"} =>
                  /\ loop.st \in {"top", "load", "flap"} \/ (loop.st = "sleep" /\ now >= loop.at)
                  /\ now' \in Nat /\ now' >= now
             /\ loop'.st = "admit" =>
                  \/ loop.st = "admit" /\ loop'.admit = loop.admit
                  \/ loop.st \in {"load", "flap"} /\ loop'.admit = now
    PROVE  Paced'
  <1>1. LeastWait' = LeastWait /\ MostWait' = MostWait
    BY DEF LeastWait, MostWait, StepOf
  <1>2. now \in Nat /\ loop.at \in Nat /\ hist.at \in Nat /\ hist.n \in Nat
    BY TypeFacts
  <1>3. hist.n > 0 => LeastWait \in Int
    BY <1>2, StepType DEF LeastWait
  <1>4. ASSUME hist.n > 0
        PROVE  /\ loop'.st = "sleep" => loop'.at >= hist'.at + LeastWait'
                                        /\ loop'.at <= hist'.at + MostWait'
               /\ loop'.st \in {"top", "load", "flap"} => now' >= hist'.at + LeastWait'
               /\ loop'.st = "admit" => loop'.admit >= hist'.at + LeastWait'
    <2>1. /\ loop.st = "sleep" => loop.at >= hist.at + LeastWait /\ loop.at <= hist.at + MostWait
          /\ loop.st \in {"top", "load", "flap"} => now >= hist.at + LeastWait
          /\ loop.st = "admit" => loop.admit >= hist.at + LeastWait
      BY <1>4 DEF Paced
    <2> QED
      BY <1>1, <1>2, <1>3, <1>4, <2>1
  <1> QED
    BY <1>4 DEF Paced

\* Every step keeps the pace: only a failure and a pairing change what is counted.
LEMMA PacedNext == ASSUME TypeOK, TypeOK', Paced, [Next]_vars PROVE Paced'
  <1>0. loop \in LoopRecords /\ hist \in HistRecords /\ streak \in StreakRecords /\ now \in Nat
    BY TypeByParts DEF TypeParts
  <1>1. ASSUME NEW kind \in Failures, AdmitFails(kind) PROVE Paced'
    <2>1. streak.refused \in Nat /\ streak.eof \in Nat /\ streak.transient \in Nat /\ hist.n \in Nat
      BY TypeFacts
    <2>2. hist'.kind = Class(kind) /\ hist'.n = Again(kind) /\ hist'.at = now
      BY <1>0, <1>1 DEF AdmitFails, HistRecords
    <2>3. hist'.n \in Nat /\ hist'.n > 0 /\ hist'.kind # "none"
      BY <2>1, <2>2 DEF Again, Class, Failures, Refusals
    <2>4. /\ kind \in Refusals => streak'.refused = hist'.n
          /\ kind = "eof" => streak'.eof = hist'.n
          /\ kind = "transient" => streak'.transient = hist'.n
          /\ kind \notin Refusals => streak'.refused = 0
          /\ kind # "eof" => streak'.eof = 0
          /\ kind # "transient" => streak'.transient = 0
      <3>1. /\ streak.refused = (IF hist.kind = "refused" THEN hist.n ELSE 0)
            /\ streak.eof = (IF hist.kind = "eof" THEN hist.n ELSE 0)
            /\ streak.transient = (IF hist.kind = "transient" THEN hist.n ELSE 0)
        BY DEF Paced
      <3>2. streak' = StreakAfter(kind)
        BY <1>1 DEF AdmitFails
      <3> QED
        BY <2>1, <2>2, <3>1, <3>2 DEF StreakAfter, Again, Class, Failures, Refusals
    <2>5. PICK wait \in Waits(kind, streak') : loop' = [loop EXCEPT !.st = "sleep", !.at = now + wait]
      BY <1>1 DEF AdmitFails
    <2>6. streak' \in StreakRecords
      BY <1>1, <2>1 DEF AdmitFails, StreakAfter, StreakRecords
    <2>7. /\ wait \in Nat /\ wait >= LeastWait' /\ wait <= MostWait'
      <3>1. /\ wait \in Nat
            /\ wait >= StepOf(Class(kind), hist'.n) \div 2
            /\ wait <= (IF Class(kind) = "park" THEN (Retry \div 2) + 2 * Retry
                        ELSE StepOf(Class(kind), hist'.n))
        BY <2>3, <2>4, <2>5, <2>6, WaitsMatch
      <3>2. /\ LeastWait' = StepOf(Class(kind), hist'.n) \div 2
            /\ MostWait' = (IF Class(kind) = "park" THEN (Retry \div 2) + 2 * Retry
                            ELSE StepOf(Class(kind), hist'.n))
        BY <2>2 DEF LeastWait, MostWait, StepOf
      <3> QED
        BY <3>1, <3>2
    <2>8. loop'.st = "sleep" /\ loop'.at = now + wait
      BY <1>0, <2>5 DEF LoopRecords
    <2>9. LeastWait' \in Int /\ MostWait' \in Int
      <3>1. StepOf(hist'.kind, hist'.n) \in Nat
        BY <2>3, StepType
      <3>2. StepOf(hist'.kind, hist'.n) = StepOf(hist.kind, hist.n)'
        BY DEF StepOf
      <3> QED
        BY <3>1, <3>2, ServeAssumption DEF LeastWait, MostWait
    <2>10. loop'.at >= hist'.at + LeastWait' /\ loop'.at <= hist'.at + MostWait'
      <3>1. \A l \in Int : wait >= l => now + wait >= now + l
        BY <1>0, <2>7
      <3>2. \A l \in Int : wait <= l => now + wait <= now + l
        BY <1>0, <2>7
      <3> QED
        BY <2>2, <2>7, <2>8, <2>9, <3>1, <3>2, Zenon
    <2>11. Class(kind) = "refused" <=> kind \in Refusals
      BY DEF Class, Failures, Refusals
    <2>12. Class(kind) = "eof" <=> kind = "eof"
      BY DEF Class, Failures, Refusals
    <2>13. Class(kind) = "transient" <=> kind = "transient"
      BY DEF Class, Failures, Refusals
    <2> QED
      BY <2>2, <2>3, <2>4, <2>8, <2>10, <2>11, <2>12, <2>13 DEF Paced
  <1>2. CASE Paired
    BY <1>0, <1>2 DEF Paired, Paced, NoStreak, HistRecords
  <1>3. CASE LoadFlaps
    <2>1. /\ streak' = streak /\ hist'.kind = hist.kind /\ hist'.n = hist.n /\ hist'.at = hist.at
          /\ now' = now /\ loop.st = "load"
      BY <1>0, <1>3 DEF LoadFlaps, HistRecords
    <2>2. (loop'.st = "admit" /\ loop'.admit = now) \/ loop'.st = "flap"
      BY <1>0, <1>3 DEF LoadFlaps, LoopRecords
    <2> QED
      BY <1>0, <2>1, <2>2, PacedByPlace
  <1>4. CASE Acquire \/ FlapWaited \/ SleepOver
    <2>1. streak' = streak /\ hist' = hist /\ now' = now
      BY <1>4 DEF Acquire, FlapWaited, SleepOver
    <2>2. \/ loop.st = "top" /\ loop'.st = "load"
          \/ loop.st = "flap" /\ loop'.st = "admit" /\ loop'.admit = now
          \/ loop.st = "sleep" /\ loop'.st = "top" /\ now >= loop.at
      BY <1>0, <1>4 DEF Acquire, FlapWaited, SleepOver, LoopRecords
    <2> QED
      BY <1>0, <2>1, <2>2, PacedByPlace
  <1>5. CASE Session
    <2>1. PICK s \in Slots : \/ \E how \in {"ok", "error", "pin"} : SessionReturns(s, how)
                             \/ SessionEnds(s) \/ SessionDropped(s)
      BY <1>5 DEF Session
    <2>2. streak' = streak /\ loop' = loop /\ now' = now
      BY <2>1 DEF SessionReturns, SessionEnds, SessionDropped
    <2>3. hist'.kind = hist.kind /\ hist'.n = hist.n /\ hist'.at = hist.at
      <3>1. hist' = hist \/ \E r \in Int : hist' = [hist EXCEPT !.rush = r]
        <4>1. hist.rush + 1 \in Int
          BY TypeFacts
        <4> QED
          BY <2>1, <4>1 DEF SessionReturns, SessionEnds, SessionDropped, RecordFlapOutcome
      <3> QED
        BY <1>0, <3>1 DEF HistRecords
    <2> QED
      BY <1>0, <2>2, <2>3, PacedByPlace
  <1>6. CASE \/ OwnExpiry \/ EndingOver \/ Stop
             \/ \E kind \in Failures : AdmitRefusedOwn(kind)
    <2>1. streak' = streak /\ now' = now /\ loop'.st \in {"ending", "aborting", "stopped"}
      BY <1>0, <1>6 DEF OwnExpiry, EndingOver, Stop, AdmitRefusedOwn, AbortAll, LoopRecords
    <2>2. hist'.kind = hist.kind /\ hist'.n = hist.n /\ hist'.at = hist.at
      BY <1>0, <1>6 DEF OwnExpiry, EndingOver, Stop, AdmitRefusedOwn, HistRecords
    <2> QED
      BY <1>0, <2>1, <2>2, PacedByPlace
  <1>7. CASE Revoke \/ Tick \/ UNCHANGED vars
    <2>1. streak' = streak /\ hist' = hist /\ loop' = loop /\ (now' = now \/ now' = now + 1)
      BY <1>7 DEF Revoke, Tick, vars
    <2> QED
      BY <1>0, <2>1, PacedByPlace
  <1> QED
    BY <1>1, <1>2, <1>3, <1>4, <1>5, <1>6, <1>7 DEF Next

-----------------------------------------------------------------------------
(* The sessions that flap. *)

\* One for the admission that went on without a wait, or after one.
Admitting == IF loop.st \in {"flap", "admit"} THEN 1 ELSE 0

\* No session yet.
LEMMA RushedInit == Init => Rushed
  <1> SUFFICES ASSUME Init PROVE Rushed
    OBVIOUS
  <1>1. Unrecorded = {}
    BY DEF Init, Unrecorded, In, NoSession, Slots
  <1>2. Cardinality(Unrecorded) = 0
    BY <1>1, FS_EmptySet
  <1>3. max \in Nat /\ loop.st = "top" /\ hist.rush = 0 /\ flaps = 0
    BY ServeAssumption DEF Init
  <1> QED
    BY <1>2, <1>3 DEF Rushed

\* The slots bound the sessions that are not recorded yet, with the loop's own slot.
LEMMA RushBound ==
    Slotted => /\ Cardinality(Unrecorded) \in Nat /\ max \in Nat
               /\ Cardinality(Unrecorded) + Held <= max
  <1> SUFFICES ASSUME Slotted
               PROVE  /\ Cardinality(Unrecorded) \in Nat /\ max \in Nat
                      /\ Cardinality(Unrecorded) + Held <= max
    OBVIOUS
  <1>1. max \in Nat /\ sem \in Nat
    BY TypeFacts DEF Slotted
  <1>2. Cardinality(Unrecorded) <= Cardinality(Busy)
    BY <1>1, InMonotone DEF Unrecorded, Busy
  <1>3. Cardinality(Unrecorded) \in Nat /\ Cardinality(Busy) \in Nat
    BY <1>1, InFinite DEF Unrecorded, Busy
  <1>4. sem + Held + Cardinality(Busy) = max /\ Held \in {0, 1}
    BY DEF Slotted, SlotsConserved, Busy, Held
  <1> QED
    BY <1>1, <1>2, <1>3, <1>4

\* A step that takes no session out of the account: nothing to pay for.
LEMMA RushedByFrame ==
    ASSUME Slotted, Rushed, max' = max, flaps' = flaps, hist'.rush = hist.rush,
           Unrecorded' \subseteq Unrecorded, Admitting' <= Admitting, Admitting' \in {0, 1}
    PROVE  Rushed'
  <1>1. max \in Nat /\ hist.rush \in Nat
    BY TypeFacts DEF Slotted
  <1>2. IsFiniteSet(Unrecorded) /\ Cardinality(Unrecorded) \in Nat
    BY <1>1, InFinite DEF Unrecorded
  <1>3. Cardinality(Unrecorded') <= Cardinality(Unrecorded) /\ Cardinality(Unrecorded') \in Nat
    BY <1>2, FS_Subset, FS_CardinalityType
  <1>4. hist.rush + Cardinality(Unrecorded) + Admitting <= max /\ hist.rush <= flaps
    BY DEF Rushed, Admitting
  <1>5. Admitting \in {0, 1}
    BY DEF Admitting
  <1>6. hist'.rush + Cardinality(Unrecorded') + Admitting' <= max'
    BY <1>1, <1>2, <1>3, <1>4, <1>5
  <1>7. hist'.rush <= flaps'
    BY <1>4
  <1> QED
    BY <1>6, <1>7 DEF Rushed, Admitting

\* A step after which no flap is counted: the slots themselves are the bound.
LEMMA RushedByReset ==
    ASSUME Slotted', hist'.rush = 0, flaps' \in Nat
    PROVE  Rushed'
  <1>1. Cardinality(Unrecorded)' \in Nat /\ Cardinality(Unrecorded)' + Held' <= max' /\ max' \in Nat
    <2>1. (Slotted => /\ Cardinality(Unrecorded) \in Nat /\ max \in Nat
                      /\ Cardinality(Unrecorded) + Held <= max)'
      BY RushBound, PTL
    <2> QED
      BY <2>1
  <1>2. Held' >= Admitting' /\ Held' \in {0, 1} /\ Admitting' \in {0, 1}
    BY DEF Held, Admitting
  <1>3. hist'.rush + Cardinality(Unrecorded)' + Admitting' <= max'
    BY <1>1, <1>2
  <1>4. hist'.rush <= flaps'
    OBVIOUS
  <1> QED
    BY <1>3, <1>4 DEF Rushed, Admitting

\* Every step keeps a slot for each flap since the last wait.
LEMMA RushedNext == ASSUME Slotted, Slotted', Rushed, [Next]_vars PROVE Rushed'
  <1>0. /\ loop \in LoopRecords /\ hist \in HistRecords /\ flaps \in Nat /\ flaps' \in Nat
        /\ max \in Nat /\ hist.rush \in Nat /\ sess \in [Slots -> SessionRecords]
    <2>1. flaps' \in Nat
      BY DEF Slotted, TypeOK
    <2> QED
      BY <2>1, TypeByParts, TypeFacts DEF Slotted, TypeParts
  <1>00. ASSUME max' = max, sess' = sess PROVE Unrecorded' = Unrecorded
    BY <1>00 DEF Unrecorded, In, Slots
  <1>1. CASE LoadFlaps
    <2>1. hist'.rush = 0
      <3>1. flaps = 0 => hist.rush = 0
        BY <1>0 DEF Rushed
      <3> QED
        BY <1>0, <1>1, <3>1 DEF LoadFlaps, HistRecords
    <2> QED
      BY <1>0, <2>1, RushedByReset
  <1>2. CASE Paired
    <2>0. PICK s \in In({"none"}) :
            sess' = [sess EXCEPT ![s] = [st |-> "run", started |-> now, how |-> "ok"]]
      BY <1>2 DEF Paired
    <2>1. s \in Slots /\ s \notin Unrecorded /\ Slots' = Slots
      BY <1>2 DEF In, Unrecorded, Paired, Slots
    <2>2. Unrecorded' = Unrecorded \cup {s}
      BY <1>0, <2>0, <2>1 DEF Unrecorded, In
    <2>3. IsFiniteSet(Unrecorded) /\ Cardinality(Unrecorded) \in Nat
      BY <1>0, InFinite DEF Unrecorded
    <2>4. Cardinality(Unrecorded') = Cardinality(Unrecorded) + 1
      BY <2>1, <2>2, <2>3, FS_AddElement
    <2>5. /\ Admitting = 1 /\ Admitting' = 0 /\ hist'.rush = hist.rush /\ max' = max
          /\ flaps' = flaps
      BY <1>0, <1>2 DEF Paired, Admitting, LoopRecords, HistRecords
    <2>6. hist.rush + Cardinality(Unrecorded) + Admitting <= max /\ hist.rush <= flaps
      BY DEF Rushed, Admitting
    <2>7. hist'.rush + Cardinality(Unrecorded') + Admitting' <= max' /\ hist'.rush <= flaps'
      BY <1>0, <2>3, <2>4, <2>5, <2>6
    <2> QED
      BY <2>7 DEF Rushed, Admitting
  <1>3. ASSUME NEW s \in Slots, SessionEnds(s), sess[s].st = "returned" PROVE Rushed'
    <2>0. /\ sess' = [sess EXCEPT ![s].st = "recorded"] /\ RecordFlapOutcome(s)
          /\ max' = max /\ loop' = loop
      BY <1>3 DEF SessionEnds
    <2>1. CASE sess[s].how = "flap"
      <3>1. s \in Unrecorded /\ Unrecorded' = Unrecorded \ {s}
        <4>1. Slots' = Slots /\ \A r \in Slots : sess'[r].st = IF r = s THEN "recorded" ELSE sess[r].st
          BY <1>0, <2>0 DEF Slots, SessionRecords
        <4> QED
          BY <1>3, <4>1 DEF Unrecorded, In
      <3>2. IsFiniteSet(Unrecorded) /\ Cardinality(Unrecorded) \in Nat
        BY <1>0, InFinite DEF Unrecorded
      <3>3. Cardinality(Unrecorded') = Cardinality(Unrecorded) - 1
        BY <3>1, <3>2, FS_RemoveElement
      <3>4. hist'.rush = hist.rush + 1 /\ flaps' = flaps + 1
        BY <1>0, <2>0, <2>1 DEF RecordFlapOutcome, HistRecords
      <3>5. hist.rush + Cardinality(Unrecorded) + Admitting <= max /\ hist.rush <= flaps
        BY DEF Rushed, Admitting
      <3>6. Admitting' = Admitting /\ Admitting \in {0, 1}
        BY <2>0 DEF Admitting
      <3>7. hist'.rush + Cardinality(Unrecorded') + Admitting' <= max' /\ hist'.rush <= flaps'
        BY <1>0, <2>0, <3>2, <3>3, <3>4, <3>5, <3>6
      <3> QED
        BY <3>7 DEF Rushed, Admitting
    <2>2. CASE sess[s].how = "pin"
      <3>1. flaps' = flaps /\ hist' = hist
        BY <2>0, <2>2 DEF RecordFlapOutcome
      <3>2. Unrecorded' \subseteq Unrecorded
        <4>1. Slots' = Slots /\ \A r \in Slots : sess'[r].st = IF r = s THEN "recorded" ELSE sess[r].st
          BY <1>0, <2>0 DEF Slots, SessionRecords
        <4> QED
          BY <4>1 DEF Unrecorded, In
      <3>3. Admitting' = Admitting /\ Admitting \in {0, 1}
        BY <2>0 DEF Admitting
      <3> QED
        BY <2>0, <3>1, <3>2, <3>3, RushedByFrame
    <2>3. CASE sess[s].how \notin {"flap", "pin"}
      <3>1. hist'.rush = 0
        BY <1>0, <2>0, <2>3 DEF RecordFlapOutcome, HistRecords
      <3> QED
        BY <1>0, <3>1, RushedByReset
    <2> QED
      BY <2>1, <2>2, <2>3
  <1>4. ASSUME NEW s \in Slots,
               \/ \E how \in {"ok", "error", "pin"} : SessionReturns(s, how)
               \/ SessionEnds(s) /\ sess[s].st = "recorded"
               \/ SessionDropped(s)
        PROVE  Rushed'
    <2>1. max' = max /\ flaps' = flaps /\ hist' = hist /\ loop' = loop /\ Slots' = Slots
      BY <1>4 DEF SessionReturns, SessionEnds, SessionDropped, Slots
    <2>2. \A r \in Slots : sess'[r].st \in {"run", "returned"} => sess[r].st \in {"run", "returned"}
      <3>1. CASE \E how \in {"ok", "error", "pin"} : SessionReturns(s, how)
        BY <1>0, <3>1 DEF SessionReturns, SessionRecords
      <3>2. CASE sess' = [sess EXCEPT ![s] = NoSession]
        BY <1>0, <3>2 DEF NoSession
      <3> QED
        BY <1>4, <3>1, <3>2 DEF SessionEnds, SessionDropped
    <2>3. Unrecorded' \subseteq Unrecorded
      BY <2>1, <2>2 DEF Unrecorded, In
    <2>4. Admitting' = Admitting /\ Admitting \in {0, 1}
      BY <2>1 DEF Admitting
    <2> QED
      BY <2>1, <2>3, <2>4, RushedByFrame
  <1>5. CASE EndingOver \/ \E kind \in Failures : AdmitRefusedOwn(kind)
    <2>1. AbortAll /\ max' = max /\ flaps' = flaps /\ hist'.rush = hist.rush /\ Slots' = Slots
      BY <1>0, <1>5 DEF EndingOver, AdmitRefusedOwn, HistRecords, Slots
    <2>2. Unrecorded' \subseteq Unrecorded
      <3>1. \A r \in Slots : sess'[r].st = IF sess[r].st = "run" THEN "aborted" ELSE sess[r].st
        BY <1>0, <2>1 DEF AbortAll, SessionRecords
      <3> QED
        BY <2>1, <3>1 DEF Unrecorded, In
    <2>3. Admitting' = 0 /\ Admitting \in {0, 1}
      BY <1>0, <2>1 DEF Admitting, AbortAll, LoopRecords
    <2> QED
      BY <2>1, <2>2, <2>3, RushedByFrame
  <1>6. CASE \/ Acquire \/ FlapWaited \/ SleepOver \/ OwnExpiry \/ Stop \/ Revoke \/ Tick
             \/ \E kind \in Failures : AdmitFails(kind)
             \/ UNCHANGED vars
    <2>1. max' = max /\ sess' = sess /\ flaps' = flaps
      BY <1>6 DEF Acquire, FlapWaited, SleepOver, OwnExpiry, Stop, Revoke, Tick, AdmitFails, vars
    <2>2. hist'.rush = hist.rush
      BY <1>0, <1>6 DEF Acquire, FlapWaited, SleepOver, OwnExpiry, Stop, Revoke, Tick, AdmitFails,
                        vars, HistRecords
    <2>3. \/ loop' = loop
          \/ loop.st = "flap" /\ loop'.st = "admit"
          \/ loop'.st \notin {"flap", "admit"}
      BY <1>0, <1>6 DEF Acquire, FlapWaited, SleepOver, OwnExpiry, Stop, Revoke, Tick, AdmitFails,
                        vars, LoopRecords
    <2>4. Admitting' <= Admitting /\ Admitting' \in {0, 1}
      BY <2>3 DEF Admitting
    <2> QED
      BY <1>00, <2>1, <2>2, <2>4, RushedByFrame
  <1> QED
    BY <1>1, <1>2, <1>3, <1>4, <1>5, <1>6 DEF Next, Session, SessionEnds

-----------------------------------------------------------------------------
(* The end of the own grant. *)

\* The loop serves at first.
LEMMA EndedInit == Init => Ended
  BY ServeAssumption
     DEF Init, Ended, Serving, SessionsGetTheirTime, In, NoSession, Slots, AllJoined

\* Where the sessions are after an abort: none runs, and nothing else moved.
LEMMA AbortPlaces ==
    ASSUME TypeOK, max' = max, AbortAll
    PROVE  /\ In({"run"})' = {}
           /\ loop'.st = "aborting" /\ loop'.at = now + Budget
           /\ In({"run"}) = {} /\ In({"aborted"}) = {} => In({"aborted"})' = {}
  <1>1. sess \in [Slots -> SessionRecords] /\ loop \in LoopRecords
    BY TypeByParts DEF TypeParts
  <1>2. /\ Slots' = Slots
        /\ \A s \in Slots : sess'[s].st = IF sess[s].st = "run" THEN "aborted" ELSE sess[s].st
    BY <1>1 DEF AbortAll, SessionRecords, Slots
  <1>3. In({"run"})' = {} /\ (In({"run"}) = {} /\ In({"aborted"}) = {} => In({"aborted"})' = {})
    BY <1>2 DEF In
  <1> QED
    BY <1>1, <1>3 DEF AbortAll, LoopRecords

\* Every step of the loop's end comes in its time.
LEMMA EndedNext == ASSUME TypeOK, TypeOK', Ended, [Next]_vars PROVE Ended'
  <1> USE ServeAssumption
  <1>0. /\ loop \in LoopRecords /\ hist \in HistRecords /\ now \in Nat /\ own \in Nat
        /\ sess \in [Slots -> SessionRecords] /\ loop.at \in Nat
    BY TypeByParts, TypeFacts DEF TypeParts
  <1>1. CASE \/ Acquire \/ LoadFlaps \/ FlapWaited \/ SleepOver
             \/ \E kind \in Failures : AdmitFails(kind)
    <2>1. now' = now /\ own' = own /\ max' = max /\ sess' = sess /\ revoked' = revoked
      BY <1>1 DEF Acquire, LoadFlaps, FlapWaited, SleepOver, AdmitFails
    <2>2. Serving /\ Serving' /\ loop'.st \notin {"ending", "aborting", "stopped"}
      BY <1>0, <1>1 DEF Acquire, LoadFlaps, FlapWaited, SleepOver, AdmitFails, Serving, LoopRecords
    <2>3. hist'.end = hist.end
      BY <1>0, <1>1 DEF Acquire, LoadFlaps, FlapWaited, SleepOver, AdmitFails, HistRecords
    <2>4. In({"aborted"})' = In({"aborted"})
      BY <2>1 DEF In, Slots
    <2> QED
      BY <2>1, <2>2, <2>3, <2>4 DEF Ended, SessionsGetTheirTime
  <1>2. CASE Paired
    <2>1. now' = now /\ own' = own /\ revoked' = revoked /\ Slots' = Slots
      BY <1>2 DEF Paired, Slots
    <2>2. Serving /\ Serving' /\ loop'.st = "top" /\ hist'.end = hist.end
      BY <1>0, <1>2 DEF Paired, Serving, LoopRecords, HistRecords
    <2>3. In({"aborted"})' \subseteq In({"aborted"})
      BY <1>0, <1>2, <2>1 DEF Paired, In
    <2> QED
      BY <2>1, <2>2, <2>3 DEF Ended, SessionsGetTheirTime
  <1>3. ASSUME NEW kind \in Failures, AdmitRefusedOwn(kind) PROVE Ended'
    <2>1. /\ now' = now /\ own' = own /\ revoked' = revoked /\ max' = max /\ AbortAll
          /\ loop.st = "admit" /\ (now >= own \/ revoked)
      BY <1>3 DEF AdmitRefusedOwn, OwnGrantRefusal
    <2>2. hist'.end = "refusal"
      BY <1>0, <1>3 DEF AdmitRefusedOwn, HistRecords
    <2>3. now <= own
      BY <2>1 DEF Ended, Serving
    <2>4. loop'.st = "aborting" /\ loop'.at = now + Budget /\ In({"run"})' = {}
      BY <2>1, AbortPlaces
    <2>5. now' <= own' + Budget /\ now' < loop'.at
      BY <1>0, <2>1, <2>3, <2>4
    <2> QED
      BY <2>1, <2>2, <2>4, <2>5 DEF Ended, Serving, SessionsGetTheirTime
  <1>4. CASE Session
    <2>1. PICK s \in Slots : \/ \E how \in {"ok", "error", "pin"} : SessionReturns(s, how)
                             \/ SessionEnds(s) \/ SessionDropped(s)
      BY <1>4 DEF Session
    <2>2. /\ loop' = loop /\ now' = now /\ own' = own /\ revoked' = revoked /\ max' = max
          /\ Slots' = Slots /\ loop.st # "stopped"
      BY <1>4, <2>1 DEF Session, SessionReturns, SessionEnds, SessionDropped, Slots
    <2>3. hist'.end = hist.end
      <3>1. hist' = hist \/ \E r \in Int : hist' = [hist EXCEPT !.rush = r]
        <4>1. hist.rush + 1 \in Int
          BY TypeFacts
        <4> QED
          BY <2>1, <4>1 DEF SessionReturns, SessionEnds, SessionDropped, RecordFlapOutcome
      <3> QED
        BY <1>0, <3>1 DEF HistRecords
    <2>4. \A r \in Slots : /\ sess'[r].st = "run" => sess[r].st = "run"
                           /\ sess'[r].st = "aborted" => sess[r].st = "aborted"
      <3>1. CASE \E how \in {"ok", "error", "pin"} : SessionReturns(s, how)
        BY <1>0, <3>1 DEF SessionReturns, SessionRecords
      <3>2. CASE sess' = [sess EXCEPT ![s] = NoSession]
        BY <1>0, <3>2 DEF NoSession
      <3>3. CASE sess' = [sess EXCEPT ![s].st = "recorded"]
        BY <1>0, <3>3 DEF SessionRecords
      <3> QED
        BY <2>1, <3>1, <3>2, <3>3 DEF SessionEnds, SessionDropped
    <2>5. /\ In({"run"}) = {} => In({"run"})' = {}
          /\ In({"aborted"}) = {} => In({"aborted"})' = {}
      BY <2>2, <2>4 DEF In
    <2> QED
      BY <2>2, <2>3, <2>5 DEF Ended, Serving, SessionsGetTheirTime
  <1>5. CASE OwnExpiry
    <2>1. /\ now' = now /\ own' = own /\ revoked' = revoked /\ now >= own
          /\ In({"aborted"})' = In({"aborted"}) /\ In({"aborted"}) = {} /\ now <= own
      BY <1>5 DEF OwnExpiry, In, Slots, Ended
    <2>2. loop'.st = "ending" /\ loop'.at = now + Budget
      BY <1>0, <1>5 DEF OwnExpiry, LoopRecords
    <2>3. now' >= own' /\ now' <= loop'.at /\ loop'.at = own' + Budget
      BY <1>0, <2>1, <2>2
    <2> QED
      BY <2>1, <2>2, <2>3 DEF Ended, Serving, SessionsGetTheirTime
  <1>6. CASE EndingOver
    <2>1. /\ now' = now /\ own' = own /\ revoked' = revoked /\ max' = max /\ AbortAll /\ hist' = hist
          /\ loop.st = "ending" /\ (AllJoined \/ now >= loop.at)
      BY <1>6 DEF EndingOver
    <2>2. now >= own /\ now <= loop.at /\ loop.at = own + Budget /\ In({"aborted"}) = {}
      BY <2>1 DEF Ended
    <2>3. /\ loop'.st = "aborting" /\ loop'.at = now + Budget /\ In({"run"})' = {}
          /\ In({"run"}) = {} /\ In({"aborted"}) = {} => In({"aborted"})' = {}
      BY <2>1, AbortPlaces
    <2>4. AllJoined => In({"run"}) = {}
      BY DEF AllJoined, In
    <2>5. In({"aborted"})' = {} \/ now' >= own' + Budget
      BY <2>1, <2>2, <2>3, <2>4
    <2>6. now' <= own' + Budget /\ now' < loop'.at /\ now' >= own'
      BY <1>0, <2>1, <2>2, <2>3
    <2> QED
      BY <2>3, <2>5, <2>6 DEF Ended, Serving, SessionsGetTheirTime
  <1>7. CASE Stop
    <2>1. /\ now' = now /\ own' = own /\ revoked' = revoked /\ max' = max /\ sess' = sess
          /\ hist' = hist /\ loop.st = "aborting" /\ (AllJoined \/ now >= loop.at)
      BY <1>7 DEF Stop
    <2>2. loop'.st = "stopped"
      BY <1>0, <1>7 DEF Stop, LoopRecords
    <2>3. AllJoined
      BY <1>0, <2>1 DEF Ended
    <2>4. AllJoined' /\ In({"aborted"})' = In({"aborted"})
      BY <2>1, <2>3 DEF AllJoined, In, Slots
    <2> QED
      BY <2>1, <2>2, <2>4 DEF Ended, Serving, SessionsGetTheirTime
  <1>8. CASE Revoke \/ UNCHANGED vars
    <2>1. /\ UNCHANGED <<now, own, max, sess, loop, hist>>
          /\ revoked => revoked'
      BY <1>8 DEF Revoke, vars
    <2>2. \A A : In(A)' = In(A)
      BY <2>1 DEF In, Slots
    <2> QED
      BY <2>1, <2>2 DEF Ended, Serving, SessionsGetTheirTime, AllJoined
  <1>9. CASE Tick
    <2>1. now' = now + 1 /\ UNCHANGED <<own, revoked, max, sess, loop, hist>> /\ ~Urgent
      BY <1>9 DEF Tick
    <2>2. \A A : In(A)' = In(A)
      BY <2>1 DEF In, Slots
    <2>3. Serving => now < own
      BY <1>0, <2>1 DEF Urgent
    <2>4. loop.st = "ending" => now < loop.at
      BY <1>0, <2>1 DEF Urgent
    <2>5. loop.st # "aborting"
      <3>1. SUFFICES ASSUME loop.st = "aborting" PROVE FALSE
        OBVIOUS
      <3>2. In({"run"}) = {}
        BY <3>1 DEF Ended
      <3>3. In({"returned", "recorded", "aborted"}) = {} /\ ~AllJoined
        BY <2>1, <3>1 DEF Urgent
      <3>4. AllJoined
        BY <3>2, <3>3 DEF AllJoined, In
      <3> QED
        BY <3>3, <3>4
    <2>6. loop.st = "ending" => now' <= loop'.at /\ now' >= own'
      BY <1>0, <2>1, <2>4 DEF Ended
    <2>7. Serving => now' <= own'
      BY <1>0, <2>1, <2>3
    <2>8. (~Serving)' => (now >= own \/ revoked)'
      BY <1>0, <2>1 DEF Ended, SessionsGetTheirTime, Serving
    <2>9. In({"aborted"})' # {} => hist'.end = "refusal" \/ now' >= own' + Budget
      BY <1>0, <2>1, <2>2 DEF Ended, SessionsGetTheirTime
    <2> QED
      BY <2>1, <2>2, <2>5, <2>6, <2>7, <2>8, <2>9 DEF Ended, Serving, SessionsGetTheirTime, AllJoined
  <1> QED
    BY <1>1, <1>2, <1>3, <1>4, <1>5, <1>6, <1>7, <1>8, <1>9 DEF Next

-----------------------------------------------------------------------------
(* The theorems. *)

\* Every state of the loop satisfies the invariant.
LEMMA LoopInvariant == Spec => []LoopInv
  <1>1. Init => LoopInv
    BY SlottedInit, PacedInit, RushedInit, EndedInit DEF LoopInv
  <1>2. LoopInv /\ [Next]_vars => LoopInv'
    <2> SUFFICES ASSUME LoopInv, [Next]_vars PROVE LoopInv'
      OBVIOUS
    <2>1. Slotted'
      BY SlottedNext DEF LoopInv
    <2>2. TypeOK /\ TypeOK'
      BY <2>1 DEF LoopInv, Slotted
    <2> QED
      BY <2>1, <2>2, PacedNext, RushedNext, EndedNext DEF LoopInv
  <1> QED
    BY <1>1, <1>2, PTL DEF Spec

\* The pace follows: an admission after a failure waited for it, and a rush of flaps is bounded.
LEMMA PaceFollows == LoopInv => AdmissionsPaced
  <1> SUFFICES ASSUME LoopInv PROVE AdmissionsPaced
    OBVIOUS
  <1>1. RetriesPaced
    BY DEF LoopInv, Paced, RetriesPaced, LeastWait, MostWait
  <1>2. FlapsThrottled
    <2>1. max \in Nat /\ hist.rush \in Nat
      BY TypeFacts DEF LoopInv, Slotted
    <2>2. Cardinality(Unrecorded) \in Nat
      BY <2>1, InFinite DEF Unrecorded
    <2>3. hist.rush + Cardinality(Unrecorded) + Admitting <= max /\ Admitting \in {0, 1}
      BY DEF LoopInv, Rushed, Admitting
    <2> QED
      BY <2>1, <2>2, <2>3 DEF FlapsThrottled
  <1> QED
    BY <1>1, <1>2 DEF AdmissionsPaced

\* The end follows: it is due where the loop is, and no session is left behind.
LEMMA EndFollows == LoopInv => EndsProperly
  <1> SUFFICES ASSUME LoopInv PROVE EndsProperly
    OBVIOUS
  <1>0. loop \in LoopRecords /\ now \in Nat /\ own \in Nat
    BY TypeByParts, TypeFacts DEF LoopInv, Slotted, TypeParts
  <1>1. SlotsConserved /\ SessionsGetTheirTime
    BY DEF LoopInv, Slotted, Ended
  <1>2. loop.st # "stopped" => now <= own + Budget
    BY <1>0, ServeAssumption DEF LoopInv, Ended, Serving, LoopRecords
  <1>3. EndsWithItsSessions
    BY <1>0, <1>2, ServeAssumption DEF LoopInv, Ended, EndsWithItsSessions
  <1> QED
    BY <1>1, <1>3 DEF EndsProperly

\* Every variable of serve_loop_admitting stays in its range.
THEOREM LoopTypeCorrect == Spec => []TypeOK
  <1>1. LoopInv => TypeOK
    BY DEF LoopInv, Slotted
  <1> QED
    BY <1>1, LoopInvariant, PTL

\* No slot is lost or made up, whatever an admission, a session, an abort or a dropped loop does.
THEOREM SlotsAlwaysConserved == Spec => []SlotsConserved
  <1>1. LoopInv => SlotsConserved
    BY DEF LoopInv, Slotted
  <1> QED
    BY <1>1, LoopInvariant, PTL

\* The edge is never asked faster than the failures and flaps behind a slot allow.
THEOREM AlwaysPaced == Spec => []AdmissionsPaced
  BY PaceFollows, LoopInvariant, PTL

\* The serve loop paces its admissions, and ends in time with its sessions and slots accounted for.
THEOREM LoopAlwaysSound == Spec => []LoopSound
  <1>1. LoopInv => LoopSound
    BY PaceFollows, EndFollows DEF LoopSound, LoopInv, Slotted
  <1> QED
    BY <1>1, LoopInvariant, PTL

-----------------------------------------------------------------------------
(* The map of clients (SuperPeer).  An entry and its return path name each other: that is why the  *)
(* path that ends by its client's address takes out its own entry, and not its successor's.        *)

PathRecords == [at : {"unborn", "recv", "send", "exit", "gone"}, of : LanClients \cup {"none"}]
FrontRecords == [at : {"recv", "locked", "send"}, from : LanClients \cup {"none"}, sock : 0 .. Upstreams]

SuperTyped ==
    /\ mapping \in [LanClients -> 0 .. Upstreams]
    /\ front \in FrontRecords /\ (front.at = "locked" => front.from \in LanClients)
    /\ paths \in [1 .. Upstreams -> PathRecords]

\* An entry's path lives and is its client's ...
EntryHasPath == \A c \in LanClients : mapping[c] # 0 => Alive(mapping[c]) /\ paths[mapping[c]].of = c

\* ... and a living path is the one in its client's entry.
PathHasEntry == \A s \in 1 .. Upstreams :
    Alive(s) => paths[s].of \in LanClients /\ mapping[paths[s].of] = s

Capped == IsFiniteSet(Entries) /\ Cardinality(Entries) <= ClientCap

SuperInv == SuperTyped /\ EntryHasPath /\ PathHasEntry /\ Capped

\* There is no client at first.
LEMMA SuperStarts == SuperInit => SuperInv
  <1> SUFFICES ASSUME SuperInit PROVE SuperInv
    OBVIOUS
  <1>1. SuperTyped
    BY SuperPeerAssumption DEF SuperInit, SuperTyped, AwaitsDatagram, PathRecords, FrontRecords
  <1>2. EntryHasPath /\ PathHasEntry
    BY DEF SuperInit, EntryHasPath, PathHasEntry, Alive
  <1>3. Entries = {}
    BY DEF SuperInit, Entries
  <1>4. Capped
    BY <1>3, FS_EmptySet, SuperPeerAssumption DEF Capped
  <1> QED
    BY <1>1, <1>2, <1>4 DEF SuperInv

\* The front loop between two changes of the map.
LEMMA FrontKeeps ==
    ASSUME SuperInv, UNCHANGED <<mapping, paths>>,
           \/ \E c \in LanClients : FrontReceives(c)
           \/ FindsEntry \/ DropsNewClient \/ ForwardsUp
    PROVE  SuperInv'
  <1>1. front' \in FrontRecords /\ (front'.at = "locked" => front'.from \in LanClients)
    <2>1. CASE \E c \in LanClients : FrontReceives(c)
      BY <2>1 DEF FrontReceives, SuperInv, SuperTyped, FrontRecords
    <2>2. CASE FindsEntry
      BY <2>2 DEF FindsEntry, SuperInv, SuperTyped, FrontRecords
    <2>3. CASE DropsNewClient \/ ForwardsUp
      BY <2>3, SuperPeerAssumption DEF DropsNewClient, ForwardsUp, AwaitsDatagram, FrontRecords
    <2> QED
      BY <2>1, <2>2, <2>3
  <1>2. SuperTyped'
    BY <1>1 DEF SuperInv, SuperTyped
  <1> QED
    BY <1>2 DEF SuperInv, EntryHasPath, PathHasEntry, Capped, Alive, Entries

\* A new client: the lowest unborn socket, its path and its entry come at once.
LEMMA OpensKeeps == ASSUME SuperInv, OpensUpstream PROVE SuperInv'
  <1>0. /\ mapping \in [LanClients -> 0 .. Upstreams] /\ paths \in [1 .. Upstreams -> PathRecords]
        /\ front \in FrontRecords /\ EntryHasPath /\ PathHasEntry /\ Capped
        /\ Upstreams \in Nat /\ ClientCap \in Nat
    BY SuperPeerAssumption DEF SuperInv, SuperTyped
  <1>1. PICK c \in LanClients : c = front.from /\ mapping[c] = 0
    BY DEF OpensUpstream, SuperInv, SuperTyped
  <1>2. PICK s \in Unborn :
          /\ mapping' = [mapping EXCEPT ![c] = s]
          /\ paths' = [paths EXCEPT ![s] = [at |-> "recv", of |-> c]]
          /\ front' = [front EXCEPT !.at = "send", !.sock = s]
    BY <1>1 DEF OpensUpstream
  <1>3. s \in 1 .. Upstreams /\ paths[s].at = "unborn" /\ s # 0
    BY <1>0, <1>2 DEF Unborn
  <1>4. SuperTyped'
    <2>1. front' \in FrontRecords /\ front'.at = "send"
      <3>1. PICK k \in 0 .. Upstreams : k = s
        BY <1>0, <1>3
      <3>2. front' = [front EXCEPT !.at = "send", !.sock = k]
        BY <1>2, <3>1
      <3> QED
        BY <1>0, <3>2 DEF FrontRecords
    <2>2. mapping' \in [LanClients -> 0 .. Upstreams]
      BY <1>0, <1>2, <1>3
    <2>3. PICK r \in PathRecords : r = [at |-> "recv", of |-> c]
      BY DEF PathRecords
    <2>4. paths' \in [1 .. Upstreams -> PathRecords]
      <3>1. paths' = [paths EXCEPT ![s] = r]
        BY <1>2, <2>3
      <3> QED
        BY <1>0, <2>3, <3>1
    <2> QED
      BY <2>1, <2>2, <2>4 DEF SuperTyped
  <1>5. EntryHasPath'
    <2> SUFFICES ASSUME NEW d \in LanClients, mapping'[d] # 0
                 PROVE  Alive(mapping[d])' /\ paths'[mapping'[d]].of = d
      BY DEF EntryHasPath
    <2>1. CASE d = c
      BY <1>0, <1>2, <1>3, <2>1 DEF Alive
    <2>2. CASE d # c
      <3>1. mapping'[d] = mapping[d] /\ mapping[d] # 0 /\ mapping[d] \in 1 .. Upstreams
        BY <1>0, <1>2, <2>2
      <3>2. paths[mapping[d]].at \in {"recv", "send", "exit"} /\ paths[mapping[d]].of = d
        BY <1>0, <3>1 DEF EntryHasPath, Alive
      <3>3. mapping[d] # s
        BY <1>3, <3>2
      <3>4. paths'[mapping[d]] = paths[mapping[d]]
        BY <1>0, <1>2, <3>1, <3>3
      <3> QED
        BY <3>1, <3>2, <3>4 DEF Alive
    <2> QED
      BY <2>1, <2>2
  <1>6. PathHasEntry'
    <2> SUFFICES ASSUME NEW t \in 1 .. Upstreams, Alive(t)'
                 PROVE  paths'[t].of \in LanClients /\ mapping'[paths'[t].of] = t
      BY DEF PathHasEntry
    <2>1. CASE t = s
      BY <1>0, <1>2, <1>3, <2>1
    <2>2. CASE t # s
      <3>1. paths'[t] = paths[t] /\ Alive(t)
        BY <1>0, <1>2, <2>2 DEF Alive
      <3>2. paths[t].of \in LanClients /\ mapping[paths[t].of] = t
        BY <1>0, <3>1 DEF PathHasEntry
      <3>3. paths[t].of # c
        BY <1>1, <3>2
      <3> QED
        BY <1>0, <1>2, <3>1, <3>2, <3>3
    <2> QED
      BY <2>1, <2>2
  <1>7. Capped'
    <2>1. Entries' = Entries \cup {c} /\ c \notin Entries
      BY <1>0, <1>1, <1>2, <1>3 DEF Entries
    <2>2. PICK n \in Nat : n = Cardinality(Entries)
      BY <1>0, FS_CardinalityType DEF Capped
    <2>3. IsFiniteSet(Entries') /\ Cardinality(Entries') = n + 1
      BY <1>0, <2>1, <2>2, FS_AddElement DEF Capped
    <2>4. n < ClientCap
      BY <2>2 DEF OpensUpstream
    <2> QED
      BY <1>0, <2>3, <2>4 DEF Capped
  <1> QED
    BY <1>4, <1>5, <1>6, <1>7 DEF SuperInv

\* A return path on its way from one wait to the next lives and stays its client's.
LEMMA PathKeeps ==
    ASSUME SuperInv, NEW s \in 1 .. Upstreams, PathReads(s) \/ PathSends(s) \/ PathBreaks(s)
    PROVE  SuperInv'
  <1>0. /\ mapping \in [LanClients -> 0 .. Upstreams] /\ paths \in [1 .. Upstreams -> PathRecords]
        /\ EntryHasPath /\ PathHasEntry
    BY DEF SuperInv, SuperTyped
  <1>1. PICK at \in {"send", "recv", "exit"} : paths' = [paths EXCEPT ![s].at = at]
    BY DEF PathReads, PathSends, PathBreaks
  <1>2. UNCHANGED <<mapping, front>> /\ Alive(s)
    BY DEF PathReads, PathSends, PathBreaks, Alive
  <1>3. /\ paths' \in [1 .. Upstreams -> PathRecords]
        /\ \A t \in 1 .. Upstreams : paths'[t].of = paths[t].of
        /\ \A t \in 1 .. Upstreams : Alive(t)' <=> Alive(t)
    BY <1>0, <1>1, <1>2 DEF PathRecords, Alive
  <1>4. SuperTyped'
    BY <1>2, <1>3 DEF SuperInv, SuperTyped
  <1>5. EntryHasPath'
    <2> SUFFICES ASSUME NEW d \in LanClients, mapping'[d] # 0
                 PROVE  Alive(mapping[d])' /\ paths'[mapping'[d]].of = d
      BY DEF EntryHasPath
    <2>1. mapping'[d] = mapping[d] /\ mapping[d] \in 1 .. Upstreams
      BY <1>0, <1>2, SuperPeerAssumption
    <2>2. Alive(mapping[d]) /\ paths[mapping[d]].of = d
      BY <1>0, <1>2 DEF EntryHasPath
    <2>3. PICK t \in 1 .. Upstreams : t = mapping[d] /\ t = mapping'[d]
      BY <2>1
    <2> QED
      BY <1>3, <2>2, <2>3 DEF Alive
  <1>6. PathHasEntry'
    BY <1>0, <1>2, <1>3 DEF PathHasEntry
  <1>7. Capped'
    BY <1>2 DEF SuperInv, Capped, Entries
  <1> QED
    BY <1>4, <1>5, <1>6, <1>7 DEF SuperInv

\* A path that ends takes its own entry out, and no other path with it.
LEMMA EndKeeps == ASSUME SuperInv, NEW s \in 1 .. Upstreams, PathEnds(s) PROVE SuperInv'
  <1>0. /\ mapping \in [LanClients -> 0 .. Upstreams] /\ paths \in [1 .. Upstreams -> PathRecords]
        /\ EntryHasPath /\ PathHasEntry /\ Capped /\ Upstreams \in Nat /\ ClientCap \in Nat
    BY SuperPeerAssumption DEF SuperInv, SuperTyped
  <1>1. PICK c \in LanClients : c = paths[s].of /\ mapping[c] = s
    BY <1>0 DEF PathEnds, PathHasEntry, Alive
  <1>2. /\ mapping' = [mapping EXCEPT ![c] = 0] /\ front' = front
        /\ paths' = [paths EXCEPT ![s].at = "gone"]
    BY <1>0, <1>1 DEF PathEnds
  <1>3. /\ paths' \in [1 .. Upstreams -> PathRecords] /\ paths'[s].at = "gone"
        /\ \A t \in 1 .. Upstreams : t # s => paths'[t] = paths[t]
    BY <1>0, <1>2 DEF PathRecords
  <1>4. SuperTyped'
    BY <1>0, <1>2, <1>3 DEF SuperInv, SuperTyped
  <1>5. EntryHasPath'
    <2> SUFFICES ASSUME NEW d \in LanClients, mapping'[d] # 0
                 PROVE  Alive(mapping[d])' /\ paths'[mapping'[d]].of = d
      BY DEF EntryHasPath
    <2>1. d # c /\ mapping'[d] = mapping[d] /\ mapping[d] \in 1 .. Upstreams
      BY <1>0, <1>2
    <2>2. Alive(mapping[d]) /\ paths[mapping[d]].of = d
      BY <1>0, <2>1 DEF EntryHasPath
    <2>3. mapping[d] # s
      BY <1>1, <2>1, <2>2
    <2>4. paths'[mapping'[d]] = paths[mapping[d]]
      BY <1>3, <2>1, <2>3
    <2> QED
      BY <2>2, <2>4 DEF Alive
  <1>6. PathHasEntry'
    <2> SUFFICES ASSUME NEW t \in 1 .. Upstreams, Alive(t)'
                 PROVE  paths'[t].of \in LanClients /\ mapping'[paths'[t].of] = t
      BY DEF PathHasEntry
    <2>1. t # s /\ paths'[t] = paths[t] /\ Alive(t)
      BY <1>3 DEF Alive
    <2>2. paths[t].of \in LanClients /\ mapping[paths[t].of] = t
      BY <1>0, <2>1 DEF PathHasEntry
    <2>3. paths[t].of # c
      BY <1>1, <2>1, <2>2
    <2> QED
      BY <1>0, <1>2, <2>1, <2>2, <2>3
  <1>7. Capped'
    <2>1. Entries' = Entries \ {c} /\ c \in Entries
      BY <1>0, <1>1, <1>2 DEF Entries
    <2>2. PICK n \in Nat : n = Cardinality(Entries)
      BY <1>0, FS_CardinalityType DEF Capped
    <2>3. IsFiniteSet(Entries') /\ Cardinality(Entries') = n - 1
      BY <1>0, <2>1, <2>2, FS_RemoveElement DEF Capped
    <2> QED
      BY <1>0, <2>2, <2>3 DEF Capped
  <1> QED
    BY <1>4, <1>5, <1>6, <1>7 DEF SuperInv

\* Every step of the front loop and the return paths keeps the invariant.
LEMMA SuperKeeps == SuperInv /\ [SuperNext]_superVars => SuperInv'
  <1> SUFFICES ASSUME SuperInv, [SuperNext]_superVars PROVE SuperInv'
    OBVIOUS
  <1>1. CASE (\E c \in LanClients : FrontReceives(c)) \/ FindsEntry \/ DropsNewClient \/ ForwardsUp
    <2>1. UNCHANGED <<mapping, paths>>
      BY <1>1 DEF FrontReceives, FindsEntry, DropsNewClient, ForwardsUp
    <2> QED
      BY <1>1, <2>1, FrontKeeps
  <1>2. CASE UNCHANGED superVars
    BY <1>2 DEF superVars, SuperInv, SuperTyped, EntryHasPath, PathHasEntry, Capped, Alive, Entries
  <1> QED
    BY <1>1, <1>2, OpensKeeps, PathKeeps, EndKeeps DEF SuperNext

\* For any number of LAN clients and sockets and any cap: a client is never left with an upstream
\* socket nobody reads, a return path never outlives its entry, and the open sockets stay within the
\* cap and the one that an evicted client's datagram is just being sent on (super_peer.rs, the front
\* loop and spawn_return_path).
THEOREM MappingsAlwaysLive == SuperSpec => []MappingsLive
  <1>1. SuperInv => MappingsLive
    <2> SUFFICES ASSUME SuperInv PROVE MappingsLive
      OBVIOUS
    <2>0. /\ mapping \in [LanClients -> 0 .. Upstreams] /\ DOMAIN paths = 1 .. Upstreams
          /\ EntryHasPath /\ PathHasEntry /\ Capped /\ ClientCap \in Nat
      BY SuperPeerAssumption DEF SuperInv, SuperTyped
    <2>1. \A c \in Entries : Alive(mapping[c])
      BY <2>0 DEF EntryHasPath, Entries
    <2>2. \A s \in DOMAIN paths : Alive(s) => \E c \in Entries : mapping[c] = s
      BY <2>0 DEF PathHasEntry, Entries
    <2> DEFINE E == Entries
               Sockets == {mapping[c] : c \in E}
               Most1 == Sockets \cup {front.sock}
    <2>3. IsFiniteSet(Sockets) /\ Cardinality(Sockets) <= Cardinality(E)
      <3>1. IsFiniteSet(E)
        BY <2>0 DEF Capped
      <3>2. [c \in E |-> mapping[c]] \in Surjection(E, Sockets)
        BY DEF Surjection
      <3> HIDE DEF E, Sockets
      <3> QED
        BY <3>1, <3>2, FS_Surjection
    <2>4. PICK n \in Nat : n = Cardinality(Sockets)
      BY <2>3, FS_CardinalityType
    <2>5. IsFiniteSet(Most1) /\ Cardinality(Most1) \in Nat /\ Cardinality(Most1) <= n + 1
      <3> HIDE DEF Sockets
      <3>1. IsFiniteSet(Most1) /\ (Cardinality(Most1) = n \/ Cardinality(Most1) = n + 1)
        BY <2>3, <2>4, FS_AddElement
      <3> QED
        BY <2>4, <3>1
    <2>6. OpenSockets \subseteq Most1
      BY <2>0, <2>2 DEF OpenSockets
    <2>7. IsFiniteSet(OpenSockets) /\ Cardinality(OpenSockets) <= Cardinality(Most1)
      <3> HIDE DEF Most1
      <3> QED
        BY <2>5, <2>6, FS_Subset
    <2>8. PICK k \in Nat : k = Cardinality(OpenSockets)
      BY <2>7, FS_CardinalityType
    <2>9. PICK m \in Nat : m = Cardinality(Most1)
      BY <2>5
    <2>10. PICK e \in Nat : e = Cardinality(Entries)
      BY <2>0, FS_CardinalityType DEF Capped
    <2>11. k <= m /\ m <= n + 1 /\ n <= e /\ e <= ClientCap
      <3>1. k <= m
        BY <2>7, <2>8, <2>9
      <3>2. m <= n + 1
        BY <2>5, <2>9
      <3>3. n <= e
        BY <2>3, <2>4, <2>10
      <3>4. e <= ClientCap
        BY <2>0, <2>10 DEF Capped
      <3> QED
        BY <3>1, <3>2, <3>3, <3>4
    <2>12. Cardinality(OpenSockets) <= ClientCap + 1
      BY <2>0, <2>8, <2>11
    <2> QED
      BY <2>1, <2>2, <2>12 DEF MappingsLive
  <1> QED
    BY <1>1, SuperStarts, SuperKeeps, PTL DEF SuperSpec
=============================================================================
