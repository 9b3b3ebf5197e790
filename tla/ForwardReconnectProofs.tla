----------------------- MODULE ForwardReconnectProofs -----------------------
(***************************************************************************)
(* Proofs about the forward initiator's loop, for all steps, caps, budgets *)
(* and expiries.  The properties are not inductive: they need what each    *)
(* place of the loop knows about the clock (Clock) and what a recorded own *)
(* end means (OwnRecorded).                                                *)
(***************************************************************************)
EXTENDS ForwardReconnect, WellFoundedInduction, TLAPS

\* How far the clock can be while the loop is in each of its places.
Clock ==
    /\ st \in {"top", "session", "backoff"} => now <= own
    /\ st = "teardown" => own <= now /\ now <= at /\ at = own + Budget

\* The gate records an own end only for an expiry or a dismissal.
OwnRecorded == record = "own" => now >= own \/ ~member

\* A forward that is over leaves no connection unanswered.
Answered == st \in Ended => conn # "waiting"

IInv ==
    /\ TypeOK
    /\ Clock
    /\ OwnRecorded
    /\ Answered
    /\ OnlyOwnEndStops
    /\ NoAdmissionAfterOwnEnd

-----------------------------------------------------------------------------

\* next_forward_reconnect_delay stays between the first step and the cap.
LEMMA DelayBounded ==
    ASSUME NEW prev \in {0} \cup (Min..Max), NEW lasted \in Int
    PROVE  NextForwardReconnectDelay(prev, lasted) \in Min..Max
  BY TimeAssumption DEF NextForwardReconnectDelay, Least

\* A jittered wait is a time, and no longer than its step.
LEMMA JitterBounded ==
    ASSUME NEW step \in Min..Max, NEW wait \in EqualJitter(step)
    PROVE  wait \in Nat /\ wait <= step
  BY TimeAssumption DEF EqualJitter

\* The loop starts with the invariant: nothing has happened and the clock is at its start.
LEMMA InitIInv == Init => IInv
  BY TimeAssumption
     DEF Init, IInv, TypeOK, Clock, OwnRecorded, Answered, OnlyOwnEndStops,
         NoAdmissionAfterOwnEnd, Ended

\* The end of the forward keeps the invariant wherever this member's own standing is over.
LEMMA EndKeepsIInv ==
    ASSUME IInv, EndForwardForOwnGrant, now >= own \/ ~member,
           hist' \in [short : Nat, ended : Nat, own : BOOLEAN],
           UNCHANGED <<now, own, member, delay, started, at, record>>
    PROVE  IInv'
  <1> USE DEF IInv, TypeOK, Ended, EndForwardForOwnGrant
  <1>1. TypeOK'
    BY TimeAssumption
  <1>2. st' \in Ended /\ conn' # "waiting"
    BY TimeAssumption
  <1>3. Clock' /\ Answered' /\ OnlyOwnEndStops' /\ NoAdmissionAfterOwnEnd' /\ OwnRecorded'
    BY <1>2 DEF Clock, Answered, OnlyOwnEndStops, NoAdmissionAfterOwnEnd, OwnRecorded
  <1> QED
    BY <1>1, <1>3

\* A session that returns either ends the forward or goes into the backoff.
LEMMA ReturnKeepsIInv ==
    ASSUME IInv, NEW refused \in BOOLEAN, SessionReturns(refused)
    PROVE  IInv'
  <1> DEFINE lasted == now - started
             step == NextForwardReconnectDelay(delay, lasted)
             isOwn == ForwardGrantEnd(record) = "own" \/ (ForwardGrantEnd(record) = "no" /\ refused)
  <1>1. /\ st = "session"
        /\ refused => ~member
        /\ UNCHANGED <<now, own, member, started, record>>
        /\ hist' = [short |-> IF lasted < Max THEN hist.short + 1 ELSE 0, ended |-> now,
                    own |-> record = "own" \/ (record = "no" /\ refused)]
    BY DEF SessionReturns
  <1>2. lasted \in Int
    BY DEF IInv, TypeOK
  <1>3. hist' \in [short : Nat, ended : Nat, own : BOOLEAN]
    <2>1. (IF lasted < Max THEN hist.short + 1 ELSE 0) \in Nat /\ now \in Nat
      BY <1>2 DEF IInv, TypeOK
    <2>2. (record = "own" \/ (record = "no" /\ refused)) \in BOOLEAN
      OBVIOUS
    <2> QED
      BY <1>1, <2>1, <2>2
  <1>4. CASE isOwn
    <2>1. EndForwardForOwnGrant /\ UNCHANGED <<delay, at>>
      BY <1>4 DEF SessionReturns
    <2>2. now >= own \/ ~member
      BY <1>1, <1>4 DEF ForwardGrantEnd, IInv, OwnRecorded
    <2> QED
      BY <1>1, <1>3, <2>1, <2>2, EndKeepsIInv
  <1>5. CASE ~isOwn
    <2>1. PICK wait \in EqualJitter(step) :
             st' = "backoff" /\ delay' = step /\ at' = now + wait /\ UNCHANGED conn
      BY <1>5 DEF SessionReturns
    <2>2. step \in Min..Max
      BY <1>2, DelayBounded DEF IInv, TypeOK
    <2>3. wait \in Nat
      BY <2>2, JitterBounded
    <2>4. TypeOK'
      BY <1>1, <1>3, <2>1, <2>2, <2>3 DEF IInv, TypeOK
    <2>5. ~hist'.own
      BY <1>1, <1>5 DEF ForwardGrantEnd
    <2> QED
      BY <1>1, <2>1, <2>4, <2>5
         DEF IInv, Clock, OwnRecorded, Answered, OnlyOwnEndStops, NoAdmissionAfterOwnEnd, Ended
  <1> QED
    BY <1>4, <1>5

\* Every step of the loop, the session, the listener and the clock keeps the invariant.
LEMMA NextIInv == IInv /\ [Next]_vars => IInv'
  <1> SUFFICES ASSUME IInv, [Next]_vars
               PROVE  IInv'
    OBVIOUS
  <1> USE TimeAssumption
  <1> USE DEF IInv, TypeOK, Clock, OwnRecorded, Answered, OnlyOwnEndStops,
              NoAdmissionAfterOwnEnd, Ended
  <1>1. CASE Admit
    BY <1>1 DEF Admit
  <1>2. CASE AdmitExpired
    BY <1>2, EndKeepsIInv DEF AdmitExpired
  <1>3. CASE GateRecords
    BY <1>3 DEF GateRecords
  <1>4. CASE \E refused \in BOOLEAN : SessionReturns(refused)
    BY <1>4, ReturnKeepsIInv
  <1>5. CASE ExpiresInSession
    BY <1>5 DEF ExpiresInSession, GrantExpiryTimer
  <1>6. CASE TornDown
    BY <1>6, EndKeepsIInv DEF TornDown
  <1>7. CASE ExpiresInBackoff
    BY <1>7, EndKeepsIInv DEF ExpiresInBackoff, GrantExpiryTimer
  <1>8. CASE BackoffOver
    BY <1>8 DEF BackoffOver, GrantExpiryTimer
  <1>9. CASE Connect
    BY <1>9 DEF Connect
  <1>10. CASE EngineAccepts
    BY <1>10 DEF EngineAccepts
  <1>11. CASE Dismiss
    BY <1>11 DEF Dismiss
  <1>12. CASE Tick
    BY <1>12 DEF Tick, Urgent, GrantExpiryTimer
  <1>13. CASE UNCHANGED vars
    BY <1>13 DEF vars
  <1> QED
    BY <1>1, <1>2, <1>3, <1>4, <1>5, <1>6, <1>7, <1>8, <1>9, <1>10, <1>11, <1>12, <1>13 DEF Next

\* So it holds for good.
LEMMA InvariantHolds == Spec => []IInv
  BY InitIInv, NextIInv, PTL DEF Spec

-----------------------------------------------------------------------------

\* The loop of run_forward_initiate_reconnect_loop keeps its variables in their ranges; the
\* backoff step never leaves Min..Max.
THEOREM TypeCorrect == Spec => []TypeOK
  <1>1. IInv => TypeOK
    BY DEF IInv
  <1> QED
    BY InvariantHolds, <1>1, PTL

\* Only this member's own standing ends the forward: a peer's grant end never does.
THEOREM OnlyOwnEndEverStops == Spec => []OnlyOwnEndStops
  <1>1. IInv => OnlyOwnEndStops
    BY DEF IInv
  <1> QED
    BY InvariantHolds, <1>1, PTL

\* The loop never presents a grant that is over, nor admits after an own end it was told of.
THEOREM NeverAdmittedAfterOwnEnd == Spec => []NoAdmissionAfterOwnEnd
  <1>1. IInv => NoAdmissionAfterOwnEnd
    BY DEF IInv
  <1> QED
    BY InvariantHolds, <1>1, PTL

\* The forward is over within the teardown budget of its own grant's end, for every budget.
THEOREM AlwaysStopsInTime == Spec => []StopsInTime
  <1>1. IInv => StopsInTime
    BY TimeAssumption DEF IInv, TypeOK, Clock, Answered, StopsInTime, Ended
  <1> QED
    BY InvariantHolds, <1>1, PTL

\* The forward ends with its own grant and over nothing else, for every budget and expiry.
THEOREM AlwaysEndsWithOwn == Spec => []EndsWithOwn
  <1>1. TypeOK /\ OnlyOwnEndStops /\ NoAdmissionAfterOwnEnd /\ StopsInTime => EndsWithOwn
    BY DEF EndsWithOwn
  <1> QED
    BY <1>1, TypeCorrect, OnlyOwnEndEverStops, NeverAdmittedAfterOwnEnd, AlwaysStopsInTime, PTL

-----------------------------------------------------------------------------
(* The backoff, and what a power of two is. *)

\* A set of numbers has a least one: the provers can use the library's induction on sets only.
LEMMA LeastNumber ==
    ASSUME NEW T, T \subseteq Nat, T # {}
    PROVE  \E n \in T : \A m \in T : n <= m
  <1>1. IsWellFoundedOn(OpToRel(<, Nat), Nat)
    BY NatLessThanWellFounded, Zenon
  <1>2. PICK n \in T : \A m \in T : ~(<<m, n>> \in OpToRel(<, Nat))
    BY <1>1, WFMin, Zenon
  <1>3. \A m \in T : ~(m < n)
    BY <1>2 DEF OpToRel
  <1> QED
    BY <1>3

\* What holds of 0, and of n + 1 if it does of n, holds of every number.
LEMMA Induction ==
    ASSUME NEW T, 0 \in T, \A n \in Nat : n \in T => n + 1 \in T
    PROVE  \A n \in Nat : n \in T
  <1> SUFFICES ASSUME Nat \ T # {} PROVE FALSE
    OBVIOUS
  <1>1. PICK n \in Nat \ T : \A m \in Nat \ T : n <= m
    BY LeastNumber
  <1> QED
    BY <1>1

\* A table of the first powers.
Table(h, n) == h \in [0 .. n -> Nat] /\ h[0] = 1 /\ \A k \in 1 .. n : h[k] = 2 * h[k - 1]

\* There is one of any length ...
LEMMA TableExists == \A n \in Nat : \E h : Table(h, n)
  <1> DEFINE T == {n \in Nat : \E h : Table(h, n)}
  <1>1. 0 \in T
    <2>1. Table([k \in 0 .. 0 |-> 1], 0)
      BY DEF Table
    <2> QED
      BY <2>1
  <1>2. ASSUME NEW n \in Nat, n \in T
        PROVE  n + 1 \in T
    <2>1. PICK h : Table(h, n)
      BY <1>2
    <2>2. Table([k \in 0 .. n + 1 |-> IF k <= n THEN h[k] ELSE 2 * h[n]], n + 1)
      BY <2>1 DEF Table
    <2> QED
      BY <2>2
  <1> HIDE DEF T
  <1>3. \A n \in Nat : n \in T
    BY <1>1, <1>2, Induction
  <1> QED
    BY <1>3 DEF T

\* ... and two of them agree.
LEMMA TableUnique ==
    ASSUME NEW n \in Nat, NEW m \in Nat, NEW h, Table(h, n), NEW g, Table(g, m)
    PROVE  \A k \in 0 .. n : k <= m => h[k] = g[k]
  <1> DEFINE T == {k \in Nat : k <= n /\ k <= m => h[k] = g[k]}
  <1>1. 0 \in T
    BY DEF Table
  <1>2. ASSUME NEW k \in Nat, k \in T
        PROVE  k + 1 \in T
    <2> SUFFICES ASSUME k + 1 <= n, k + 1 <= m PROVE h[k + 1] = g[k + 1]
      OBVIOUS
    <2>1. k + 1 \in 1 .. n /\ k + 1 \in 1 .. m /\ (k + 1) - 1 = k
      OBVIOUS
    <2> QED
      BY <1>2, <2>1 DEF Table
  <1> HIDE DEF T
  <1>3. \A k \in Nat : k \in T
    BY <1>1, <1>2, Induction
  <1> QED
    BY <1>3 DEF T

\* So the recursive definition defines what it says.
LEMMA PowersOfTwo ==
    TwoTo[0] = 1 /\ \A n \in Nat : TwoTo[n] \in Nat /\ TwoTo[n + 1] = 2 * TwoTo[n]
  <1> DEFINE tab(n) == CHOOSE h : Table(h, n)
             pow == [n \in Nat |-> tab(n)[n]]
  <1>1. \A n \in Nat : Table(tab(n), n)
    BY TableExists
  <1>2. \A n \in Nat : tab(n + 1)[n] = tab(n)[n]
    <2> TAKE n \in Nat
    <2>1. n \in 0 .. n + 1 /\ n <= n /\ n + 1 \in Nat
      OBVIOUS
    <2> HIDE DEF tab
    <2>2. Table(tab(n), n) /\ Table(tab(n + 1), n + 1)
      BY <1>1, <2>1
    <2> QED
      BY <2>1, <2>2, TableUnique
  <1> HIDE DEF tab
  <1>3. pow[0] = 1 /\ \A n \in Nat : pow[n] \in Nat /\ pow[n + 1] = 2 * pow[n]
    <2>1. pow[0] = 1
      BY <1>1 DEF Table
    <2>2. ASSUME NEW n \in Nat
          PROVE  pow[n] \in Nat /\ pow[n + 1] = 2 * pow[n]
      <3>1. Table(tab(n), n) /\ Table(tab(n + 1), n + 1) /\ tab(n + 1)[n] = tab(n)[n]
        BY <1>1, <1>2
      <3>2. n + 1 \in 1 .. n + 1 /\ (n + 1) - 1 = n /\ n \in 0 .. n
        OBVIOUS
      <3>3. tab(n + 1)[n + 1] = 2 * tab(n + 1)[n] /\ tab(n)[n] \in Nat
        BY <3>1, <3>2 DEF Table
      <3> QED
        BY <3>1, <3>3
    <2> QED
      BY <2>1, <2>2
  <1> HIDE DEF pow
  <1>4. pow = [n \in Nat |-> IF n = 0 THEN 1 ELSE 2 * pow[n - 1]]
    <2>1. pow = [n \in Nat |-> pow[n]]
      BY DEF pow
    <2>2. ASSUME NEW n \in Nat PROVE pow[n] = IF n = 0 THEN 1 ELSE 2 * pow[n - 1]
      <3>1. CASE n = 0
        BY <3>1, <1>3
      <3>2. CASE n # 0
        <4>1. n - 1 \in Nat /\ (n - 1) + 1 = n
          BY <3>2
        <4> QED
          BY <3>2, <4>1, <1>3
      <3> QED
        BY <3>1, <3>2
    <2> QED
      BY <2>1, <2>2, Zenon
  <1>5. TwoTo = [n \in Nat |-> IF n = 0 THEN 1 ELSE 2 * TwoTo[n - 1]]
    BY <1>4 DEF TwoTo
  <1> HIDE DEF TwoTo
  <1>6. TwoTo[0] = 1 /\ \A n \in Nat : TwoTo[n + 1] = 2 * TwoTo[n]
    <2>1. TwoTo[0] = 1
      BY <1>5
    <2>2. ASSUME NEW n \in Nat PROVE TwoTo[n + 1] = 2 * TwoTo[n]
      <3>1. n + 1 \in Nat /\ n + 1 # 0 /\ (n + 1) - 1 = n
        OBVIOUS
      <3> QED
        BY <3>1, <1>5
    <2> QED
      BY <2>1, <2>2
  <1> DEFINE T == {n \in Nat : TwoTo[n] \in Nat}
  <1>7. 0 \in T /\ \A n \in Nat : n \in T => n + 1 \in T
    BY <1>6
  <1> HIDE DEF T
  <1>8. \A n \in Nat : n \in T
    BY <1>7, Induction
  <1> QED
    BY <1>6, <1>8 DEF T

\* What is waited for at least after n short sessions in a row, n > 0.
Doubled(n) == Least(Min * TwoTo[n - 1], Max)

\* The step has grown with the streak, and what was waited since the last session is half of it: less
\* what is still to be waited in the backoff.
Grown ==
    st \notin Ended =>
        /\ hist.short > 0 => delay # 0 /\ delay >= Doubled(hist.short)
        /\ hist.short > 0 /\ st = "backoff" => at - hist.ended >= delay \div 2
        /\ hist.short > 0 /\ st = "top" => now - hist.ended >= delay \div 2
        /\ hist.short > 0 /\ st = "session" => started - hist.ended >= delay \div 2

\* The first bound is the first step ...
LEMMA DoubledFirst == Doubled(1) = Min
  <1>1. TwoTo[1 - 1] = 1
    BY PowersOfTwo
  <1> QED
    BY <1>1, TimeAssumption DEF Doubled, Least

\* ... and each one is at most the double of the one before.
LEMMA DoubledNext ==
    ASSUME NEW n \in Nat, n > 0
    PROVE  /\ Doubled(n) \in Nat /\ Doubled(n + 1) \in Nat
           /\ Doubled(n + 1) <= 2 * Doubled(n) /\ Doubled(n + 1) <= Max
  <1>1. PICK p \in Nat : p = TwoTo[n - 1]
    BY PowersOfTwo
  <1>2. TwoTo[(n + 1) - 1] = 2 * p
    <2>1. n - 1 \in Nat /\ (n + 1) - 1 = (n - 1) + 1
      OBVIOUS
    <2>2. TwoTo[(n - 1) + 1] = 2 * TwoTo[n - 1]
      BY <2>1, PowersOfTwo
    <2> QED
      BY <1>1, <2>1, <2>2
  <1>3. PICK m \in Nat : m = Min * p
    BY TimeAssumption
  <1>4. Min * (2 * p) = 2 * m
    BY <1>3, TimeAssumption
  <1>5. Doubled(n) = Least(m, Max)
    BY <1>1, <1>3 DEF Doubled
  <1>6. Doubled(n + 1) = Least(2 * m, Max)
    BY <1>2, <1>4 DEF Doubled
  <1> QED
    BY <1>5, <1>6, TimeAssumption DEF Least

\* The next step after a short session is at least the next bound.
LEMMA StepGrows ==
    ASSUME NEW n \in Nat, NEW prev \in {0} \cup (Min..Max), NEW lasted \in Int, lasted < Max,
           n > 0 => prev # 0 /\ prev >= Doubled(n)
    PROVE  NextForwardReconnectDelay(prev, lasted) >= Doubled(n + 1)
  <1>1. CASE n = 0
    BY <1>1, DoubledFirst, TimeAssumption DEF NextForwardReconnectDelay, Least
  <1>2. CASE n > 0
    <2>1. Doubled(n + 1) <= 2 * Doubled(n) /\ Doubled(n + 1) <= Max /\ Doubled(n) \in Nat /\ Doubled(n + 1) \in Nat
      BY <1>2, DoubledNext
    <2>2. NextForwardReconnectDelay(prev, lasted) = Least(2 * prev, Max)
      BY <1>2 DEF NextForwardReconnectDelay
    <2> QED
      BY <1>2, <2>1, <2>2, TimeAssumption DEF Least
  <1> QED
    BY <1>1, <1>2

\* A jittered wait is at least half of its step.
LEMMA JitterHalf ==
    ASSUME NEW step \in Min..Max, NEW wait \in EqualJitter(step)
    PROVE  wait \in Nat /\ wait >= step \div 2
  BY TimeAssumption DEF EqualJitter

\* The loop starts with no session behind it.
LEMMA InitGrown == Init => Grown
  BY DEF Init, Grown

\* A session that returned: the streak and the step grow together.
LEMMA ReturnGrown ==
    ASSUME IInv, Grown, NEW refused \in BOOLEAN, SessionReturns(refused)
    PROVE  Grown'
  <1>1. CASE st' \in Policies
    BY <1>1, TimeAssumption DEF Grown, Ended
  <1>2. CASE st' \notin Policies
    <2>1. PICK lasted \in Int : lasted = now - started
      BY DEF IInv, TypeOK
    <2>2. PICK step : step = NextForwardReconnectDelay(delay, lasted)
      OBVIOUS
    <2>3. step \in Min..Max
      BY <2>1, <2>2, DelayBounded DEF IInv, TypeOK
    <2>4. /\ st = "session" /\ st' = "backoff" /\ delay' = step /\ \E wait \in EqualJitter(step) : at' = now + wait
          /\ hist'.short = (IF lasted < Max THEN hist.short + 1 ELSE 0) /\ hist'.ended = now
      BY <1>2, <2>1, <2>2 DEF SessionReturns, EndForwardForOwnGrant
    <2>5. PICK wait \in EqualJitter(step) : at' = now + wait
      BY <2>4
    <2>6. at' - hist'.ended >= delay' \div 2
      BY <2>3, <2>4, <2>5, JitterHalf, TimeAssumption DEF IInv, TypeOK
    <2>7. hist'.short > 0 => delay' # 0 /\ delay' >= Doubled(hist'.short)
      <3>1. CASE lasted < Max
        <4>1. hist.short \in Nat /\ (hist.short > 0 => delay # 0 /\ delay >= Doubled(hist.short))
          BY <2>4 DEF IInv, TypeOK, Grown, Ended
        <4>2. step >= Doubled(hist.short + 1)
          BY <2>1, <2>2, <3>1, <4>1, StepGrows DEF IInv, TypeOK
        <4> QED
          BY <2>3, <2>4, <3>1, <4>2, TimeAssumption
      <3>2. CASE ~(lasted < Max)
        BY <2>4, <3>2
      <3> QED
        BY <3>1, <3>2
    <2> QED
      BY <2>4, <2>6, <2>7 DEF Grown
  <1> QED
    BY <1>1, <1>2

\* Every step of the loop keeps the bounds.
LEMMA NextGrown == IInv /\ Grown /\ [Next]_vars => Grown'
  <1> SUFFICES ASSUME IInv, Grown, [Next]_vars
               PROVE  Grown'
    OBVIOUS
  <1> USE DEF Ended
  <1>0. TypeOK /\ now \in Nat /\ at \in Nat /\ delay \in Int /\ hist.short \in Nat /\ hist.ended \in Nat
    BY TimeAssumption DEF IInv, TypeOK
  <1>1. CASE Admit
    BY <1>0, <1>1 DEF Admit, Grown, Doubled
  <1>2. CASE AdmitExpired \/ TornDown \/ ExpiresInBackoff
    BY <1>2, TimeAssumption DEF AdmitExpired, TornDown, ExpiresInBackoff, EndForwardForOwnGrant, Grown
  <1>3. CASE \E refused \in BOOLEAN : SessionReturns(refused)
    BY <1>3, ReturnGrown
  <1>4. CASE ExpiresInSession
    BY <1>4 DEF ExpiresInSession, Grown, Doubled
  <1>5. CASE BackoffOver
    <2>1. delay \div 2 \in Int
      BY <1>0
    <2> QED
      BY <1>0, <1>5, <2>1 DEF BackoffOver, Grown, Doubled
  <1>6. CASE GateRecords \/ Connect \/ EngineAccepts \/ Dismiss
    BY <1>6 DEF GateRecords, Connect, EngineAccepts, Dismiss, Grown, Doubled
  <1>7. CASE Tick
    BY <1>0, <1>7 DEF Tick, Urgent, Grown, Doubled
  <1>8. CASE UNCHANGED vars
    BY <1>8 DEF vars, Grown, Doubled
  <1> QED
    BY <1>1, <1>2, <1>3, <1>4, <1>5, <1>6, <1>7, <1>8 DEF Next

\* For every first step and cap, after the n-th session in a row that was no healthy one the next admission
\* comes no sooner than half of the doubled step, jitter included (next_forward_reconnect_delay, equal_jitter).
THEOREM BackoffAlwaysGrows == Spec => []BackoffGrows
  <1>1. IInv /\ Grown => BackoffGrows
    <2> SUFFICES ASSUME IInv, Grown, st = "session", hist.short > 0
                 PROVE  started - hist.ended >= Doubled(hist.short) \div 2
      BY DEF BackoffGrows, Doubled
    <2>1. delay >= Doubled(hist.short) /\ started - hist.ended >= delay \div 2
      BY DEF Grown, Ended
    <2>2. Doubled(hist.short) \in Nat
      BY DoubledNext DEF IInv, TypeOK
    <2> QED
      BY <2>1, <2>2, TimeAssumption DEF IInv, TypeOK
  <1>2. Init => Grown
    BY InitGrown
  <1>3. IInv /\ Grown /\ [Next]_vars => Grown'
    BY NextGrown
  <1> QED
    BY <1>1, <1>2, <1>3, InvariantHolds, PTL DEF Spec
=============================================================================
