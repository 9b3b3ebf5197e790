---------------------------- MODULE FallbackPool ----------------------------
(***************************************************************************)
(* The TLS-TCP fallback pool of the tunnel agent (serve.rs): workers that  *)
(* each keep one single-use registration parked at the edge, the pool loop *)
(* that replaces a consumed one, the QUIC reprobe beside it, and the view  *)
(* of the token's revocation that every registration loop feeds.           *)
(*                                                                         *)
(* The pool and its workers run on different threads.  A worker reads the  *)
(* edge's STOP and tells the pool in two steps; the pool learns of a       *)
(* worker's end when it joins it.  The hand-over to QUIC hears the last    *)
(* signals, then aborts what is not relaying; an abort lands at the        *)
(* worker's next await, after the poll it is in, if it is in one.          *)
(* Delays (backoffs, probe intervals) take any time.                       *)
(* The edge may accept, refuse or drop as it likes; it refuses every       *)
(* registration of a token that is revoked at the plane, and may refuse    *)
(* any other over its own cap.                                             *)
(***************************************************************************)
EXTENDS Integers, Sequences, FiniteSets

CONSTANTS
    PoolSize,    \* tcp_fallback_pool_size, max(1)
    MaxServing,  \* tcp_fallback_max_serving, max(1)
    Rungs,       \* how many TLS-TCP rungs tcp_rungs lists
    Attempts,    \* CT_AGENT_RECONNECT_MAX_ATTEMPTS, finite here
    RefusalsBeforeRevoked,    \* AMBIGUOUS_REFUSALS_BEFORE_REVOKED
    Strikes,     \* SHORT_REGISTRATION_STRIKES
    Ids          \* bound: worker ids 1..Ids

ASSUME PoolAssumption ==
    /\ \A n \in {PoolSize, MaxServing, Rungs, Attempts, RefusalsBeforeRevoked, Strikes} : n \in Nat \ {0}
    /\ Ids \in Nat /\ Ids >= PoolSize

VARIABLES
    pool,    \* the loop: whether it runs, its handles, its serving set, given_up, next_id,
             \* the streak of answered probes, the probe in flight, what the policy wants
    worker,  \* per id: what it does, rung, backoff steps, short-lived ones, refusals in a row,
             \* and whether it was aborted
    signals, \* consumed_tx: ids on their way to the pool
    refusedView, \* RevocationView
    edge,    \* the edge: the plane's revocation, whether UDP gets through, the QUIC registration
    lateNo   \* history: the view was set by a worker that was aborted already

poolVars == <<pool, worker, signals, refusedView, edge, lateNo>>

WorkerIds == 1..Ids
Unused == [st |-> "unused", rung |-> 1, tries |-> 0, short |-> 0, noes |-> 0, doomed |-> FALSE]

\* A worker that will not register any more: its counters are over.
Done(st) == [Unused EXCEPT !.st = st]
Fresh == [Unused EXCEPT !.st = "try"]
NoPool == [on |-> FALSE, handles |-> {}, serving |-> {}, gaveUp |-> 0, next |-> 1,
           streak |-> 0, probe |-> "none", confirm |-> 1]

PoolInit ==
    /\ pool = NoPool
    /\ worker = [w \in WorkerIds |-> Unused]
    /\ signals = << >>
    /\ refusedView = FALSE
    /\ edge = [revoked |-> FALSE, udp |-> FALSE, quic |-> FALSE]
    /\ lateNo = FALSE

-----------------------------------------------------------------------------
(* RevocationTracker. *)

\* apply: a NO of the fallback's admission counts, per loop, until it has come RefusalsBeforeRevoked times.
Apply(w) == refusedView' = (refusedView \/ worker[w].noes + 1 >= RefusalsBeforeRevoked)

-----------------------------------------------------------------------------
(* run_agent_tcp_fallback_worker and tcp_connect_register_serve. *)

Working(w, states) == worker[w].st \in states /\ ~worker[w].doomed

\* One more backoff step, or the end of the budget.
BackOff(rec) == IF rec.tries >= Attempts THEN Done("err")
                ELSE [rec EXCEPT !.st = "wait", !.tries = @ + 1]
TryAgain(rec) == [rec EXCEPT !.st = "try", !.rung = 1]
StartsOver(rec) == [rec EXCEPT !.tries = 0, !.short = 0]

\* The edge accepts: the ping-capable role (K, L, F), or the plain one (A, B) on a second
\* connection.  Any accepted registration clears the view.
WorkerRegisters(w, role) ==
    /\ Working(w, {"try"}) /\ ~edge.revoked
    /\ worker' = [worker EXCEPT ![w].st = role, ![w].noes = 0]
    /\ refusedView' = FALSE /\ lateNo' = FALSE
    /\ UNCHANGED <<pool, signals, edge>>

\* This rung is over: the next one, or a backoff step and all of them again.
NextRung(rec) == IF rec.rung < Rungs THEN [rec EXCEPT !.rung = @ + 1]
                 ELSE BackOff([rec EXCEPT !.rung = 1])

\* The final verdict of the attempt is the edge's NO: the token is revoked, or the cap is full.
WorkerRefused(w) ==
    /\ Working(w, {"try"})
    /\ LET n == worker[w].noes IN
       worker' = [worker EXCEPT ![w] = NextRung([@ EXCEPT !.noes = IF n < RefusalsBeforeRevoked THEN n + 1 ELSE n])]
    /\ Apply(w)
    /\ UNCHANGED <<pool, signals, edge, lateNo>>

\* No verdict: a dial, a handshake or an answer that failed.
WorkerFails(w) ==
    /\ Working(w, {"try"})
    /\ worker' = [worker EXCEPT ![w] = NextRung(@)]
    /\ UNCHANGED <<pool, signals, refusedView, edge, lateNo>>

WorkerWaited(w) ==
    /\ Working(w, {"wait"})
    /\ worker' = [worker EXCEPT ![w] = TryAgain(@)]
    /\ UNCHANGED <<pool, signals, refusedView, edge, lateNo>>

\* A registration that ended without a Client: routine after a while, a strike at once.
ParkEnded(rec, long) ==
    IF long THEN TryAgain(StartsOver(rec))
    ELSE IF rec.short + 1 < Strikes THEN [rec EXCEPT !.st = "wait", !.short = @ + 1]
    ELSE BackOff([rec EXCEPT !.short = Strikes])

\* A park that dies, or a plain tunnel that ends with an error.
WorkerLosesPark(w, long) ==
    /\ Working(w, {"park", "plain", "plainrelay"})
    /\ worker' = [worker EXCEPT ![w] = ParkEnded(@, long)]
    /\ UNCHANGED <<pool, signals, refusedView, edge, lateNo>>

\* The edge relays a Client: a STOP byte, or just the first bytes on a plain registration.
EdgeDelivers(w) ==
    /\ Working(w, {"park", "plain"})
    /\ worker' = [worker EXCEPT ![w] = IF @.st = "park" THEN Done("stop") ELSE [@ EXCEPT !.st = "plainrelay"]]
    /\ UNCHANGED <<pool, signals, refusedView, edge, lateNo>>

\* ConsumedSignal::fire: to a pool that still listens, or past the hand-over's last look.
WorkerFires(w) ==
    /\ Working(w, {"stop"})
    /\ IF pool.probe = "leaving"
       THEN worker' = [worker EXCEPT ![w].st = "late"] /\ UNCHANGED signals
       ELSE worker' = [worker EXCEPT ![w].st = "relay"] /\ signals' = Append(signals, w)
    /\ UNCHANGED <<pool, refusedView, edge, lateNo>>

\* The tunnel is over: a consumed worker is done, a plain one registers again.
WorkerServed(w) ==
    /\ Working(w, {"relay", "late", "plainrelay", "detached"})
    /\ worker' = [worker EXCEPT ![w] = CASE @.st = "plainrelay" -> TryAgain(StartsOver(@))
                                         [] @.st = "detached" -> Done("gone")
                                         [] OTHER -> Done("ok")]
    /\ UNCHANGED <<pool, signals, refusedView, edge, lateNo>>

WorkerPanics(w) ==
    /\ Working(w, {"try", "relay"}) /\ w \in pool.handles
    /\ worker' = [worker EXCEPT ![w] = Done("panic")]
    /\ UNCHANGED <<pool, signals, refusedView, edge, lateNo>>

-----------------------------------------------------------------------------
(* run_tcp_fallback_pool_on. *)

Most(a, b) == IF a < b THEN b ELSE a
Fewest(a, b) == IF a < b THEN a ELSE b
Target(p) == Most(PoolSize - p.gaveUp, 0)

\* How many workers top_up! spawns.
Missing(p) ==
    Most(Fewest(Target(p) - Cardinality(p.handles \ p.serving),
                Target(p) + MaxServing - Cardinality(p.handles)), 0)

\* The state after top_up!; ws are the workers as the arm leaves them.
TopUp(p, ws) ==
    LET new == p.next..(p.next + Missing(p) - 1) IN
    /\ p.next + Missing(p) - 1 <= Ids
    /\ pool' = [p EXCEPT !.handles = @ \cup new, !.next = p.next + Missing(p)]
    /\ worker' = [w \in WorkerIds |-> IF w \in new THEN Fresh ELSE ws[w]]

Queued == {signals[i] : i \in DOMAIN signals}

\* The signals that are already queued, booked.
Booked == [pool EXCEPT !.serving = @ \cup (Queued \cap pool.handles)]

\* What an earlier pool may leave behind: a tunnel that runs to its end, an abort that has not landed.
Outlives(w) == worker[w].doomed \/ worker[w].st = "detached"

\* Ids above every worker of an earlier pool.
PoolStarts(confirm) ==
    /\ signals' = << >>
    /\ LET ws == [w \in WorkerIds |-> IF Outlives(w) THEN worker[w] ELSE Unused] IN
       \E free \in 1..(Ids + 1) :
         /\ \A w \in free..Ids : ws[w] = Unused
         /\ free > 1 => ws[free - 1] # Unused
         /\ TopUp([NoPool EXCEPT !.on = TRUE, !.next = free, !.confirm = confirm], ws)

\* The loop is at its select!.
Selects == pool.on /\ pool.handles # {} /\ pool.probe # "leaving"

\* A worker ended: join_next.
PoolJoins(w) ==
    /\ Selects /\ Working(w, {"ok", "err"})
    /\ signals' = << >>
    /\ TopUp([Booked EXCEPT !.handles = @ \ {w}, !.serving = @ \ {w},
                            !.gaveUp = IF worker[w].st = "err" THEN @ + 1 ELSE @],
             [worker EXCEPT ![w] = Done(IF @.st = "err" THEN "lost" ELSE "gone")])
    /\ UNCHANGED <<refusedView, edge, lateNo>>

\* A panic has no id: every handle that is finished goes, joined or not.
PoolJoinsPanicked(w) ==
    /\ Selects /\ Working(w, {"panic"})
    /\ signals' = << >>
    /\ LET left == {v \in pool.handles : ~Working(v, {"ok", "err", "panic"})} IN
       TopUp([Booked EXCEPT !.handles = left, !.serving = @ \cap left, !.gaveUp = @ + 1],
             [worker EXCEPT ![w] = Done("lost")])
    /\ UNCHANGED <<refusedView, edge, lateNo>>

\* Mutation: nothing is spawned for a consumed registration.
PoolHearsOnly ==
    /\ Selects /\ signals # << >>
    /\ signals' = Tail(signals)
    /\ pool' = [pool EXCEPT !.serving = @ \cup ({Head(signals)} \cap pool.handles)]
    /\ UNCHANGED <<worker, refusedView, edge, lateNo>>

\* A registration was consumed.
PoolHears ==
    /\ Selects /\ signals # << >>
    /\ signals' = Tail(signals)
    /\ TopUp([pool EXCEPT !.serving = @ \cup ({Head(signals)} \cap pool.handles)], worker)
    /\ UNCHANGED <<refusedView, edge, lateNo>>

\* The probe's deadline: it registers iff its answer would complete the streak.
ProbeDue ==
    /\ Selects /\ pool.confirm > 0 /\ pool.probe = "none"
    /\ pool' = [pool EXCEPT !.probe = IF pool.streak + 1 >= pool.confirm THEN "register" ELSE "look"]
    /\ UNCHANGED <<worker, signals, refusedView, edge, lateNo>>

\* quic_reprobe: what the edge answers, ahead of the pool's look at it.
ProbeRegisters ==
    /\ pool.probe = "register" /\ edge.udp /\ ~edge.revoked
    /\ pool' = [pool EXCEPT !.probe = "registered"]
    /\ edge' = [edge EXCEPT !.quic = TRUE]
    /\ UNCHANGED <<worker, signals, refusedView, lateNo>>

\* Unanswered, answered and closed again, or refused over the probe's connection.
ProbeOver ==
    /\ Selects
    /\ \/ pool.probe \in {"look", "register"} /\ pool' = [pool EXCEPT !.probe = "none", !.streak = 0]
       \/ pool.probe = "look" /\ edge.udp /\ pool' = [pool EXCEPT !.probe = "none", !.streak = @ + 1]
    /\ UNCHANGED <<worker, signals, refusedView, edge, lateNo>>

\* Mutation: what is queued is not heard before the parked workers are told from the others.
LeavesUnheard ==
    /\ Selects /\ pool.probe = "registered"
    /\ pool' = [pool EXCEPT !.probe = "leaving"]
    /\ signals' = << >>
    /\ UNCHANGED <<worker, refusedView, edge, lateNo>>

\* The QUIC registration stands: the signals that are queued are heard, and no others.
HandOverHears ==
    /\ Selects /\ pool.probe = "registered"
    /\ pool' = [Booked EXCEPT !.probe = "leaving"]
    /\ signals' = << >>
    /\ UNCHANGED <<worker, refusedView, edge, lateNo>>

\* Of an aborted worker, what it was at and the refusals its loop has counted are left.
Aborted(rec) == [Done(rec.st) EXCEPT !.noes = rec.noes, !.doomed = TRUE]

\* A worker as the pool leaves it: aborted, left to finish its Client, or ended already.
LeftBy(w) ==
    IF Working(w, {"ok", "err", "panic"}) THEN Done("gone")
    ELSE IF w \in pool.handles \ pool.serving THEN Aborted(worker[w])
    ELSE IF Working(w, {"relay"}) THEN [worker[w] EXCEPT !.st = "detached"]
    ELSE worker[w]

\* The parked workers are aborted, the relaying ones detached; run_agent then notes the success
\* in the view (HandsOver is its step too).
HandsOver ==
    /\ pool.on /\ pool.probe = "leaving"
    /\ worker' = [w \in WorkerIds |-> LeftBy(w)]
    /\ pool' = NoPool
    /\ refusedView' = FALSE /\ lateNo' = FALSE
    /\ UNCHANGED signals

\* An abort lands: the worker is gone, with the Client it has, or reads of in its last poll.
AbortLands(w) ==
    /\ worker[w].doomed
    /\ worker' = [worker EXCEPT ![w] = Done("gone")]
    /\ UNCHANGED <<pool, signals, refusedView, edge, lateNo>>

\* The poll an aborted worker is in may still read the edge's verdict and note it.
LastVerdict(w, ok) ==
    /\ worker[w].doomed /\ worker[w].st = "try"
    /\ worker' = [worker EXCEPT ![w] = Done("gone")]
    /\ IF ok THEN ~edge.revoked /\ refusedView' = FALSE /\ lateNo' = FALSE
       ELSE Apply(w) /\ lateNo' = (lateNo \/ refusedView')
    /\ UNCHANGED <<pool, signals, edge>>

\* The last worker is gone.
PoolEnds ==
    /\ pool.on /\ pool.handles = {}
    /\ pool' = NoPool
    /\ signals' = << >>
    /\ worker' = [w \in WorkerIds |-> IF Working(w, {"ok", "err", "panic"}) THEN Done("gone")
                                      ELSE worker[w]]

WorkerNext ==
    \E w \in WorkerIds :
        \/ \E role \in {"park", "plain"} : WorkerRegisters(w, role)
        \/ WorkerRefused(w) \/ WorkerFails(w) \/ WorkerWaited(w)
        \/ \E long \in BOOLEAN : WorkerLosesPark(w, long)
        \/ EdgeDelivers(w) \/ WorkerFires(w) \/ WorkerServed(w) \/ WorkerPanics(w)
        \/ PoolJoins(w) \/ PoolJoinsPanicked(w)
        \/ AbortLands(w) \/ \E ok \in BOOLEAN : LastVerdict(w, ok)

PoolNext == WorkerNext \/ PoolHears \/ ProbeDue \/ ProbeRegisters \/ ProbeOver \/ HandOverHears

-----------------------------------------------------------------------------
(* Properties. *)

\* What the workers of the pool really do, whatever its books say.
Doing(states) == {w \in WorkerIds : Working(w, states)}
Parking == Doing({"try", "wait", "park", "plain"})
Relaying == Doing({"relay"})
PlainRelays == Doing({"plainrelay"})
Lost == Doing({"lost"})

\* Nothing is on its way to the pool: no Client it was not told of, no end it has not joined.
Settled ==
    /\ pool.on /\ pool.probe # "leaving"
    /\ signals = << >> /\ Doing({"stop", "ok", "err", "panic"}) = {}

\* A burst never drains the pool (CADS-Tunnel#799) and never grows it past its cap: as soon as
\* nothing is on its way to the pool, the workers that register or are parked are as many as
\* PoolSize without the ones that gave up or panicked, or more than MaxServing relay a Client;
\* and at any time the registrations and tunnels are no more than the cap.  A worker that serves
\* a plain registration has told nobody (there is no STOP) and stands in for a parked one.
ParkedKeptUp ==
    /\ Cardinality(Doing({"try", "wait", "park", "plain", "plainrelay", "stop", "late", "relay"}))
           <= PoolSize + MaxServing
    /\ Settled =>
           \/ Cardinality(Parking \cup PlainRelays) >= PoolSize - Cardinality(Lost)
           \/ Cardinality(Relaying) > MaxServing

\* The hand-over to QUIC aborts no worker that told the pool of its Client before the pool's last
\* look.  (A worker that has not told yet, tells too late or serves a plain registration is taken
\* for a parked one, and its Client is cut.)
ToldNeverCut == \A w \in WorkerIds : worker[w].doomed => worker[w].st # "relay"
=============================================================================
