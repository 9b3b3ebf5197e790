--------------------------- MODULE ShutdownDrain ----------------------------
(***************************************************************************)
(* A stop signal and a running `ct-agent channel` process: the work that   *)
(* counts as in flight (health.rs), the stop that keeps new work out, the  *)
(* drain that waits for the rest and the exit status (shutdown.rs).        *)
(*                                                                         *)
(* A tick is one DRAIN_POLL.  A unit of work is a session, or a forwarded  *)
(* stream of a forward member; its ticket counts are read off its phase.   *)
(* Steps without an await in between are separate steps all the same: the  *)
(* drain runs on another thread.  They are over before the next tick.      *)
(***************************************************************************)
EXTENDS Integers, FiniteSets

CONSTANTS
    Units,      \* the sessions or streams
    Members,    \* what the process may be: of MemberKinds
    DrainTime,  \* CT_CHANNEL_SHUTDOWN_DRAIN_SECS
    Debounce,   \* REPEAT_DEBOUNCE
    MaxTime     \* the clock stops here

\* quic: sessions run over QUIC, and wait for their tail.
MemberKinds == [kind : {"serve", "oneshot", "forward_initiate", "forward_accept"}, quic : BOOLEAN]

\* A process that runs one session, over QUIC.
OneShot == {[kind |-> "oneshot", quic |-> TRUE]}

ASSUME DrainAssumption ==
    /\ DrainTime \in Nat /\ Debounce \in Nat \ {0} /\ MaxTime \in Nat
    /\ Members \subseteq MemberKinds
    /\ IsFiniteSet(Units)

VARIABLES
    now,    \* the clock
    member, \* what the process is
    work,   \* the phase of every unit
    stop,   \* when the first signal came, the first that counts as another, and (history)
            \* whether a session was past its handshake then
    drain,  \* drain_in_flight
    out     \* how it ended, and the exit status

vars == <<now, member, work, stop, drain, out>>

Never == MaxTime + 1
Forward == member.kind \in {"forward_initiate", "forward_accept"}

\* persistent_member.
Persistent == member.kind # "oneshot"

Init ==
    /\ now = 0
    /\ member \in Members
    /\ work = [u \in Units |-> "none"]
    /\ stop = [first |-> Never, again |-> Never, past |-> FALSE]
    /\ drain = [st |-> "off", looks |-> 0, at |-> Never]
    /\ out = [end |-> "none", status |-> 0, early |-> FALSE]

Alive == drain.st # "gone"
Stopped == stop.first # Never
Goes(u, from, to) == work[u] = from /\ work' = [work EXCEPT ![u] = to]
In(phases) == {u \in Units : work[u] \in phases}

-----------------------------------------------------------------------------
(* Work. *)

\* The ticket counts of ChannelHealth.
Established == Cardinality(In({"pump"}))
QuicTails == Cardinality(In({"tail"}))
Serving == IF member.kind = "serve" THEN Cardinality(In({"setup", "pump", "handoff", "tail"})) ELSE 0
ForwardStreams == Cardinality(In({"stream"}))

\* Mutation: a serve session in its setup is not counted.
InFlightEstablished == IF Forward THEN ForwardStreams ELSE Established + QuicTails

\* ChannelHealth::in_flight.
InFlight ==
    IF Forward THEN ForwardStreams
    ELSE IF Established + QuicTails > Serving THEN Established + QuicTails ELSE Serving

\* An admission parks, one at a time, and once for a one-shot member; admit_next_peer opens
\* none after the stop.
Park(u) ==
    /\ member.kind = "serve" => ~Stopped
    /\ In({"parked", "paired"}) = {}
    /\ Persistent \/ \A v \in Units : work[v] = "none"
    /\ Goes(u, "none", "parked")

\* The edge pairs the park; unless_stopped looks at the stop first.
Pair(u) ==
    /\ member.kind = "serve" => ~Stopped
    /\ Goes(u, "parked", "paired")

\* The park expires, fails, or is dropped by the stop.
Unpark(u) == Goes(u, "parked", "none")

\* The paired session starts; a serve session's ticket is taken here.
Spawn(u) == Goes(u, "paired", "setup")

\* The Noise handshake is done: session_established; or the setup fails.
Establish(u) == Goes(u, "setup", "pump") \/ Goes(u, "setup", "failed")

\* The pump is over and its ticket dropped; on QUIC the tail's ticket is the next statement.
PumpEnds(u) ==
    \/ Goes(u, "pump", IF member.quic THEN "handoff" ELSE "done")
    \/ Goes(u, "pump", "failed")
QuicTail(u) == Goes(u, "handoff", "tail")
TailAcked(u) == Goes(u, "tail", "done")

\* A local connection, or the peer's Open; the initiator's engine refuses it after the stop.
StreamAccepted(u) ==
    /\ Forward
    /\ member.kind = "forward_initiate" => ~Stopped
    /\ Goes(u, "none", "accepted")

\* Its task is spawned, and counted from here.
StreamOpens(u) == Goes(u, "accepted", "stream")
StreamEnds(u) == Goes(u, "stream", "done")

Session(u) ==
    \/ ~Forward /\ Park(u)
    \/ Pair(u) \/ Unpark(u) \/ Spawn(u) \/ Establish(u) \/ PumpEnds(u) \/ QuicTail(u) \/ TailAcked(u)
Work ==
    /\ Alive
    /\ \E u \in Units : Session(u) \/ StreamAccepted(u) \/ StreamOpens(u) \/ StreamEnds(u)
    /\ UNCHANGED <<now, member, stop, drain, out>>

\* A one-shot member's transfer is over: main returns.
MainReturns ==
    /\ Alive
    /\ member.kind = "oneshot"
    /\ In({"done", "failed"}) # {}
    /\ drain' = [drain EXCEPT !.st = "gone"]
    /\ out' = [end |-> "returned", status |-> IF In({"failed"}) = {} THEN 0 ELSE 1, early |-> FALSE]
    /\ UNCHANGED <<now, member, work, stop>>

-----------------------------------------------------------------------------
(* The stop. *)

\* The first signal: unready, the stop cancelled, the drain begins.
FirstSignal ==
    /\ Alive
    /\ ~Stopped
    /\ stop' = [stop EXCEPT !.first = now, !.past = In({"pump", "handoff", "tail"}) # {}]
    /\ drain' = [drain EXCEPT !.st = "look"]
    /\ UNCHANGED <<now, member, work, out>>

\* second_stop: another signal counts from Debounce on, a sooner one is a copy.
NextSignal ==
    /\ Alive
    /\ Stopped
    /\ stop.again = Never
    /\ now - stop.first >= Debounce
    /\ stop' = [stop EXCEPT !.again = now]
    /\ UNCHANGED <<now, member, work, drain, out>>

Deadline == stop.first + DrainTime

\* exit_status: what the signal gives, for a one-shot member's cut work.
ExitStatus(cut) == IF Persistent \/ cut = 0 THEN 0 ELSE 143

Decide(end, cut) ==
    /\ drain' = [drain EXCEPT !.st = "exiting"]
    /\ out' = [end |-> end, status |-> ExitStatus(cut), early |-> now < Deadline]

\* One round of drain_in_flight: two looks in a row at nothing, or the deadline.
Look ==
    /\ drain.st = "look"
    /\ LET looks == IF InFlight = 0 THEN drain.looks + 1 ELSE 0
       IN IF looks >= 2 THEN Decide("idle", 0)
          ELSE IF now >= Deadline
          THEN Decide(IF InFlight = 0 THEN "idle" ELSE "timed_out", InFlight)
          ELSE drain' = [st |-> "sleep", looks |-> looks, at |-> now + 1] /\ UNCHANGED out
    /\ UNCHANGED <<now, member, work, stop>>

\* Its wait: another signal goes first (biased).
Sleep ==
    /\ drain.st = "sleep"
    /\ IF stop.again # Never THEN Decide("interrupted", InFlight)
       ELSE /\ now >= drain.at
            /\ drain' = [drain EXCEPT !.st = "look"]
            /\ UNCHANGED out
    /\ UNCHANGED <<now, member, work, stop>>

\* std::process::exit.
Exit ==
    /\ drain.st = "exiting"
    /\ drain' = [drain EXCEPT !.st = "gone"]
    /\ UNCHANGED <<now, member, work, stop, out>>

Urgent ==
    \/ drain.st \in {"look", "exiting"}
    \/ drain.st = "sleep" /\ (stop.again # Never \/ now >= drain.at)
    \/ Alive /\ In({"paired", "handoff", "accepted"}) # {}
    \/ Alive /\ member.kind = "serve" /\ Stopped /\ In({"parked"}) # {}

Tick ==
    /\ now < MaxTime
    /\ ~Urgent
    /\ now' = now + 1
    /\ UNCHANGED <<member, work, stop, drain, out>>

Next == Work \/ MainReturns \/ FirstSignal \/ NextSignal \/ Look \/ Sleep \/ Exit \/ Tick

Spec == Init /\ [][Next]_vars

-----------------------------------------------------------------------------
(* Properties. *)

\* Phases, times and the drain's state are in their ranges.
TypeOK ==
    /\ now \in 0..MaxTime
    /\ member \in Members
    /\ work \in [Units -> {"none", "parked", "paired", "setup", "pump", "handoff", "tail",
                            "accepted", "stream", "done", "failed"}]
    /\ stop \in [first : 0..Never, again : 0..Never, past : BOOLEAN]
    /\ drain \in [st : {"off", "look", "sleep", "exiting", "gone"}, looks : 0..1, at : 0..Never]
    /\ out \in [end : {"none", "idle", "timed_out", "interrupted", "returned"},
                status : {0, 1, 143}, early : BOOLEAN]

\* A drain that ended idle before its time cut nothing: no session of a serve member that was
\* paired, however early in its setup, and no stream of a forward initiator.
IdleMeansIdle ==
    (member.kind \in {"serve", "forward_initiate"} /\ drain.st = "gone" /\ out.end = "idle" /\ out.early) =>
        In({"parked", "paired", "setup", "pump", "handoff", "tail", "accepted", "stream"}) = {}

\* The same of a one-shot member's QUIC session that was past its handshake when the stop came,
\* although its two tickets leave a moment in which nothing is counted.
TailWaitedFor ==
    (drain.st = "gone" /\ out.end = "idle" /\ out.early /\ stop.past) =>
        In({"pump", "handoff", "tail"}) = {}

\* The process is gone when the drain time has passed or another stop came, whatever its work
\* does; a copy of the first stop never ends the drain.
ExitsInTime ==
    /\ (Stopped /\ now > Deadline) => ~Alive
    /\ (stop.again # Never /\ now > stop.again) => ~Alive
    /\ out.end = "interrupted" => now >= stop.first + Debounce

\* Between a session's two tickets a look can catch a passing zero, never the two zero looks
\* in a row that the drain needs to end.
TailNeverCut ==
    (drain.st = "gone" /\ out.end = "idle" /\ out.early) => In({"handoff"}) = {}

\* A drain ends when it may and no later: an idle end cut nothing, the tail is waited for, and the
\* process is gone in time.
DrainSound == TypeOK /\ IdleMeansIdle /\ TailWaitedFor /\ ExitsInTime
=============================================================================
