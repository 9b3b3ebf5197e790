---------------------------- MODULE GrantSession ----------------------------
(***************************************************************************)
(* One channel session on one member and the grants that bound it: the     *)
(* gate in front of the session's local side and its GrantLifetime         *)
(* (peer_grant.rs), the control-plane re-check of the peer's grant         *)
(* (grant_watch.rs), and the runner that ends the session (session.rs).    *)
(*                                                                         *)
(* Time is discrete.  A timer that is due and a task that was woken go     *)
(* before the next tick (Tick's guard), so a step that depends on a waker  *)
(* nobody registered never happens by itself: lost wake-ups are visible.   *)
(* Both directions of the pump (noise_pump, external) run in one task: a   *)
(* wake-up polls both.  The prelude is Prelude units long; a unit of       *)
(* application data is one write or one read.                              *)
(***************************************************************************)
EXTENDS Integers, FiniteSets

CONSTANTS
    MaxTime,       \* the clock stops here
    Expiries,      \* the times at which either grant may expire
    Prelude,       \* PRELUDE_LEN, in units
    NetCap,        \* units of the peer's on the network, at most
    GrantTimeout,  \* PEER_GRANT_TIMEOUT
    Interval,      \* WatchConfig.interval
    Grace,         \* WatchConfig.grace
    RequestTimeout,\* REQUEST_TIMEOUT of one status request
    FailGrace,     \* LOCAL_FAILURE_GRACE
    FailDrain,     \* LOCAL_FAILURE_DRAIN
    RelayDrain,    \* RELAY_DRAIN_TIMEOUT
    Setups,        \* how the session may be set up, of SessionSetups
    Require,       \* CT_CHANNEL_REVOCATION=require
    Kinds          \* what the control plane may be: of "ok", "down", "old"

\* check: the peer's grant is checked; watch: and re-checked while the session runs;
\* closes: the local application may close its sending side.
SessionSetups == [check : BOOLEAN, watch : BOOLEAN, closes : BOOLEAN]

\* For the runs.  The re-check comes only with the check, and is looked at while the local side is
\* open: nobody polls the gate of one that has closed (EndsWithOwnGrant).  Then, a session whose
\* peer is checked, and one that may close.
AllSetups == {s \in SessionSetups : s.watch => s.check /\ ~s.closes}
Checked == {[check |-> TRUE, watch |-> FALSE, closes |-> FALSE]}
Plain == {[check |-> FALSE, watch |-> FALSE, closes |-> TRUE]}

ASSUME TimeAssumption ==
    /\ MaxTime \in Nat /\ Expiries \subseteq 1..MaxTime /\ Expiries # {}
    /\ Prelude \in Nat \ {0} /\ GrantTimeout \in Nat \ {0} /\ Interval \in Nat \ {0}
    /\ Grace \in Nat /\ Grace >= Interval /\ RequestTimeout \in Nat \ {0}
    /\ FailGrace \in Nat \ {0} /\ FailDrain \in Nat \ {0} /\ RelayDrain \in Nat
    /\ FailDrain <= RelayDrain
    /\ NetCap \in Nat \ {0} /\ Setups \subseteq SessionSetups /\ Require \in BOOLEAN
    /\ Kinds \subseteq {"ok", "down", "old"} /\ Kinds # {}

VARIABLES
    now,     \* the clock
    setup,   \* the session's configuration, the two expiries, and whether the peer's grant is
             \* a good one otherwise
    gate,    \* PeerGrantGate.gate
    life,    \* GrantLifetime
    record,  \* GrantEndRecord: "no" until a grant's end is recorded
    task,    \* the pump: its two directions, what is to be polled and who wakes it
    watcher, \* watch_peer_grant and the one message it may send
    cp,      \* the control plane
    run,     \* run_channel_session_on_stream
    peer,    \* what the peer has sent and not been read, and whether it closed
    seen     \* history: the last data either way, the times of the verification and of a revocation

vars == <<now, setup, gate, life, record, task, watcher, cp, run, peer, seen>>

Never == MaxTime + 1
Times == 0..MaxTime
Least(a, b) == IF a < b THEN a ELSE b

Init ==
    /\ now = 0
    /\ \E m \in Setups, own \in Expiries, other \in Expiries, good \in BOOLEAN :
         setup = [check |-> m.check, watch |-> m.watch, closes |-> m.closes,
                  own |-> own, peer |-> other, good |-> good]
    /\ gate = [on |-> setup.check, out |-> Prelude, got |-> 0, verified |-> FALSE, failed |-> FALSE,
               deadline |-> Never, reader |-> FALSE]
    /\ life = [expiry |-> setup.own, peer |-> Never, watch |-> FALSE, ended |-> "no"]
    /\ record = "no"
    /\ task = [out |-> "read", in |-> "read", pollOut |-> TRUE, pollIn |-> TRUE,
               onExpiry |-> FALSE, onWatch |-> FALSE, onDeadline |-> FALSE, shut |-> FALSE]
    /\ watcher = [st |-> "none", at |-> Never, lastValid |-> 0, msg |-> "no"]
    /\ cp \in [kind : Kinds, standing : {"members"}]
    /\ run = [st |-> "pump", at |-> Never]
    /\ peer = [net |-> 0, closed |-> FALSE]
    /\ seen = [data |-> -1, from |-> Never, revoked |-> Never]

-----------------------------------------------------------------------------
(* GrantLifetime. *)
\* expired_grant: whose grant ran out, from the expiries the timer was armed with.
ExpiredGrant == IF life.peer < setup.own THEN "peer" ELSE "own"

\* Mutation: a re-check that is gone ends nothing.
PollEndedUnwatched ==
    IF life.ended # "no" THEN life.ended
    ELSE IF life.expiry <= now THEN ExpiredGrant
    ELSE IF ~life.watch \/ watcher.msg = "gone" THEN "no" ELSE watcher.msg

\* poll_ended: whose end a poll finds now, or "no".
PollEnded ==
    IF life.ended # "no" THEN life.ended
    ELSE IF life.expiry <= now THEN ExpiredGrant
    ELSE IF ~life.watch THEN "no"
    ELSE IF watcher.msg = "gone" THEN "peer" ELSE watcher.msg

\* GrantLifetime::end: nothing is watched any more, and the record is set once.
End(whose) ==
    /\ life' = [life EXCEPT !.ended = whose, !.expiry = Never, !.watch = FALSE]
    /\ record' = IF record = "no" THEN whose ELSE record

\* A poll that found no end left the task's waker on the timer and on the re-check.
Registered(t) == [t EXCEPT !.onExpiry = TRUE, !.onWatch = life.watch /\ watcher.msg = "no"]

-----------------------------------------------------------------------------
(* The pump's two directions, through the gate. *)

Running == run.st \in {"pump", "grace"}

\* Gate::arm_deadline.
Armed(g) == [g EXCEPT !.deadline = IF @ = Never THEN now + GrantTimeout ELSE @]

\* Gate::fail, and the reader it wakes.
Failed(g) == [g EXCEPT !.failed = TRUE, !.reader = FALSE]
Woken(g, t) == IF g.reader THEN [t EXCEPT !.pollOut = TRUE, !.pollIn = TRUE] ELSE t

\* Nothing holds application data back any more once the gate is gone.
Opened(g) == [g EXCEPT !.on = ~(g.verified /\ g.out = 0)]

\* A read of the local side itself: data, its end, or nothing yet.
ReadLocal ==
    \/ /\ seen' = [seen EXCEPT !.data = now]
       /\ task' = [Registered(task) EXCEPT !.pollOut = FALSE]
    \/ /\ setup.closes
       /\ task' = [Registered(task) EXCEPT !.out = "eof"]
       /\ UNCHANGED seen
    \/ /\ task' = [Registered(task) EXCEPT !.pollOut = FALSE]
       /\ UNCHANGED seen

\* Mutation: the peer's grant is not waited for.
PollReadEager ==
    IF gate.out > 0
    THEN /\ gate' = Opened([Armed(gate) EXCEPT !.out = @ - 1])
         /\ task' = Registered(task)
         /\ UNCHANGED seen
    ELSE /\ gate' = [gate EXCEPT !.on = FALSE]
         /\ ReadLocal

\* poll_read with the gate in front: this member's prelude first, then nothing until the
\* peer's grant is verified, refused or late.
PollRead ==
    LET g == Armed(gate)
    IN IF gate.out > 0
       THEN /\ gate' = Opened([g EXCEPT !.out = @ - 1])
            /\ task' = Registered(task)
            /\ UNCHANGED seen
       ELSE IF gate.failed \/ (~gate.verified /\ g.deadline <= now)
       THEN /\ gate' = Failed(g)
            /\ task' = [task EXCEPT !.out = "err"]
            /\ UNCHANGED seen
       ELSE IF ~gate.verified
       THEN /\ gate' = [g EXCEPT !.reader = TRUE]
            /\ task' = [Registered(task) EXCEPT !.pollOut = FALSE, !.onDeadline = TRUE]
            /\ UNCHANGED seen
       ELSE /\ gate' = [g EXCEPT !.on = FALSE]
            /\ ReadLocal

\* The outbound direction polls the local side; a grant's end is an EOF and shuts it down.
Outbound ==
    /\ Running
    /\ task.out = "read"
    /\ task.pollOut
    /\ IF PollEnded # "no"
       THEN /\ End(PollEnded)
            /\ task' = [task EXCEPT !.out = "eof", !.shut = TRUE]
            /\ UNCHANGED <<gate, seen>>
       ELSE /\ IF gate.on THEN PollRead ELSE ReadLocal /\ UNCHANGED gate
            /\ UNCHANGED <<life, record>>
    /\ UNCHANGED <<now, setup, watcher, cp, run, peer>>

\* Mutation: the reader is not woken.
VerifySilent ==
    /\ gate' = Opened([gate EXCEPT !.got = Prelude, !.verified = TRUE, !.reader = FALSE])
    /\ life' = [life EXCEPT !.peer = setup.peer, !.expiry = Least(setup.own, setup.peer),
                            !.watch = setup.watch]
    /\ task' = [task EXCEPT !.onExpiry = FALSE, !.onWatch = FALSE]
    /\ watcher' = IF setup.watch THEN [st |-> "ask", at |-> now + RequestTimeout, lastValid |-> now, msg |-> "no"]
                  ELSE watcher

\* The peer's grant verifies: from here on the earlier expiry counts, on a new timer nobody
\* waits on yet, and the re-check starts.
Verify ==
    /\ gate' = Opened([gate EXCEPT !.got = Prelude, !.verified = TRUE, !.reader = FALSE])
    /\ life' = [life EXCEPT !.peer = setup.peer, !.expiry = Least(setup.own, setup.peer),
                            !.watch = setup.watch]
    /\ task' = Woken(gate, [task EXCEPT !.onExpiry = FALSE, !.onWatch = FALSE])
    /\ watcher' = IF setup.watch THEN [st |-> "ask", at |-> now + RequestTimeout, lastValid |-> now, msg |-> "no"]
                  ELSE watcher

\* PeerGrantCheck::verify: everything but the time is in setup.good.
GoodGrant == setup.good /\ now < setup.peer

\* poll_write of one unit that is still of the peer's prelude.
PollPrelude ==
    LET g == [Armed(gate) EXCEPT !.got = @ + 1]
    IN IF g.got < Prelude
       THEN gate' = g /\ task' = Registered(task) /\ UNCHANGED <<life, watcher, seen>>
       ELSE IF GoodGrant THEN Verify /\ seen' = [seen EXCEPT !.from = now]
       ELSE /\ gate' = Failed(g)
            /\ task' = [Woken(gate, task) EXCEPT !.in = "err"]
            /\ UNCHANGED <<life, watcher, seen>>

\* A waker that a poll registered is to fire, or has fired.
WakeDue ==
    \/ task.onExpiry /\ life.expiry <= now
    \/ task.onWatch /\ life.watch /\ watcher.msg # "no"
    \/ task.onDeadline /\ gate.on /\ gate.deadline <= now

\* The inbound direction hands one unit from the peer to the local side.  An end that it finds
\* before the woken task polled its other direction takes that poll from nobody.
Inbound ==
    /\ Running
    /\ task.in = "read"
    /\ peer.net > 0
    /\ peer' = [peer EXCEPT !.net = @ - 1]
    /\ IF PollEnded # "no"
       THEN /\ End(PollEnded)
            /\ task' = [task EXCEPT !.in = "err", !.pollOut = @ \/ WakeDue]
            /\ UNCHANGED <<gate, watcher, seen>>
       ELSE IF gate.on /\ gate.failed
       THEN /\ task' = [task EXCEPT !.in = "err"]
            /\ UNCHANGED <<gate, life, record, watcher, seen>>
       ELSE IF gate.on /\ ~gate.verified
       THEN PollPrelude /\ UNCHANGED record
       ELSE /\ seen' = [seen EXCEPT !.data = now]
            /\ task' = Registered(task)
            /\ UNCHANGED <<gate, life, record, watcher>>
    /\ UNCHANGED <<now, setup, cp, run>>

\* The peer closed: poll_shutdown of the local side, a refusal without its grant.
InboundEnd ==
    /\ Running
    /\ task.in = "read"
    /\ peer.net = 0
    /\ peer.closed
    /\ IF gate.on /\ ~gate.verified /\ ~gate.failed
       THEN gate' = Failed(gate) /\ task' = [Woken(gate, task) EXCEPT !.in = "eof"]
       ELSE task' = [task EXCEPT !.in = "eof", !.shut = TRUE] /\ UNCHANGED gate
    /\ UNCHANGED <<now, setup, life, record, watcher, cp, run, peer, seen>>

\* A registered waker fires: both directions are polled again.
Wake ==
    /\ Running
    /\ WakeDue
    /\ task' = [task EXCEPT !.pollOut = TRUE, !.pollIn = TRUE,
                            !.onExpiry = FALSE, !.onWatch = FALSE, !.onDeadline = FALSE]
    /\ UNCHANGED <<now, setup, gate, life, record, watcher, cp, run, peer, seen>>

\* The local application has data, or closes: its waker is on the local side.
AppReady ==
    /\ Running
    /\ ~gate.on
    /\ task.out = "read"
    /\ ~task.pollOut
    /\ task' = [task EXCEPT !.pollOut = TRUE]
    /\ UNCHANGED <<now, setup, gate, life, record, watcher, cp, run, peer, seen>>

-----------------------------------------------------------------------------
(* The runner. *)

PumpDone == task.out # "read" /\ task.in # "read"

\* The pump ended by itself, before or within the grace: the long drain.
RunPumped ==
    /\ Running
    /\ PumpDone
    /\ run' = [st |-> "drain", at |-> now + RelayDrain]
    /\ UNCHANGED <<now, setup, gate, life, record, task, watcher, cp, peer, seen>>

\* What the runner waits for beside the pump: a read error of the local side, a recorded end.
LocalOver == task.out = "err" \/ record # "no"

\* This side failed or the grant's end is recorded: the peer gets a grace.
RunGrace ==
    /\ run.st = "pump"
    /\ ~PumpDone
    /\ LocalOver
    /\ run' = [st |-> "grace", at |-> now + FailGrace]
    /\ UNCHANGED <<now, setup, gate, life, record, task, watcher, cp, peer, seen>>

\* The peer let the grace pass: the pump is dropped, the short drain.
RunGiveUp ==
    /\ run.st = "grace"
    /\ ~PumpDone
    /\ run.at <= now
    /\ run' = [st |-> "drain", at |-> now + FailDrain]
    /\ task' = [task EXCEPT !.shut = TRUE]
    /\ UNCHANGED <<now, setup, gate, life, record, watcher, cp, peer, seen>>

\* graceful_stream_drain: until the peer closes or the time is up.
RunDrained ==
    /\ run.st = "drain"
    /\ peer.closed \/ run.at <= now
    /\ run' = [st |-> "ended", at |-> Never]
    /\ UNCHANGED <<now, setup, gate, life, record, task, watcher, cp, peer, seen>>

-----------------------------------------------------------------------------
(* watch_peer_grant. *)

\* The session's end of the re-check's channel is there.
Listening == life.watch /\ Running

\* What classify_answer makes of the control plane's answer now.
Verdict ==
    IF cp.kind = "down" \/ (cp.kind = "old" /\ Require) THEN "unreadable"
    ELSE IF cp.kind = "old" THEN "unsupported"
    ELSE IF cp.standing = "members" THEN "valid" ELSE cp.standing

\* An answer, or the request's timeout: unreadable for Grace ends the session, too.
WatchAnswer ==
    /\ watcher.st = "ask"
    /\ Listening
    /\ cp.kind # "down" \/ watcher.at <= now
    /\ LET ends == IF Verdict = "unreadable" THEN now - watcher.lastValid >= Grace
                   ELSE Verdict \in {"own", "peer"}
       IN watcher' =
            IF ends
            THEN [watcher EXCEPT !.st = "done", !.at = Never,
                                 !.msg = IF Verdict = "own" THEN "own" ELSE "peer"]
            ELSE [watcher EXCEPT !.st = "wait", !.at = now + Interval,
                                 !.lastValid = IF Verdict = "unreadable" THEN @ ELSE now]
    /\ UNCHANGED <<now, setup, gate, life, record, task, cp, run, peer, seen>>

WatchAsk ==
    /\ watcher.st = "wait"
    /\ Listening
    /\ watcher.at <= now
    /\ watcher' = [watcher EXCEPT !.st = "ask", !.at = now + RequestTimeout]
    /\ UNCHANGED <<now, setup, gate, life, record, task, cp, run, peer, seen>>

\* end.closed(): the session is over.
WatchClosed ==
    /\ watcher.st \in {"ask", "wait"}
    /\ ~Listening
    /\ watcher' = [watcher EXCEPT !.st = "done", !.at = Never]
    /\ UNCHANGED <<now, setup, gate, life, record, task, cp, run, peer, seen>>

\* The task is gone without an answer (it panicked).
WatchDies ==
    /\ watcher.st \in {"ask", "wait"}
    /\ watcher' = [watcher EXCEPT !.st = "done", !.at = Never, !.msg = "gone"]
    /\ UNCHANGED <<now, setup, gate, life, record, task, cp, run, peer, seen>>

-----------------------------------------------------------------------------
(* The peer, the control plane and time. *)

PeerSends ==
    /\ ~peer.closed
    /\ peer.net < NetCap
    /\ run.st # "ended"
    /\ peer' = [peer EXCEPT !.net = @ + 1]
    /\ task' = [task EXCEPT !.pollOut = TRUE, !.pollIn = TRUE]
    /\ UNCHANGED <<now, setup, gate, life, record, watcher, cp, run, seen>>

PeerCloses ==
    /\ ~peer.closed
    /\ peer' = [peer EXCEPT !.closed = TRUE]
    /\ task' = [task EXCEPT !.pollOut = TRUE, !.pollIn = TRUE]
    /\ UNCHANGED <<now, setup, gate, life, record, watcher, cp, run, seen>>

\* The control plane revokes the peer's grant or dismisses this member, or it changes.
ControlPlane ==
    /\ setup.watch
    /\ \/ /\ cp.standing = "members"
          /\ \E s \in {"own", "peer"} : cp' = [cp EXCEPT !.standing = s]
          /\ seen' = [seen EXCEPT !.revoked = now]
       \/ \E k \in Kinds \ {cp.kind} : cp' = [cp EXCEPT !.kind = k] /\ UNCHANGED seen
    /\ UNCHANGED <<now, setup, gate, life, record, task, watcher, run, peer>>

\* Something is due at this instant.
Urgent ==
    \/ Running /\ task.out = "read" /\ task.pollOut
    \/ Running /\ task.in = "read" /\ (peer.net > 0 \/ peer.closed)
    \/ Running /\ WakeDue
    \/ Running /\ PumpDone
    \/ run.st = "pump" /\ LocalOver
    \/ run.st \in {"grace", "drain"} /\ run.at <= now
    \/ watcher.st \in {"ask", "wait"} /\ (watcher.at <= now \/ ~Listening)

Tick ==
    /\ now < MaxTime
    /\ ~Urgent
    /\ now' = now + 1
    /\ UNCHANGED <<setup, gate, life, record, task, watcher, cp, run, peer, seen>>

Next ==
    \/ Outbound \/ Inbound \/ InboundEnd \/ Wake \/ AppReady
    \/ RunPumped \/ RunGrace \/ RunGiveUp \/ RunDrained
    \/ WatchAnswer \/ WatchAsk \/ WatchClosed \/ WatchDies
    \/ PeerSends \/ PeerCloses \/ ControlPlane \/ Tick

Spec == Init /\ [][Next]_vars

-----------------------------------------------------------------------------
(* Properties. *)

\* Times, phases and counters are in their ranges.
TypeOK ==
    /\ now \in Times
    /\ setup.own \in Expiries /\ setup.peer \in Expiries
    /\ gate.out \in 0..Prelude /\ gate.got \in 0..Prelude
    /\ life.ended \in {"no", "own", "peer"} /\ life.expiry \in Expiries \cup {Never}
    /\ record \in {"no", "own", "peer"}
    /\ task.out \in {"read", "eof", "err"} /\ task.in \in {"read", "eof", "err"}
    /\ watcher.st \in {"none", "ask", "wait", "done"}
    /\ watcher.msg \in {"no", "own", "peer", "gone"}
    /\ run.st \in {"pump", "grace", "drain", "ended"}
    /\ peer.net \in 0..NetCap

\* When the grants of this session stop authorizing it.
SessionEnd == IF gate.verified THEN Least(setup.own, setup.peer) ELSE setup.own

\* With the check on, application data passes in either direction only while both grants
\* are valid, and only for a peer whose grant is a good one; without it, while this
\* member's own grant is.
OnlyWithinGrants ==
    seen.data >= 0 => /\ seen.data < setup.own
                      /\ setup.check => setup.good /\ seen.data < setup.peer

\* The recorded end names the right member, because the process stops for good over its own
\* and reconnects after the peer's: its own only if its grant ran out first or it was
\* dismissed, the peer's only if that one ran out first or the re-check ended it.
WhoseGrant ==
    /\ record = "own" => \/ setup.own <= now /\ (gate.verified => setup.own <= setup.peer)
                         \/ cp.standing = "own"
    /\ record = "peer" => /\ gate.verified
                          /\ \/ setup.peer < setup.own /\ setup.peer <= now
                             \/ setup.watch /\ (cp.standing = "peer" \/ watcher.msg = "gone"
                                           \/ now - watcher.lastValid >= Grace)

\* Once the earlier grant is over the local side is shut down before the clock moves on, or
\* was never open, whatever the peer does, while the application keeps its side open: no
\* wake-up is lost.
ClosedAtOnce == (now > SessionEnd /\ Running /\ ~setup.closes) => task.shut \/ gate.failed

\* The session itself is over within the grace and the longer drain after a grant's end.
EndsInTime ==
    (now > SessionEnd + FailGrace + RelayDrain /\ ~setup.closes) => run.st = "ended"

\* A grant that was revoked, before the session or during it, carries no more data in either
\* direction once the grace, an interval and a request have passed, whatever the control
\* plane answers (with CT_CHANNEL_REVOCATION=require if it may be one without the endpoint).
RevocationBound ==
    (seen.revoked # Never /\ seen.from # Never) =>
        seen.data <= Grace + Interval + RequestTimeout
                      + (IF seen.revoked < seen.from THEN seen.from ELSE seen.revoked)

\* No session goes on unwatched: while it runs, its re-check had a readable answer within
\* the grace, one interval and one request.
NeverUnwatched ==
    (Running /\ life.watch) =>
        /\ now <= watcher.lastValid + Grace + Interval + RequestTimeout
        /\ watcher.st = "done" => watcher.msg # "no"

\* A session whose grant ended is over within the grace and the short drain, whether or not
\* the peer sends another byte.
EndsWithinBound ==
    (record # "no" /\ now > SessionEnd + FailGrace + FailDrain) => run.st = "ended"

\* Every session ends when this member's own grant runs out.
EndsWithOwnGrant == now > setup.own => run.st \in {"grace", "drain", "ended"}

\* A revocation reaches the session in bounded time, and no session goes on with its re-check gone.
WatchHolds == TypeOK /\ RevocationBound /\ NeverUnwatched

\* A grant's end is put down to the right member, closes the local side at once and ends the
\* session in time.
EndsRightly == WhoseGrant /\ ClosedAtOnce /\ EndsInTime
=============================================================================
