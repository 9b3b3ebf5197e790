----------------------------- MODULE ServeLoop ------------------------------
(***************************************************************************)
(* A persistent serve member's loop (serving.rs) and its retry policy      *)
(* (errors.rs): it takes a slot, parks one admission at a time, runs every *)
(* paired session as a task of its own, backs off after each kind of       *)
(* failure on a streak of its own, and ends with this member's own grant.  *)
(*                                                                         *)
(* An admission and a session may take any time and end in any way.  The   *)
(* loop and the sessions run on different threads: a session's last two    *)
(* statements, the record of its outcome and the release of its slot, are  *)
(* two steps.  Time is discrete; what is due goes before the next tick.    *)
(***************************************************************************)
EXTENDS Integers, FiniteSets

CONSTANTS
    Maxima,       \* CT_CHANNEL_SERVE_CONCURRENCY: the values to look at
    Retry,        \* retry_backoff, in ticks
    RefusedCap,   \* REFUSED_ADMISSION_BACKOFF_CAP
    EofCap,       \* HANDSHAKE_EOF_BACKOFF_CAP
    TransientCap, \* TRANSIENT_ADMISSION_BACKOFF_CAP
    FlapCap,      \* FLAPPING_SESSION_BACKOFF_CAP
    Threshold,    \* FLAPPING_SESSION_THRESHOLD
    Budget,       \* GRANT_TEARDOWN_BUDGET
    Expiries,     \* when this member's own grant may expire
    MaxTime       \* the clock stops here

ASSUME ServeAssumption ==
    /\ Maxima \subseteq Nat \ {0}
    /\ Retry \in Nat /\ Retry >= 2
    /\ \A cap \in {RefusedCap, EofCap, TransientCap, FlapCap} : cap \in Nat /\ cap >= Retry
    /\ Threshold \in Nat /\ Budget \in Nat \ {0} /\ MaxTime \in Nat /\ Expiries \subseteq Nat

\* What an admission may fail with.
Refusals == {"refused", "verify", "revoked"}
Failures == Refusals \cup {"eof", "transient", "park", "panic"}

VARIABLES
    now,     \* the clock
    own,     \* own_expires_at
    revoked, \* the edge holds this member's grant on its revocation list
    max,     \* the number of slots
    sem,     \* free permits of the semaphore
    sess,    \* per slot number: the session task
    flaps,   \* consecutive_flaps
    streak,  \* consecutive_refusals, _handshake_eofs and _transients
    loop,    \* where the loop is, since when its admission runs, until when it waits
    hist     \* history: failures of one kind in a row and when the last one was; flaps
             \* recorded since the loop last waited for one or a session was healthy; what
             \* ended the loop

vars == <<now, own, revoked, max, sem, sess, flaps, streak, loop, hist>>

Least(a, b) == IF a < b THEN a ELSE b
NoSession == [st |-> "none", started |-> 0, how |-> "ok"]
NoStreak == [refused |-> 0, eof |-> 0, transient |-> 0]

Init ==
    /\ now = 0
    /\ own \in Expiries
    /\ revoked = FALSE
    /\ max \in Maxima
    /\ sem = max
    /\ sess = [s \in 1..max |-> NoSession]
    /\ flaps = 0
    /\ streak = NoStreak
    /\ loop = [st |-> "top", admit |-> 0, at |-> 0]
    /\ hist = [kind |-> "none", n |-> 0, at |-> 0, rush |-> 0, end |-> "none"]

Slots == 1..max
In(states) == {s \in Slots : sess[s].st \in states}

-----------------------------------------------------------------------------
(* errors.rs: which failure waits how long. *)

\* retry_backoff, doubled n times, up to a cap.
Doubled(n, cap) == Least(Retry * 2^n, cap)

FlappingSessionBackoff(n) == Doubled(n, FlapCap)
HandshakeEofBackoff(n) == Doubled(n, EofCap)

\* The first transient is retried after the plain backoff.
TransientAdmissionBackoff(n) == Doubled(n - 1, TransientCap)
AdmissionRetryBackoff(n) == Doubled(n, RefusedCap)

\* equal_jitter: any wait between the half of the step and the step.
EqualJitter(step) == (step \div 2)..step

\* ex_repark_delay: half of the backoff to two and a half of it.
ExReparkDelay == (Retry \div 2)..((Retry \div 2) + 2 * Retry)

\* own_grant_refusal.
OwnGrantRefusal(kind) == kind = "revoked" \/ (kind = "verify" /\ now >= own)

\* is_flapping_session.
IsFlappingSession(s, how) == how = "error" /\ now - sess[s].started < Threshold

-----------------------------------------------------------------------------
(* serve_loop_admitting.  The own expiry goes first (biased); only an answer of the edge, which *)
(* comes by another clock, may overtake its timer.                                            *)

\* A slot before the park, so that no peer is admitted without one.
Acquire ==
    /\ loop.st = "top"
    /\ now < own
    /\ sem > 0
    /\ sem' = sem - 1
    /\ loop' = [loop EXCEPT !.st = "load"]
    /\ UNCHANGED <<now, own, revoked, max, sess, flaps, streak, hist>>

\* A look at the flaps: straight to the park, or a wait with the slot held.
LoadFlaps ==
    /\ loop.st = "load"
    /\ now < own
    /\ IF flaps = 0
       THEN /\ loop' = [loop EXCEPT !.st = "admit", !.admit = now]
            /\ UNCHANGED hist
       ELSE /\ \E wait \in EqualJitter(FlappingSessionBackoff(flaps)) :
                 loop' = [loop EXCEPT !.st = "flap", !.at = now + wait]
            /\ hist' = [hist EXCEPT !.rush = 0]
    /\ UNCHANGED <<now, own, revoked, max, sem, sess, flaps, streak>>

FlapWaited ==
    /\ loop.st = "flap"
    /\ now < own
    /\ now >= loop.at
    /\ loop' = [loop EXCEPT !.st = "admit", !.admit = now]
    /\ UNCHANGED <<now, own, revoked, max, sem, sess, flaps, streak, hist>>

\* The edge paired a peer: its session takes over the slot.
Paired ==
    /\ loop.st = "admit"
    /\ \E s \in In({"none"}) :
         sess' = [sess EXCEPT ![s] = [st |-> "run", started |-> now, how |-> "ok"]]
    /\ streak' = NoStreak
    /\ loop' = [loop EXCEPT !.st = "top"]
    /\ hist' = [hist EXCEPT !.kind = "none", !.n = 0]
    /\ UNCHANGED <<now, own, revoked, max, sem, flaps>>

\* The three streaks after a failure: one of them grows, the others start over.  A transient
\* that ended a long attempt starts a new streak.
StreakAfter(kind) ==
    [refused |-> IF kind \in Refusals THEN streak.refused + 1 ELSE 0,
     eof |-> IF kind = "eof" THEN streak.eof + 1 ELSE 0,
     transient |-> IF kind # "transient" THEN 0
                   ELSE IF now - loop.admit >= TransientCap THEN 1 ELSE streak.transient + 1]

\* How long the loop may wait after a failure, with the streaks it left.
Waits(kind, after) ==
    CASE kind = "panic"     -> {Retry}
      [] kind = "park"      -> ExReparkDelay
      [] kind = "eof"       -> EqualJitter(HandshakeEofBackoff(after.eof))
      [] kind = "transient" -> EqualJitter(TransientAdmissionBackoff(after.transient))
      [] OTHER              -> EqualJitter(AdmissionRetryBackoff(after.refused))

\* The history's own count of failures of one kind in a row.
Class(kind) == IF kind \in Refusals THEN "refused" ELSE kind
Again(kind) ==
    IF Class(kind) = hist.kind /\ ~(kind = "transient" /\ now - loop.admit >= TransientCap)
    THEN hist.n + 1 ELSE 1

\* The admission failed, or panicked: the slot goes back, and the loop waits.
AdmitFails(kind) ==
    /\ loop.st = "admit"
    /\ kind = "revoked" => revoked
    /\ ~OwnGrantRefusal(kind)
    /\ sem' = sem + 1
    /\ streak' = StreakAfter(kind)
    /\ \E wait \in Waits(kind, streak') : loop' = [loop EXCEPT !.st = "sleep", !.at = now + wait]
    /\ hist' = [hist EXCEPT !.kind = Class(kind), !.n = Again(kind), !.at = now]
    /\ UNCHANGED <<now, own, revoked, max, sess, flaps>>

SleepOver ==
    /\ loop.st = "sleep"
    /\ now < own
    /\ now >= loop.at
    /\ loop' = [loop EXCEPT !.st = "top"]
    /\ UNCHANGED <<now, own, revoked, max, sem, sess, flaps, streak, hist>>

-----------------------------------------------------------------------------
(* The sessions' tasks. *)

\* A session returns: "pin" is a refusal of the peer by the pin, or a panic.
SessionReturns(s, how) ==
    /\ sess[s].st = "run"
    /\ sess' = [sess EXCEPT ![s].st = "returned",
                            ![s].how = IF IsFlappingSession(s, how) THEN "flap" ELSE how]
    /\ UNCHANGED <<now, own, revoked, max, sem, flaps, streak, loop, hist>>

\* record_flap_outcome: one more, or none; a pin refusal (and a session that panics) is not
\* recorded.
RecordFlapOutcome(s) ==
    CASE sess[s].how = "flap" -> /\ flaps' = flaps + 1
                                 /\ hist' = [hist EXCEPT !.rush = @ + 1]
      [] sess[s].how = "pin"  -> UNCHANGED <<flaps, hist>>
      [] OTHER                -> flaps' = 0 /\ hist' = [hist EXCEPT !.rush = 0]

\* The end of its task: the outcome, then the permit (a local is dropped last).
SessionEnds(s) ==
    \/ /\ sess[s].st = "returned"
       /\ RecordFlapOutcome(s)
       /\ sess' = [sess EXCEPT ![s].st = "recorded"]
       /\ UNCHANGED <<now, own, revoked, max, sem, streak, loop>>
    \/ /\ sess[s].st = "recorded"
       /\ sem' = sem + 1
       /\ sess' = [sess EXCEPT ![s] = NoSession]
       /\ UNCHANGED <<now, own, revoked, max, flaps, streak, loop, hist>>

\* An aborted task is dropped at its next await, and its permit with it.
SessionDropped(s) ==
    /\ sess[s].st = "aborted"
    /\ sem' = sem + 1
    /\ sess' = [sess EXCEPT ![s] = NoSession]
    /\ UNCHANGED <<now, own, revoked, max, flaps, streak, loop, hist>>

-----------------------------------------------------------------------------
(* serve_loop_concurrent: the own grant's end. *)

\* The permit of a loop that is dropped between its park's two ends.
Held == IF loop.st \in {"load", "flap", "admit"} THEN 1 ELSE 0
Serving == loop.st \in {"top", "load", "flap", "admit", "sleep"}

\* abort_all, and the wait for what it aborted.
AbortAll ==
    /\ sess' = [s \in Slots |-> IF sess[s].st = "run" THEN [sess[s] EXCEPT !.st = "aborted"]
                                ELSE sess[s]]
    /\ loop' = [loop EXCEPT !.st = "aborting", !.at = now + Budget]

\* Mutation: the loop just returns.
AdmitRefusedOwnReturns(kind) ==
    /\ loop.st = "admit"
    /\ kind = "revoked" => revoked
    /\ OwnGrantRefusal(kind)
    /\ sem' = sem + 1
    /\ loop' = [loop EXCEPT !.st = "stopped"]
    /\ hist' = [hist EXCEPT !.end = "refusal"]
    /\ UNCHANGED <<now, own, revoked, max, sess, flaps, streak>>

\* The edge said that this member's own grant is over: all sessions are aborted at once, also
\* when the answer overtook the timer of the own expiry.
AdmitRefusedOwn(kind) ==
    /\ loop.st = "admit"
    /\ kind = "revoked" => revoked
    /\ OwnGrantRefusal(kind)
    /\ sem' = sem + 1
    /\ AbortAll
    /\ hist' = [hist EXCEPT !.end = "refusal"]
    /\ UNCHANGED <<now, own, revoked, max, flaps, streak>>

\* The own expiry, wherever the loop is: a parked admission is dropped with it.
OwnExpiry ==
    /\ Serving
    /\ now >= own
    /\ sem' = sem + Held
    /\ loop' = [loop EXCEPT !.st = "ending", !.at = now + Budget]
    /\ hist' = [hist EXCEPT !.end = "expiry"]
    /\ UNCHANGED <<now, own, revoked, max, sess, flaps, streak>>

AllJoined == In({"run", "returned", "recorded", "aborted"}) = {}

\* end_running_sessions: the sessions' own ends first, then the rest is aborted.
EndingOver ==
    /\ loop.st = "ending"
    /\ AllJoined \/ now >= loop.at
    /\ AbortAll
    /\ UNCHANGED <<now, own, revoked, max, sem, flaps, streak, hist>>

Stop ==
    /\ loop.st = "aborting"
    /\ AllJoined \/ now >= loop.at
    /\ loop' = [loop EXCEPT !.st = "stopped"]
    /\ UNCHANGED <<now, own, revoked, max, sem, sess, flaps, streak, hist>>

-----------------------------------------------------------------------------
(* The edge and time. *)

Revoke ==
    /\ ~revoked
    /\ revoked' = TRUE
    /\ UNCHANGED <<now, own, max, sem, sess, flaps, streak, loop, hist>>

Urgent ==
    \/ loop.st = "load"
    \/ loop.st = "top" /\ sem > 0
    \/ loop.st \in {"flap", "sleep"} /\ now >= loop.at
    \/ Serving /\ now >= own
    \/ loop.st \in {"ending", "aborting"} /\ (AllJoined \/ now >= loop.at)
    \/ loop.st # "stopped" /\ In({"returned", "recorded", "aborted"}) # {}

Tick ==
    /\ now < MaxTime
    /\ ~Urgent
    /\ now' = now + 1
    /\ UNCHANGED <<own, revoked, max, sem, sess, flaps, streak, loop, hist>>

\* The process exits with the loop: no session takes a step after it.
Session ==
    /\ loop.st # "stopped"
    /\ \E s \in Slots :
        \/ \E how \in {"ok", "error", "pin"} : SessionReturns(s, how)
        \/ SessionEnds(s)
        \/ SessionDropped(s)

Next ==
    \/ Acquire \/ LoadFlaps \/ FlapWaited \/ Paired \/ SleepOver
    \/ \E kind \in Failures : AdmitFails(kind) \/ AdmitRefusedOwn(kind)
    \/ Session \/ OwnExpiry \/ EndingOver \/ Stop \/ Revoke \/ Tick

Spec == Init /\ [][Next]_vars

-----------------------------------------------------------------------------
(* Properties. *)

\* The variables are in their ranges.
TypeOK ==
    /\ now \in Nat /\ own \in Expiries /\ revoked \in BOOLEAN /\ max \in Maxima
    /\ sem \in 0..max
    /\ sess \in [Slots -> [st : {"none", "run", "returned", "recorded", "aborted"}, started : Nat,
                           how : {"ok", "error", "pin", "flap"}]]
    /\ flaps \in Nat
    /\ streak \in [refused : Nat, eof : Nat, transient : Nat]
    /\ loop \in [st : {"top", "load", "flap", "admit", "sleep", "ending", "aborting", "stopped"},
                 admit : Nat, at : Nat]
    /\ hist \in [kind : {"none", "refused", "eof", "transient", "park", "panic"}, n : Nat, at : Nat,
                 rush : Nat, end : {"none", "expiry", "refusal"}]

\* No slot is lost or made up, over failed and panicked admissions, flaps, aborts and a loop
\* dropped in the middle of one: the free ones, the loop's and the sessions' are all there are.
SlotsConserved == sem + Held + Cardinality(In({"run", "returned", "recorded", "aborted"})) = max

\* The step that n failures of one kind in a row stand for.
StepOf(kind, n) ==
    CASE kind = "refused"   -> Least(Retry * 2^n, RefusedCap)
      [] kind = "eof"       -> Least(Retry * 2^n, EofCap)
      [] kind = "transient" -> Least(Retry * 2^(n - 1), TransientCap)
      [] OTHER              -> Retry

\* Every failure is paced by its own kind alone: the n-th of a kind in a row is followed by no
\* admission before half of its step, and whatever other kinds came before it stretches no wait
\* beyond the step (a park's end: two and a half backoffs).
RetriesPaced ==
    hist.n > 0 =>
        /\ loop.st = "admit" => loop.admit >= hist.at + (StepOf(hist.kind, hist.n) \div 2)
        /\ loop.st = "sleep" =>
             loop.at <= hist.at + (IF hist.kind = "park" THEN (Retry \div 2) + 2 * Retry
                                   ELSE StepOf(hist.kind, hist.n))

\* A peer whose sessions all die at once is throttled although its sessions are counted by their
\* own tasks: as long as none is healthy, no more sessions flap between two waits of the loop
\* than there are slots.
FlapsThrottled == hist.rush <= max

\* The loop ends only over this member's own grant, and no session is cut while that grant
\* stands: those that run when it expires get the time to end by themselves, and only the edge's
\* own word that it is over cuts them at once.
SessionsGetTheirTime ==
    /\ ~Serving => now >= own \/ revoked
    /\ In({"aborted"}) # {} => hist.end = "refusal" \/ now >= own + Budget

\* Once the own grant is over, the process is too after that time, wherever the loop was, and it
\* exits only after the last of its sessions is gone.
EndsWithItsSessions ==
    /\ now > own + Budget => loop.st = "stopped"
    /\ loop.st = "stopped" => AllJoined

\* The edge is never asked faster than the backoffs of the failures and flaps behind a slot allow.
AdmissionsPaced == RetriesPaced /\ FlapsThrottled

\* Slots are neither lost nor made up, sessions get their time, and the loop ends with nothing
\* left behind.
EndsProperly == SlotsConserved /\ SessionsGetTheirTime /\ EndsWithItsSessions

\* The serve loop paces its admissions, and ends with its sessions and slots accounted for.
LoopSound == TypeOK /\ AdmissionsPaced /\ EndsProperly
=============================================================================
