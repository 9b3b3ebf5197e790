-------------------------- MODULE ForwardReconnect --------------------------
(***************************************************************************)
(* The forward initiator's session loop (forward_stream.rs): one listener, *)
(* one engine and one admission per session, reconnecting with backoff     *)
(* until this member's own grant is over.                                  *)
(*                                                                         *)
(* A session is what `admit` may do: wait at the edge, run, record a grant *)
(* end, and return at any instant (GrantSession models what is inside).    *)
(* Time is discrete; what is due goes before the next tick.                *)
(***************************************************************************)
EXTENDS Integers

CONSTANTS
    Min,       \* FORWARD_RECONNECT_MIN, in ticks
    Max,       \* FORWARD_RECONNECT_MAX
    Budget,    \* GRANT_TEARDOWN_BUDGET
    Expiries,  \* when this member's own grant may expire
    Policies,  \* CT_CHANNEL_FORWARD_ON_GRANT_END: of "exit", "refuse"; looked at once, at the end
    MaxTime    \* the clock stops here

ASSUME TimeAssumption ==
    /\ Min \in Nat \ {0} /\ Max \in Nat /\ Min <= Max /\ Budget \in Nat
    /\ MaxTime \in Nat /\ Expiries \subseteq Nat
    /\ Policies \subseteq {"exit", "refuse"} /\ Policies # {}

VARIABLES
    now,      \* the clock
    own,      \* own_expires_at
    member,   \* FALSE once the control plane or the edge has dismissed this member
    st,       \* where the loop is
    delay,    \* delay: the last step, 0 for None
    started,  \* when the session was admitted
    at,       \* when the running wait is over
    record,   \* the session's GrantEndRecord
    conn,     \* one local connection to the listener
    hist      \* history: short sessions in a row, when the last one ended, what it told

vars == <<now, own, member, st, delay, started, at, record, conn, hist>>

Ended == {"exit", "refuse"}
Least(a, b) == IF a < b THEN a ELSE b

Init ==
    /\ now = 0
    /\ own \in Expiries
    /\ member = TRUE
    /\ st = "top"
    /\ delay = 0
    /\ started = 0
    /\ at = 0
    /\ record = "no"
    /\ conn = "none"
    /\ hist = [short |-> 0, ended |-> 0, own |-> FALSE]

\* Mutation: every short session resets the step.
NextForwardReconnectDelayReset(prev, lasted) ==
    IF prev # 0 /\ lasted >= Max THEN Least(2 * prev, Max) ELSE Min

\* next_forward_reconnect_delay.
NextForwardReconnectDelay(prev, lasted) ==
    IF prev # 0 /\ lasted < Max THEN Least(2 * prev, Max) ELSE Min

\* equal_jitter: any wait between the half of the step and the step.
EqualJitter(step) == (step \div 2)..step

\* forward_grant_end: an own end that was recorded, an own grant that is over, a peer's end.
ForwardGrantEnd(recorded) == IF recorded = "own" \/ now >= own THEN "own" ELSE recorded

\* grant_expiry_timer: armed where the loop waits, for the same expiry as the gates'.
GrantExpiryTimer == now >= own

\* Mutation: the listener stays bound and nobody accepts.
EndForwardForOwnGrantSilent ==
    /\ st' \in Policies
    /\ UNCHANGED conn

\* end_forward_for_own_grant: the listener is released, or refuses from now on; either way
\* the connections nobody took are closed.
EndForwardForOwnGrant ==
    /\ st' \in Policies
    /\ conn' = IF conn = "waiting" THEN "closed" ELSE conn

-----------------------------------------------------------------------------
(* The loop. *)

\* Mutation: the top of the loop admits without a look at the clock.
AdmitAlways ==
    /\ st = "top"
    /\ st' = "session"
    /\ started' = now
    /\ record' = "no"
    /\ UNCHANGED <<now, own, member, delay, at, conn, hist>>

\* The top of the loop: a fresh record, engine and admission.
Admit ==
    /\ st = "top"
    /\ now < own
    /\ st' = "session"
    /\ started' = now
    /\ record' = "no"
    /\ UNCHANGED <<now, own, member, delay, at, conn, hist>>

\* The top of the loop, with a grant that is over by this member's clock.
AdmitExpired ==
    /\ st = "top"
    /\ now >= own
    /\ EndForwardForOwnGrant
    /\ UNCHANGED <<now, own, member, delay, started, at, record, hist>>

\* The session's gate records the end it sees; the session goes on to its own end.
GateRecords ==
    /\ st \in {"session", "teardown"}
    /\ record = "no"
    /\ record' \in {"own", "peer"}
    /\ record' = "own" => now >= own \/ ~member
    /\ UNCHANGED <<now, own, member, st, delay, started, at, conn, hist>>

\* The session returns, with or without an error that is_own_grant_refusal knows.
SessionReturns(refused) ==
    /\ st = "session"
    /\ refused => ~member
    /\ LET lasted == now - started
           step == NextForwardReconnectDelay(delay, lasted)
           isOwn == ForwardGrantEnd(record) = "own" \/ (ForwardGrantEnd(record) = "no" /\ refused)
       IN /\ hist' = [short |-> IF lasted < Max THEN hist.short + 1 ELSE 0, ended |-> now,
                      own |-> record = "own" \/ (record = "no" /\ refused)]
          /\ \/ /\ isOwn
                /\ EndForwardForOwnGrant
                /\ UNCHANGED <<delay, at>>
             \/ /\ ~isOwn
                /\ st' = "backoff"
                /\ delay' = step
                /\ \E wait \in EqualJitter(step) : at' = now + wait
                /\ UNCHANGED conn
    /\ UNCHANGED <<now, own, member, started, record>>

\* grant_expiry_timer during a session: what is left of it has the teardown budget.
ExpiresInSession ==
    /\ st = "session"
    /\ GrantExpiryTimer
    /\ st' = "teardown"
    /\ at' = now + Budget
    /\ UNCHANGED <<now, own, member, delay, started, record, conn, hist>>

\* The session returned within the budget, or is dropped at its end.
TornDown ==
    /\ st = "teardown"
    /\ EndForwardForOwnGrant
    /\ UNCHANGED <<now, own, member, delay, started, at, record, hist>>

\* grant_expiry_timer during the backoff; it goes first (biased).
ExpiresInBackoff ==
    /\ st = "backoff"
    /\ GrantExpiryTimer
    /\ EndForwardForOwnGrant
    /\ UNCHANGED <<now, own, member, delay, started, at, record, hist>>

BackoffOver ==
    /\ st = "backoff"
    /\ ~GrantExpiryTimer
    /\ now >= at
    /\ st' = "top"
    /\ UNCHANGED <<now, own, member, delay, started, at, record, conn, hist>>

-----------------------------------------------------------------------------
(* The listener, the control plane and time. *)

\* A local application connects; a listener that refuses closes it at once.
Connect ==
    /\ conn = "none"
    /\ st # "exit"
    /\ conn' = IF st = "refuse" THEN "closed" ELSE "waiting"
    /\ UNCHANGED <<now, own, member, st, delay, started, at, record, hist>>

\* The session's engine takes it from the backlog.
EngineAccepts ==
    /\ st \in {"session", "teardown"}
    /\ conn = "waiting"
    /\ conn' = "taken"
    /\ UNCHANGED <<now, own, member, st, delay, started, at, record, hist>>

Dismiss ==
    /\ member
    /\ member' = FALSE
    /\ UNCHANGED <<now, own, st, delay, started, at, record, conn, hist>>

Urgent ==
    \/ st = "top"
    \/ st = "session" /\ GrantExpiryTimer
    \/ st = "teardown" /\ now >= at
    \/ st = "backoff" /\ (GrantExpiryTimer \/ now >= at)

Tick ==
    /\ now < MaxTime
    /\ ~Urgent
    /\ now' = now + 1
    /\ UNCHANGED <<own, member, st, delay, started, at, record, conn, hist>>

Loop ==
    \/ Admit \/ AdmitExpired \/ ExpiresInSession \/ ExpiresInBackoff \/ BackoffOver
    \/ TornDown /\ now >= at

Next ==
    \/ Admit \/ AdmitExpired \/ GateRecords \/ (\E refused \in BOOLEAN : SessionReturns(refused))
    \/ ExpiresInSession \/ TornDown \/ ExpiresInBackoff \/ BackoffOver
    \/ Connect \/ EngineAccepts \/ Dismiss \/ Tick

Spec == Init /\ [][Next]_vars

\* The runtime runs what is due, and time passes.
FairSpec == Spec /\ WF_vars(Loop) /\ WF_vars(Tick)

-----------------------------------------------------------------------------
(* Properties. *)

\* The state's variables are in their ranges.
TypeOK ==
    /\ now \in Nat
    /\ own \in Expiries
    /\ member \in BOOLEAN
    /\ st \in {"top", "session", "teardown", "backoff"} \cup Ended
    /\ delay \in {0} \cup (Min..Max)
    /\ started \in Nat
    /\ at \in Nat
    /\ record \in {"no", "own", "peer"}
    /\ conn \in {"none", "waiting", "taken", "closed"}
    /\ hist \in [short : Nat, ended : Nat, own : BOOLEAN]

\* The forward stops for good only over its own standing: a peer's grant end, a failed
\* session or a refusal of the peer's is always followed by another admission.
OnlyOwnEndStops == st \in Ended => now >= own \/ ~member

\* No session is admitted on a grant that is over, and none after a session that told this
\* member's own standing ended, by its record or by the edge's refusal.
NoAdmissionAfterOwnEnd ==
    /\ st = "session" => started < own
    /\ hist.own => st \in Ended

\* Whatever the session, the edge or the backoff is waiting for, the forward is over, with
\* every connection answered, once the own grant's end and the teardown budget have passed.
StopsInTime ==
    now > own + Budget => st \in Ended /\ conn # "waiting"

\* The forward ends with its own grant, in time, and over nothing else.
EndsWithOwn == TypeOK /\ OnlyOwnEndStops /\ NoAdmissionAfterOwnEnd /\ StopsInTime

\* The powers of two.
TwoTo[n \in Nat] == IF n = 0 THEN 1 ELSE 2 * TwoTo[n - 1]

\* After the n-th session in a row that was no healthy one the next admission comes no sooner
\* than half of the doubled step.
BackoffGrows ==
    (st = "session" /\ hist.short > 0) =>
        started - hist.ended >= Least(Min * TwoTo[hist.short - 1], Max) \div 2

\* A local connection does not wait in the backlog for ever, whichever way the forward goes.
ConnectionAnswered == (conn = "waiting") ~> (conn # "waiting")
=============================================================================
