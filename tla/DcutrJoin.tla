------------------------------ MODULE DcutrJoin ------------------------------
(***************************************************************************)
(* A relay-only member with a relay-gate or a circuit relay                *)
(* (run_dcutr_join_loop in channel_run/connectivity.rs, its joins in       *)
(* channel_run/mod.rs, the libp2p legs in p2p.rs).  Each round dials the   *)
(* edge relay, is admitted there, and runs a session that starts on the    *)
(* relay; with the experimental switch on, the session may move to a       *)
(* libp2p stream whose swarm a driver task runs.                           *)
(***************************************************************************)
EXTENDS Naturals

CONSTANTS
    MaxDials,      \* MAX_CONSECUTIVE_DCUTR_DIAL_FAILURES
    OneShotTries,  \* ONE_SHOT_DCUTR_ADMISSION_RETRIES
    RefusedCap,    \* REFUSED_ADMISSION_BACKOFF_CAP, in units of DCUTR_RETRY_BACKOFF
    SetupBound,    \* DCUTR_SETUP_TIMEOUT
    Teardown,      \* GRANT_TEARDOWN_BUDGET
    GrantEnds,     \* when this member's grant may expire
    DcutrTime      \* the clock stops here

ASSUME DcutrAssumption ==
    /\ MaxDials \in Nat \ {0} /\ OneShotTries \in Nat /\ RefusedCap \in Nat \ {0}
    /\ SetupBound \in Nat \ {0} /\ Teardown \in Nat \ {0}
    /\ GrantEnds \subseteq Nat /\ DcutrTime \in Nat

VARIABLES
    knob,  \* the configuration: serve, the DCUtR switch, the role, a pin, when the grant expires
    join,  \* the round: where it is, whom the relay named, what the session runs on, its deadline
    tries, \* attempt, consecutive_refusals, consecutive_dial_failures
    swarm, \* the driver task of the libp2p swarm runs
    hour   \* the clock

dcutrVars == <<knob, join, tries, swarm, hour>>

Running == {"dial", "parked", "gate", "reserve", "session"}
NoJoin == [at |-> "top", peer |-> "none", path |-> "none", until |-> 0]
NoTries == [attempt |-> 0, refusals |-> 0, dials |-> 0]

\* The state is of the kinds declared above.
DcutrTypeOK ==
    /\ knob \in [serve : BOOLEAN, upgrade : BOOLEAN, role : {"initiate", "accept"},
                 pin : BOOLEAN, expires : GrantEnds]
    /\ join \in [at : Running \cup {"top", "teardown", "wait", "ended"}, peer : {"none", "partner", "other"},
                 path : {"none", "relay", "offered", "stayed", "direct"}, until : Nat]
    /\ tries \in [attempt : Nat, refusals : Nat, dials : 0..MaxDials]
    /\ swarm \in BOOLEAN /\ hour \in Nat

DcutrInit ==
    /\ knob \in [serve : BOOLEAN, upgrade : BOOLEAN, role : {"initiate", "accept"},
                 pin : BOOLEAN, expires : GrantEnds]
    /\ join = NoJoin /\ tries = NoTries /\ swarm = FALSE /\ hour = 0

\* own_expires_at: only a serving member stops at its own expiry.
Expired == knob.serve /\ hour >= knob.expires

JoinAt(place) == [NoJoin EXCEPT !.at = place]
SleepsUntil(t) == [NoJoin EXCEPT !.at = "wait", !.until = t]

\* admission_retry_backoff with equal_jitter: any wait up to the doubled step.
Pauses(n) == 0..(IF 2^n < RefusedCap THEN 2^n ELSE RefusedCap)

-----------------------------------------------------------------------------
(* The loop. *)

\* The head of the loop: a grant that is over starts no round.
RoundStarts ==
    /\ join.at = "top"
    /\ join' = JoinAt(IF Expired THEN "ended" ELSE "dial")
    /\ UNCHANGED <<knob, tries, swarm, hour>>

\* dial_relay_preferring_direct, or the plain dial of the relay.
DialSucceeds ==
    /\ join.at = "dial"
    /\ join' = JoinAt("parked")
    /\ UNCHANGED <<knob, tries, swarm, hour>>

\* A failed dial is bounded in a row on a serving member, and fatal on any other (dial_failure_action).
DialFails ==
    /\ join.at = "dial"
    /\ LET n == tries.dials + 1 IN
       IF knob.serve /\ n < MaxDials
       THEN /\ \E d \in Pauses(n - 1) : join' = SleepsUntil(hour + d)
            /\ tries' = [tries EXCEPT !.dials = n]
       ELSE join' = JoinAt("ended") /\ tries' = NoTries
    /\ UNCHANGED <<knob, swarm, hour>>

\* TaskGuard: the swarm's driver task ends with the round that holds its guard.
GuardDrops == swarm' = FALSE

\* dcutr_loop_action on a round that returned: ok, transient, refused (definitively), verify (a
\* refusal that names the grant), revoked, or expired (the park found no partner).
Concludes(kind) ==
    LET refused == kind \in {"refused", "verify", "revoked"}
        ownEnd  == knob.serve /\ (kind = "revoked" \/ (kind = "verify" /\ hour >= knob.expires))
    IN  /\ GuardDrops
        /\ \/ /\ ownEnd
              /\ join' = JoinAt("ended") /\ tries' = NoTries
           \/ /\ ~ownEnd /\ knob.serve
              /\ tries' = [NoTries EXCEPT !.refusals = IF refused THEN @ + 1 ELSE 0]
              /\ \E d \in IF kind = "expired" THEN {0} ELSE Pauses(IF refused THEN tries.refusals ELSE 0) :
                    join' = SleepsUntil(hour + d)
           \/ /\ ~knob.serve
              /\ IF kind \in {"transient", "expired"} /\ tries.attempt < OneShotTries
                 THEN /\ tries' = [NoTries EXCEPT !.attempt = tries.attempt + 1]
                      /\ join' = SleepsUntil(hour + (IF kind = "expired" THEN 0 ELSE 1))
                 ELSE join' = JoinAt("ended") /\ tries' = NoTries
        /\ UNCHANGED <<knob, hour>>

\* backoff_within_grant: the expiry goes first.
Wakes ==
    /\ join.at = "wait" /\ (hour >= join.until \/ Expired)
    /\ join' = JoinAt(IF Expired THEN "ended" ELSE "top")
    /\ UNCHANGED <<knob, tries, swarm, hour>>

\* Mutation: the round is awaited without the budget.
ExpiryCutsAtLeisure ==
    /\ join.at \in Running /\ Expired
    /\ join' = [join EXCEPT !.at = "teardown", !.until = hour + SetupBound + Teardown]
    /\ UNCHANGED <<knob, tries, swarm, hour>>

\* The grant runs out in the middle of a round: the round gets GRANT_TEARDOWN_BUDGET to close its
\* session, then it is dropped where it is.
ExpiryCuts ==
    /\ join.at \in Running /\ Expired
    /\ join' = [join EXCEPT !.at = "teardown", !.until = hour + Teardown]
    /\ UNCHANGED <<knob, tries, swarm, hour>>

TeardownOver ==
    /\ join.at = "teardown"
    /\ join' = JoinAt("ended") /\ tries' = NoTries /\ GuardDrops
    /\ UNCHANGED <<knob, hour>>

-----------------------------------------------------------------------------
(* One round: join_via_relay_gate_dcutr, join_via_relay_dcutr, join_via_relay_without_dcutr.  *)

\* The relay refuses the join, or its park window closes.
AdmissionEnds ==
    /\ join.at = "parked"
    /\ \E kind \in {"transient", "refused", "verify", "revoked", "expired"} : Concludes(kind)

\* The relay admits the member and names its peer.  The joins that may upgrade consult the pin and
\* close the leg of a peer it refuses (join_via_relay_gate_dcutr).
AdmittedUpgrading(p) ==
    /\ join.at = "parked" /\ knob.upgrade
    /\ IF knob.pin /\ p = "other"
       THEN Concludes("transient")
       ELSE /\ join' = [join EXCEPT !.at = "gate", !.peer = p, !.path = "relay"]
            /\ UNCHANGED <<knob, tries, swarm, hour>>

\* The join that declines upgrades has no pin to consult (join_via_relay_without_dcutr).
AdmittedDeclining(p) ==
    /\ join.at = "parked" /\ ~knob.upgrade
    /\ join' = [join EXCEPT !.at = "session", !.peer = p, !.path = "relay"]
    /\ UNCHANGED <<knob, tries, swarm, hour>>

\* dial_relay_gate_over_443 and build_relay_gate_client; the initiator then reserves its circuit
\* before its session starts, on a swarm driven from here on (dcutr_reserve_and_accept).
GateOpens ==
    /\ join.at = "gate"
    /\ IF knob.role = "initiate"
       THEN /\ join' = [join EXCEPT !.at = "reserve", !.until = hour + SetupBound]
            /\ swarm' = TRUE
       ELSE join' = [join EXCEPT !.at = "session"] /\ swarm' = swarm
    /\ UNCHANGED <<knob, tries, hour>>

GateFails ==
    /\ join.at = "gate"
    /\ \E kind \in {"transient", "refused", "verify", "revoked"} : Concludes(kind)

Reserved ==
    /\ join.at = "reserve"
    /\ join' = [join EXCEPT !.at = "session", !.until = 0]
    /\ UNCHANGED <<knob, tries, swarm, hour>>

\* The reservation is not accepted in time, or the driver ends: so does the join.
ReserveFails ==
    /\ join.at = "reserve"
    /\ Concludes("transient")

-----------------------------------------------------------------------------
(* The session: run_channel_session_upgradable_dcutr, run_relay_session_declining_upgrades.   *)

\* The initiator offers its circuit address, once, and waits for the stream.  The acceptor takes
\* an offer that names its own relay (dcutr_upgrade_target) and dials the target through it, on a
\* swarm of its own (dcutr_dial_via_relay); any other offer, and every offer when the switch is
\* off, is declined.
OfferTaken ==
    /\ join.at = "session" /\ join.path = "relay" /\ knob.upgrade
    /\ join' = [join EXCEPT !.path = "offered",
                             !.until = IF knob.role = "accept" THEN hour + SetupBound ELSE 0]
    /\ swarm' = TRUE
    /\ UNCHANGED <<knob, tries, hour>>

\* The stream opened and its own Noise handshake agreed: the session moves over.
Upgrades ==
    /\ join.at = "session" /\ join.path = "offered"
    /\ join' = [join EXCEPT !.path = "direct", !.until = 0]
    /\ UNCHANGED <<knob, tries, swarm, hour>>

\* The stream does not open in time, or its handshake fails: the session stays on the relay.  A dial
\* that failed drops its driver with the guard; the initiator's keeps running for the session.
UpgradeFails ==
    /\ join.at = "session" /\ join.path = "offered"
    /\ join' = [join EXCEPT !.path = "stayed", !.until = 0]
    /\ swarm' \in {knob.role = "initiate", TRUE}
    /\ UNCHANGED <<knob, tries, hour>>

\* The session returns; the guard of its swarm driver goes with it.
SessionReturns ==
    /\ join.at = "session"
    /\ \E kind \in {"ok", "transient"} : Concludes(kind)

DcutrDue ==
    \/ join.at = "top"
    \/ join.at = "wait" /\ (hour >= join.until \/ Expired)
    \/ join.at \in Running /\ Expired
    \/ join.at \in {"teardown", "reserve"} /\ hour >= join.until
    \/ join.path = "offered" /\ knob.role = "accept" /\ hour >= join.until

DcutrTick ==
    /\ ~DcutrDue /\ hour < DcutrTime /\ join.at # "ended"
    /\ hour' = hour + 1
    /\ UNCHANGED <<knob, join, tries, swarm>>

DcutrNext ==
    \/ RoundStarts \/ DialSucceeds \/ DialFails \/ Wakes \/ ExpiryCuts \/ TeardownOver
    \/ AdmissionEnds \/ (\E p \in {"partner", "other"} : AdmittedUpgrading(p) \/ AdmittedDeclining(p))
    \/ GateOpens \/ GateFails \/ Reserved \/ ReserveFails
    \/ OfferTaken \/ Upgrades \/ UpgradeFails \/ SessionReturns \/ DcutrTick

DcutrSpec == DcutrInit /\ [][DcutrNext]_dcutrVars

-----------------------------------------------------------------------------
(* Properties *)

\* The swarm driver runs for a session, or for one that is being set up: a driver that outlived its
\* session would hold its sockets and its circuit for the life of the process.
DriverHasSession == swarm => join.at \in {"reserve", "session", "teardown"}

\* A serving member is gone once its grant is over by the teardown budget, whatever round, retry or
\* backoff the expiry falls into.
GoneWithGrant == knob.serve /\ hour > knob.expires + Teardown => join.at = "ended"

\* A grant's end, or a session's, leaves neither a loop nor a swarm driver running.
LeavesNothing == DcutrTypeOK /\ GoneWithGrant /\ DriverHasSession
=============================================================================
