------------------------------ MODULE Readiness ------------------------------
(* The readiness probe of a channel member (channel_run/health.rs).  Sessions   *)
(* and parked joins hold tickets on counters; giving one back first stamps the  *)
(* time and then takes it off the counter.  A probe reads the counters and the  *)
(* stamps one by one, under no lock, while the tasks go on.                     *)
EXTENDS Naturals, FiniteSets

CONSTANTS
  Holders,       \* tasks that park and hold sessions
  ReadyGrace,    \* READY_GRACE_SECS
  HealthTime     \* bound: seconds

ASSUME ReadinessAssumption ==
  IsFiniteSet(Holders) /\ ReadyGrace \in Nat \ {0} /\ HealthTime \in Nat \ {0}

VARIABLES
  second,    \* now_unix(); it starts at one, as zero stands for never
  health,    \* ChannelHealth: the counters, the stamps and the stopping flag
  holder,    \* where each task is
  accept,    \* whether the member has the accepting role: parking counts for it
  probe,     \* the probe: where it is, what it has read, how it answered
  truth      \* when a session or a good park last ended, whatever was read of it

readinessVars == <<second, health, holder, accept, probe, truth>>

NoProbe == [at |-> "none", now |-> 0, parkEnded |-> 0, answer |-> "none", code |-> 0,
            held |-> FALSE, last |-> 0]

HolderStates == {"idle", "parked", "parkOk", "parkRefused", "parkStamped", "joined", "session",
                 "ended", "sessionStamped"}

\* The state is of the kinds declared above.
ReadinessTypeOK ==
  /\ second \in 1 .. HealthTime
  /\ health \in [established : 0 .. Cardinality(Holders), parked : 0 .. Cardinality(Holders),
                 sessionEndedAt : 0 .. HealthTime, parkEndedAt : 0 .. HealthTime,
                 stopping : BOOLEAN]
  /\ holder \in [Holders -> HolderStates]
  /\ accept \in BOOLEAN
  /\ probe.at \in {"none", "connect", "stopping", "established", "parked", "parkEnded",
                   "sessionEnded", "answered", "done"}
  /\ probe.answer \in {"none", "ready", "stopping", "yet", "late"}
  /\ truth \in 0 .. HealthTime

ReadinessInit ==
  /\ second = 1
  /\ health = [established |-> 0, parked |-> 0, sessionEndedAt |-> 0, parkEndedAt |-> 0,
               stopping |-> FALSE]
  /\ holder = [m \in Holders |-> "idle"]
  /\ accept \in BOOLEAN
  /\ probe = NoProbe
  /\ truth = 0

SecondPasses ==
  /\ second < HealthTime
  /\ second' = second + 1
  /\ UNCHANGED <<health, holder, accept, probe, truth>>

-----------------------------------------------------------------------------
(* The tickets.                                                                 *)

HolderGoes(m, to) == holder' = [holder EXCEPT ![m] = to]

\* Ticket::new: the counter goes up before anything is waited for.
Parks(m) ==
  /\ holder[m] = "idle"
  /\ health' = [health EXCEPT !.parked = @ + 1]
  /\ HolderGoes(m, "parked")
  /\ UNCHANGED <<second, accept, probe, truth>>

\* Admitted or the park's own end give the ticket a stamp; a refusal does not.
ParkOutcome(m) ==
  /\ holder[m] = "parked"
  /\ \E outcome \in {"parkOk", "parkRefused"} : HolderGoes(m, outcome)
  /\ UNCHANGED <<second, health, accept, probe, truth>>

SessionStarts(m) ==
  /\ holder[m] = "joined"
  /\ health' = [health EXCEPT !.established = @ + 1]
  /\ HolderGoes(m, "session")
  /\ UNCHANGED <<second, accept, probe, truth>>

\* The time is read and stored; no second passes in between.
Stamped(at) ==
  CASE at = "parkOk" -> [health EXCEPT !.parkEndedAt = second]
    [] at = "ended"  -> [health EXCEPT !.sessionEndedAt = second]
    [] at = "parkRefused" -> health

TakenOff(at) ==
  IF at = "sessionStamped" THEN [health EXCEPT !.established = @ - 1]
  ELSE [health EXCEPT !.parked = @ - 1]

SessionEnds(m) ==
  /\ holder[m] = "session"
  /\ HolderGoes(m, "ended")
  /\ UNCHANGED <<second, health, accept, probe, truth>>

\* Mutation: a ticket comes off its counter before the time is stamped.
TicketDropLate(m) ==
  \/ /\ holder[m] \in {"parkOk", "parkRefused", "ended"}
     /\ health' = TakenOff(IF holder[m] = "ended" THEN "sessionStamped" ELSE "parkStamped")
     /\ HolderGoes(m, IF holder[m] = "ended" THEN "sessionStamped" ELSE "parkStamped")
     /\ UNCHANGED <<second, accept, probe, truth>>
  \/ /\ holder[m] \in {"parkStamped", "sessionStamped"}
     /\ health' = Stamped(IF holder[m] = "parkStamped" THEN "parkOk" ELSE "ended")
     /\ truth' = second
     /\ HolderGoes(m, IF holder[m] = "parkStamped" THEN "joined" ELSE "idle")
     /\ UNCHANGED <<second, accept, probe>>

\* Drop for Ticket: the stamp, then the counter.
TicketDrop(m) ==
  \/ /\ holder[m] \in {"parkOk", "ended"}
     /\ health' = Stamped(holder[m])
     /\ truth' = IF holder[m] = "ended" \/ accept THEN second ELSE truth
     /\ HolderGoes(m, IF holder[m] = "ended" THEN "sessionStamped" ELSE "parkStamped")
     /\ UNCHANGED <<second, accept, probe>>
  \/ /\ holder[m] \in {"parkStamped", "sessionStamped", "parkRefused"}
     /\ health' = TakenOff(holder[m])
     /\ \E to \in (IF holder[m] = "parkStamped" THEN {"joined", "idle"} ELSE {"idle"}) :
          HolderGoes(m, to)
     /\ UNCHANGED <<second, accept, probe, truth>>

SetStopping ==
  /\ ~health.stopping
  /\ health' = [health EXCEPT !.stopping = TRUE]
  /\ UNCHANGED <<second, holder, accept, probe, truth>>

-----------------------------------------------------------------------------
(* The probe.                                                                   *)

\* A session in being, or a park with a good outcome, neither given back yet.
HoldsTicket == \E m \in Holders : \/ holder[m] \in {"session", "ended"}
                                  \/ accept /\ holder[m] = "parkOk"

\* The asker connects, or the listener does not answer in time.
ProbeAsks ==
  /\ probe.at \in {"none", "done"}
  /\ probe' = [NoProbe EXCEPT !.at = "connect"]
  /\ UNCHANGED <<second, health, holder, accept, truth>>

ProbeTimesOut ==
  /\ probe.at = "connect"
  /\ probe' = [NoProbe EXCEPT !.at = "done", !.code = 1]
  /\ UNCHANGED <<second, health, holder, accept, truth>>

\* readyz takes the time, and then works the answer out.
Readyz ==
  /\ probe.at = "connect"
  /\ probe' = [probe EXCEPT !.at = "stopping", !.now = second, !.held = HoldsTicket, !.last = truth]
  /\ UNCHANGED <<second, health, holder, accept, truth>>

Answers(verdict) == probe' = [probe EXCEPT !.at = "answered", !.answer = verdict]

ProbeGoes(to) == probe' = [probe EXCEPT !.at = to]

ReadsStopping ==
  /\ probe.at = "stopping"
  /\ IF health.stopping THEN Answers("stopping") ELSE ProbeGoes("established")
  /\ UNCHANGED <<second, health, holder, accept, truth>>

ReadsEstablished ==
  /\ probe.at = "established"
  /\ IF health.established > 0 THEN Answers("ready") ELSE ProbeGoes("parked")
  /\ UNCHANGED <<second, health, holder, accept, truth>>

ReadsParked ==
  /\ probe.at = "parked"
  /\ IF accept /\ health.parked > 0 THEN Answers("ready") ELSE ProbeGoes("parkEnded")
  /\ UNCHANGED <<second, health, holder, accept, truth>>

ReadsParkEnded ==
  /\ probe.at = "parkEnded"
  /\ probe' = [probe EXCEPT !.at = "sessionEnded",
                            !.parkEnded = IF accept THEN health.parkEndedAt ELSE 0]
  /\ UNCHANGED <<second, health, holder, accept, truth>>

\* A stamp that is later than the time taken first counts as no time ago.
ReadsSessionEnded ==
  /\ probe.at = "sessionEnded"
  /\ LET last == IF health.sessionEndedAt > probe.parkEnded
                   THEN health.sessionEndedAt ELSE probe.parkEnded
     IN Answers(CASE last = 0                                   -> "yet"
                  [] last > 0 /\ probe.now < last + ReadyGrace  -> "ready"
                  [] last > 0 /\ probe.now >= last + ReadyGrace -> "late")
  /\ UNCHANGED <<second, health, holder, accept, truth>>

\* The asker's exit status; an answer may still be lost on its way.
ProbeReturns ==
  /\ probe.at = "answered"
  /\ \E arrives \in BOOLEAN :
       probe' = [NoProbe EXCEPT !.at = "done",
                                !.code = IF arrives /\ probe.answer = "ready" THEN 0 ELSE 1]
  /\ UNCHANGED <<second, health, holder, accept, truth>>

ReadinessNext ==
  \/ SecondPasses \/ SetStopping
  \/ \E m \in Holders : Parks(m) \/ ParkOutcome(m) \/ SessionStarts(m) \/ SessionEnds(m)
                        \/ TicketDrop(m)
  \/ ProbeAsks \/ ProbeTimesOut \/ Readyz \/ ReadsStopping \/ ReadsEstablished \/ ReadsParked
  \/ ReadsParkEnded \/ ReadsSessionEnded \/ ProbeReturns

ReadinessSpec == ReadinessInit /\ [][ReadinessNext]_readinessVars

-----------------------------------------------------------------------------
\* A probe that answers "not ready" to a member that is not shutting down is never
\* caught between two of the member's writes: when the probe took its time, the
\* member held no session and no good park, and the last one had ended at least
\* the grace before, or there had been none.  A ticket given back while the probe
\* goes from one counter to the next would otherwise show neither in the counter
\* nor in its stamp (health.rs:99-119, :226-249).
NotReadyIsTrue ==
  /\ ReadinessTypeOK
  /\ (probe.at = "answered" /\ probe.answer \in {"yet", "late"}) =>
       /\ ~probe.held
       /\ probe.last = 0 \/ probe.now >= probe.last + ReadyGrace
=============================================================================
