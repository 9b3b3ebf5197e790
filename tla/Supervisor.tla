----------------------------- MODULE Supervisor -----------------------------
(***************************************************************************)
(* ct-agent-supervisor: start the agent, wait for it or for a stop signal, *)
(* classify its exit, back off and start it again; one exit status is      *)
(* final.  The listener for the stop signal lives only while run_once or   *)
(* the wait before a restart polls it: what arrives in between is dropped  *)
(* with the listener.  The log, the crash history's contents and its       *)
(* endpoint are left out.                                                  *)
(***************************************************************************)
EXTENDS Naturals

CONSTANTS
    BaseDelay, MaxDelay,  \* BASE_DELAY, MAX_DELAY
    Healthy,              \* HEALTHY_UPTIME_THRESHOLD
    Grace,                \* SHUTDOWN_GRACE
    PumpWait,             \* how long the stderr pump is waited for after the exit
    Doublings             \* bound: the backoff's counter is kept up to here

ASSUME SupervisorAssumption ==
    /\ {BaseDelay, MaxDelay, Healthy, Grace, PumpWait, Doublings} \subseteq Nat
    /\ BaseDelay <= MaxDelay

VARIABLES
    sup,    \* the loop: where it is, its timer, backoff.attempt, uptime, time without a child (capped)
    child,  \* the child process: "none", "up", or the status it exited with
    sig,    \* a stop signal the live listener has received
    asked   \* a stop signal was sent to this process, once

supervisorVars == <<sup, child, sig, asked>>

\* Signal and Panic and CleanExit, CleanExitOk, and the status OWN_GRANT_ENDED_EXIT.
Statuses == {"crash", "zero", "grant"}
Lesser(a, b) == IF a < b THEN a ELSE b

SupervisorInit ==
    /\ sup = [at |-> "start", left |-> 0, attempt |-> 0, up |-> 0, down |-> 0]
    /\ child = "none" /\ sig = FALSE /\ asked = FALSE

\* Backoff::next_delay, without the give-up it never reaches.
Delay(attempt) == Lesser(BaseDelay * 2 ^ attempt, MaxDelay)

\* The history update, the reset after a healthy run, and the delay before the restart.
BacksOff(s) ==
    LET attempt == IF s.up >= Healthy THEN 0 ELSE s.attempt
    IN  [s EXCEPT !.at = "wait", !.left = Delay(attempt), !.attempt = Lesser(attempt + 1, Doublings), !.up = 0]

\* run_once: spawn, or the spawn error, which is treated as an exit with code -1.
Spawns(runnable) ==
    /\ sup.at = "start"
    /\ IF runnable
       THEN /\ child' = "up"
            /\ sup' = [sup EXCEPT !.at = "run", !.up = 0, !.down = 0]
       ELSE /\ sup' = BacksOff(sup) /\ UNCHANGED child
    /\ sig' = FALSE
    /\ UNCHANGED asked

\* The select of run_once: the child's exit ...
SeesExit ==
    /\ sup.at = "run" /\ child \in Statuses
    /\ sup' = [sup EXCEPT !.at = "pump", !.left = PumpWait]
    /\ UNCHANGED <<child, sig, asked>>

\* ... or the stop signal, forwarded to the child.
SeesStop ==
    /\ sup.at = "run" /\ sig
    /\ sup' = [sup EXCEPT !.at = "stopping", !.left = Grace]
    /\ UNCHANGED <<child, sig, asked>>

\* Mutation: the child is not killed when its grace is over.
ChildStopsOnly ==
    /\ sup.at = "stopping" /\ (child \in Statuses \/ sup.left = 0)
    /\ sup' = [sup EXCEPT !.at = "stopped", !.left = 0]
    /\ UNCHANGED <<child, sig, asked>>

\* The child is reaped, or killed when its grace is over; the supervisor returns.
ChildStops ==
    /\ sup.at = "stopping" /\ (child \in Statuses \/ sup.left = 0)
    /\ child' = "none"
    /\ sup' = [sup EXCEPT !.at = "stopped", !.left = 0]
    /\ UNCHANGED <<sig, asked>>

\* The pump ended or is given up; classify_exit; final_status; otherwise the restart is scheduled.
\* The listener that run_once held is gone, with what it had received.
Classifies ==
    /\ sup.at = "pump"
    /\ sup' = IF child = "grant" THEN [sup EXCEPT !.at = "final", !.left = 0] ELSE BacksOff(sup)
    /\ child' = "none"
    /\ sig' = FALSE
    /\ UNCHANGED asked

WaitOver ==
    /\ sup.at = "wait" /\ sup.left = 0
    /\ sup' = [sup EXCEPT !.at = "start"]
    /\ sig' = FALSE
    /\ UNCHANGED <<child, asked>>

StopsWaiting ==
    /\ sup.at = "wait" /\ sig
    /\ sup' = [sup EXCEPT !.at = "stopped", !.left = 0]
    /\ UNCHANGED <<child, sig, asked>>

-----------------------------------------------------------------------------
(* The child, the service manager and time. *)

ChildExits(status) ==
    /\ child = "up"
    /\ child' = status
    /\ UNCHANGED <<sup, sig, asked>>

StopAsked ==
    /\ ~asked /\ sup.at \in {"run", "pump", "wait"}
    /\ asked' = TRUE /\ sig' = TRUE
    /\ UNCHANGED <<sup, child>>

Ended == sup.at \in {"stopped", "final"}

\* What the supervisor does without waiting is done before time passes.
SupervisorIdle ==
    \/ sup.at = "run" /\ child = "up" /\ ~sig
    \/ sup.at = "pump" /\ sup.left > 0
    \/ sup.at = "stopping" /\ child = "up" /\ sup.left > 0
    \/ sup.at = "wait" /\ sup.left > 0 /\ ~sig

SupervisorTick ==
    /\ SupervisorIdle
    /\ sup' = [sup EXCEPT !.left = IF @ = 0 THEN 0 ELSE @ - 1,
                          !.up   = IF child = "up" THEN Lesser(@ + 1, Healthy) ELSE @,
                          !.down = IF child = "up" THEN 0 ELSE Lesser(@ + 1, MaxDelay + PumpWait + 1)]
    /\ UNCHANGED <<child, sig, asked>>

SupervisorSteps ==
    \/ SeesExit \/ SeesStop \/ ChildStops \/ Classifies \/ WaitOver \/ StopsWaiting
    \/ StopAsked \/ SupervisorTick

-----------------------------------------------------------------------------
(* Properties. *)

\* No agent outlives its supervisor, however the supervisor ends (a restarted one would run a
\* second copy next to it).
NoOrphan == Ended => child # "up"
=============================================================================
