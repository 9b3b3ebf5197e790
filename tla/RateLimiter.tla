----------------------------- MODULE RateLimiter ----------------------------
(***************************************************************************)
(* RateLimiter (local_auth.rs), the failure lockout that the credential    *)
(* checks of all connections share: three atomics, read and written one at *)
(* a time by the tasks of different connections.  A check that is refused  *)
(* changes nothing.                                                        *)
(***************************************************************************)
EXTENDS Naturals, FiniteSets

CONSTANTS
    GateTasks,    \* connections whose credential is being checked at the same time
    MaxFailures,  \* MAX_FAILURES
    Window,       \* WINDOW
    Lockout,      \* LOCKOUT
    LimiterTime   \* bound: the clock

\* MAX_FAILURES is 5: with a single failure, the one that opens the window locks nothing.
ASSUME LimiterAssumption ==
    /\ IsFiniteSet(GateTasks)
    /\ {Window, Lockout, LimiterTime} \subseteq Nat \ {0}
    /\ MaxFailures \in Nat \ {0, 1}

VARIABLES
    failures, window, lockedUntil,  \* the atomics; window = 0: none is open
    gate,     \* per task: the next access, the verdict, the time it read
    secs,     \* now_secs
    guesses   \* history: wrong credentials compared in the clock's last Window, since a lockout

limiterVars == <<failures, window, lockedUntil, gate, secs, guesses>>

Resting == [at |-> "rest", now |-> 0]

LimiterInit ==
    /\ failures = 0 /\ window = 0 /\ lockedUntil = 0
    /\ gate = [t \in GateTasks |-> Resting]
    /\ secs = 1 /\ guesses = [n |-> 0, since |-> 1]

GateAt(t, access) == gate[t].at = access
GateGoes(t, access) == gate' = [gate EXCEPT ![t].at = access]
GateRests(t) == gate' = [gate EXCEPT ![t] = Resting]
Atomics == <<failures, window, lockedUntil>>

\* check, when it allows the attempt.
LimiterChecks(t) ==
    /\ GateAt(t, "rest") /\ lockedUntil <= secs
    /\ GateGoes(t, "compare")
    /\ UNCHANGED <<Atomics, secs, guesses>>

\* verify and verify_password_only: the comparison, then record reads the time.
Compares(t, ok) ==
    /\ GateAt(t, "compare")
    /\ gate' = [gate EXCEPT ![t] = [at |-> IF ok THEN "zero" ELSE "load", now |-> secs]]
    /\ guesses' = IF ok THEN guesses
                  ELSE IF guesses.n = 0 \/ secs - guesses.since > Window THEN [n |-> 1, since |-> secs]
                  ELSE [guesses EXCEPT !.n = @ + 1]
    /\ UNCHANGED <<Atomics, secs>>

\* record(true): two stores.
ZeroesFailures(t) ==
    /\ GateAt(t, "zero")
    /\ failures' = 0
    /\ guesses' = [n |-> 0, since |-> secs]
    /\ GateGoes(t, "close")
    /\ UNCHANGED <<window, lockedUntil, secs>>

ClosesWindow(t) ==
    /\ GateAt(t, "close")
    /\ window' = 0
    /\ guesses' = [n |-> 0, since |-> secs]
    /\ GateRests(t)
    /\ UNCHANGED <<failures, lockedUntil, secs>>

\* Mutation: a failure within the window opens a fresh one too.
LoadsWindowFresh(t) ==
    /\ GateAt(t, "load")
    /\ GateGoes(t, "open")
    /\ UNCHANGED <<Atomics, secs, guesses>>

\* record(false): the window is read first.
LoadsWindow(t) ==
    /\ GateAt(t, "load")
    /\ GateGoes(t, IF window = 0 \/ (gate[t].now > window /\ gate[t].now - window > Window) THEN "open" ELSE "count")
    /\ UNCHANGED <<Atomics, secs, guesses>>

\* A fresh window: its start, then the count.
OpensWindow(t) ==
    /\ GateAt(t, "open")
    /\ window' = gate[t].now
    /\ GateGoes(t, "first")
    /\ UNCHANGED <<failures, lockedUntil, secs, guesses>>

CountsFirst(t) ==
    /\ GateAt(t, "first")
    /\ failures' = 1
    /\ GateRests(t)
    /\ UNCHANGED <<window, lockedUntil, secs, guesses>>

\* fetch_add.
Counts(t) ==
    /\ GateAt(t, "count")
    /\ failures' = failures + 1
    /\ IF failures + 1 >= MaxFailures THEN GateGoes(t, "lock") ELSE GateRests(t)
    /\ UNCHANGED <<window, lockedUntil, secs, guesses>>

\* The lockout runs from the time of this failure.
LocksFor(t) ==
    /\ GateAt(t, "lock")
    /\ lockedUntil' = gate[t].now + Lockout
    /\ guesses' = [n |-> 0, since |-> secs]
    /\ GateRests(t)
    /\ UNCHANGED <<failures, window, secs>>

\* The accesses of one record are microseconds: time passes between attempts.
LimiterTick ==
    /\ secs < LimiterTime /\ \A t \in GateTasks : GateAt(t, "rest")
    /\ secs' = secs + 1
    /\ UNCHANGED <<Atomics, gate, guesses>>

LimiterNext ==
    \/ \E t \in GateTasks :
         \/ LimiterChecks(t) \/ (\E ok \in BOOLEAN : Compares(t, ok))
         \/ ZeroesFailures(t) \/ ClosesWindow(t) \/ LoadsWindow(t) \/ OpensWindow(t)
         \/ CountsFirst(t) \/ Counts(t) \/ LocksFor(t)
    \/ LimiterTick

LimiterSpec == LimiterInit /\ [][LimiterNext]_limiterVars

-----------------------------------------------------------------------------
(* Properties. *)

\* However the accesses of the connections interleave, the wrong credentials that are compared
\* in one window before the lockout are bounded: the counts that racing connections lose never
\* add up to more than one budget of MAX_FAILURES for each of them beside the one that is meant.
GuessesBounded == guesses.n <= (Cardinality(GateTasks) + 1) * MaxFailures
=============================================================================
