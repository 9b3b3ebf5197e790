------------------------------ MODULE EventRing ------------------------------
(* Operator events (events.rs): every task of the agent emits them.  A kind     *)
(* that can come in floods has a budget per window, and the next line let       *)
(* through says how many were withheld.  A line goes to a ring of two files     *)
(* under a lock: past its cap the current file is renamed over the rotated one. *)
(* Lines are numbers, a file is what it holds between newlines; a write that    *)
(* fails half way leaves a line without its end, which the next one joins.  A   *)
(* reader takes a file up to the first stretch that is not text.                *)
EXTENDS Naturals, Sequences, FiniteSets

CONSTANTS
  EventTasks,     \* tasks that emit
  BudgetLimit,    \* LIMIT_PER_WINDOW
  RingCap,        \* EVENTS_RING_MAX_BYTES, in lines
  Events,         \* bound: events emitted
  Windows,        \* bound: windows that go by
  Shown           \* how many lines a reader asks for

Free == "free"

ASSUME RingAssumption ==
  /\ IsFiniteSet(EventTasks) /\ Free \notin EventTasks
  /\ BudgetLimit \in Nat \ {0} /\ RingCap \in Nat \ {0}
  /\ Events \in Nat /\ Windows \in Nat /\ Shown \in Nat

VARIABLES
  emitter,     \* what each task is doing, and what its event says of withheld ones
  budget,      \* Budget: used in this window, withheld and not yet reported
  tally,       \* event counters: calls, counted, let through, reported as withheld
  ringLock,    \* who holds the ring's mutex
  files,       \* the rotated and the current file
  attempts,    \* lines the ring was given, in the order it took them
  ringErrors,  \* write_errors
  recent       \* the last reading: what it showed, the lines given by then, files cut short

ringVars == <<emitter, budget, tally, ringLock, files, attempts, ringErrors, recent>>

AtRest == [at |-> "idle", withheld |-> 0]

\* What is left of a line that was written in part.
Fragment == 0

\* One stretch of a file up to a newline: the lines in it, whether it ended, and
\* whether a write was cut inside a character of it, so that it is no text.
Stretches == [lines : Seq(0 .. Events), ended : BOOLEAN, torn : BOOLEAN]

\* The state is of the kinds declared above.
RingTypeOK ==
  /\ emitter \in [EventTasks -> [at : {"idle", "count", "countOnly", "wait", "size", "line", "newline"},
                                 withheld : 0 .. Events]]
  /\ budget \in [window : 0 .. Windows, used : 0 .. BudgetLimit, suppressed : 0 .. Events]
  /\ tally \in [calls : 0 .. Events, counted : 0 .. Events, lines : 0 .. Events,
                reported : 0 .. Events]
  /\ ringLock \in EventTasks \cup {Free}
  /\ files \in [rotated : Seq(Stretches), current : Seq(Stretches)]
  /\ attempts \in Seq(1 .. Events)
  /\ ringErrors \in 0 .. Events
  /\ recent \in [lines : Seq(0 .. Events), upTo : 0 .. Events, torn : 0 .. 2]

RingInit ==
  /\ emitter = [t \in EventTasks |-> AtRest]
  /\ budget = [window |-> 0, used |-> 0, suppressed |-> 0]
  /\ tally = [calls |-> 0, counted |-> 0, lines |-> 0, reported |-> 0]
  /\ ringLock = Free
  /\ files = [rotated |-> <<>>, current |-> <<>>]
  /\ attempts = <<>>
  /\ ringErrors = 0
  /\ recent = [lines |-> <<>>, upTo |-> 0, torn |-> 0]

EmitterGoes(t, to) == emitter' = [emitter EXCEPT ![t].at = to]

-----------------------------------------------------------------------------
(* The budget.                                                                  *)

\* What is left of the count once a line has reported it.
TakesSuppressed(b) == 0

\* A window that has gone by starts anew with the next call.
Current(b, window) == IF window > b.window THEN [b EXCEPT !.window = window, !.used = 0] ELSE b

\* emit_limited: within the budget the event goes on and reports what was withheld
\* before it; past it, it is counted and nothing else.
Allow(t) ==
  /\ emitter[t].at = "idle" /\ tally.calls < Events
  /\ \E window \in budget.window .. Windows :
       LET b == Current(budget, window)
       IN IF b.used >= BudgetLimit
            THEN /\ budget' = [b EXCEPT !.suppressed = @ + 1]
                 /\ EmitterGoes(t, "countOnly")
            ELSE /\ budget' = [b EXCEPT !.used = @ + 1, !.suppressed = TakesSuppressed(b)]
                 /\ emitter' = [emitter EXCEPT ![t] = [at |-> "count", withheld |-> b.suppressed]]
  /\ tally' = [tally EXCEPT !.calls = @ + 1]
  /\ UNCHANGED <<ringLock, files, attempts, ringErrors, recent>>

CountsOnly(t) ==
  /\ emitter[t].at = "countOnly"
  /\ tally' = [tally EXCEPT !.counted = @ + 1]
  /\ EmitterGoes(t, "idle")
  /\ UNCHANGED <<budget, ringLock, files, attempts, ringErrors, recent>>

\* emit: the counter, the line on stderr, then the ring.
Emit(t) ==
  /\ emitter[t].at = "count"
  /\ tally' = [tally EXCEPT !.counted = @ + 1, !.lines = @ + 1,
                            !.reported = @ + emitter[t].withheld]
  /\ emitter' = [emitter EXCEPT ![t] = [at |-> "wait", withheld |-> 0]]
  /\ UNCHANGED <<budget, ringLock, files, attempts, ringErrors, recent>>

-----------------------------------------------------------------------------
(* The ring.                                                                    *)

\* Mutation: lines are appended without the lock.
RingFreeAlways(t) == TRUE

RingFree(t) == ringLock = Free

LocksRing(t) ==
  /\ emitter[t].at = "wait"
  /\ RingFree(t)
  /\ ringLock' = t
  /\ EmitterGoes(t, "size")
  /\ UNCHANGED <<budget, tally, files, attempts, ringErrors, recent>>

Unlocks(t) == EmitterGoes(t, "idle") /\ ringLock' = Free

\* A file that the line would carry past the cap, and is not empty, is rotated.
Rotates(t) ==
  /\ emitter[t].at = "size"
  /\ files' = IF Len(files.current) > 0 /\ Len(files.current) + 1 > RingCap
                THEN [rotated |-> files.current, current |-> <<>>] ELSE files
  /\ EmitterGoes(t, "line")
  /\ UNCHANGED <<budget, tally, ringLock, attempts, ringErrors, recent>>

NextLine == Len(attempts) + 1

\* The line lands after the last newline, or on what an earlier write left there.
WithLine(file, line, torn) ==
  IF file # <<>> /\ ~file[Len(file)].ended
    THEN [file EXCEPT ![Len(file)].lines = Append(@, line), ![Len(file)].torn = @ \/ torn]
    ELSE Append(file, [lines |-> <<line>>, ended |-> FALSE, torn |-> torn])

WritesLine(t) ==
  /\ emitter[t].at = "line"
  /\ files' = [files EXCEPT !.current = WithLine(@, NextLine, FALSE)]
  /\ attempts' = Append(attempts, NextLine)
  /\ EmitterGoes(t, "newline")
  /\ UNCHANGED <<budget, tally, ringLock, ringErrors, recent>>

WritesNewline(t) ==
  /\ emitter[t].at = "newline"
  /\ files' = IF files.current = <<>> THEN files
              ELSE [files EXCEPT !.current[Len(files.current)].ended = TRUE]
  /\ Unlocks(t)
  /\ UNCHANGED <<budget, tally, attempts, ringErrors, recent>>

\* The directory, the size, the rename, the opening or a write fails: counted, and
\* the line or its newline is not there, or part of the line is, cut anywhere.
AppendFails(t) ==
  /\ emitter[t].at \in {"size", "line", "newline"}
  /\ \/ UNCHANGED files
     \/ /\ emitter[t].at = "line"
        /\ \E torn \in BOOLEAN : files' = [files EXCEPT !.current = WithLine(@, Fragment, torn)]
  /\ ringErrors' = ringErrors + 1
  /\ attempts' = IF emitter[t].at = "newline" THEN attempts ELSE Append(attempts, NextLine)
  /\ Unlocks(t)
  /\ UNCHANGED <<budget, tally, recent>>

\* A stretch that is one line as it was written.
Whole(stretch) == Len(stretch.lines) = 1 /\ stretch.lines[1] # Fragment

\* The stretches of a file that are no text, and how far its lines can be read.
TornAt(file) == {i \in 1 .. Len(file) : file[i].torn}

ReadTo(file) ==
  IF TornAt(file) = {} THEN Len(file)
  ELSE (CHOOSE i \in TornAt(file) : \A j \in TornAt(file) : i <= j) - 1

\* read_lines: up to the first error, a stretch that is no line as it was written is
\* shown too.
Readable(file) ==
  [i \in 1 .. ReadTo(file) |-> IF Whole(file[i]) THEN file[i].lines[1] ELSE Fragment]

\* How many of the two files could not be read to their end.
CutShort == (IF TornAt(files.rotated) = {} THEN 0 ELSE 1) + (IF TornAt(files.current) = {} THEN 0 ELSE 1)

\* The rotated file is the older one.
RecentLines == Readable(files.rotated) \o Readable(files.current)

ReadsRecent ==
  /\ ringLock = Free
  /\ recent' = LET all  == RecentLines
                   skip == IF Len(all) > Shown THEN Len(all) - Shown ELSE 0
               IN [lines |-> SubSeq(all, skip + 1, Len(all)), upTo |-> Len(attempts), torn |-> CutShort]
  /\ UNCHANGED <<emitter, budget, tally, ringLock, files, attempts, ringErrors>>

RingNext ==
  \/ \E t \in EventTasks :
       \/ Allow(t) \/ CountsOnly(t) \/ Emit(t)
       \/ LocksRing(t) \/ Rotates(t) \/ WritesLine(t) \/ WritesNewline(t) \/ AppendFails(t)
  \/ ReadsRecent

RingSpec == RingInit /\ [][RingNext]_ringVars

-----------------------------------------------------------------------------
\* The places of what was shown that hold a line as it was written.
ShownWhole == {i \in 1 .. Len(recent.lines) : recent.lines[i] # Fragment}

\* Lines the ring had been given, from this one on, that the reader was not shown.
MissingFrom(i) == {k \in recent.lines[i] .. recent.upTo : \A j \in ShownWhole : recent.lines[j] # k}

\* A reader sees lines in the order the ring took them, each once, and from any of
\* them to the last one given at most two are missing for each write error the
\* status page counts (the line that failed, and the one that joined what it left),
\* but for the files in which a write was cut inside a character: such a file may
\* hide the rest of its lines, and no line of the other.  Tasks that append at once, a
\* rotation between two of them and a failed write all have to keep this
\* (events.rs:467 append, :501 recent, :510 read_lines).
RecentInOrder ==
  /\ \A i, j \in ShownWhole : i < j => recent.lines[i] < recent.lines[j]
  /\ \A i \in ShownWhole : Cardinality(MissingFrom(i)) <= 2 * ringErrors + RingCap * recent.torn

\* No event is lost from the count or counted twice: what lines have reported as
\* withheld, what lines on their way will report and what is still to be reported
\* add up to the calls that were not let through (events.rs:317 allow_at, :340
\* emit_limited; the count is taken in one task and printed later).
WithheldAccounted ==
  LET onTheWay == {t \in EventTasks : emitter[t].at = "count"}
      notYet   == {t \in EventTasks : emitter[t].at = "countOnly"}
      carried  == {p \in onTheWay \X (1 .. Events) : p[2] <= emitter[p[1]].withheld}
  IN /\ tally.calls = tally.lines + Cardinality(onTheWay)
                        + tally.reported + Cardinality(carried) + budget.suppressed
     /\ tally.calls = tally.counted + Cardinality(onTheWay) + Cardinality(notYet)

\* What the log, the ring and the counters say of the events agrees, whatever order tasks reach
\* them in.
EventsAccounted == RingTypeOK /\ RecentInOrder /\ WithheldAccounted
=============================================================================
