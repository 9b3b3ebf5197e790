---------------------------- MODULE ServiceCalls ----------------------------
(***************************************************************************)
(* Persistent service calls over a channel (channel_run/service_calls.rs): *)
(* the calling side's redial loop, which answers each line of its standard *)
(* input with one envelope, the channel session between the two members,   *)
(* and the serving side's handler processes.  A line is its number; the    *)
(* reply to it is that number too, or an error.  A session's id tells it   *)
(* from the sessions before it.  Admission is the channel's own business   *)
(* and shows here only by how it ends.                                     *)
(***************************************************************************)
EXTENDS Naturals, Sequences, FiniteSets

CONSTANTS
    StdinLines,     \* lines the caller's standard input holds
    LineCap,        \* the line channel's capacity (64)
    HandlerTimeout, \* SERVICE_HANDLER_TIMEOUT, in ticks
    CallSessions    \* bound: sessions attempted

ASSUME CallsAssumption ==
    StdinLines \in Nat /\ {LineCap, HandlerTimeout, CallSessions} \subseteq Nat \ {0}

VARIABLES
    stdin,    \* the reader thread: next line to read, lines in the channel, whether it saw EOF
    caller,   \* the loop: phase, the call in flight, its result, the flap streak, the redial setting,
              \* whether the own grant ran out; history: the calls begun
    leg,      \* the session attempt: id, state, the request and the reply in its duplex
    runs,     \* handler runs of the serving side that have not returned
    envelopes \* the lines written to standard output

callVars == <<stdin, caller, leg, runs, envelopes>>

NoReply == 0
ErrorReply == StdinLines + 1
NoLeg == [id |-> 0, state |-> "none", req |-> 0, rep |-> NoReply]

CallsInit ==
    /\ stdin = [next |-> 1, queue |-> <<>>, eof |-> FALSE]
    /\ caller \in [phase : {"top"}, call : {0}, end : {"none"}, flaps : {0}, redials : BOOLEAN, over : {FALSE}]
    /\ leg = NoLeg /\ runs = {} /\ envelopes = <<>>

\* The reader thread: one line at a time, blocked while the channel is full, gone with its reader.
ReadsStdin ==
    /\ ~stdin.eof /\ caller.phase # "done"
    /\ \/ /\ stdin.next <= StdinLines /\ Len(stdin.queue) < LineCap
          /\ \E blank \in BOOLEAN :
               stdin' = [stdin EXCEPT !.next = @ + 1, !.queue = Append(@, [n |-> stdin.next, blank |-> blank])]
       \/ stdin.next > StdinLines /\ stdin' = [stdin EXCEPT !.eof = TRUE]
    /\ UNCHANGED <<caller, leg, runs, envelopes>>

CallerEnds(how) == caller' = [caller EXCEPT !.phase = "done", !.call = 0, !.end = how] /\ leg' = NoLeg

\* The head of the loop: the own grant's expiry, then a fresh duplex, and the admission
\* beside the calls over it.
\* Mutation: the next session takes over the duplex of the last one, what it holds included.
NextLegUsed == [leg EXCEPT !.id = @ + 1, !.state = "admitting"]

NextLeg == [id |-> leg.id + 1, state |-> "admitting", req |-> 0, rep |-> NoReply]

LoopHead ==
    /\ caller.phase = "top"
    /\ \/ caller.over /\ CallerEnds("ownGrantEnded")
       \/ ~caller.over /\ leg.id < CallSessions /\ caller' = [caller EXCEPT !.phase = "session"] /\ leg' = NextLeg
    /\ UNCHANGED <<stdin, runs, envelopes>>

\* The session is admitted; its pump starts to move what the duplex holds.
Admitted ==
    /\ leg.state = "admitting"
    /\ leg' = [leg EXCEPT !.state = "up"]
    /\ UNCHANGED <<stdin, caller, runs, envelopes>>

\* The pump is done with the local side and drops it, and drains the transport before it returns.
SessionCloses ==
    /\ leg.state = "up"
    /\ leg' = [leg EXCEPT !.state = "draining"]
    /\ UNCHANGED <<stdin, caller, runs, envelopes>>

\* lines.recv(): it runs beside the admission already; a blank line is no call.  A source at
\* its end is the clean end of the run.
TakesLine ==
    /\ caller.phase = "session" /\ caller.call = 0 /\ stdin.queue # <<>>
    /\ stdin' = [stdin EXCEPT !.queue = Tail(@)]
    /\ LET line == Head(stdin.queue)
       IN  IF line.blank THEN UNCHANGED <<caller, leg>>
           ELSE /\ caller' = [caller EXCEPT !.call = line.n]
                /\ leg' = [leg EXCEPT !.req = line.n]
    /\ UNCHANGED <<runs, envelopes>>

SourceEnds ==
    /\ caller.phase = "session" /\ caller.call = 0 /\ stdin.queue = <<>> /\ stdin.eof
    /\ CallerEnds("ok")
    /\ UNCHANGED <<stdin, runs, envelopes>>

\* After the select: stop when redialling is off, else the flap count and the backoff.
CallEnds(flap) ==
    IF ~caller.redials THEN CallerEnds("failed")
    ELSE /\ caller' = [caller EXCEPT !.phase = "backoff", !.call = 0,
                                     !.flaps = IF ~flap THEN 0 ELSE IF @ < CallSessions THEN @ + 1 ELSE @]
         /\ leg' = [leg EXCEPT !.state = "over"]

\* call_role_service's reply, as an envelope of the line it was asked for.
AnswersLine ==
    /\ caller.phase = "session" /\ caller.call # 0 /\ leg.rep \notin {NoReply, ErrorReply}
    /\ envelopes' = Append(envelopes, [line |-> caller.call, ok |-> TRUE, of |-> leg.rep])
    /\ caller' = [caller EXCEPT !.call = 0]
    /\ leg' = [leg EXCEPT !.rep = NoReply]
    /\ UNCHANGED <<stdin, runs>>

\* An error reply, or the duplex's end: the failure envelope, and the session is given up.
FailsLine ==
    /\ caller.phase = "session" /\ caller.call # 0
    /\ leg.rep = ErrorReply \/ (leg.rep = NoReply /\ leg.state = "draining")
    /\ envelopes' = Append(envelopes, [line |-> caller.call, ok |-> FALSE, of |-> caller.call])
    /\ \E flap \in BOOLEAN : CallEnds(flap)
    /\ UNCHANGED <<stdin, runs>>

\* The admission fails, or the drained session returns: the calls future is dropped where it is.
\* The own grant's end, recorded or refused, ends the loop.
PumpReturns ==
    /\ leg.state \in {"admitting", "draining"} /\ caller.phase = "session"
    /\ CallerEnds("ownGrantEnded") \/ \E flap \in BOOLEAN : CallEnds(flap)
    /\ UNCHANGED <<stdin, runs, envelopes>>

\* The own grant runs out: watched during the session and the backoff.
OwnExpires ==
    /\ ~caller.over /\ caller.phase # "done"
    /\ caller' = [caller EXCEPT !.over = TRUE]
    /\ UNCHANGED <<stdin, leg, runs, envelopes>>

OwnExpiryEnds ==
    /\ caller.over /\ caller.phase \in {"session", "backoff"}
    /\ CallerEnds("ownGrantEnded")
    /\ UNCHANGED <<stdin, runs, envelopes>>

BackoffOver ==
    /\ caller.phase = "backoff" /\ ~caller.over
    /\ caller' = [caller EXCEPT !.phase = "top"]
    /\ UNCHANGED <<stdin, leg, runs, envelopes>>

-----------------------------------------------------------------------------
(* The serving side: serve_local, and run_service_handler_with_timeout_to on
   the blocking pool. *)

\* A request reaches the serve loop, which starts the handler in a process group of its own, or
\* answers at once (an unknown tool, a refused caller, a handler that cannot be started).
ServeTakes ==
    /\ leg.state = "up" /\ leg.req # 0
    /\ \/ /\ runs' = runs \cup {[id |-> leg.id, line |-> leg.req, shell |-> "running", kid |-> "none", age |-> 0]}
          /\ leg' = [leg EXCEPT !.req = 0]
       \/ leg' = [leg EXCEPT !.req = 0, !.rep = ErrorReply] /\ UNCHANGED runs
    /\ UNCHANGED <<stdin, caller, envelopes>>

Becomes(r, s) == runs' = (runs \ {r}) \cup {s} /\ UNCHANGED <<stdin, caller, leg, envelopes>>

\* The script starts a process of its own, which holds the pipes; it ends, or lets them go.
KidStarts(r) == r.shell = "running" /\ r.kid = "none" /\ Becomes(r, [r EXCEPT !.kid = "holding"])
KidLetsGo(r) == r.kid = "holding" /\ Becomes(r, [r EXCEPT !.kid = "gone"])

\* The script exits with output, or without (non-zero, empty, past the message ceiling).
ShellExits(r, how) == r.shell = "running" /\ Becomes(r, [r EXCEPT !.shell = how])

\* The result goes to the serve loop that asked, if its session still stands.
Returns(r, reply) ==
    /\ runs' = runs \ {r}
    /\ leg' = IF leg.id = r.id /\ leg.state = "up" THEN [leg EXCEPT !.rep = reply] ELSE leg
    /\ UNCHANGED <<stdin, caller, envelopes>>

\* The wait thread has the exit status and the end of both pipes.
HandlerReturns(r) ==
    /\ r.shell # "running" /\ r.kid # "holding"
    /\ Returns(r, IF r.shell = "printed" THEN r.line ELSE ErrorReply)

\* recv_timeout: the whole group is killed, and the call fails.
HandlerTimesOut(r) == r.age = HandlerTimeout /\ Returns(r, ErrorReply)

CallsTick ==
    /\ runs # {} /\ \A r \in runs : r.age < HandlerTimeout
    /\ runs' = {[r EXCEPT !.age = @ + 1] : r \in runs}
    /\ UNCHANGED <<stdin, caller, leg, envelopes>>

CallsNext ==
    \/ ReadsStdin \/ LoopHead \/ Admitted \/ SessionCloses \/ TakesLine \/ SourceEnds \/ AnswersLine
    \/ FailsLine \/ PumpReturns \/ OwnExpires \/ OwnExpiryEnds \/ BackoffOver \/ ServeTakes \/ CallsTick
    \/ \E r \in runs : \/ KidStarts(r) \/ KidLetsGo(r) \/ HandlerReturns(r) \/ HandlerTimesOut(r)
                       \/ \E how \in {"printed", "nothing"} : ShellExits(r, how)

CallsSpec == CallsInit /\ [][CallsNext]_callVars

-----------------------------------------------------------------------------
(* Properties. *)

\* However sessions end and handlers lag behind them, a line is answered at most once, lines are
\* answered in the order they were read, and an answer is the reply to its own line: what a
\* handler of an earlier session still prints never reaches a later call.
RepliesMatch ==
    \A i \in 1 .. Len(envelopes) :
        /\ envelopes[i].of = envelopes[i].line
        /\ \A j \in 1 .. i - 1 : envelopes[j].line < envelopes[i].line
=============================================================================
