--------------------------- MODULE SessionWindow ---------------------------
(***************************************************************************)
(* The session window of a channel TCP forward, one direction of one       *)
(* session (native/src/channel_run/forward_stream.rs).                     *)
(*                                                                         *)
(* The sender (SessionSend) splits the window its peer granted into two    *)
(* semaphores: `first` pays the first chunk of every stream, `budget`      *)
(* every later one.  A pump takes bytes of the window, waits for room in   *)
(* the engine's queue while it holds them (SessionSending) and either      *)
(* queues its Data frame or is reset and gives the bytes back.  The        *)
(* receiver (SessionRecv) counts every byte its engine reads and           *)
(* acknowledges at a quarter of the window or after a delay.               *)
(*                                                                         *)
(* Abstractions.  Data is its length.  Frames between the sender's queue   *)
(* and the receiver's engine are one byte counter, and so are the          *)
(* acknowledgements on their way back: the accounting does not depend on   *)
(* how bytes are cut into frames, so the receiver may take any cut.  A     *)
(* stream is a slot: when its pump ends or is reset the slot carries the   *)
(* next stream.  tokio's semaphores are first-in first-out: a waiter gets  *)
(* its permits once those ahead of it have theirs; `ahead` is that order.  *)
(***************************************************************************)
EXTENDS Integers, FiniteSets, FiniteSetsExt

CONSTANTS
    Streams,    \* the slots of the session's streams (max_streams of them)
    Window,     \* bytes the peer granted in its HELLO
    Chunk       \* DATA_CHUNK_LEN: most bytes a pump reads at once

\* SESSION_WINDOW_MIN is four chunks; a smaller window ends the session.
ASSUME WindowAssumption ==
    /\ IsFiniteSet(Streams)
    /\ Chunk \in Nat \ {0}
    /\ Window \in Nat
    /\ Window >= 4 * Chunk

VARIABLES
    first,      \* free permits of the reserve for first chunks
    budget,     \* free permits of the rest of the window
    owed,       \* SessionOwed: taken and not acknowledged, per part; `sending` not queued yet
    pump,       \* per slot: what the pump's upward half is doing
    ahead,      \* per slot: the waiting pumps that came before this one
    wire,       \* stream bytes queued by the sender and not read by the peer's engine
    unacked,    \* SessionRecv.unacked
    flushAt,    \* SessionRecv.flush_at is set
    acks,       \* acknowledged bytes in SWINDOW frames on their way back
    ended       \* the session ended on a protocol violation

vars == <<first, budget, owed, pump, ahead, wire, unacked, flushAt, acks, ended>>

Lesser(a, b) == IF a <= b THEN a ELSE b

\* SessionSend::from_hello: the split of the window.
FirstCap == Lesser(Window \div 4, 4 * Chunk)

\* Mutation: the reserve comes on top of the window instead of out of it.
BudgetCapWhole == Window
BudgetCap == Window - FirstCap

\* idle: reading the socket; wait: inside SessionSend::take; held: waiting for room in
\* the engine's queue; ready: room is there and SessionSending::queued was called.
PumpStates == {"idle", "wait", "held", "ready"}

\* `bytes`: the chunk the pump wants (wait) or has bytes of the window for.
\* `from`: the part they came from; `chunk`: whether the stream's first chunk is still to come.
Pumps == [pc : PumpStates, bytes : 0..Chunk,
          from : {"first", "budget"}, chunk : {"first", "later"}]

FreshPump == [pc |-> "idle", bytes |-> 0, from |-> "budget", chunk |-> "first"]

Init ==
    /\ first = FirstCap
    /\ budget = BudgetCap
    /\ owed = [first |-> 0, budget |-> 0, sending |-> 0]
    /\ pump = [s \in Streams |-> FreshPump]
    /\ ahead = [s \in Streams |-> {}]
    /\ wire = 0
    /\ unacked = 0
    /\ flushAt = FALSE
    /\ acks = 0
    /\ ended = FALSE

-----------------------------------------------------------------------------
(* The sender: one upward half of a pump per stream. *)

Waiting == {s \in Streams : pump[s].pc = "wait"}

\* What the pumps that began to wait before s still take of a part.  A stream's first
\* chunk waits for both parts, a later one only for `budget`.
Wanted(ts) == MapThenSumSet(LAMBDA t : pump[t].bytes, ts)
AheadInFirst(s) == Wanted({t \in ahead[s] : pump[t].chunk = "first"})
AheadInBudget(s) == Wanted(ahead[s])

\* The semaphore `first` has handed the pump of s its permits.
FirstReady(s) ==
    /\ pump[s].chunk = "first"
    /\ first >= pump[s].bytes
    /\ first - pump[s].bytes >= AheadInFirst(s)

\* s no longer waits: nobody has it ahead any more.
LeaveQueue(s) == [t \in Streams |-> IF t = s THEN {} ELSE ahead[t] \ {s}]

\* pump_forward_stream: the local socket gave n bytes; ask for them.
Request(s, n) ==
    /\ pump[s].pc = "idle"
    /\ pump' = [pump EXCEPT ![s].pc = "wait", ![s].bytes = n]
    /\ ahead' = [ahead EXCEPT ![s] = Waiting]
    /\ UNCHANGED <<first, budget, owed, wire, unacked, flushAt, acks>>

\* SessionSend::take: the reserve for a first chunk if it has the bytes ...
TakeFirst(s) ==
    /\ pump[s].pc = "wait"
    /\ FirstReady(s)
    /\ first' = first - pump[s].bytes
    /\ owed' = [owed EXCEPT !.first = @ + pump[s].bytes, !.sending = @ + pump[s].bytes]
    /\ pump' = [pump EXCEPT ![s].pc = "held", ![s].from = "first", ![s].chunk = "later"]
    /\ ahead' = LeaveQueue(s)
    /\ UNCHANGED <<budget, wire, unacked, flushAt, acks>>

\* ... and otherwise (the select is biased) the rest of the window.
TakeBudget(s) ==
    /\ pump[s].pc = "wait"
    /\ ~FirstReady(s)
    /\ budget >= pump[s].bytes
    /\ budget - pump[s].bytes >= AheadInBudget(s)
    /\ budget' = budget - pump[s].bytes
    /\ owed' = [owed EXCEPT !.budget = @ + pump[s].bytes, !.sending = @ + pump[s].bytes]
    /\ pump' = [pump EXCEPT ![s].pc = "held", ![s].from = "budget", ![s].chunk = "later"]
    /\ ahead' = LeaveQueue(s)
    /\ UNCHANGED <<first, wire, unacked, flushAt, acks>>

\* There is room in the engine's queue: SessionSending::queued, and only then the Data
\* frame.  Another thread may acknowledge in between; nothing resets the pump there.
Queue(s) ==
    \/ /\ pump[s].pc = "held"
       /\ owed' = [owed EXCEPT !.sending = @ - pump[s].bytes]
       /\ pump' = [pump EXCEPT ![s].pc = "ready"]
       /\ UNCHANGED <<first, budget, ahead, wire, unacked, flushAt, acks>>
    \/ /\ pump[s].pc = "ready"
       /\ wire' = wire + pump[s].bytes
       /\ pump' = [pump EXCEPT ![s].pc = "idle", ![s].bytes = 0]
       /\ UNCHANGED <<first, budget, owed, ahead, unacked, flushAt, acks>>

\* What a dropped SessionSending gives back: to its own part what that part still
\* owes, the rest to the other part.
GiveBackFirst(p) ==
    IF p.from = "first" THEN Lesser(p.bytes, owed.first)
    ELSE Lesser(p.bytes - Lesser(p.bytes, owed.budget), owed.first)
GiveBackBudget(p) ==
    IF p.from = "first" THEN Lesser(p.bytes - Lesser(p.bytes, owed.first), owed.budget)
    ELSE Lesser(p.bytes, owed.budget)

\* The stream is reset while its pump holds bytes of the window (SessionSending::drop).
ResetHolding(s) ==
    /\ pump[s].pc = "held"
    /\ LET f == GiveBackFirst(pump[s])
           b == GiveBackBudget(pump[s])
       IN /\ owed' = [first |-> owed.first - f, budget |-> owed.budget - b,
                      sending |-> owed.sending - pump[s].bytes]
          /\ first' = first + f
          /\ budget' = budget + b
    /\ pump' = [pump EXCEPT ![s] = FreshPump]
    /\ UNCHANGED <<ahead, wire, unacked, flushAt, acks>>

\* The stream ends, or is reset while its pump only waits: nothing is owed for it.
ResetOther(s) ==
    /\ pump[s].pc \in {"idle", "wait"}
    /\ pump[s] # FreshPump
    /\ pump' = [pump EXCEPT ![s] = FreshPump]
    /\ ahead' = LeaveQueue(s)
    /\ UNCHANGED <<first, budget, owed, wire, unacked, flushAt, acks>>

-----------------------------------------------------------------------------
(* The receiver's engine and the way back. *)

\* Mutation: below the threshold no acknowledgement is scheduled.
ReceivedUnarmed(n) ==
    /\ n <= wire
    /\ wire' = wire - n
    /\ IF unacked + n >= Window \div 4
       THEN acks' = acks + unacked + n /\ unacked' = 0
       ELSE unacked' = unacked + n /\ UNCHANGED acks
    /\ UNCHANGED <<first, budget, owed, pump, ahead, flushAt>>

\* SessionRecv::received: n bytes of stream data read, whatever becomes of them.
Received(n) ==
    /\ n <= wire
    /\ wire' = wire - n
    /\ IF unacked + n >= Window \div 4
       THEN /\ acks' = acks + unacked + n
            /\ unacked' = 0
            /\ flushAt' = FALSE
       ELSE /\ unacked' = unacked + n
            /\ flushAt' = TRUE
            /\ UNCHANGED acks
    /\ UNCHANGED <<first, budget, owed, pump, ahead>>

\* SessionRecv::flush after SESSION_ACK_DELAY.
Flush ==
    /\ flushAt
    /\ flushAt' = FALSE
    /\ acks' = acks + unacked
    /\ unacked' = 0
    /\ UNCHANGED <<first, budget, owed, pump, ahead, wire>>

Unacknowledged == owed.first + owed.budget - owed.sending

\* SessionSend::acknowledge for an SWINDOW of n bytes: more than is unacknowledged
\* ends the session, otherwise `first` is paid before `budget`.
Acknowledge(n) ==
    /\ n <= acks
    /\ acks' = acks - n
    /\ IF n > Unacknowledged
       THEN ended' = TRUE /\ UNCHANGED <<first, budget, owed>>
       ELSE LET pay == Lesser(n, owed.first)
            IN /\ owed' = [owed EXCEPT !.first = @ - pay, !.budget = @ - (n - pay)]
               /\ first' = first + pay
               /\ budget' = budget + (n - pay)
               /\ UNCHANGED ended
    /\ UNCHANGED <<pump, ahead, wire, unacked, flushAt>>

-----------------------------------------------------------------------------
PumpStep(s) ==
    /\ UNCHANGED ended
    /\ \/ \E n \in 1..Chunk : Request(s, n)
       \/ TakeFirst(s)
       \/ TakeBudget(s)
       \/ Queue(s)
       \/ ResetHolding(s)
       \/ ResetOther(s)

PeerStep ==
    \/ (\E n \in 1..Chunk : Received(n)) /\ UNCHANGED ended
    \/ Flush /\ UNCHANGED ended
    \/ \E n \in 1..Window : Acknowledge(n)

Next ==
    /\ ~ended
    /\ \/ \E s \in Streams : PumpStep(s)
       \/ PeerStep

(***************************************************************************)
(* Fairness.  Each pump is a task and each engine a select loop on a       *)
(* work-stealing runtime: a branch that stays ready is polled, so taking   *)
(* window bytes, queueing into the engine's queue, reading a frame that    *)
(* arrived, the acknowledgement timer and an arrived SWINDOW are weakly    *)
(* fair.  Nothing makes a local socket produce bytes or a stream end.      *)
(***************************************************************************)
Fairness ==
    /\ \A s \in Streams :
        /\ WF_vars(~ended /\ UNCHANGED ended /\ (TakeFirst(s) \/ TakeBudget(s)))
        /\ WF_vars(~ended /\ UNCHANGED ended /\ Queue(s))
    /\ WF_vars(~ended /\ UNCHANGED ended /\ \E n \in 1..Chunk : Received(n))
    /\ WF_vars(~ended /\ UNCHANGED ended /\ Flush)
    /\ WF_vars(~ended /\ \E n \in 1..Window : Acknowledge(n))

Spec == Init /\ [][Next]_vars
FairSpec == Spec /\ Fairness

-----------------------------------------------------------------------------
(* Properties. *)

\* Every variable has the type of the field it models; in particular no counter of
\* SessionOwed, all unsigned in the code, is ever driven below zero.
TypeOK ==
    /\ first \in Nat
    /\ budget \in Nat
    /\ owed \in [first : Nat, budget : Nat, sending : Nat]
    /\ pump \in [Streams -> Pumps]
    /\ ahead \in [Streams -> SUBSET Streams]
    /\ wire \in Nat
    /\ unacked \in Nat
    /\ flushAt \in BOOLEAN
    /\ acks \in Nat
    /\ ended \in BOOLEAN

\* The bytes of the window that the pumps ps have in state st: their number is the sum
\* of those pumps' chunks, written as the size of a set so that it can be reasoned about.
ChunkBytes(ps, st) ==
    {x \in Streams \X (1..Chunk) : ps[x[1]].pc = st /\ x[2] <= ps[x[1]].bytes}
BytesOf(ps, st) == Cardinality(ChunkBytes(ps, st))

\* Per part, free permits and what is owed make up the part (the invariant the comment
\* on SessionSend states), whichever part a reset chunk was taken from and whatever an
\* acknowledgement has paid for it meanwhile.
PartsAddUp ==
    /\ first + owed.first = FirstCap
    /\ budget + owed.budget = BudgetCap

\* What the sender takes for unacknowledged (queued and not acknowledged) is exactly what
\* is on its way to the peer, unacknowledged there, or acknowledged on its way back.
OwedIsInFlight ==
    /\ owed.sending = BytesOf(pump, "held")
    /\ Unacknowledged = BytesOf(pump, "ready") + wire + unacked + acks

\* No more than the granted window is ever unacknowledged: the peer's engine never has
\* more than Window bytes of stream data coming that it has not acknowledged.
WindowRespected == wire + unacked + acks <= Window

\* Two honest members never end their session with "acknowledged more session data than
\* was sent", however resets, queueing and acknowledgements interleave.
NoFalseViolation == ~ended

\* The window's books are right: the parts add up, the sender's count is what is in flight, the
\* peer's window is respected and no honest member is taken for one that breaks it.
WindowSound == TypeOK /\ PartsAddUp /\ OwedIsInFlight /\ WindowRespected /\ NoFalseViolation

\* The first chunk of a stream gets its bytes of the window (or the stream ends), no
\* matter how many streams wait for the window and for how long they have.
FirstChunkGetsWindow ==
    \A s \in Streams :
        (pump[s].pc = "wait" /\ pump[s].chunk = "first") ~> (pump[s].pc # "wait")

\* Once no new stream asks for a first chunk any more, every waiting pump gets its bytes:
\* none is lost and none is held back by the batching of acknowledgements.  (While new
\* streams keep coming an acknowledgement refills `first` before `budget`, and a later
\* chunk may wait as long as they do.)
WaitingGetsWindow ==
    <>[](\A t \in Streams : pump[t].chunk = "first" => pump[t].pc = "idle")
        => \A s \in Streams : (pump[s].pc = "wait") ~> (pump[s].pc # "wait")

\* Once the streams are quiet the whole window comes back to the parts it was split
\* into, resets of streams that held bytes included.
WindowComesBack ==
    <>[](\A s \in Streams : pump[s].pc = "idle")
        => <>[](first = FirstCap /\ budget = BudgetCap /\ unacked = 0)

\* Nobody waits for the window for ever and nothing of it is lost: the progress of first chunks,
\* of later ones, and of the window itself.
WindowLive == FirstChunkGetsWindow /\ WaitingGetsWindow /\ WindowComesBack
=============================================================================
