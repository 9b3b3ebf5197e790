------------------------- MODULE ForwardStreamProofs ------------------------
(***************************************************************************)
(* A forwarded stream is byte-transparent, for any number of streams, any  *)
(* queue sizes and windows, and whatever fails: proofs of ForwardStream's  *)
(* StreamIntact.                                                           *)
(*                                                                         *)
(* The Open, the units of data and the Close of one stream are numbered.   *)
(* The inductive invariant (Flow) says that the queues between the two     *)
(* sockets hold consecutive numbers, each queue from where the one before  *)
(* it stops: the receiver's inbound queue always, the queues behind it as  *)
(* long as the receiving engine still delivers the stream.  The rest says  *)
(* when a stream's queues can hold frames at all.                          *)
(***************************************************************************)
EXTENDS ForwardStream, TLAPS

-----------------------------------------------------------------------------
(* Numbered frames. *)

FrameTypes == {"hello", "fcon", "window", "data", "open", "close", "abort"}

\* What the queues hold: data is numbered from 1, and only a HELLO is of no stream.
Frames ==
    {f \in [t : FrameTypes, id : Ids \cup {0}, n : Nat] :
        (f.t # "hello" => f.id \in Ids) /\ (f.t = "data" => f.n >= 1)}

\* The frames of stream i that its receiver's socket depends on, and their numbers: the Close
\* follows the last of u units.
Carries(f, i) == f.id = i /\ f.t \in {"open", "data", "close"}
Pos(f, u) == IF f.t = "open" THEN 0 ELSE IF f.t = "data" THEN f.n ELSE u + 1

\* The numbered frames of stream i in q are lo + 1 .. hi, in this order.
Run(q, i, u, lo, hi) ==
    /\ lo <= hi
    /\ \A k \in 1..Len(q) : Carries(q[k], i) => lo < Pos(q[k], u) /\ Pos(q[k], u) <= hi
    /\ \A k, l \in 1..Len(q) :
         k < l /\ Carries(q[k], i) /\ Carries(q[l], i) => Pos(q[k], u) < Pos(q[l], u)
    /\ \A n \in Int : lo < n /\ n <= hi =>
         \E k \in 1..Len(q) : Carries(q[k], i) /\ Pos(q[k], u) = n

\* No frame of type t of stream i.
None(q, i, t) == \A k \in 1..Len(q) : ~(q[k].id = i /\ q[k].t = t)

\* Numbers of frames are integers.
LEMMA PosIsInt == ASSUME NEW f \in Frames, NEW u \in Nat PROVE Pos(f, u) \in Int
  BY DEF Pos, Frames

\* An empty queue holds nothing.
LEMMA RunEmpty ==
    ASSUME NEW i, NEW u, NEW lo \in Int
    PROVE  Run(<<>>, i, u, lo, lo)
  BY DEF Run

\* What a queue holds after a frame was added, and without its head.
LEMMA AppendAt ==
    ASSUME NEW S, NEW q \in Seq(S), NEW f \in S
    PROVE  /\ Append(q, f) \in Seq(S) /\ Len(Append(q, f)) = Len(q) + 1
           /\ \A k \in 1..Len(q) : Append(q, f)[k] = q[k]
           /\ Append(q, f)[Len(q) + 1] = f
  OBVIOUS

\* The elements of a queue without its head.
LEMMA TailAt ==
    ASSUME NEW S, NEW q \in Seq(S), q # <<>>
    PROVE  /\ Tail(q) \in Seq(S) /\ Head(q) \in S /\ Head(q) = q[1]
           /\ Len(q) \in Nat /\ Len(q) >= 1 /\ Len(Tail(q)) = Len(q) - 1
           /\ \A k \in 1..Len(Tail(q)) : Tail(q)[k] = q[k + 1]
  OBVIOUS

\* A frame that is not numbered makes no difference at either end of a queue.
LEMMA RunAppendOther ==
    ASSUME NEW q \in Seq(Frames), NEW f \in Frames, NEW i, NEW u \in Nat, NEW lo \in Int, NEW hi \in Int,
           Run(q, i, u, lo, hi), ~Carries(f, i)
    PROVE  Run(Append(q, f), i, u, lo, hi)
  <1> DEFINE r == Append(q, f)
  <1>1. Len(q) \in Nat /\ Len(r) = Len(q) + 1 /\ (\A k \in 1..Len(q) : r[k] = q[k]) /\ r[Len(q) + 1] = f
    BY AppendAt
  <1>2. \A k \in 1..Len(r) : Carries(r[k], i) => k \in 1..Len(q) /\ r[k] = q[k]
    BY <1>1
  <1> HIDE DEF r
  <1>3. \A k \in 1..Len(r) : Carries(r[k], i) => lo < Pos(r[k], u) /\ Pos(r[k], u) <= hi
    BY <1>2 DEF Run
  <1>4. \A k, l \in 1..Len(r) :
          k < l /\ Carries(r[k], i) /\ Carries(r[l], i) => Pos(r[k], u) < Pos(r[l], u)
    BY <1>2 DEF Run
  <1>5. \A n \in Int : lo < n /\ n <= hi =>
          \E k \in 1..Len(r) : Carries(r[k], i) /\ Pos(r[k], u) = n
    <2> SUFFICES ASSUME NEW n \in Int, lo < n, n <= hi
                 PROVE  \E k \in 1..Len(r) : Carries(r[k], i) /\ Pos(r[k], u) = n
      OBVIOUS
    <2>1. PICK k \in 1..Len(q) : Carries(q[k], i) /\ Pos(q[k], u) = n
      BY DEF Run
    <2>2. k \in 1..Len(r) /\ r[k] = q[k]
      BY <1>1
    <2> QED
      BY <2>1, <2>2
  <1>6. Run(r, i, u, lo, hi)
    BY <1>3, <1>4, <1>5 DEF Run
  <1> QED
    BY <1>6 DEF r

\* A head that is not of the stream leaves its run as it is.
LEMMA RunTailOther ==
    ASSUME NEW q \in Seq(Frames), q # <<>>, NEW i, NEW u \in Nat, NEW lo \in Int, NEW hi \in Int,
           Run(q, i, u, lo, hi), ~Carries(Head(q), i)
    PROVE  Run(Tail(q), i, u, lo, hi)
  <1> DEFINE r == Tail(q)
  <1>1. /\ Len(q) \in Nat /\ Len(r) = Len(q) - 1 /\ Head(q) = q[1]
        /\ \A k \in 1..Len(r) : r[k] = q[k + 1]
    BY TailAt
  <1>2. \A k \in 1..Len(r) : k + 1 \in 1..Len(q) /\ r[k] = q[k + 1]
    BY <1>1
  <1> HIDE DEF r
  <1>3. \A k \in 1..Len(r) : Carries(r[k], i) => lo < Pos(r[k], u) /\ Pos(r[k], u) <= hi
    BY <1>2 DEF Run
  <1>4. ASSUME NEW k \in 1..Len(r), NEW l \in 1..Len(r), k < l, Carries(r[k], i), Carries(r[l], i)
        PROVE  Pos(r[k], u) < Pos(r[l], u)
    <2>1. k + 1 < l + 1 /\ k + 1 \in 1..Len(q) /\ l + 1 \in 1..Len(q)
      BY <1>2, <1>4
    <2> QED
      BY <1>2, <1>4, <2>1 DEF Run
  <1>5. ASSUME NEW n \in Int, lo < n, n <= hi
        PROVE  \E k \in 1..Len(r) : Carries(r[k], i) /\ Pos(r[k], u) = n
    <2>1. PICK k \in 1..Len(q) : Carries(q[k], i) /\ Pos(q[k], u) = n
      BY <1>5 DEF Run
    <2>2. k # 1
      BY <1>1, <2>1
    <2>3. k - 1 \in 1..Len(r) /\ r[k - 1] = q[k]
      BY <1>1, <2>2
    <2> QED
      BY <2>1, <2>3
  <1>6. Run(r, i, u, lo, hi)
    BY <1>3, <1>4, <1>5 DEF Run
  <1> QED
    BY <1>6 DEF r

\* The next numbered frame goes to the end of a queue, and is the head of the next one.
LEMMA RunAppend ==
    ASSUME NEW q \in Seq(Frames), NEW f \in Frames, NEW i, NEW u \in Nat, NEW lo \in Int, NEW hi \in Int,
           Run(q, i, u, lo, hi), Carries(f, i), Pos(f, u) = hi + 1
    PROVE  Run(Append(q, f), i, u, lo, hi + 1)
  <1> DEFINE r == Append(q, f)
  <1>1. Len(q) \in Nat /\ Len(r) = Len(q) + 1 /\ (\A k \in 1..Len(q) : r[k] = q[k]) /\ r[Len(q) + 1] = f
    BY AppendAt
  <1>2. \A k \in 1..Len(r) : (k \in 1..Len(q) /\ r[k] = q[k]) \/ (k = Len(q) + 1 /\ r[k] = f)
    BY <1>1
  <1>P. \A k \in 1..Len(q) : q[k] \in Frames /\ Pos(q[k], u) \in Int
    BY PosIsInt
  <1>L. lo <= hi
    BY DEF Run
  <1> HIDE DEF r
  <1>3. ASSUME NEW k \in 1..Len(r), Carries(r[k], i)
        PROVE  lo < Pos(r[k], u) /\ Pos(r[k], u) <= hi + 1
    <2>1. CASE k \in 1..Len(q) /\ r[k] = q[k]
      <3>1. lo < Pos(q[k], u) /\ Pos(q[k], u) <= hi
        BY <1>3, <2>1 DEF Run
      <3> QED
        BY <1>P, <2>1, <3>1
    <2>2. CASE k = Len(q) + 1 /\ r[k] = f
      BY <1>L, <2>2
    <2> QED
      BY <1>2, <2>1, <2>2
  <1>4. ASSUME NEW k \in 1..Len(r), NEW l \in 1..Len(r), k < l, Carries(r[k], i), Carries(r[l], i)
        PROVE  Pos(r[k], u) < Pos(r[l], u)
    <2>1. k \in 1..Len(q) /\ r[k] = q[k]
      BY <1>1, <1>2, <1>4
    <2>2. CASE l \in 1..Len(q) /\ r[l] = q[l]
      BY <1>4, <2>1, <2>2 DEF Run
    <2>3. CASE r[l] = f
      <3>1. Pos(q[k], u) <= hi /\ Pos(q[k], u) \in Int
        BY <1>4, <1>P, <2>1 DEF Run
      <3> QED
        BY <2>1, <2>3, <3>1
    <2> QED
      BY <1>2, <2>2, <2>3
  <1>5. ASSUME NEW n \in Int, lo < n, n <= hi + 1
        PROVE  \E k \in 1..Len(r) : Carries(r[k], i) /\ Pos(r[k], u) = n
    <2>1. CASE n = hi + 1
      BY <1>1, <2>1
    <2>2. CASE n <= hi
      <3>1. PICK k \in 1..Len(q) : Carries(q[k], i) /\ Pos(q[k], u) = n
        BY <1>5, <2>2 DEF Run
      <3>2. k \in 1..Len(r) /\ r[k] = q[k]
        BY <1>1
      <3> QED
        BY <3>1, <3>2
    <2> QED
      BY <1>5, <2>1, <2>2
  <1>6. Run(r, i, u, lo, hi + 1)
    BY <1>L, <1>3, <1>4, <1>5 DEF Run
  <1> QED
    BY <1>6 DEF r

\* A head of the stream is the next number of its run.
LEMMA RunTail ==
    ASSUME NEW q \in Seq(Frames), q # <<>>, NEW i, NEW u \in Nat, NEW lo \in Int, NEW hi \in Int,
           Run(q, i, u, lo, hi), Carries(Head(q), i)
    PROVE  Pos(Head(q), u) = lo + 1 /\ Run(Tail(q), i, u, lo + 1, hi)
  <1> DEFINE r == Tail(q)
  <1>1. /\ Len(q) \in Nat /\ Len(q) >= 1 /\ Len(r) = Len(q) - 1 /\ Head(q) = q[1]
        /\ \A k \in 1..Len(r) : r[k] = q[k + 1]
    BY TailAt
  <1>2. \A k \in 1..Len(r) : k + 1 \in 1..Len(q) /\ r[k] = q[k + 1]
    BY <1>1
  <1>P. \A k \in 1..Len(q) : q[k] \in Frames /\ Pos(q[k], u) \in Int
    BY PosIsInt
  <1> HIDE DEF r
  <1>3. /\ lo < Pos(q[1], u) /\ Pos(q[1], u) <= hi /\ Pos(q[1], u) \in Int
        /\ Carries(q[1], i)
    BY <1>1, <1>P DEF Run
  <1>4. Pos(q[1], u) = lo + 1
    <2>1. PICK k \in 1..Len(q) : Carries(q[k], i) /\ Pos(q[k], u) = lo + 1
      BY <1>3 DEF Run
    <2>2. CASE k = 1
      BY <2>1, <2>2
    <2>3. CASE k # 1
      <3>1. 1 < k /\ 1 \in 1..Len(q)
        BY <1>1, <2>3
      <3>2. Pos(q[1], u) < Pos(q[k], u)
        BY <1>3, <2>1, <3>1 DEF Run
      <3> QED
        BY <1>3, <2>1, <3>2
    <2> QED
      BY <2>2, <2>3
  <1>5. ASSUME NEW k \in 1..Len(r), Carries(r[k], i)
        PROVE  lo + 1 < Pos(r[k], u) /\ Pos(r[k], u) <= hi
    <2>1. 1 < k + 1 /\ 1 \in 1..Len(q) /\ k + 1 \in 1..Len(q) /\ r[k] = q[k + 1]
      BY <1>1, <1>2
    <2>2. Pos(q[1], u) < Pos(q[k + 1], u) /\ Pos(q[k + 1], u) <= hi
      BY <1>3, <1>5, <2>1 DEF Run
    <2> QED
      BY <1>4, <2>1, <2>2
  <1>6. ASSUME NEW k \in 1..Len(r), NEW l \in 1..Len(r), k < l, Carries(r[k], i), Carries(r[l], i)
        PROVE  Pos(r[k], u) < Pos(r[l], u)
    <2>1. k + 1 < l + 1 /\ k + 1 \in 1..Len(q) /\ l + 1 \in 1..Len(q)
      BY <1>2, <1>6
    <2> QED
      BY <1>2, <1>6, <2>1 DEF Run
  <1>7. ASSUME NEW n \in Int, lo + 1 < n, n <= hi
        PROVE  \E k \in 1..Len(r) : Carries(r[k], i) /\ Pos(r[k], u) = n
    <2>1. PICK k \in 1..Len(q) : Carries(q[k], i) /\ Pos(q[k], u) = n
      BY <1>7 DEF Run
    <2>2. k # 1
      BY <1>4, <1>7, <2>1
    <2>3. k - 1 \in 1..Len(r) /\ r[k - 1] = q[k]
      BY <1>1, <2>2
    <2> QED
      BY <2>1, <2>3
  <1>8. lo + 1 <= hi
    BY <1>3
  <1>9. Run(r, i, u, lo + 1, hi)
    BY <1>5, <1>6, <1>7, <1>8 DEF Run
  <1> QED
    BY <1>1, <1>4, <1>9 DEF r

-----------------------------------------------------------------------------
(* The invariant. *)

\* What an engine hands to a stream's task.
Messages == {f \in Frames : f.t \in {"data", "close", "abort"}}

EngineRecords ==
    [up : BOOLEAN, bad : BOOLEAN, stop : BOOLEAN, policy : BOOLEAN, accepting : BOOLEAN,
     peerFc : BOOLEAN, pendingFc : SUBSET Ids, blocked : Seq(Messages)]
StreamRecords ==
    [entry : BOOLEAN, credited : BOOLEAN, closed : BOOLEAN, credit : Int, inq : Seq(Messages)]
Tasks == {"none", "start", "dialfail", "run", "ended", "gone"}
PumpRecords ==
    [task : Tasks, up : {"read", "credit", "queue", "eof", "fail", "done"},
     down : {"recv", "write", "window", "fail", "done"}, idle : BOOLEAN,
     sent : Nat, held : Nat, got : Nat, unrep : Nat, fin : BOOLEAN]

\* Every engine, stream, task and queue has its type.
Typed ==
    /\ env \in [case : DOMAIN Scenarios, broken : BOOLEAN]
    /\ eng \in [Sides -> EngineRecords]
    /\ strm \in [Sides -> [Ids -> StreamRecords]]
    /\ pump \in [Sides -> [Ids -> PumpRecords]]
    /\ ctrl \in [Sides -> Seq(Frames)]
    /\ out \in [Sides -> Seq(Frames)]
    /\ wire \in [Sides -> Seq(Frames)]

\* What a task did before it ran, what it gets, and what its halves know.
Sane(x, i) ==
    LET p == pump[x][i]
        s == strm[x][i]
    IN /\ p.task = "none" => ~s.entry /\ s.inq = <<>>
       /\ \A k \in 1..Len(s.inq) : s.inq[k].id = i
       /\ p.task \in {"none", "start"} =>
            p.sent = 0 /\ p.got = 0 /\ p.up = "read" /\ p.down = "recv" /\ ~p.fin
       /\ p.up \in {"credit", "queue"} => p.sent >= 1
       /\ p.up = "eof" => p.sent = Units[x][i]
       /\ p.fin => p.down = "done"
       /\ p.down = "write" => p.held = p.got + 1
       /\ p.fin => pump[Peer(x)][i].up = "done" /\ p.got = Units[Peer(x)][i]

\* An engine that waits for room holds one frame of a stream it started; data and a Close it
\* delivers to an entry that stays until the wait is over.
Waits(x) ==
    eng[x].blocked # <<>> =>
      LET f == Head(eng[x].blocked)
      IN /\ Tail(eng[x].blocked) = <<>>
         /\ f.id \in Ids /\ pump[x][f.id].task # "none"
         /\ f.t # "abort" => strm[x][f.id].entry

\* A task that may still queue frames, the last number it queued and the last one the other
\* side's socket took.
Alive(y, i) == pump[y][i].task \in {"none", "start", "dialfail", "run"}
Queued(y, i) ==
    LET p == pump[y][i]
    IN IF y = "I" /\ p.task \in {"none", "start"} THEN -1
       ELSE IF p.up \in {"credit", "queue"} THEN p.sent - 1
       ELSE IF p.up = "done" THEN Units[y][i] + 1 ELSE p.sent
Taken(x, i) ==
    LET p == pump[x][i]
    IN IF x = "A" /\ p.task = "none" THEN -1
       ELSE IF p.fin THEN Units[Peer(x)][i] + 1
       ELSE IF p.down \in {"write", "fail"} THEN p.got + 1 ELSE p.got

\* The one Open of stream i has been read by the accept side.
Passed(i) ==
    /\ pump["I"][i].task \notin {"none", "start"}
    /\ None(wire["I"], i, "open")
    /\ eng["I"].up => None(ctrl["I"], i, "open") /\ None(out["I"], i, "open")

\* A Close is queued by a sending half that is done with everything.
Closing(x, i) ==
    LET y == Peer(x)
    IN pump[y][i].up # "done" =>
         /\ None(strm[x][i].inq, i, "close") /\ None(eng[x].blocked, i, "close")
         /\ None(wire[y], i, "close") /\ None(ctrl[y], i, "close") /\ None(out[y], i, "close")

\* Side x will deliver what is on its way to its stream i: the stream has its entry and its
\* task receives, or its Open is still to come.
Carried(x, i) ==
    \/ strm[x][i].entry /\ Receiving(x, i)
    \/ pump[x][i].task = "none" /\ (x = "A" => ~Passed(i))

\* The queues on side y from the wire back to its task go on after number c.
Leaving(y, i, c) ==
    eng[y].up =>
      \E d \in Int, s \in Int :
        /\ Run(ctrl[y], i, Units[y][i], c, d) /\ Run(out[y], i, Units[y][i], d, s)
        /\ Alive(y, i) => s = Queued(y, i)

\* The queues from the engine of side x back to the peer's task go on after number a.
OnTheWay(x, i, a) ==
    LET y == Peer(x)
    IN \E b \in Int, c \in Int :
         /\ Run(eng[x].blocked, i, Units[y][i], a, b) /\ Run(wire[y], i, Units[y][i], b, c)
         /\ Alive(y, i) => c <= Queued(y, i)
         /\ Leaving(y, i, c)

\* What the socket of side x gets of stream i is what the peer's socket sent, in order.
Flow(x, i) ==
    \E a \in Int :
      /\ Run(strm[x][i].inq, i, Units[Peer(x)][i], Taken(x, i), a)
      /\ Carried(x, i) => OnTheWay(x, i, a)

StreamInv ==
    /\ Typed
    /\ \A x \in Sides : Waits(x)
    /\ \A x \in Sides, i \in Ids : Sane(x, i) /\ Closing(x, i) /\ Flow(x, i)
    /\ \A i \in Ids : pump["A"][i].task # "none" => Passed(i)

-----------------------------------------------------------------------------
(* Numbers, queues and what is left as it is. *)

\* There are two sides, each the peer of the other.
LEMMA SidesAre ==
    /\ Peer("I") = "A" /\ Peer("A") = "I" /\ "I" \in Sides /\ "A" \in Sides
    /\ \A x \in Sides : x \in {"I", "A"} /\ Peer(x) \in Sides /\ Peer(x) # x /\ Peer(Peer(x)) = x
  BY DEF Sides, Peer

\* The scenario is the session's for good.
LEMMA UnitsAre ==
    ASSUME Typed
    PROVE  /\ \A x \in Sides, i \in Ids : Units[x][i] \in Nat
           /\ FcWindow \in Nat
           /\ env'.case = env.case => Units' = Units
  <1>1. Scenario \in ScenarioSet
    BY StreamAssumption DEF Typed, Scenario
  <1>2. Units \in [Sides -> [Ids -> Nat]] /\ FcWindow \in Nat
    BY <1>1 DEF ScenarioSet, Units, FcWindow
  <1>3. env'.case = env.case => Units' = Units
    BY DEF Units, Scenario
  <1> QED
    BY <1>2, <1>3

\* What an inbound queue holds are frames.
LEMMA MessagesAreFrames ==
    ASSUME NEW q \in Seq(Messages)
    PROVE  q \in Seq(Frames)
  <1>1. \A k \in 1..Len(q) : q[k] \in Frames
    BY DEF Messages
  <1>2. q \in [1..Len(q) -> Frames] /\ Len(q) \in Nat
    BY <1>1
  <1> QED
    BY <1>2

\* The parts of a typed state.
LEMMA TypedParts ==
    ASSUME Typed, NEW x \in Sides, NEW i \in Ids
    PROVE  /\ eng[x] \in EngineRecords /\ eng[x].blocked \in Seq(Messages)
           /\ eng[x].blocked \in Seq(Frames)
           /\ strm[x][i] \in StreamRecords /\ strm[x][i].inq \in Seq(Messages)
           /\ strm[x][i].inq \in Seq(Frames)
           /\ pump[x][i] \in PumpRecords /\ pump[x][i].sent \in Nat /\ pump[x][i].got \in Nat
           /\ ctrl[x] \in Seq(Frames) /\ out[x] \in Seq(Frames) /\ wire[x] \in Seq(Frames)
           /\ Units[x][i] \in Nat
  <1>1. eng[x] \in EngineRecords /\ strm[x][i] \in StreamRecords /\ pump[x][i] \in PumpRecords
        /\ ctrl[x] \in Seq(Frames) /\ out[x] \in Seq(Frames) /\ wire[x] \in Seq(Frames)
    BY DEF Typed
  <1>2. eng[x].blocked \in Seq(Messages) /\ strm[x][i].inq \in Seq(Messages)
    BY <1>1 DEF EngineRecords, StreamRecords
  <1>3. pump[x][i].sent \in Nat /\ pump[x][i].got \in Nat
    BY <1>1 DEF PumpRecords
  <1> QED
    BY <1>1, <1>2, <1>3, MessagesAreFrames, UnitsAre

\* The last numbers are integers.
LEMMA NumbersAre ==
    ASSUME Typed, NEW x \in Sides, NEW i \in Ids
    PROVE  /\ Taken(x, i) \in Int /\ Taken(x, i) >= -1
           /\ Queued(x, i) \in Int /\ Queued(x, i) >= -1
  <1>1. /\ pump[x][i].sent \in Nat /\ pump[x][i].got \in Nat /\ Units[x][i] \in Nat
        /\ Units[Peer(x)][i] \in Nat
    BY TypedParts, SidesAre, UnitsAre
  <1> QED
    BY <1>1 DEF Taken, Queued

\* Queue r holds what q holds of stream i.
Keeps(q, r, i) ==
    /\ \A u \in Nat : \A lo \in Int, hi \in Int : Run(q, i, u, lo, hi) => Run(r, i, u, lo, hi)
    /\ \A t \in {"open", "close"} : None(q, i, t) => None(r, i, t)

\* A queue that does not change keeps every stream's frames.
LEMMA KeepsSame == ASSUME NEW q, NEW i PROVE Keeps(q, q, i)
  BY DEF Keeps

\* So does one that gets a frame of no stream or of another ...
LEMMA KeepsAppend ==
    ASSUME NEW q \in Seq(Frames), NEW f \in Frames, NEW i, ~Carries(f, i)
    PROVE  Keeps(q, Append(q, f), i)
  <1>1. \A u \in Nat : \A lo \in Int, hi \in Int :
          Run(q, i, u, lo, hi) => Run(Append(q, f), i, u, lo, hi)
    BY RunAppendOther
  <1>2. ASSUME NEW t \in {"open", "close"}, None(q, i, t) PROVE None(Append(q, f), i, t)
    <2>1. \A k \in 1..Len(Append(q, f)) : Append(q, f)[k] = f \/ (k \in 1..Len(q) /\ Append(q, f)[k] = q[k])
      BY AppendAt
    <2> QED
      BY <1>2, <2>1 DEF None, Carries
  <1> QED
    BY <1>1, <1>2 DEF Keeps

\* ... and one that loses such a frame.
LEMMA KeepsTail ==
    ASSUME NEW q \in Seq(Frames), q # <<>>, NEW i, ~Carries(Head(q), i)
    PROVE  Keeps(q, Tail(q), i)
  <1>1. \A u \in Nat : \A lo \in Int, hi \in Int :
          Run(q, i, u, lo, hi) => Run(Tail(q), i, u, lo, hi)
    BY RunTailOther
  <1>2. ASSUME NEW t \in {"open", "close"}, None(q, i, t) PROVE None(Tail(q), i, t)
    <2>1. \A k \in 1..Len(Tail(q)) : k + 1 \in 1..Len(q) /\ Tail(q)[k] = q[k + 1]
      BY TailAt
    <2> QED
      BY <1>2, <2>1 DEF None
  <1> QED
    BY <1>1, <1>2 DEF Keeps

\* A queue never gets a type of frame from losing its head, or from another type's arrival.
LEMMA NoneTail ==
    ASSUME NEW q \in Seq(Frames), q # <<>>, NEW i, NEW t, None(q, i, t)
    PROVE  None(Tail(q), i, t) /\ ~(Head(q).id = i /\ Head(q).t = t)
  <1>1. \A k \in 1..Len(Tail(q)) : k + 1 \in 1..Len(q) /\ Tail(q)[k] = q[k + 1]
    BY TailAt
  <1>2. 1 \in 1..Len(q) /\ Head(q) = q[1]
    BY TailAt
  <1> QED
    BY <1>1, <1>2 DEF None

\* A queue without a kind of frame still has none after another was added.
LEMMA NoneAppend ==
    ASSUME NEW q \in Seq(Frames), NEW f \in Frames, NEW i, NEW t, None(q, i, t),
           ~(f.id = i /\ f.t = t)
    PROVE  None(Append(q, f), i, t)
  <1>1. \A k \in 1..Len(Append(q, f)) : Append(q, f)[k] = f \/ (k \in 1..Len(q) /\ Append(q, f)[k] = q[k])
    BY AppendAt
  <1> QED
    BY <1>1 DEF None

\* An empty queue has none.
LEMMA NoneEmpty == ASSUME NEW i, NEW t PROVE None(<<>>, i, t)
  BY DEF None

\* A queue without a number holds no numbered frame, wherever it starts.
LEMMA RunShift ==
    ASSUME NEW q \in Seq(Frames), NEW i, NEW u \in Nat, NEW lo \in Int, NEW m \in Int,
           Run(q, i, u, lo, lo)
    PROVE  Run(q, i, u, m, m) /\ \A k \in 1..Len(q) : ~Carries(q[k], i)
  <1>1. \A k \in 1..Len(q) : ~Carries(q[k], i)
    <2> SUFFICES ASSUME NEW k \in 1..Len(q), Carries(q[k], i) PROVE FALSE
      OBVIOUS
    <2>1. lo < Pos(q[k], u) /\ Pos(q[k], u) <= lo
      BY DEF Run
    <2>2. Pos(q[k], u) \in Int
      BY PosIsInt
    <2> QED
      BY <2>1, <2>2
  <1> QED
    BY <1>1 DEF Run

\* A queue that starts at 0 or later holds no Open.
LEMMA RunNoOpen ==
    ASSUME NEW q \in Seq(Frames), NEW i, NEW u \in Nat, NEW lo \in Int, NEW hi \in Int,
           Run(q, i, u, lo, hi), lo >= 0
    PROVE  None(q, i, "open")
  <1> SUFFICES ASSUME NEW k \in 1..Len(q), q[k].id = i, q[k].t = "open" PROVE FALSE
    BY DEF None
  <1>1. Carries(q[k], i) /\ Pos(q[k], u) = 0
    BY DEF Carries, Pos
  <1>2. lo < 0
    BY <1>1 DEF Run
  <1> QED
    BY <1>2

-----------------------------------------------------------------------------
(* Steps that leave a stream's flow as it is. *)

\* The one Open stays passed.
LEMMA PassedByFrame ==
    ASSUME NEW i \in Ids, Passed(i),
           pump'["I"][i].task \notin {"none", "start"},
           Keeps(wire["I"], wire'["I"], i),
           eng'["I"].up => /\ eng["I"].up /\ Keeps(ctrl["I"], ctrl'["I"], i)
                           /\ Keeps(out["I"], out'["I"], i)
    PROVE  Passed(i)'
  BY DEF Passed, Keeps

\* Queues that keep what they hold go on from the same number.
LEMMA OnTheWayByFrame ==
    ASSUME Typed, NEW x \in Sides, NEW i \in Ids, NEW a \in Int, OnTheWay(x, i, a),
           env'.case = env.case,
           Keeps(eng[x].blocked, eng'[x].blocked, i),
           Keeps(wire[Peer(x)], wire'[Peer(x)], i),
           eng'[Peer(x)].up => /\ eng[Peer(x)].up
                               /\ Keeps(ctrl[Peer(x)], ctrl'[Peer(x)], i)
                               /\ Keeps(out[Peer(x)], out'[Peer(x)], i),
           Alive(Peer(x), i)' => Alive(Peer(x), i) /\ Queued(Peer(x), i)' = Queued(Peer(x), i)
    PROVE  OnTheWay(x, i, a)'
  <1> DEFINE y == Peer(x)
             u == Units[y][i]
  <1>0. y \in Sides /\ u \in Nat /\ Units' = Units
    BY SidesAre, UnitsAre
  <1>1. PICK b \in Int, c \in Int :
          /\ Run(eng[x].blocked, i, u, a, b) /\ Run(wire[y], i, u, b, c)
          /\ Alive(y, i) => c <= Queued(y, i)
          /\ Leaving(y, i, c)
    BY DEF OnTheWay
  <1>2. Run(eng'[x].blocked, i, u, a, b) /\ Run(wire'[y], i, u, b, c)
    BY <1>0, <1>1 DEF Keeps
  <1>3. Alive(y, i)' => c <= Queued(y, i)'
    BY <1>1
  <1>4. Leaving(y, i, c)'
    <2>1. SUFFICES ASSUME eng'[y].up
                   PROVE  \E d \in Int, s \in Int :
                            /\ Run(ctrl'[y], i, u, c, d) /\ Run(out'[y], i, u, d, s)
                            /\ Alive(y, i)' => s = Queued(y, i)'
      BY <1>0 DEF Leaving
    <2>2. PICK d \in Int, s \in Int :
            /\ Run(ctrl[y], i, u, c, d) /\ Run(out[y], i, u, d, s)
            /\ Alive(y, i) => s = Queued(y, i)
      BY <1>1, <2>1 DEF Leaving
    <2>3. Run(ctrl'[y], i, u, c, d) /\ Run(out'[y], i, u, d, s)
      BY <1>0, <2>1, <2>2 DEF Keeps
    <2> QED
      BY <2>2, <2>3
  <1> QED
    BY <1>0, <1>2, <1>3, <1>4 DEF OnTheWay

\* A flow whose queues keep what they hold goes on.
LEMMA FlowByFrame ==
    ASSUME Typed, NEW x \in Sides, NEW i \in Ids, Flow(x, i), env'.case = env.case,
           Taken(x, i)' = Taken(x, i),
           Keeps(strm[x][i].inq, strm'[x][i].inq, i),
           Carried(x, i)' =>
             /\ Carried(x, i)
             /\ Keeps(eng[x].blocked, eng'[x].blocked, i)
             /\ Keeps(wire[Peer(x)], wire'[Peer(x)], i)
             /\ eng'[Peer(x)].up => /\ eng[Peer(x)].up
                                    /\ Keeps(ctrl[Peer(x)], ctrl'[Peer(x)], i)
                                    /\ Keeps(out[Peer(x)], out'[Peer(x)], i)
             /\ Alive(Peer(x), i)' => Alive(Peer(x), i) /\ Queued(Peer(x), i)' = Queued(Peer(x), i)
    PROVE  Flow(x, i)'
  <1> DEFINE u == Units[Peer(x)][i]
  <1>0. u \in Nat /\ Units' = Units /\ Taken(x, i) \in Int
    BY SidesAre, UnitsAre, NumbersAre
  <1>1. PICK a \in Int : /\ Run(strm[x][i].inq, i, u, Taken(x, i), a)
                         /\ Carried(x, i) => OnTheWay(x, i, a)
    BY DEF Flow
  <1>2. Run(strm'[x][i].inq, i, u, Taken(x, i)', a)
    BY <1>0, <1>1 DEF Keeps
  <1>3. Carried(x, i)' => OnTheWay(x, i, a)'
    BY <1>1, OnTheWayByFrame
  <1> QED
    BY <1>0, <1>2, <1>3 DEF Flow

\* No Close arrives where none was.
LEMMA ClosingByFrame ==
    ASSUME NEW x \in Sides, NEW i \in Ids, Closing(x, i),
           pump'[Peer(x)][i].up # "done" =>
             /\ pump[Peer(x)][i].up # "done"
             /\ None(strm[x][i].inq, i, "close") => None(strm'[x][i].inq, i, "close")
             /\ None(eng[x].blocked, i, "close") => None(eng'[x].blocked, i, "close")
             /\ None(wire[Peer(x)], i, "close") => None(wire'[Peer(x)], i, "close")
             /\ None(ctrl[Peer(x)], i, "close") => None(ctrl'[Peer(x)], i, "close")
             /\ None(out[Peer(x)], i, "close") => None(out'[Peer(x)], i, "close")
    PROVE  Closing(x, i)'
  BY DEF Closing

-----------------------------------------------------------------------------
(* Steps of a stream's task. *)

\* No other task moves.
OnlyTask(w, i) ==
    /\ pump' \in [Sides -> [Ids -> PumpRecords]]
    /\ \A z \in Sides, j \in Ids : ~(z = w /\ j = i) => pump'[z][j] = pump[z][j]

\* An assignment to one pump leaves all others alone.
LEMMA OnlyTaskIs ==
    ASSUME Typed, NEW w \in Sides, NEW i \in Ids, NEW p \in PumpRecords,
           pump' = [pump EXCEPT ![w][i] = p]
    PROVE  OnlyTask(w, i) /\ pump'[w][i] = p
  BY DEF Typed, OnlyTask

\* A task that ends keeps all it knows.
LEMMA EndedIs ==
    ASSUME NEW p \in PumpRecords
    PROVE  /\ Ended(p) \in PumpRecords /\ Ended(p).task = "ended"
           /\ Ended(p).up = p.up /\ Ended(p).down = p.down /\ Ended(p).sent = p.sent
           /\ Ended(p).got = p.got /\ Ended(p).held = p.held /\ (Ended(p).fin <=> p.fin)
           /\ Ended(p) = [p EXCEPT !.task = "ended"]
  BY DEF Ended, PumpRecords, Tasks

\* Joining the halves of a pump changes at most whether its task has ended.
LEMMA HalvesIs ==
    ASSUME NEW p \in PumpRecords
    PROVE  /\ Halves(p) \in PumpRecords /\ Halves(p).task \in {p.task, "ended"}
           /\ Halves(p).up = p.up /\ Halves(p).down = p.down /\ Halves(p).sent = p.sent
           /\ Halves(p).got = p.got /\ Halves(p).held = p.held /\ (Halves(p).fin <=> p.fin)
  BY EndedIs DEF Halves

\* send_or_drop: the frame is queued and the task goes on, or the task ends without it.
LEMMA SendOrDropDoes ==
    ASSUME Typed, NEW w \in Sides, NEW i \in Ids, NEW f \in Frames, NEW p \in PumpRecords,
           SendOrDrop(w, i, f, p)
    PROVE  /\ UNCHANGED <<eng, strm, ctrl, wire, env>> /\ OnlyTask(w, i)
           /\ \/ out' = [out EXCEPT ![w] = Append(@, f)] /\ pump'[w][i] = p
              \/ out' = out /\ pump'[w][i] = Ended(pump[w][i])
  <1>1. UNCHANGED <<eng, strm, ctrl, wire, env>>
    BY DEF SendOrDrop
  <1>2. CASE out' = [out EXCEPT ![w] = Append(@, f)] /\ pump' = [pump EXCEPT ![w][i] = p]
    BY <1>1, <1>2, OnlyTaskIs
  <1>3. CASE out' = out /\ pump' = [pump EXCEPT ![w][i].task = "ended"]
    <2>1. pump[w][i] \in PumpRecords /\ Ended(pump[w][i]) \in PumpRecords
      BY TypedParts, EndedIs
    <2>2. pump' = [pump EXCEPT ![w][i] = Ended(pump[w][i])]
      BY <1>3 DEF Ended
    <2>3. OnlyTask(w, i) /\ pump'[w][i] = Ended(pump[w][i])
      BY <2>1, <2>2, OnlyTaskIs
    <2> QED
      BY <1>1, <1>3, <2>3
  <1> QED
    BY <1>2, <1>3 DEF SendOrDrop

\* The task of stream i on side w before and after a step in which its socket takes nothing and
\* it queues nothing numbered.
Quiet(w, i) ==
    LET p == pump[w][i]
        q == pump'[w][i]
    IN /\ p.task \in {"start", "dialfail", "run"} /\ q.task \in {"dialfail", "run", "ended"}
       /\ p.task = "start" /\ w = "I" => q.task = "ended"
       /\ q.up = "done" <=> p.up = "done"
       /\ q.task # "ended" => Queued(w, i)' = Queued(w, i)
       /\ Taken(w, i)' = Taken(w, i)
       /\ q.up \in {"credit", "queue"} => q.sent >= 1
       /\ q.up = "eof" => q.sent = Units[w][i]
       /\ q.fin <=> p.fin
       /\ q.fin => q.down = "done" /\ q.got = p.got
       /\ q.down = "write" => q.held = q.got + 1

\* A frame that carries nothing of a stream.
Plain(f, i) == f \in Frames /\ f.id = i /\ f.t \in {"abort", "window"}

SameStreams ==
    /\ strm' \in [Sides -> [Ids -> StreamRecords]]
    /\ \A z \in Sides, j \in Ids :
         strm'[z][j].inq = strm[z][j].inq /\ (strm'[z][j].entry <=> strm[z][j].entry)

Tells(w, i) ==
    /\ UNCHANGED <<eng, ctrl, wire, env>>
    /\ OnlyTask(w, i) /\ SameStreams /\ Quiet(w, i)
    /\ \/ out' = out
       \/ \E f \in Frames : Plain(f, i) /\ out' = [out EXCEPT ![w] = Append(@, f)]

\* A task that ends at once is quiet.
LEMMA QuietEnd ==
    ASSUME Typed, NEW w \in Sides, NEW i \in Ids, Sane(w, i), env' = env,
           pump[w][i].task \in {"start", "dialfail", "run"}, pump'[w][i] = Ended(pump[w][i])
    PROVE  Quiet(w, i)
  <1>1. pump[w][i] \in PumpRecords
    BY TypedParts
  <1>2. Units' = Units
    BY UnitsAre
  <1> QED
    BY <1>1, <1>2, EndedIs DEF Quiet, Sane, Taken

\* The frames a task queues.
LEMMA PlainIs ==
    ASSUME NEW i \in Ids, NEW n \in Nat
    PROVE  /\ Plain(Frame("abort", i, 0), i) /\ Plain(Frame("window", i, n), i)
           /\ Frame("open", i, 0) \in Frames /\ Frame("close", i, 0) \in Frames
           /\ n >= 1 => Frame("data", i, n) \in Frames
  BY DEF Plain, Frame, Frames, FrameTypes

\* A frame that carries nothing, after which the task ends, or the drop of any.
LEMMA TellsAndEnds ==
    ASSUME Typed, NEW w \in Sides, NEW i \in Ids, Sane(w, i), NEW f \in Frames, Plain(f, i),
           pump[w][i].task \in {"start", "dialfail", "run"},
           SendOrDrop(w, i, f, Ended(pump[w][i]))
    PROVE  Tells(w, i)
  <1>1. pump[w][i] \in PumpRecords /\ Ended(pump[w][i]) \in PumpRecords
    BY TypedParts, EndedIs
  <1>2. /\ UNCHANGED <<eng, strm, ctrl, wire, env>> /\ OnlyTask(w, i)
        /\ out' = [out EXCEPT ![w] = Append(@, f)] \/ out' = out
        /\ pump'[w][i] = Ended(pump[w][i])
    BY <1>1, SendOrDropDoes
  <1>3. Quiet(w, i)
    BY <1>2, QuietEnd
  <1>4. SameStreams
    BY <1>2 DEF SameStreams, Typed
  <1> QED
    BY <1>2, <1>3, <1>4 DEF Tells

\* The steps of a task that queue nothing numbered and take nothing.
TellsStep(w, i) ==
    \/ w = "A" /\ (Dial(i) \/ DialFailed(i))
    \/ UpRead(w, i) \/ UpCredit(w, i) \/ UpEnd(w, i) \/ DownWrite(w, i) \/ DownSend(w, i)
    \/ Idle(w, i) \/ IdleClose(w, i)
    \/ UpClose(w, i) /\ pump[w][i].up = "fail"

\* A pump's step that queues at most credit is of the kind Tells.
LEMMA TellsStepDoes ==
    ASSUME Typed, NEW w \in Sides, NEW i \in Ids, Sane(w, i), TellsStep(w, i)
    PROVE  Tells(w, i)
  <1> DEFINE p == pump[w][i]
             q == pump'[w][i]
  <1>T. p \in PumpRecords /\ p.sent \in Nat /\ p.got \in Nat /\ Units[w][i] \in Nat
    BY TypedParts
  <1>U. env' = env => Units' = Units
    BY UnitsAre
  <1>S. strm' = strm => SameStreams
    BY DEF SameStreams, Typed
  \* A step of the task alone.
  <1>O. ASSUME NEW r \in PumpRecords, Only(w, i, r), Quiet(w, i) PROVE Tells(w, i)
    <2>1. UNCHANGED <<eng, strm, ctrl, out, wire, env>> /\ OnlyTask(w, i)
      BY <1>O, OnlyTaskIs DEF Only
    <2> QED
      BY <1>O, <1>S, <2>1 DEF Tells
  <1>P. ASSUME NEW r \in PumpRecords, Only(w, i, r)
        PROVE  q = r /\ Units' = Units
    BY <1>P, <1>U, OnlyTaskIs DEF Only
  <1>1. CASE w = "A" /\ Dial(i)
    <2>1. PICK t \in {"run", "dialfail"} : Only(w, i, [p EXCEPT !.task = t]) /\ p.task = "start"
      BY <1>1 DEF Dial
    <2>2. [p EXCEPT !.task = t] \in PumpRecords
      BY <1>T DEF PumpRecords, Tasks
    <2>3. q = [p EXCEPT !.task = t] /\ Units' = Units
      BY <1>P, <2>1, <2>2
    <2>4. /\ q.task = t /\ q.up = p.up /\ q.down = p.down /\ q.sent = p.sent /\ q.got = p.got
          /\ q.held = p.held /\ q.fin = p.fin
      BY <1>T, <2>3 DEF PumpRecords
    <2>5. Quiet(w, i)
      BY <1>1, <2>1, <2>3, <2>4 DEF Quiet, Queued, Taken, Sane
    <2> QED
      BY <1>O, <2>1, <2>2, <2>5
  <1>2. CASE w = "A" /\ DialFailed(i)
    BY <1>2, PlainIs, TellsAndEnds DEF DialFailed, Plain
  <1>3. CASE UpRead(w, i)
    <2>0. p.task = "run" /\ p.up = "read" /\ p.sent + 1 \in Nat
      BY <1>3, <1>T DEF UpRead, Pumping
    <2>1. PICK t \in {"credit", "queue"} : Only(w, i, [p EXCEPT !.sent = @ + 1, !.up = t])
      BY <1>3 DEF UpRead
    <2>2. [p EXCEPT !.sent = @ + 1, !.up = t] \in PumpRecords
      BY <1>T, <2>0 DEF PumpRecords
    <2>3. q = [p EXCEPT !.sent = @ + 1, !.up = t] /\ Units' = Units
      BY <1>P, <2>1, <2>2
    <2>4. /\ q.task = p.task /\ q.up = t /\ q.down = p.down /\ q.sent = p.sent + 1 /\ q.got = p.got
          /\ q.held = p.held /\ q.fin = p.fin
      BY <1>T, <2>3 DEF PumpRecords
    <2>5. Queued(w, i)' = Queued(w, i)
      BY <1>T, <2>0, <2>4 DEF Queued
    <2>6. Quiet(w, i)
      BY <1>T, <2>0, <2>3, <2>4, <2>5 DEF Quiet, Taken, Sane
    <2> QED
      BY <1>O, <2>1, <2>2, <2>6
  <1>4. CASE UpCredit(w, i)
    <2>0. p.task = "run" /\ p.up = "credit"
      BY <1>4 DEF UpCredit, Pumping
    <2>1. CASE Only(w, i, Ended(p))
      <3>1. Ended(p) \in PumpRecords
        BY <1>T, EndedIs
      <3>2. q = Ended(p) /\ env' = env
        BY <1>P, <2>1, <3>1 DEF Only
      <3>3. Quiet(w, i)
        BY <2>0, <3>2, QuietEnd
      <3> QED
        BY <1>O, <2>1, <3>1, <3>3
    <2>2. CASE /\ strm[w][i].credit > 0
               /\ strm' = [strm EXCEPT ![w][i].credit = @ - 1]
               /\ pump' = [pump EXCEPT ![w][i].up = "queue"]
               /\ UNCHANGED <<eng, ctrl, out, wire, env>>
      <3>1. [p EXCEPT !.up = "queue"] \in PumpRecords
        BY <1>T DEF PumpRecords
      <3>2. pump' = [pump EXCEPT ![w][i] = [p EXCEPT !.up = "queue"]]
        BY <2>2
      <3>3. OnlyTask(w, i) /\ q = [p EXCEPT !.up = "queue"] /\ Units' = Units
        BY <1>U, <2>2, <3>1, <3>2, OnlyTaskIs
      <3>4. /\ q.task = p.task /\ q.up = "queue" /\ q.down = p.down /\ q.sent = p.sent
            /\ q.got = p.got /\ q.held = p.held /\ q.fin = p.fin
        BY <1>T, <3>3 DEF PumpRecords
      <3>5. Quiet(w, i)
        BY <2>0, <3>3, <3>4 DEF Quiet, Queued, Taken, Sane
      <3>6. strm[w][i] \in StreamRecords /\ strm[w][i].credit - 1 \in Int
        BY TypedParts DEF StreamRecords
      <3>7. [strm[w][i] EXCEPT !.credit = @ - 1] \in StreamRecords
        BY <3>6 DEF StreamRecords
      <3>8. SameStreams
        BY <2>2, <3>6, <3>7 DEF Typed, SameStreams, StreamRecords
      <3> QED
        BY <2>2, <3>3, <3>5, <3>8 DEF Tells
    <2> QED
      BY <1>4, <2>1, <2>2 DEF UpCredit
  <1>5. CASE UpEnd(w, i)
    <2>0. p.task = "run" /\ p.up = "read"
      BY <1>5 DEF UpEnd, Pumping
    <2>1. PICK t \in {"eof", "fail"} : Only(w, i, [p EXCEPT !.up = t]) /\ (t = "eof" => p.sent = Units[w][i])
      BY <1>5 DEF UpEnd
    <2>2. [p EXCEPT !.up = t] \in PumpRecords
      BY <1>T DEF PumpRecords
    <2>3. q = [p EXCEPT !.up = t] /\ Units' = Units
      BY <1>P, <2>1, <2>2
    <2>4. /\ q.task = p.task /\ q.up = t /\ q.down = p.down /\ q.sent = p.sent /\ q.got = p.got
          /\ q.held = p.held /\ q.fin = p.fin
      BY <1>T, <2>3 DEF PumpRecords
    <2>5. Quiet(w, i)
      BY <2>0, <2>1, <2>3, <2>4 DEF Quiet, Queued, Taken, Sane
    <2> QED
      BY <1>O, <2>1, <2>2, <2>5
  <1>6. CASE DownWrite(w, i)
    <2>0. p.task = "run" /\ p.down = "write" /\ ~p.fin /\ p.got + 1 \in Nat /\ p.unrep + 1 \in Nat
      BY <1>6, <1>T DEF DownWrite, Pumping, Sane, PumpRecords
    <2>1. CASE \E n \in Nat, t \in {"window", "recv"} :
                 Only(w, i, [p EXCEPT !.got = @ + 1, !.held = 0, !.unrep = n, !.down = t])
      <3>1. PICK n \in Nat, t \in {"window", "recv"} :
              Only(w, i, [p EXCEPT !.got = @ + 1, !.held = 0, !.unrep = n, !.down = t])
        BY <2>1
      <3> DEFINE r == [p EXCEPT !.got = @ + 1, !.held = 0, !.unrep = n, !.down = t]
      <3>2. r \in PumpRecords
        BY <1>T, <2>0 DEF PumpRecords
      <3>3. q = r /\ Units' = Units
        BY <1>P, <3>1, <3>2
      <3>4. /\ q.task = p.task /\ q.up = p.up /\ q.down = t /\ q.sent = p.sent /\ q.got = p.got + 1
            /\ q.fin = p.fin
        BY <1>T, <3>3 DEF PumpRecords
      <3>5. Quiet(w, i)
        BY <2>0, <3>3, <3>4 DEF Quiet, Queued, Taken, Sane
      <3> QED
        BY <1>O, <3>1, <3>2, <3>5
    <2>2. CASE Only(w, i, [p EXCEPT !.down = "fail", !.held = 0])
      <3>1. [p EXCEPT !.down = "fail", !.held = 0] \in PumpRecords
        BY <1>T DEF PumpRecords
      <3>2. q = [p EXCEPT !.down = "fail", !.held = 0] /\ Units' = Units
        BY <1>P, <2>2, <3>1
      <3>3. /\ q.task = p.task /\ q.up = p.up /\ q.down = "fail" /\ q.sent = p.sent
            /\ q.got = p.got /\ q.fin = p.fin
        BY <1>T, <3>2 DEF PumpRecords
      <3>4. Quiet(w, i)
        BY <2>0, <3>2, <3>3 DEF Quiet, Queued, Taken, Sane
      <3> QED
        BY <1>O, <2>2, <3>1, <3>4
    <2>3. (IF strm[w][i].credited THEN p.unrep + 1 ELSE 0) \in Nat
      BY <2>0
    <2> QED
      BY <1>6, <2>1, <2>2, <2>3 DEF DownWrite
  <1>7. CASE DownSend(w, i)
    <2>0. p.task = "run"
      BY <1>7 DEF DownSend, Pumping
    <2>1. CASE /\ p.down = "window"
               /\ SendOrDrop(w, i, Frame("window", i, p.unrep), [p EXCEPT !.down = "recv", !.unrep = 0])
      <3>1. [p EXCEPT !.down = "recv", !.unrep = 0] \in PumpRecords /\ p.unrep \in Nat
        BY <1>T DEF PumpRecords
      <3>2. Plain(Frame("window", i, p.unrep), i) /\ Frame("window", i, p.unrep) \in Frames
        BY <3>1, PlainIs DEF Plain
      <3>3. /\ UNCHANGED <<eng, strm, ctrl, wire, env>> /\ OnlyTask(w, i)
            /\ \/ /\ out' = [out EXCEPT ![w] = Append(@, Frame("window", i, p.unrep))]
                  /\ q = [p EXCEPT !.down = "recv", !.unrep = 0]
               \/ out' = out /\ q = Ended(p)
        BY <2>1, <3>1, <3>2, SendOrDropDoes
      <3>4. Quiet(w, i)
        <4>1. CASE q = [p EXCEPT !.down = "recv", !.unrep = 0]
          <5>1. /\ q.task = p.task /\ q.up = p.up /\ q.down = "recv" /\ q.sent = p.sent
                /\ q.got = p.got /\ q.fin = p.fin
            BY <1>T, <4>1 DEF PumpRecords
          <5> QED
            BY <1>U, <2>0, <2>1, <3>3, <5>1 DEF Quiet, Queued, Taken, Sane
        <4>2. CASE q = Ended(p)
          BY <2>0, <3>3, <4>2, QuietEnd
        <4> QED
          BY <3>3, <4>1, <4>2
      <3> QED
        BY <1>S, <3>2, <3>3, <3>4 DEF Tells
    <2>2. CASE p.down = "fail" /\ SendOrDrop(w, i, Frame("abort", i, 0), Ended(p))
      BY <2>0, <2>2, PlainIs, TellsAndEnds DEF Plain
    <2> QED
      BY <1>7, <2>1, <2>2 DEF DownSend
  <1>8. CASE Idle(w, i)
    <2>0. p.task = "run" /\ Only(w, i, [p EXCEPT !.idle = TRUE])
      BY <1>8 DEF Idle, Pumping
    <2>1. [p EXCEPT !.idle = TRUE] \in PumpRecords
      BY <1>T DEF PumpRecords
    <2>2. q = [p EXCEPT !.idle = TRUE] /\ Units' = Units
      BY <1>P, <2>0, <2>1
    <2>3. /\ q.task = p.task /\ q.up = p.up /\ q.down = p.down /\ q.sent = p.sent /\ q.got = p.got
          /\ q.held = p.held /\ q.fin = p.fin
      BY <1>T, <2>2 DEF PumpRecords
    <2>4. Quiet(w, i)
      BY <2>0, <2>2, <2>3 DEF Quiet, Queued, Taken, Sane
    <2> QED
      BY <1>O, <2>0, <2>1, <2>4
  <1>9. CASE IdleClose(w, i)
    BY <1>9, PlainIs, TellsAndEnds DEF IdleClose, Plain
  <1>10. CASE UpClose(w, i) /\ p.up = "fail"
    BY <1>10, PlainIs, TellsAndEnds DEF UpClose, Pumping, Plain
  <1> QED
    BY <1>1, <1>2, <1>3, <1>4, <1>5, <1>6, <1>7, <1>8, <1>9, <1>10 DEF TellsStep

\* The task of stream i on side w queues frame f, the next of its numbers.
Sends(w, i, f) ==
    /\ UNCHANGED <<eng, strm, ctrl, wire, env>>
    /\ OnlyTask(w, i) /\ out' = [out EXCEPT ![w] = Append(@, f)]
    /\ f \in Frames /\ Carries(f, i) /\ Alive(w, i)
    /\ Pos(f, Units[w][i]) = Queued(w, i) + 1 /\ Queued(w, i)' = Queued(w, i) + 1
    /\ pump[w][i].task \in {"start", "run"} /\ pump'[w][i].task \in {"run", "ended"}
    /\ f.t = "open" <=> pump[w][i].task = "start"
    /\ f.t = "open" => w = "I"
    /\ pump'[w][i].up \in {"read", "done"}
    /\ f.t = "close" => pump'[w][i].up = "done"
    /\ pump[w][i].up = "done" => pump'[w][i].up = "done"
    /\ Taken(w, i)' = Taken(w, i)
    /\ pump'[w][i].down = pump[w][i].down /\ pump'[w][i].got = pump[w][i].got
    /\ pump'[w][i].held = pump[w][i].held /\ (pump'[w][i].fin <=> pump[w][i].fin)

SendsStep(w, i) ==
    \/ w = "I" /\ QueueOpen(i)
    \/ UpQueue(w, i)
    \/ UpClose(w, i) /\ pump[w][i].up = "eof"

\* A step of the sending half queues one frame of its stream, or none.
LEMMA SendsStepDoes ==
    ASSUME Typed, NEW w \in Sides, NEW i \in Ids, Sane(w, i), SendsStep(w, i)
    PROVE  Tells(w, i) \/ \E f \in Frames : Sends(w, i, f)
  <1> DEFINE p == pump[w][i]
             q == pump'[w][i]
  <1>T. p \in PumpRecords /\ p.sent \in Nat /\ p.got \in Nat /\ Units[w][i] \in Nat
    BY TypedParts
  <1>U. env' = env => Units' = Units
    BY UnitsAre
  <1>S. strm' = strm => SameStreams
    BY DEF SameStreams, Typed
  <1>E. ASSUME UNCHANGED <<eng, strm, ctrl, wire, env>>, OnlyTask(w, i), out' = out, q = Ended(p),
               p.task \in {"start", "run"}
        PROVE  Tells(w, i)
    BY <1>E, <1>S, QuietEnd DEF Tells
  <1>1. CASE w = "I" /\ QueueOpen(i)
    <2> DEFINE r == [p EXCEPT !.task = "run"]
               f == Frame("open", i, 0)
    <2>1. p.task = "start" /\ SendOrDrop(w, i, f, r)
      BY <1>1 DEF QueueOpen
    <2>2. r \in PumpRecords /\ f \in Frames
      BY <1>T, PlainIs DEF PumpRecords, Tasks
    <2>3. /\ UNCHANGED <<eng, strm, ctrl, wire, env>> /\ OnlyTask(w, i)
          /\ \/ out' = [out EXCEPT ![w] = Append(@, f)] /\ q = r
             \/ out' = out /\ q = Ended(p)
      BY <2>1, <2>2, SendOrDropDoes
    <2>4. CASE out' = [out EXCEPT ![w] = Append(@, f)] /\ q = r
      <3>1. /\ q.task = "run" /\ q.up = p.up /\ q.down = p.down /\ q.sent = p.sent /\ q.got = p.got
            /\ q.held = p.held /\ q.fin = p.fin
        BY <1>T, <2>4 DEF PumpRecords
      <3>2. f.id = i /\ f.t = "open"
        BY DEF Frame
      <3>3. Carries(f, i) /\ Pos(f, Units[w][i]) = 0
        BY <3>2 DEF Carries, Pos
      <3>4. p.up = "read" /\ p.sent = 0
        BY <2>1 DEF Sane
      <3>5. Queued(w, i) = -1 /\ Queued(w, i)' = 0
        BY <1>1, <2>1, <3>1, <3>4 DEF Queued
      <3>6. Taken(w, i)' = Taken(w, i) /\ Alive(w, i)
        BY <1>1, <1>U, <2>1, <2>3, <3>1 DEF Taken, Alive
      <3>7. Sends(w, i, f)
        BY <1>1, <2>1, <2>2, <2>3, <2>4, <3>1, <3>2, <3>3, <3>4, <3>5, <3>6 DEF Sends
      <3> QED
        BY <2>2, <3>7
    <2> QED
      BY <1>E, <2>1, <2>3, <2>4
  <1>2. CASE UpQueue(w, i)
    <2> DEFINE r == [p EXCEPT !.up = "read"]
               f == Frame("data", i, p.sent)
    <2>1. p.task = "run" /\ p.up = "queue"
      BY <1>2 DEF UpQueue, Pumping
    <2>2. p.sent >= 1
      BY <2>1 DEF Sane
    <2>3. r \in PumpRecords /\ f \in Frames
      BY <1>T, <2>2, PlainIs DEF PumpRecords
    <2>4. /\ UNCHANGED <<eng, strm, ctrl, wire, env>>
          /\ out' = [out EXCEPT ![w] = Append(@, f)]
          /\ pump' = [pump EXCEPT ![w][i] = r]
      BY <1>2 DEF UpQueue
    <2>5. OnlyTask(w, i) /\ q = r
      BY <2>3, <2>4, OnlyTaskIs
    <2>6. /\ q.task = p.task /\ q.up = "read" /\ q.down = p.down /\ q.sent = p.sent /\ q.got = p.got
          /\ q.held = p.held /\ q.fin = p.fin
      BY <1>T, <2>5 DEF PumpRecords
    <2>7. f.id = i /\ f.t = "data" /\ f.n = p.sent
      BY DEF Frame
    <2>8. Carries(f, i) /\ Pos(f, Units[w][i]) = p.sent
      BY <2>7 DEF Carries, Pos
    <2>9. Queued(w, i) = p.sent - 1 /\ Queued(w, i)' = p.sent
      BY <2>1, <2>6 DEF Queued
    <2>10. Taken(w, i)' = Taken(w, i) /\ Alive(w, i)
      BY <1>U, <2>1, <2>4, <2>6 DEF Taken, Alive
    <2>11. Pos(f, Units[w][i]) = Queued(w, i) + 1 /\ Queued(w, i)' = Queued(w, i) + 1
      BY <1>T, <2>8, <2>9
    <2>12. Sends(w, i, f)
      BY <2>1, <2>3, <2>4, <2>5, <2>6, <2>7, <2>8, <2>10, <2>11 DEF Sends
    <2> QED
      BY <2>3, <2>12
  <1>3. CASE UpClose(w, i) /\ p.up = "eof"
    <2> DEFINE r == [p EXCEPT !.up = "done"]
               f == Frame("close", i, 0)
    <2>1. p.task = "run" /\ SendOrDrop(w, i, f, Halves(r))
      BY <1>3 DEF UpClose, Pumping
    <2>2. r \in PumpRecords /\ f \in Frames
      BY <1>T, PlainIs DEF PumpRecords
    <2>3. /\ r.task = "run" /\ r.up = "done" /\ r.down = p.down /\ r.sent = p.sent /\ r.got = p.got
          /\ r.held = p.held /\ (r.fin <=> p.fin)
      BY <1>T, <2>1 DEF PumpRecords
    <2> HIDE DEF r
    <2>4. /\ Halves(r) \in PumpRecords /\ Halves(r).task \in {"run", "ended"}
          /\ Halves(r).up = "done" /\ Halves(r).down = p.down /\ Halves(r).sent = p.sent
          /\ Halves(r).got = p.got /\ Halves(r).held = p.held /\ (Halves(r).fin <=> p.fin)
      BY <2>2, <2>3, HalvesIs
    <2>5. /\ UNCHANGED <<eng, strm, ctrl, wire, env>> /\ OnlyTask(w, i)
          /\ \/ out' = [out EXCEPT ![w] = Append(@, f)] /\ q = Halves(r)
             \/ out' = out /\ q = Ended(p)
      BY <2>1, <2>2, <2>4, SendOrDropDoes
    <2>6. CASE out' = [out EXCEPT ![w] = Append(@, f)] /\ q = Halves(r)
      <3>1. f.id = i /\ f.t = "close"
        BY DEF Frame
      <3>2. Carries(f, i) /\ Pos(f, Units[w][i]) = Units[w][i] + 1
        BY <3>1 DEF Carries, Pos
      <3>3. Queued(w, i) = Units[w][i]
        BY <1>3, <2>1 DEF Queued, Sane
      <3>4. Units' = Units
        BY <1>U, <2>5
      <3>5. Queued(w, i)' = Units[w][i] + 1
        BY <2>4, <2>6, <3>4 DEF Queued
      <3>6. Taken(w, i)' = Taken(w, i)
        BY <2>1, <2>4, <2>6, <3>4 DEF Taken
      <3>7. Alive(w, i)
        BY <2>1 DEF Alive
      <3>8. Sends(w, i, f)
        BY <2>1, <2>2, <2>4, <2>5, <2>6, <3>1, <3>2, <3>3, <3>5, <3>6, <3>7 DEF Sends
      <3> QED
        BY <2>2, <3>8
    <2> QED
      BY <1>E, <2>1, <2>5, <2>6
  <1> QED
    BY <1>1, <1>2, <1>3 DEF SendsStep

\* The task of stream i on side w takes the head of its inbound queue.
Takes(w, i) ==
    LET f == Head(strm[w][i].inq)
        p == pump[w][i]
        q == pump'[w][i]
    IN /\ UNCHANGED <<eng, ctrl, out, wire, env>> /\ OnlyTask(w, i)
       /\ strm' \in [Sides -> [Ids -> StreamRecords]]
       /\ \A z \in Sides, j \in Ids : ~(z = w /\ j = i) => strm'[z][j] = strm[z][j]
       /\ strm[w][i].inq # <<>> /\ strm'[w][i].inq = Tail(strm[w][i].inq)
       /\ strm'[w][i].entry <=> strm[w][i].entry
       /\ f \in Messages
       /\ p.task = "run" /\ q.task \in {"run", "ended"} /\ p.down = "recv" /\ ~p.fin
       /\ q.up = p.up /\ q.sent = p.sent /\ q.got = p.got
       /\ \/ f.t = "data" /\ q.down = "write" /\ q.held = f.n /\ ~q.fin
          \/ f.t = "close" /\ q.down = "done" /\ q.fin
          \/ f.t = "abort" /\ q.down = "recv" /\ ~q.fin

\* The receiving half takes the head of its inbound queue.
LEMMA TakesDoes ==
    ASSUME Typed, NEW w \in Sides, NEW i \in Ids, Sane(w, i), DownRecv(w, i)
    PROVE  Takes(w, i)
  <1> DEFINE p == pump[w][i]
             q == pump'[w][i]
             s == strm[w][i]
             f == Head(s.inq)
  <1>T. p \in PumpRecords /\ s \in StreamRecords /\ s.inq \in Seq(Messages)
    BY TypedParts
  <1>1. /\ p.task = "run" /\ p.down = "recv" /\ s.inq # <<>>
        /\ strm' = [strm EXCEPT ![w][i].inq = Tail(s.inq)]
        /\ UNCHANGED <<eng, ctrl, out, wire, env>>
    BY DEF DownRecv, Pumping
  <1>F. ~p.fin
    BY <1>1 DEF Sane
  <1>2. f \in Messages /\ Tail(s.inq) \in Seq(Messages)
    BY <1>T, <1>1
  <1>3. f.t \in {"data", "close", "abort"} /\ f.n \in Nat
    BY <1>2 DEF Messages, Frames
  <1>4. [s EXCEPT !.inq = Tail(s.inq)] \in StreamRecords
    BY <1>T, <1>2 DEF StreamRecords
  <1>5. strm' = [strm EXCEPT ![w][i] = [s EXCEPT !.inq = Tail(s.inq)]]
    BY <1>1
  <1>6. /\ strm' \in [Sides -> [Ids -> StreamRecords]]
        /\ \A z \in Sides, j \in Ids : ~(z = w /\ j = i) => strm'[z][j] = strm[z][j]
        /\ strm'[w][i] = [s EXCEPT !.inq = Tail(s.inq)]
    BY <1>4, <1>5 DEF Typed
  <1>7. strm'[w][i].inq = Tail(s.inq) /\ (strm'[w][i].entry <=> s.entry)
    BY <1>6, <1>T DEF StreamRecords
  <1>8. CASE f.t = "data"
    <2> DEFINE r == [p EXCEPT !.down = "write", !.held = f.n]
    <2>1. pump' = [pump EXCEPT ![w][i] = r]
      BY <1>8 DEF DownRecv
    <2>2. r \in PumpRecords
      BY <1>T, <1>3 DEF PumpRecords
    <2> HIDE DEF r
    <2>3. OnlyTask(w, i) /\ q = r
      BY <2>1, <2>2, OnlyTaskIs
    <2>4. /\ q.task = p.task /\ q.up = p.up /\ q.down = "write" /\ q.sent = p.sent /\ q.got = p.got
          /\ q.held = f.n /\ q.fin = p.fin
      BY <1>T, <2>3 DEF PumpRecords, r
    <2> QED
      BY <1>1, <1>F, <1>2, <1>6, <1>7, <1>8, <2>3, <2>4 DEF Takes
  <1>9. CASE f.t = "close"
    <2> DEFINE r == [p EXCEPT !.down = "done", !.fin = TRUE]
    <2>1. pump' = [pump EXCEPT ![w][i] = Halves(r)]
      BY <1>9 DEF DownRecv
    <2>2. r \in PumpRecords
      BY <1>T DEF PumpRecords
    <2>3. /\ r.task = "run" /\ r.up = p.up /\ r.down = "done" /\ r.sent = p.sent /\ r.got = p.got
          /\ r.fin
      BY <1>T, <1>1 DEF PumpRecords
    <2> HIDE DEF r
    <2>4. /\ Halves(r) \in PumpRecords /\ Halves(r).task \in {"run", "ended"}
          /\ Halves(r).up = p.up /\ Halves(r).down = "done" /\ Halves(r).sent = p.sent
          /\ Halves(r).got = p.got /\ Halves(r).fin
      BY <2>2, <2>3, HalvesIs
    <2>5. OnlyTask(w, i) /\ q = Halves(r)
      BY <2>1, <2>4, OnlyTaskIs
    <2> QED
      BY <1>1, <1>F, <1>2, <1>6, <1>7, <1>9, <2>4, <2>5 DEF Takes
  <1>10. CASE f.t = "abort"
    <2>1. pump' = [pump EXCEPT ![w][i] = Ended(p)]
      BY <1>10 DEF DownRecv
    <2>2. /\ Ended(p) \in PumpRecords /\ Ended(p).task = "ended" /\ Ended(p).up = p.up
          /\ Ended(p).down = p.down /\ Ended(p).sent = p.sent /\ Ended(p).got = p.got
          /\ (Ended(p).fin <=> p.fin)
      BY <1>T, EndedIs
    <2>3. OnlyTask(w, i) /\ q = Ended(p)
      BY <2>1, <2>2, OnlyTaskIs
    <2> QED
      BY <1>1, <1>F, <1>2, <1>6, <1>7, <1>10, <2>2, <2>3 DEF Takes
  <1> QED
    BY <1>3, <1>8, <1>9, <1>10

\* What holds of every stream and side.
LEMMA InvOf ==
    ASSUME StreamInv, NEW x \in Sides, NEW i \in Ids
    PROVE  /\ Typed /\ Waits(x) /\ Sane(x, i) /\ Closing(x, i) /\ Flow(x, i)
           /\ pump["A"][i].task # "none" => Passed(i)
  BY DEF StreamInv

\* A frame of stream i that is queued is nothing to the others.
LEMMA OutKept ==
    ASSUME Typed, NEW w \in Sides, NEW i \in Ids, NEW f \in Frames, f.id = i,
           out' = [out EXCEPT ![w] = Append(@, f)]
    PROVE  /\ out' \in [Sides -> Seq(Frames)]
           /\ \A z \in Sides, j \in Ids : ~(z = w /\ Carries(f, j)) => Keeps(out[z], out'[z], j)
           /\ out'[w] = Append(out[w], f)
  <1>1. out[w] \in Seq(Frames) /\ Append(out[w], f) \in Seq(Frames)
    BY DEF Typed
  <1>2. out' \in [Sides -> Seq(Frames)] /\ out'[w] = Append(out[w], f)
        /\ \A z \in Sides : z # w => out'[z] = out[z]
    BY <1>1 DEF Typed
  <1>3. ASSUME NEW z \in Sides, NEW j \in Ids, ~(z = w /\ Carries(f, j)) PROVE Keeps(out[z], out'[z], j)
    <2>1. CASE z # w
      BY <1>2, <2>1, KeepsSame
    <2>2. CASE z = w
      BY <1>1, <1>2, <1>3, <2>2, KeepsAppend
    <2> QED
      BY <2>1, <2>2
  <1> QED
    BY <1>2, <1>3

\* A step of a task that queues nothing numbered and takes nothing.
LEMMA TellsKeeps ==
    ASSUME StreamInv, NEW w \in Sides, NEW i \in Ids, Tells(w, i)
    PROVE  StreamInv'
  <1>0. Typed /\ UNCHANGED <<eng, ctrl, wire, env>> /\ OnlyTask(w, i) /\ SameStreams /\ Quiet(w, i)
    BY DEF StreamInv, Tells
  <1>U. Units' = Units /\ \A x \in Sides, j \in Ids : Units[x][j] \in Nat
    BY <1>0, UnitsAre
  <1>K. out' \in [Sides -> Seq(Frames)] /\ \A z \in Sides, j \in Ids : Keeps(out[z], out'[z], j)
    <2>1. CASE out' = out
      BY <1>0, <2>1, KeepsSame DEF Typed
    <2>2. CASE \E f \in Frames : Plain(f, i) /\ out' = [out EXCEPT ![w] = Append(@, f)]
      <3>1. PICK f \in Frames : Plain(f, i) /\ out' = [out EXCEPT ![w] = Append(@, f)]
        BY <2>2
      <3>2. f.id = i /\ \A j \in Ids : ~Carries(f, j)
        BY <3>1 DEF Plain, Carries
      <3> QED
        BY <1>0, <3>1, <3>2, OutKept
    <2> QED
      BY <2>1, <2>2 DEF Tells
  <1>1. Typed'
    BY <1>0, <1>K DEF Typed, OnlyTask, SameStreams
  <1>P. \A z \in Sides, j \in Ids :
          /\ pump'[z][j].task = "none" <=> pump[z][j].task = "none"
          /\ Receiving(z, j)' => Receiving(z, j)
          /\ pump'[z][j].up = "done" <=> pump[z][j].up = "done"
          /\ Taken(z, j)' = Taken(z, j)
          /\ Alive(z, j)' => Alive(z, j) /\ Queued(z, j)' = Queued(z, j)
    <2> SUFFICES ASSUME NEW z \in Sides, NEW j \in Ids
                 PROVE  /\ pump'[z][j].task = "none" <=> pump[z][j].task = "none"
                        /\ Receiving(z, j)' => Receiving(z, j)
                        /\ pump'[z][j].up = "done" <=> pump[z][j].up = "done"
                        /\ Taken(z, j)' = Taken(z, j)
                        /\ Alive(z, j)' => Alive(z, j) /\ Queued(z, j)' = Queued(z, j)
      OBVIOUS
    <2>1. CASE z = w /\ j = i
      BY <1>0, <2>1 DEF Quiet, Receiving, Alive
    <2>2. CASE ~(z = w /\ j = i)
      BY <1>0, <1>U, <2>2 DEF OnlyTask, Receiving, Alive, Taken, Queued
    <2> QED
      BY <2>1, <2>2
  <1>G. \A j \in Ids : Passed(j) => Passed(j)'
    <2> SUFFICES ASSUME NEW j \in Ids, Passed(j) PROVE Passed(j)'
      OBVIOUS
    <2>1. pump'["I"][j].task \notin {"none", "start"}
      <3>1. CASE "I" = w /\ j = i
        BY <1>0, <3>1 DEF Quiet
      <3>2. CASE ~("I" = w /\ j = i)
        BY <1>0, <3>2, SidesAre DEF OnlyTask, Passed
      <3> QED
        BY <3>1, <3>2
    <2> QED
      BY <1>0, <1>K, <2>1, KeepsSame, SidesAre, PassedByFrame
  <1>2. ASSUME NEW x \in Sides PROVE Waits(x)'
    BY <1>0, <1>P DEF StreamInv, Waits, SameStreams
  <1>3. ASSUME NEW x \in Sides, NEW j \in Ids PROVE Sane(x, j)'
    <2>0. Sane(x, j) /\ Peer(x) \in Sides
      BY InvOf, SidesAre
    <2>1. strm'[x][j].inq = strm[x][j].inq /\ (strm'[x][j].entry <=> strm[x][j].entry)
      BY <1>0 DEF SameStreams
    <2>2. pump'[Peer(x)][j].up = "done" <=> pump[Peer(x)][j].up = "done"
      BY <1>P, <2>0
    <2>3. CASE x = w /\ j = i
      BY <1>0, <1>U, <2>0, <2>1, <2>2, <2>3 DEF Quiet, Sane
    <2>4. CASE ~(x = w /\ j = i)
      <3>1. pump'[x][j] = pump[x][j]
        BY <1>0, <2>4 DEF OnlyTask
      <3> QED
        BY <1>U, <2>0, <2>1, <2>2, <3>1 DEF Sane
    <2> QED
      BY <2>3, <2>4
  <1>4. ASSUME NEW x \in Sides, NEW j \in Ids PROVE Closing(x, j)'
    <2>1. Closing(x, j) /\ Peer(x) \in Sides
      BY InvOf, SidesAre
    <2>2. None(out[Peer(x)], j, "close") => None(out'[Peer(x)], j, "close")
      BY <1>K, <2>1 DEF Keeps
    <2> QED
      BY <1>0, <1>P, <2>1, <2>2, ClosingByFrame DEF SameStreams
  <1>5. ASSUME NEW x \in Sides, NEW j \in Ids PROVE Flow(x, j)'
    <2>1. Flow(x, j) /\ Peer(x) \in Sides
      BY InvOf, SidesAre
    <2>2. Carried(x, j)' => Carried(x, j)
      BY <1>0, <1>P, <1>G DEF Carried, SameStreams
    <2>3. /\ Keeps(strm[x][j].inq, strm'[x][j].inq, j) /\ Keeps(eng[x].blocked, eng'[x].blocked, j)
          /\ Keeps(wire[Peer(x)], wire'[Peer(x)], j) /\ Keeps(ctrl[Peer(x)], ctrl'[Peer(x)], j)
          /\ Keeps(out[Peer(x)], out'[Peer(x)], j)
      BY <1>0, <1>K, <2>1, KeepsSame DEF SameStreams
    <2> QED
      BY <1>0, <1>P, <2>1, <2>2, <2>3, FlowByFrame
  <1>6. ASSUME NEW j \in Ids, pump'["A"][j].task # "none" PROVE Passed(j)'
    BY <1>6, <1>P, <1>G, SidesAre, InvOf
  <1> QED
    BY <1>1, <1>2, <1>3, <1>4, <1>5, <1>6 DEF StreamInv

\* A numbered frame is queued: the flow to the other side gets one longer.
LEMMA SendsKeeps ==
    ASSUME StreamInv, NEW w \in Sides, NEW i \in Ids, NEW f \in Frames, Sends(w, i, f)
    PROVE  StreamInv'
  <1>0. Typed /\ UNCHANGED <<eng, strm, ctrl, wire, env>> /\ OnlyTask(w, i)
    BY DEF StreamInv, Sends
  <1>U. Units' = Units /\ \A x \in Sides, j \in Ids : Units[x][j] \in Nat
    BY <1>0, UnitsAre
  <1>F. f.id = i /\ Carries(f, i) /\ f.t \in {"open", "data", "close"}
    BY DEF Sends, Carries
  <1>K. /\ out' \in [Sides -> Seq(Frames)] /\ out'[w] = Append(out[w], f)
        /\ \A z \in Sides, j \in Ids : ~(z = w /\ j = i) => Keeps(out[z], out'[z], j)
    <2>1. \A j \in Ids : j # i => ~Carries(f, j)
      BY <1>F DEF Carries
    <2> QED
      BY <1>0, <1>F, <2>1, OutKept DEF Sends
  <1>1. Typed'
    BY <1>0, <1>K DEF Typed, OnlyTask
  <1>P. \A z \in Sides, j \in Ids :
          /\ pump'[z][j].task = "none" <=> pump[z][j].task = "none"
          /\ Receiving(z, j)' => Receiving(z, j)
          /\ pump[z][j].up = "done" => pump'[z][j].up = "done"
          /\ Taken(z, j)' = Taken(z, j)
          /\ ~(z = w /\ j = i) => /\ pump'[z][j] = pump[z][j]
                                  /\ Alive(z, j)' <=> Alive(z, j)
                                  /\ Queued(z, j)' = Queued(z, j)
    <2> SUFFICES ASSUME NEW z \in Sides, NEW j \in Ids
                 PROVE  /\ pump'[z][j].task = "none" <=> pump[z][j].task = "none"
                        /\ Receiving(z, j)' => Receiving(z, j)
                        /\ pump[z][j].up = "done" => pump'[z][j].up = "done"
                        /\ Taken(z, j)' = Taken(z, j)
                        /\ ~(z = w /\ j = i) => /\ pump'[z][j] = pump[z][j]
                                                /\ Alive(z, j)' <=> Alive(z, j)
                                                /\ Queued(z, j)' = Queued(z, j)
      OBVIOUS
    <2>1. CASE z = w /\ j = i
      BY <2>1 DEF Sends, Receiving
    <2>2. CASE ~(z = w /\ j = i)
      BY <1>0, <1>U, <2>2 DEF OnlyTask, Receiving, Alive, Taken, Queued
    <2> QED
      BY <2>1, <2>2
  <1>G. \A j \in Ids : Passed(j) => Passed(j)'
    <2> SUFFICES ASSUME NEW j \in Ids, Passed(j) PROVE Passed(j)'
      OBVIOUS
    <2>1. CASE w = "I" /\ j = i
      <3>1. pump'["I"][j].task \notin {"none", "start"} /\ f.t # "open"
        BY <2>1 DEF Sends, Passed
      <3>2. out["I"] \in Seq(Frames)
        BY <1>0, SidesAre DEF Typed
      <3>3. None(out["I"], j, "open") => None(out'["I"], j, "open")
        BY <1>K, <2>1, <3>1, <3>2, NoneAppend
      <3> QED
        BY <1>0, <3>1, <3>3 DEF Passed
    <2>2. CASE ~(w = "I" /\ j = i)
      BY <1>0, <1>K, <1>P, <2>2, KeepsSame, SidesAre, PassedByFrame DEF Passed
    <2> QED
      BY <2>1, <2>2
  <1>2. ASSUME NEW x \in Sides PROVE Waits(x)'
    BY <1>0, <1>P DEF StreamInv, Waits
  <1>3. ASSUME NEW x \in Sides, NEW j \in Ids PROVE Sane(x, j)'
    <2>0. Sane(x, j) /\ Peer(x) \in Sides
      BY InvOf, SidesAre
    <2>1. pump[Peer(x)][j].up = "done" => pump'[Peer(x)][j].up = "done"
      BY <1>P, <2>0
    <2>2. CASE x = w /\ j = i
      BY <1>0, <1>U, <2>0, <2>1, <2>2 DEF Sends, Sane
    <2>3. CASE ~(x = w /\ j = i)
      BY <1>0, <1>U, <1>P, <2>0, <2>1, <2>3 DEF Sane
    <2> QED
      BY <2>2, <2>3
  <1>C. ASSUME NEW x \in Sides, NEW j \in Ids PROVE Carried(x, j)' => Carried(x, j)
    BY <1>0, <1>P, <1>G DEF Carried
  <1>4. ASSUME NEW x \in Sides, NEW j \in Ids PROVE Closing(x, j)'
    <2>1. Closing(x, j) /\ Peer(x) \in Sides /\ out[Peer(x)] \in Seq(Frames)
      BY <1>0, InvOf, SidesAre DEF Typed
    <2>2. SUFFICES ASSUME pump'[Peer(x)][j].up # "done" PROVE Closing(x, j)'
      BY DEF Closing
    <2>3. None(out[Peer(x)], j, "close") => None(out'[Peer(x)], j, "close")
      <3>1. CASE Peer(x) = w /\ j = i
        <4>1. f.t # "close"
          BY <2>2, <3>1 DEF Sends
        <4> QED
          BY <1>K, <2>1, <3>1, <4>1, NoneAppend
      <3>2. CASE ~(Peer(x) = w /\ j = i)
        BY <1>K, <2>1, <3>2 DEF Keeps
      <3> QED
        BY <3>1, <3>2
    <2> QED
      BY <1>0, <1>P, <2>1, <2>2, <2>3, ClosingByFrame
  <1>5. ASSUME NEW x \in Sides, NEW j \in Ids PROVE Flow(x, j)'
    <2>1. Flow(x, j) /\ Peer(x) \in Sides
      BY InvOf, SidesAre
    <2>2. /\ Keeps(strm[x][j].inq, strm'[x][j].inq, j) /\ Keeps(eng[x].blocked, eng'[x].blocked, j)
          /\ Keeps(wire[Peer(x)], wire'[Peer(x)], j) /\ Keeps(ctrl[Peer(x)], ctrl'[Peer(x)], j)
      BY <1>0, KeepsSame
    <2>3. CASE ~(Peer(x) = w /\ j = i)
      <3>1. Keeps(out[Peer(x)], out'[Peer(x)], j)
        BY <1>K, <2>1, <2>3
      <3> QED
        BY <1>0, <1>P, <1>C, <2>1, <2>2, <2>3, <3>1, FlowByFrame
    <2>4. CASE Peer(x) = w /\ j = i
      <3> DEFINE u == Units[w][i]
      <3>0. u \in Nat /\ out[w] \in Seq(Frames) /\ Queued(w, i) \in Int
        BY <1>0, <1>U, NumbersAre DEF Typed
      <3>S. /\ Pos(f, u) = Queued(w, i) + 1 /\ Queued(w, i)' = Queued(w, i) + 1
            /\ Alive(w, i)
        BY DEF Sends
      <3>1. PICK a \in Int : /\ Run(strm[x][i].inq, i, u, Taken(x, i), a)
                             /\ Carried(x, i) => OnTheWay(x, i, a)
        BY <2>1, <2>4 DEF Flow
      <3>2. ASSUME Carried(x, i)' PROVE OnTheWay(x, i, a)'
        <4>1. PICK b \in Int, c \in Int :
                /\ Run(eng[x].blocked, i, u, a, b) /\ Run(wire[w], i, u, b, c)
                /\ Alive(w, i) => c <= Queued(w, i)
                /\ Leaving(w, i, c)
          BY <1>C, <2>4, <3>1, <3>2 DEF OnTheWay
        <4>2. c <= Queued(w, i)'
          BY <3>0, <3>S, <4>1
        <4>3. Leaving(w, i, c)'
          <5>1. SUFFICES ASSUME eng[w].up
                         PROVE  \E d \in Int, s \in Int :
                                  /\ Run(ctrl[w], i, u, c, d) /\ Run(out'[w], i, u, d, s)
                                  /\ Alive(w, i)' => s = Queued(w, i)'
            BY <1>0, <1>U DEF Leaving
          <5>2. PICK d \in Int, s \in Int :
                  /\ Run(ctrl[w], i, u, c, d) /\ Run(out[w], i, u, d, s)
                  /\ Alive(w, i) => s = Queued(w, i)
            BY <4>1, <5>1 DEF Leaving
          <5>3. s = Queued(w, i) /\ Run(out[w], i, u, d, s)
            BY <3>S, <5>2
          <5>4. Run(out'[w], i, u, d, s + 1)
            BY <1>F, <1>K, <3>0, <3>S, <5>3, RunAppend
          <5>5. s + 1 \in Int /\ s + 1 = Queued(w, i)'
            BY <3>S, <5>3
          <5> QED
            BY <5>2, <5>4, <5>5
        <4> QED
          BY <1>0, <1>U, <2>4, <4>1, <4>2, <4>3 DEF OnTheWay
      <3>3. Run(strm'[x][i].inq, i, u, Taken(x, i)', a)
        BY <1>0, <1>P, <2>4, <3>1
      <3> QED
        BY <1>U, <2>4, <3>2, <3>3 DEF Flow
    <2> QED
      BY <2>3, <2>4
  <1>6. ASSUME NEW j \in Ids, pump'["A"][j].task # "none" PROVE Passed(j)'
    BY <1>6, <1>P, <1>G, SidesAre, InvOf
  <1> QED
    BY <1>1, <1>2, <1>3, <1>4, <1>5, <1>6 DEF StreamInv

\* The socket takes the next of its numbers.
LEMMA TakesKeeps ==
    ASSUME StreamInv, NEW w \in Sides, NEW i \in Ids, Takes(w, i)
    PROVE  StreamInv'
  <1> DEFINE f == Head(strm[w][i].inq)
             p == pump[w][i]
             q == pump'[w][i]
             u == Units[Peer(w)][i]
  <1>0. /\ Typed /\ UNCHANGED <<eng, ctrl, out, wire, env>> /\ OnlyTask(w, i)
        /\ strm' \in [Sides -> [Ids -> StreamRecords]]
        /\ \A z \in Sides, j \in Ids : ~(z = w /\ j = i) => strm'[z][j] = strm[z][j]
    BY DEF StreamInv, Takes
  <1>T. /\ strm[w][i].inq \in Seq(Frames) /\ strm[w][i].inq # <<>>
        /\ strm'[w][i].inq = Tail(strm[w][i].inq) /\ (strm'[w][i].entry <=> strm[w][i].entry)
        /\ f \in Frames /\ p.got \in Nat
        /\ p.task = "run" /\ q.task \in {"run", "ended"} /\ p.down = "recv" /\ ~p.fin
        /\ q.up = p.up /\ q.sent = p.sent /\ q.got = p.got
    BY <1>0, TypedParts DEF Takes, Messages
  <1>D. \/ f.t = "data" /\ q.down = "write" /\ q.held = f.n /\ ~q.fin
        \/ f.t = "close" /\ q.down = "done" /\ q.fin
        \/ f.t = "abort" /\ q.down = "recv" /\ ~q.fin
    BY DEF Takes
  <1>U. Units' = Units /\ u \in Nat /\ Peer(w) \in Sides /\ Peer(w) # w
    BY <1>0, UnitsAre, SidesAre
  <1>I. f.id = i /\ \A k \in 1..Len(Tail(strm[w][i].inq)) : Tail(strm[w][i].inq)[k].id = i
    <2>1. \A k \in 1..Len(strm[w][i].inq) : strm[w][i].inq[k].id = i
      BY InvOf DEF Sane
    <2> QED
      BY <1>T, <2>1, TailAt
  <1>P. \A z \in Sides, j \in Ids :
          /\ pump'[z][j].task = "none" <=> pump[z][j].task = "none"
          /\ pump'[z][j].task = "start" <=> pump[z][j].task = "start"
          /\ Receiving(z, j)' => Receiving(z, j)
          /\ pump'[z][j].up = pump[z][j].up
          /\ strm'[z][j].entry <=> strm[z][j].entry
          /\ Alive(z, j)' => Alive(z, j) /\ Queued(z, j)' = Queued(z, j)
          /\ ~(z = w /\ j = i) => pump'[z][j] = pump[z][j] /\ Taken(z, j)' = Taken(z, j)
    <2> SUFFICES ASSUME NEW z \in Sides, NEW j \in Ids
                 PROVE  /\ pump'[z][j].task = "none" <=> pump[z][j].task = "none"
                        /\ pump'[z][j].task = "start" <=> pump[z][j].task = "start"
                        /\ Receiving(z, j)' => Receiving(z, j)
                        /\ pump'[z][j].up = pump[z][j].up
                        /\ strm'[z][j].entry <=> strm[z][j].entry
                        /\ Alive(z, j)' => Alive(z, j) /\ Queued(z, j)' = Queued(z, j)
                        /\ ~(z = w /\ j = i) => pump'[z][j] = pump[z][j] /\ Taken(z, j)' = Taken(z, j)
      OBVIOUS
    <2>1. CASE z = w /\ j = i
      BY <1>T, <1>U, <2>1 DEF Receiving, Alive, Queued
    <2>2. CASE ~(z = w /\ j = i)
      BY <1>0, <1>U, <2>2 DEF OnlyTask, Receiving, Alive, Taken, Queued
    <2> QED
      BY <2>1, <2>2
  <1>1. Typed'
    BY <1>0 DEF Typed, OnlyTask
  <1>G. \A j \in Ids : Passed(j)' <=> Passed(j)
    BY <1>0, <1>P, SidesAre DEF Passed
  <1>2. ASSUME NEW x \in Sides PROVE Waits(x)'
    BY <1>0, <1>P DEF StreamInv, Waits
  <1>R. PICK a \in Int : /\ Run(strm[w][i].inq, i, u, Taken(w, i), a)
                         /\ Carried(w, i) => OnTheWay(w, i, a)
    BY InvOf DEF Flow
  <1>S. Taken(w, i) = p.got
    BY <1>T DEF Taken
  \* A unit or the Close is the next number.
  <1>N. ASSUME f.t \in {"data", "close"}
        PROVE  /\ Run(Tail(strm[w][i].inq), i, u, p.got + 1, a) /\ Taken(w, i)' = p.got + 1
               /\ f.t = "data" => f.n = p.got + 1
               /\ f.t = "close" => u = p.got /\ pump[Peer(w)][i].up = "done"
    <2>1. Carries(f, i) /\ p.got \in Int
      BY <1>I, <1>N, <1>T DEF Carries
    <2>2. Pos(f, u) = p.got + 1 /\ Run(Tail(strm[w][i].inq), i, u, p.got + 1, a)
      BY <1>T, <1>U, <1>R, <1>S, <2>1, RunTail
    <2>3. /\ f.t = "data" => f.n = p.got + 1
          /\ f.t = "close" => u = p.got
      BY <1>T, <1>U, <2>2 DEF Pos
    <2>4. f.t = "close" => pump[Peer(w)][i].up = "done"
      <3>1. Closing(w, i)
        BY InvOf
      <3>2. f.t = "close" => ~None(strm[w][i].inq, i, "close")
        BY <1>I, <1>T, NoneTail
      <3> QED
        BY <3>1, <3>2 DEF Closing
    <2>5. Taken(w, i)' = p.got + 1
      BY <1>D, <1>N, <1>T, <1>U, <2>3 DEF Taken
    <2> QED
      BY <2>2, <2>3, <2>4, <2>5
  <1>3. ASSUME NEW x \in Sides, NEW j \in Ids PROVE Sane(x, j)'
    <2>0. Sane(x, j) /\ Peer(x) \in Sides
      BY InvOf, SidesAre
    <2>1. pump'[Peer(x)][j].up = pump[Peer(x)][j].up
      BY <1>P, <2>0
    <2>2. CASE x = w /\ j = i
      <3>1. /\ q.fin => q.down = "done" /\ pump'[Peer(w)][i].up = "done" /\ q.got = u
            /\ q.down = "write" => q.held = q.got + 1
        BY <1>D, <1>N, <1>T, <2>1, <2>2
      <3>2. /\ q.up \in {"credit", "queue"} => q.sent >= 1
            /\ q.up = "eof" => q.sent = Units[w][i]
        BY <1>T, <2>0, <2>2 DEF Sane
      <3>3. q.task \notin {"none", "start"} /\ \A k \in 1..Len(strm'[w][i].inq) : strm'[w][i].inq[k].id = i
        BY <1>I, <1>T
      <3> QED
        BY <1>U, <2>2, <3>1, <3>2, <3>3 DEF Sane
    <2>3. CASE ~(x = w /\ j = i)
      BY <1>0, <1>U, <1>P, <2>0, <2>1, <2>3 DEF Sane
    <2> QED
      BY <2>2, <2>3
  <1>C. ASSUME NEW x \in Sides, NEW j \in Ids PROVE Carried(x, j)' => Carried(x, j)
    BY <1>0, <1>P, <1>G DEF Carried
  <1>4. ASSUME NEW x \in Sides, NEW j \in Ids PROVE Closing(x, j)'
    <2>1. Closing(x, j) /\ Peer(x) \in Sides
      BY InvOf, SidesAre
    <2>2. None(strm[x][j].inq, j, "close") => None(strm'[x][j].inq, j, "close")
      <3>1. CASE x = w /\ j = i
        BY <1>T, <3>1, NoneTail
      <3>2. CASE ~(x = w /\ j = i)
        BY <1>0, <3>2
      <3> QED
        BY <3>1, <3>2
    <2> QED
      BY <1>0, <1>P, <2>1, <2>2, ClosingByFrame
  <1>5. ASSUME NEW x \in Sides, NEW j \in Ids PROVE Flow(x, j)'
    <2>1. Flow(x, j) /\ Peer(x) \in Sides
      BY InvOf, SidesAre
    <2>2. /\ Keeps(eng[x].blocked, eng'[x].blocked, j) /\ Keeps(out[Peer(x)], out'[Peer(x)], j)
          /\ Keeps(wire[Peer(x)], wire'[Peer(x)], j) /\ Keeps(ctrl[Peer(x)], ctrl'[Peer(x)], j)
      BY <1>0, KeepsSame
    <2>3. CASE ~(x = w /\ j = i)
      <3>1. Keeps(strm[x][j].inq, strm'[x][j].inq, j) /\ Taken(x, j)' = Taken(x, j)
        BY <1>0, <1>P, <2>3, KeepsSame
      <3> QED
        BY <1>0, <1>P, <1>C, <2>1, <2>2, <3>1, FlowByFrame
    <2>4. CASE x = w /\ j = i
      <3>1. Run(strm'[w][i].inq, i, u, Taken(w, i)', a)
        <4>1. CASE f.t \in {"data", "close"}
          BY <1>N, <1>T, <4>1
        <4>2. CASE f.t = "abort"
          <5>1. ~Carries(f, i) /\ p.got \in Int
            BY <1>T, <4>2 DEF Carries
          <5>2. Run(Tail(strm[w][i].inq), i, u, p.got, a)
            BY <1>T, <1>U, <1>R, <1>S, <5>1, RunTailOther
          <5>3. Taken(w, i)' = p.got
            BY <1>D, <1>T, <4>2 DEF Taken
          <5> QED
            BY <1>T, <5>2, <5>3
        <4> QED
          BY <1>D, <4>1, <4>2
      <3>2. Carried(w, i)' => OnTheWay(w, i, a)'
        BY <1>0, <1>C, <1>P, <1>R, <2>1, <2>2, <2>4, OnTheWayByFrame
      <3> QED
        BY <1>U, <2>4, <3>1, <3>2 DEF Flow
    <2> QED
      BY <2>3, <2>4
  <1>6. ASSUME NEW j \in Ids, pump'["A"][j].task # "none" PROVE Passed(j)'
    BY <1>6, <1>P, <1>G, SidesAre, InvOf
  <1> QED
    BY <1>1, <1>2, <1>3, <1>4, <1>5, <1>6 DEF StreamInv

-----------------------------------------------------------------------------
(* Steps of the engines and the writers. *)

\* Nothing is between two numbers if the queue is empty.
LEMMA RunEmptyIs ==
    ASSUME NEW i, NEW u, NEW lo \in Int, NEW hi \in Int, Run(<<>>, i, u, lo, hi)
    PROVE  hi = lo
  BY DEF Run

\* Numbers only go up along a queue.
LEMMA RunUp ==
    ASSUME NEW q, NEW i, NEW u, NEW lo \in Int, NEW hi \in Int, Run(q, i, u, lo, hi)
    PROVE  lo <= hi
  BY DEF Run

\* Before a stream is opened on side x, the next of its frames is its one Open.
LEMMA Unopened ==
    ASSUME StreamInv, NEW x \in Sides, NEW j \in Ids, pump[x][j].task = "none", Carried(x, j),
           eng[x].blocked = <<>>, wire[Peer(x)] # <<>>, Carries(Head(wire[Peer(x)]), j)
    PROVE  /\ x = "A" /\ Head(wire["I"]).t = "open"
           /\ pump["I"][j].task \notin {"none", "start"}
           /\ None(Tail(wire["I"]), j, "open")
           /\ eng["I"].up => None(ctrl["I"], j, "open") /\ None(out["I"], j, "open")
           /\ \E c \in Int :
                /\ Run(Tail(wire["I"]), j, Units["I"][j], 0, c)
                /\ Alive("I", j) => c <= Queued("I", j)
                /\ Leaving("I", j, c)
  <1> DEFINE y == Peer(x)
             u == Units[y][j]
             f == Head(wire[y])
  <1>0. Typed /\ y \in Sides /\ u \in Nat /\ Sane(x, j) /\ Sane(y, j) /\ wire[y] \in Seq(Frames)
    BY InvOf, SidesAre, UnitsAre DEF Typed
  <1>N. Taken(x, j) \in Int /\ Queued(y, j) \in Int
    BY <1>0, NumbersAre
  <1>1. PICK a \in Int : Run(strm[x][j].inq, j, u, Taken(x, j), a) /\ OnTheWay(x, j, a)
    BY InvOf DEF Flow
  <1>2. a = Taken(x, j)
    BY <1>0, <1>1, <1>N, RunEmptyIs DEF Sane
  <1>3. PICK b \in Int, c \in Int :
          /\ Run(eng[x].blocked, j, u, a, b) /\ Run(wire[y], j, u, b, c)
          /\ Alive(y, j) => c <= Queued(y, j)
          /\ Leaving(y, j, c)
    BY <1>1 DEF OnTheWay
  <1>4. b = a
    BY <1>3, RunEmptyIs
  <1>5. Pos(f, u) = a + 1 /\ Run(Tail(wire[y]), j, u, a + 1, c)
    BY <1>0, <1>3, <1>4, RunTail
  <1>6. x = "A"
    <2> SUFFICES ASSUME x = "I" PROVE FALSE
      BY SidesAre
    <2>1. y = "A" /\ a = 0
      BY <1>0, <1>2, SidesAre DEF Taken, Sane
    <2>2. pump["A"][j].task = "none"
      BY InvOf, SidesAre DEF Passed
    <2>3. Alive(y, j) /\ Queued(y, j) = 0
      BY <1>0, <2>1, <2>2 DEF Alive, Queued, Sane
    <2>4. c <= 0
      BY <1>3, <2>3
    <2>5. 1 <= c
      BY <1>5, <2>1, RunUp
    <2> QED
      BY <2>4, <2>5
  <1>7. y = "I" /\ a = -1
    BY <1>2, <1>6, SidesAre DEF Taken
  <1>8. Run(Tail(wire["I"]), j, u, 0, c) /\ Pos(f, u) = 0
    BY <1>5, <1>7
  <1>9. f.t = "open"
    <2>1. f \in Frames
      BY <1>0, TailAt
    <2> QED
      BY <1>0, <1>8, <2>1 DEF Pos, Frames
  <1>10. Tail(wire["I"]) \in Seq(Frames) /\ 0 <= c /\ None(Tail(wire["I"]), j, "open")
    <2>1. wire["I"] \in Seq(Frames) /\ wire["I"] # <<>>
      BY <1>0, <1>7
    <2>2. Tail(wire["I"]) \in Seq(Frames)
      BY <2>1, TailAt
    <2>3. 0 <= c
      BY <1>8, RunUp
    <2>4. u \in Nat
      BY <1>0
    <2> HIDE DEF u, y, f
    <2>5. None(Tail(wire["I"]), j, "open")
      <3>1. 0 \in Int /\ 0 >= 0 /\ Run(Tail(wire["I"]), j, u, 0, c)
        BY <1>8
      <3> QED
        BY <2>2, <2>4, <3>1, RunNoOpen
    <2> QED
      BY <2>2, <2>3, <2>5
  <1>11. pump["I"][j].task \notin {"none", "start"}
    <2> SUFFICES ASSUME pump["I"][j].task \in {"none", "start"} PROVE FALSE
      OBVIOUS
    <2>1. Alive(y, j) /\ Queued(y, j) = -1
      BY <1>7 DEF Alive, Queued
    <2> QED
      BY <1>3, <1>10, <2>1
  <1>12. eng["I"].up => None(ctrl["I"], j, "open") /\ None(out["I"], j, "open")
    <2> SUFFICES ASSUME eng["I"].up PROVE None(ctrl["I"], j, "open") /\ None(out["I"], j, "open")
      OBVIOUS
    <2>1. PICK d \in Int, s \in Int : Run(ctrl["I"], j, u, c, d) /\ Run(out["I"], j, u, d, s)
      BY <1>3, <1>7 DEF Leaving
    <2>2. 0 <= d
      BY <1>10, <2>1, RunUp
    <2>3. ctrl["I"] \in Seq(Frames) /\ out["I"] \in Seq(Frames)
      BY <1>0, SidesAre DEF Typed
    <2> QED
      BY <1>0, <1>10, <2>1, <2>2, <2>3, RunNoOpen
  <1> QED
    BY <1>3, <1>6, <1>7, <1>8, <1>9, <1>10, <1>11, <1>12

\* A stream that was removed has no entry and an empty queue.
LEMMA ClosedIs ==
    ASSUME NEW s \in StreamRecords
    PROVE  Closed(s) \in StreamRecords /\ ~Closed(s).entry /\ Closed(s).inq = <<>>
  <1>0. <<>> \in Seq(Messages)
    OBVIOUS
  <1> HIDE DEF Messages
  <1>1. Closed(s).inq = <<>> /\ ~Closed(s).entry
    BY DEF Closed, StreamRecords
  <1>2. Closed(s) \in [entry : BOOLEAN, credited : BOOLEAN, closed : BOOLEAN, credit : Int, inq : {<<>>}]
    <2>1. s \in [entry : BOOLEAN, credited : BOOLEAN, closed : BOOLEAN, credit : Int, inq : Seq(Messages)]
      BY DEF StreamRecords
    <2>2. 0 \in Int /\ <<>> \in {<<>>}
      OBVIOUS
    <2> QED
      BY <2>1, <2>2, Zenon DEF Closed
  <1> QED
    BY <1>0, <1>1, <1>2 DEF StreamRecords

\* What an engine's end leaves.
LEMMA EndDoes ==
    ASSUME Typed, NEW x \in Sides, NEW bad \in BOOLEAN, End(x, bad)
    PROVE  /\ eng' \in [Sides -> EngineRecords] /\ ~eng'[x].up /\ eng'[x].blocked = <<>>
           /\ \A z \in Sides : z # x => eng'[z] = eng[z] /\ strm'[z] = strm[z] /\ pump'[z] = pump[z]
                                        /\ ctrl'[z] = ctrl[z]
           /\ strm' \in [Sides -> [Ids -> StreamRecords]]
           /\ pump' \in [Sides -> [Ids -> PumpRecords]]
           /\ ctrl' \in [Sides -> Seq(Frames)] /\ ctrl'[x] = <<>>
           /\ \A j \in Ids :
                /\ ~strm'[x][j].entry /\ strm'[x][j].inq = <<>>
                /\ pump'[x][j].task = (IF pump[x][j].task = "none" THEN "none" ELSE "gone")
                /\ pump'[x][j].up = pump[x][j].up /\ pump'[x][j].down = pump[x][j].down
                /\ pump'[x][j].sent = pump[x][j].sent /\ pump'[x][j].got = pump[x][j].got
                /\ pump'[x][j].held = pump[x][j].held /\ (pump'[x][j].fin <=> pump[x][j].fin)
  <1> DEFINE S == [i \in Ids |-> Closed(strm[x][i])]
             P == [i \in Ids |-> [pump[x][i] EXCEPT !.task = IF @ = "none" THEN "none" ELSE "gone"]]
             e == [eng[x] EXCEPT !.up = FALSE, !.bad = bad, !.blocked = <<>>]
  <1>0. <<>> \in Seq(Messages) /\ <<>> \in Seq(Frames)
    OBVIOUS
  <1>1. eng[x] \in EngineRecords /\ eng' = [eng EXCEPT ![x] = e]
    BY DEF Typed, End
  <1>2. e \in EngineRecords /\ ~e.up /\ e.blocked = <<>>
    BY <1>0, <1>1 DEF EngineRecords
  <1> HIDE DEF e
  <1>3. /\ eng' \in [Sides -> EngineRecords] /\ eng'[x] = e
        /\ \A z \in Sides : z # x => eng'[z] = eng[z]
    BY <1>1, <1>2 DEF Typed
  <1>4. ASSUME NEW j \in Ids
        PROVE  /\ S[j] \in StreamRecords /\ ~S[j].entry /\ S[j].inq = <<>>
               /\ P[j] \in PumpRecords
               /\ P[j].task = (IF pump[x][j].task = "none" THEN "none" ELSE "gone")
               /\ P[j].up = pump[x][j].up /\ P[j].down = pump[x][j].down
               /\ P[j].sent = pump[x][j].sent /\ P[j].got = pump[x][j].got
               /\ P[j].held = pump[x][j].held /\ (P[j].fin <=> pump[x][j].fin)
    <2>1. strm[x][j] \in StreamRecords /\ pump[x][j] \in PumpRecords
      BY DEF Typed
    <2>2. S[j] = Closed(strm[x][j])
      OBVIOUS
    <2>5. S[j] \in StreamRecords /\ ~S[j].entry /\ S[j].inq = <<>>
      BY <2>1, <2>2, ClosedIs
    <2>3. P[j] \in PumpRecords /\ P[j].task = (IF pump[x][j].task = "none" THEN "none" ELSE "gone")
      BY <2>1 DEF PumpRecords, Tasks
    <2>4. /\ P[j].up = pump[x][j].up /\ P[j].down = pump[x][j].down
          /\ P[j].sent = pump[x][j].sent /\ P[j].got = pump[x][j].got
          /\ P[j].held = pump[x][j].held /\ (P[j].fin <=> pump[x][j].fin)
      BY <2>1 DEF PumpRecords
    <2> QED
      BY <2>3, <2>4, <2>5
  <1>5. S \in [Ids -> StreamRecords] /\ P \in [Ids -> PumpRecords]
    BY <1>4
  <1>6. strm' = [strm EXCEPT ![x] = S] /\ pump' = [pump EXCEPT ![x] = P] /\ ctrl' = [ctrl EXCEPT ![x] = <<>>]
    BY DEF End
  <1> HIDE DEF S, P
  <1>7. /\ strm' \in [Sides -> [Ids -> StreamRecords]] /\ strm'[x] = S
        /\ pump' \in [Sides -> [Ids -> PumpRecords]] /\ pump'[x] = P
        /\ ctrl' \in [Sides -> Seq(Frames)] /\ ctrl'[x] = <<>>
        /\ \A z \in Sides : z # x => strm'[z] = strm[z] /\ pump'[z] = pump[z] /\ ctrl'[z] = ctrl[z]
    BY <1>0, <1>5, <1>6 DEF Typed
  <1> QED
    BY <1>2, <1>3, <1>4, <1>7

\* The frame that was read is gone from the wire, or none was.
Consumes(x) ==
    \/ wire' = wire
    \/ wire[Peer(x)] # <<>> /\ wire' = [wire EXCEPT ![Peer(x)] = Tail(@)]

\* An engine takes at most the head off its wire.
LEMMA ConsumesDoes ==
    ASSUME Typed, NEW x \in Sides, Consumes(x)
    PROVE  /\ wire' \in [Sides -> Seq(Frames)] /\ wire'[x] = wire[x]
           /\ wire'[Peer(x)] = wire[Peer(x)] \/ wire'[Peer(x)] = Tail(wire[Peer(x)])
           /\ \A j, t : None(wire[Peer(x)], j, t) => None(wire'[Peer(x)], j, t)
           /\ \A j : Keeps(wire[Peer(x)], wire'[Peer(x)], j)
                     \/ (wire[Peer(x)] # <<>> /\ Carries(Head(wire[Peer(x)]), j)
                          /\ wire'[Peer(x)] = Tail(wire[Peer(x)]))
  <1>0. Peer(x) \in Sides /\ Peer(x) # x /\ wire[Peer(x)] \in Seq(Frames)
    BY SidesAre DEF Typed
  <1>1. CASE wire' = wire
    BY <1>0, <1>1, KeepsSame DEF Typed
  <1>2. CASE wire[Peer(x)] # <<>> /\ wire' = [wire EXCEPT ![Peer(x)] = Tail(@)]
    <2>1. Tail(wire[Peer(x)]) \in Seq(Frames)
      BY <1>0, <1>2, TailAt
    <2>2. /\ wire' \in [Sides -> Seq(Frames)] /\ wire'[x] = wire[x]
          /\ wire'[Peer(x)] = Tail(wire[Peer(x)])
      BY <1>0, <1>2, <2>1 DEF Typed
    <2>3. \A j, t : None(wire[Peer(x)], j, t) => None(wire'[Peer(x)], j, t)
      BY <1>0, <1>2, <2>2, NoneTail
    <2>4. \A j : Keeps(wire[Peer(x)], wire'[Peer(x)], j) \/ Carries(Head(wire[Peer(x)]), j)
      BY <1>0, <1>2, <2>2, KeepsTail
    <2> QED
      BY <1>2, <2>2, <2>3, <2>4
  <1> QED
    BY <1>1, <1>2 DEF Consumes

\* An engine's end cuts its streams, and nothing after a cut is delivered.
LEMMA EndKeeps ==
    ASSUME StreamInv, NEW x \in Sides, NEW bad \in BOOLEAN, End(x, bad), eng[x].blocked = <<>>,
           Consumes(x), UNCHANGED <<out, env>>
    PROVE  StreamInv'
  <1> DEFINE y == Peer(x)
  <1>0. Typed /\ y \in Sides /\ y # x /\ Peer(y) = x
    BY SidesAre DEF StreamInv
  <1>U. Units' = Units
    BY <1>0, UnitsAre
  <1>E. /\ eng' \in [Sides -> EngineRecords] /\ ~eng'[x].up /\ eng'[x].blocked = <<>>
        /\ eng'[y] = eng[y] /\ strm'[y] = strm[y] /\ pump'[y] = pump[y] /\ ctrl'[y] = ctrl[y]
        /\ strm' \in [Sides -> [Ids -> StreamRecords]]
        /\ pump' \in [Sides -> [Ids -> PumpRecords]]
        /\ ctrl' \in [Sides -> Seq(Frames)] /\ ctrl'[x] = <<>>
    BY <1>0, EndDoes
  <1>X. \A j \in Ids :
          /\ ~strm'[x][j].entry /\ strm'[x][j].inq = <<>>
          /\ pump'[x][j].task = (IF pump[x][j].task = "none" THEN "none" ELSE "gone")
          /\ pump'[x][j].up = pump[x][j].up /\ pump'[x][j].down = pump[x][j].down
          /\ pump'[x][j].sent = pump[x][j].sent /\ pump'[x][j].got = pump[x][j].got
          /\ pump'[x][j].held = pump[x][j].held /\ (pump'[x][j].fin <=> pump[x][j].fin)
    BY <1>0, EndDoes
  <1>W. /\ wire' \in [Sides -> Seq(Frames)] /\ wire'[x] = wire[x]
        /\ \A j, t : None(wire[y], j, t) => None(wire'[y], j, t)
    BY <1>0, ConsumesDoes
  <1>Z. \A z \in Sides : z = x \/ z = y
    BY <1>0, SidesAre
  <1>1. Typed'
    BY <1>0, <1>E, <1>W DEF Typed
  <1>P. \A z \in Sides, j \in Ids :
          /\ pump'[z][j].task = "none" <=> pump[z][j].task = "none"
          /\ pump'[z][j].task = "start" => pump[z][j].task = "start"
          /\ pump'[z][j].up = pump[z][j].up
          /\ Taken(z, j)' = Taken(z, j)
          /\ Alive(z, j)' => Alive(z, j) /\ Queued(z, j)' = Queued(z, j)
    <2> SUFFICES ASSUME NEW z \in Sides, NEW j \in Ids
                 PROVE  /\ pump'[z][j].task = "none" <=> pump[z][j].task = "none"
                        /\ pump'[z][j].task = "start" => pump[z][j].task = "start"
                        /\ pump'[z][j].up = pump[z][j].up
                        /\ Taken(z, j)' = Taken(z, j)
                        /\ Alive(z, j)' => Alive(z, j) /\ Queued(z, j)' = Queued(z, j)
      OBVIOUS
    <2>1. CASE z = x
      BY <1>U, <1>X, <2>1 DEF Taken, Alive, Queued
    <2>2. CASE z = y
      BY <1>U, <1>E, <2>2 DEF Taken, Alive, Queued
    <2> QED
      BY <1>Z, <2>1, <2>2
  <1>G. ASSUME NEW j \in Ids, Passed(j) PROVE Passed(j)'
    <2>1. pump'["I"][j].task \notin {"none", "start"}
      BY <1>G, <1>P, SidesAre DEF Passed
    <2>2. None(wire'["I"], j, "open")
      BY <1>G, <1>W, <1>Z, SidesAre DEF Passed
    <2>3. eng'["I"].up => eng' ["I"] = eng["I"] /\ ctrl'["I"] = ctrl["I"]
      BY <1>E, <1>Z, SidesAre
    <2> QED
      BY <1>G, <2>1, <2>2, <2>3 DEF Passed
  <1>2. ASSUME NEW z \in Sides PROVE Waits(z)'
    <2>1. CASE z = x
      BY <1>E, <2>1 DEF Waits
    <2>2. CASE z = y
      BY <1>E, <2>2, InvOf DEF Waits, StreamInv
    <2> QED
      BY <1>Z, <2>1, <2>2
  <1>3. ASSUME NEW z \in Sides, NEW j \in Ids PROVE Sane(z, j)'
    <2>0. Sane(z, j) /\ Peer(z) \in Sides /\ pump'[Peer(z)][j].up = pump[Peer(z)][j].up
      BY <1>P, InvOf, SidesAre
    <2>1. CASE z = x
      BY <1>U, <1>X, <2>0, <2>1 DEF Sane
    <2>2. CASE z = y
      BY <1>U, <1>E, <2>0, <2>2 DEF Sane
    <2> QED
      BY <1>Z, <2>1, <2>2
  <1>4. ASSUME NEW z \in Sides, NEW j \in Ids PROVE Closing(z, j)'
    <2>0. Closing(z, j) /\ Peer(z) \in Sides /\ pump'[Peer(z)][j].up = pump[Peer(z)][j].up
      BY <1>P, InvOf, SidesAre
    <2>1. CASE z = x
      BY <1>E, <1>W, <1>X, <2>0, <2>1, NoneEmpty, ClosingByFrame
    <2>2. CASE z = y
      BY <1>0, <1>E, <1>W, <2>0, <2>2, NoneEmpty, ClosingByFrame
    <2> QED
      BY <1>Z, <2>1, <2>2
  <1>5. ASSUME NEW z \in Sides, NEW j \in Ids PROVE Flow(z, j)'
    <2>0. Flow(z, j) /\ Taken(z, j) \in Int
      BY <1>0, InvOf, NumbersAre
    <2>1. CASE z = y
      <3>1. Carried(z, j)' => Carried(z, j)
        BY <1>E, <1>G, <1>P, <2>1 DEF Carried, Receiving
      <3>2. /\ Keeps(strm[z][j].inq, strm'[z][j].inq, j) /\ Keeps(eng[z].blocked, eng'[z].blocked, j)
            /\ Keeps(wire[x], wire'[x], j)
        BY <1>E, <1>W, <2>1, KeepsSame
      <3> QED
        BY <1>0, <1>E, <1>P, <2>0, <2>1, <3>1, <3>2, FlowByFrame
    <2>2. CASE z = x
      <3>0. PICK b \in Int : b = Taken(x, j)
        BY <2>0, <2>2
      <3>1. Run(strm'[x][j].inq, j, Units[y][j], Taken(x, j)', b)
        BY <1>P, <1>X, <2>0, <2>2, <3>0, RunEmpty
      <3>2. ASSUME Carried(x, j)' PROVE OnTheWay(x, j, b)'
        <4>1. pump[x][j].task = "none" /\ (x = "A" => ~Passed(j)')
          BY <1>P, <1>X, <3>2 DEF Carried
        <4>2. Carried(x, j)
          BY <1>G, <4>1 DEF Carried
        <4>3. ~(wire[y] # <<>> /\ Carries(Head(wire[y]), j) /\ wire'[y] = Tail(wire[y]))
          <5> SUFFICES ASSUME wire[y] # <<>>, Carries(Head(wire[y]), j), wire'[y] = Tail(wire[y])
                       PROVE  FALSE
            OBVIOUS
          <5>1. /\ x = "A" /\ pump["I"][j].task \notin {"none", "start"}
                /\ None(Tail(wire["I"]), j, "open")
                /\ eng["I"].up => None(ctrl["I"], j, "open") /\ None(out["I"], j, "open")
            BY <4>1, <4>2, Unopened
          <5>2. y = "I"
            BY <5>1, SidesAre
          <5>3. Passed(j)'
            BY <1>E, <5>1, <5>2 DEF Passed
          <5> QED
            BY <4>1, <5>1, <5>3
        <4>4. Keeps(wire[y], wire'[y], j)
          BY <1>0, <4>3, ConsumesDoes
        <4>5. PICK a \in Int : Run(strm[x][j].inq, j, Units[y][j], Taken(x, j), a) /\ OnTheWay(x, j, a)
          BY <2>0, <2>2, <4>2 DEF Flow
        <4>6. strm[x][j].inq = <<>>
          BY <4>1, InvOf DEF Sane
        <4>7. a = b
          BY <2>0, <3>0, <2>2, <4>5, <4>6, RunEmptyIs
        <4>8. /\ Keeps(eng[x].blocked, eng'[x].blocked, j) /\ Keeps(ctrl[y], ctrl'[y], j)
              /\ Keeps(out[y], out'[y], j)
          BY <1>E, KeepsSame
        <4> QED
          BY <1>0, <1>E, <1>P, <2>0, <2>2, <4>4, <4>5, <4>7, <4>8, OnTheWayByFrame
      <3>3. Run(strm'[x][j].inq, j, Units'[y][j], Taken(x, j)', b)
        BY <1>U, <3>1
      <3> QED
        BY <2>0, <2>2, <3>2, <3>3 DEF Flow
    <2> QED
      BY <1>Z, <2>1, <2>2
  <1>6. ASSUME NEW j \in Ids, pump'["A"][j].task # "none" PROVE Passed(j)'
    BY <1>6, <1>P, <1>G, SidesAre, InvOf
  <1> QED
    BY <1>1, <1>2, <1>3, <1>4, <1>5, <1>6 DEF StreamInv

-----------------------------------------------------------------------------
(* Steps of one engine that start no stream and end no session. *)

\* Tasks stay as they are; a task that ended may be joined.
TasksStay ==
    /\ pump' \in [Sides -> [Ids -> PumpRecords]]
    /\ \A z \in Sides, j \in Ids :
         /\ pump'[z][j].task = pump[z][j].task
              \/ (pump[z][j].task = "ended" /\ pump'[z][j].task = "gone")
         /\ pump'[z][j].up = pump[z][j].up /\ pump'[z][j].down = pump[z][j].down
         /\ pump'[z][j].sent = pump[z][j].sent /\ pump'[z][j].got = pump[z][j].got
         /\ pump'[z][j].held = pump[z][j].held /\ (pump'[z][j].fin <=> pump[z][j].fin)

\* The engine of side x takes at most one frame from the wire and may tell the peer of a reset.
Gentle(x) ==
    /\ Consumes(x) /\ TasksStay /\ out' = out /\ env'.case = env.case
    /\ eng'[x].up <=> eng[x].up
    /\ \A z \in Sides : z # x => eng'[z] = eng[z] /\ strm'[z] = strm[z] /\ ctrl'[z] = ctrl[z]
    /\ ctrl'[x] = ctrl[x] \/ \E i \in Ids : ctrl'[x] = Append(ctrl[x], Frame("abort", i, 0))

\* An abort is a message that carries no number.
LEMMA AbortIsFrame ==
    ASSUME NEW i \in Ids
    PROVE  Frame("abort", i, 0) \in Messages /\ Frame("abort", i, 0) \in Frames
           /\ (\A j : ~Carries(Frame("abort", i, 0), j))
  BY DEF Frame, Frames, FrameTypes, Messages, Carries

\* What such a step leaves alone.
LEMMA GentleLeaves ==
    ASSUME StreamInv, NEW x \in Sides, Gentle(x)
    PROVE  /\ Typed /\ Units' = Units
           /\ Peer(x) \in Sides /\ Peer(x) # x /\ Peer(Peer(x)) = x
           /\ wire' \in [Sides -> Seq(Frames)] /\ wire'[x] = wire[x]
           /\ \A j \in Ids : Keeps(ctrl[x], ctrl'[x], j) /\ (Passed(j) => Passed(j)')
           /\ \A z \in Sides, j \in Ids :
                /\ pump'[z][j].task = "none" <=> pump[z][j].task = "none"
                /\ pump'[z][j].task = "start" <=> pump[z][j].task = "start"
                /\ pump'[z][j].up = pump[z][j].up
                /\ Receiving(z, j)' <=> Receiving(z, j)
                /\ Taken(z, j)' = Taken(z, j)
                /\ Alive(z, j)' => Alive(z, j) /\ Queued(z, j)' = Queued(z, j)
  <1>0. Typed /\ Peer(x) \in Sides /\ Peer(x) # x /\ Peer(Peer(x)) = x /\ Consumes(x)
    BY SidesAre DEF StreamInv, Gentle
  <1>U. Units' = Units
    BY <1>0, UnitsAre DEF Gentle
  <1>W. /\ wire' \in [Sides -> Seq(Frames)] /\ wire'[x] = wire[x]
        /\ \A j, t : None(wire[Peer(x)], j, t) => None(wire'[Peer(x)], j, t)
    BY <1>0, ConsumesDoes
  <1>C. ASSUME NEW j \in Ids PROVE Keeps(ctrl[x], ctrl'[x], j)
    <2>1. CASE ctrl'[x] = ctrl[x]
      BY <2>1, KeepsSame
    <2>2. ASSUME NEW i \in Ids, ctrl'[x] = Append(ctrl[x], Frame("abort", i, 0))
          PROVE  Keeps(ctrl[x], ctrl'[x], j)
      <3>1. ctrl[x] \in Seq(Frames)
        BY <1>0 DEF Typed
      <3> QED
        BY <2>2, <3>1, AbortIsFrame, KeepsAppend
    <2> QED
      BY <2>1, <2>2 DEF Gentle
  <1>P. ASSUME NEW z \in Sides, NEW j \in Ids
        PROVE  /\ pump'[z][j].task = "none" <=> pump[z][j].task = "none"
               /\ pump'[z][j].task = "start" <=> pump[z][j].task = "start"
               /\ pump'[z][j].up = pump[z][j].up
               /\ Receiving(z, j)' <=> Receiving(z, j)
               /\ Taken(z, j)' = Taken(z, j)
               /\ Alive(z, j)' => Alive(z, j) /\ Queued(z, j)' = Queued(z, j)
    <2>1. /\ pump'[z][j].task = pump[z][j].task
              \/ (pump[z][j].task = "ended" /\ pump'[z][j].task = "gone")
          /\ pump'[z][j].up = pump[z][j].up /\ pump'[z][j].down = pump[z][j].down
          /\ pump'[z][j].sent = pump[z][j].sent /\ pump'[z][j].got = pump[z][j].got
          /\ (pump'[z][j].fin <=> pump[z][j].fin)
      BY DEF Gentle, TasksStay
    <2>2. /\ pump'[z][j].task = "none" <=> pump[z][j].task = "none"
          /\ pump'[z][j].task = "start" <=> pump[z][j].task = "start"
          /\ Receiving(z, j)' <=> Receiving(z, j)
          /\ Alive(z, j)' => Alive(z, j)
      BY <2>1 DEF Receiving, Alive
    <2> QED
      BY <1>U, <2>1, <2>2 DEF Taken, Queued
  <1>G. ASSUME NEW j \in Ids, Passed(j) PROVE Passed(j)'
    <2>1. pump'["I"][j].task \notin {"none", "start"}
      BY <1>G, <1>P, SidesAre DEF Passed
    <2>2. None(wire'["I"], j, "open")
      BY <1>G, <1>W, SidesAre DEF Passed
    <2>3. Keeps(ctrl["I"], ctrl'["I"], j) /\ (eng'["I"].up <=> eng["I"].up) /\ out' = out
      BY <1>0, <1>C, SidesAre, KeepsSame DEF Gentle
    <2> QED
      BY <1>G, <2>1, <2>2, <2>3 DEF Passed, Keeps
  <1> QED
    BY <1>0, <1>U, <1>W, <1>C, <1>P, <1>G

\* It is enough to look at the side that took the step.
LEMMA GentleKeeps ==
    ASSUME StreamInv, NEW x \in Sides, Gentle(x), Typed', Waits(x)',
           \A j \in Ids :
             /\ pump[x][j].task = "none" => ~strm'[x][j].entry /\ strm'[x][j].inq = <<>>
             /\ \A k \in 1..Len(strm'[x][j].inq) : strm'[x][j].inq[k].id = j
             /\ Closing(x, j)' /\ Flow(x, j)'
    PROVE  StreamInv'
  <1> DEFINE y == Peer(x)
  <1>0. /\ Typed /\ Units' = Units /\ y \in Sides /\ y # x /\ Peer(y) = x /\ wire'[x] = wire[x]
        /\ \A j \in Ids : Keeps(ctrl[x], ctrl'[x], j) /\ (Passed(j) => Passed(j)')
    BY GentleLeaves
  <1>P. \A z \in Sides, j \in Ids :
          /\ pump'[z][j].task = "none" <=> pump[z][j].task = "none"
          /\ pump'[z][j].task = "start" <=> pump[z][j].task = "start"
          /\ pump'[z][j].up = pump[z][j].up
          /\ Receiving(z, j)' <=> Receiving(z, j)
          /\ Taken(z, j)' = Taken(z, j)
          /\ Alive(z, j)' => Alive(z, j) /\ Queued(z, j)' = Queued(z, j)
    BY GentleLeaves
  <1>Z. \A z \in Sides : z = x \/ z = y
    BY <1>0, SidesAre
  <1>Y. /\ eng'[y] = eng[y] /\ strm'[y] = strm[y] /\ ctrl'[y] = ctrl[y] /\ out' = out
        /\ (eng'[x].up <=> eng[x].up) /\ env'.case = env.case
    BY <1>0 DEF Gentle
  <1>2. ASSUME NEW z \in Sides PROVE Waits(z)'
    <2>1. CASE z = y
      <3>1. Waits(y) /\ eng[y] \in EngineRecords
        BY <1>0 DEF StreamInv, Typed
      <3> QED
        BY <1>Y, <1>P, <2>1, <3>1 DEF Waits
    <2> QED
      BY <1>Z, <2>1
  <1>3. ASSUME NEW z \in Sides, NEW j \in Ids PROVE Sane(z, j)'
    <2>0. Sane(z, j) /\ Peer(z) \in Sides /\ pump'[Peer(z)][j].up = pump[Peer(z)][j].up
      BY <1>P, InvOf, SidesAre
    <2>1. /\ pump'[z][j].task = "none" => ~strm'[z][j].entry /\ strm'[z][j].inq = <<>>
          /\ \A k \in 1..Len(strm'[z][j].inq) : strm'[z][j].inq[k].id = j
      <3>1. CASE z = x
        BY <1>P, <3>1
      <3>2. CASE z = y
        BY <1>P, <1>Y, <2>0, <3>2 DEF Sane
      <3> QED
        BY <1>Z, <3>1, <3>2
    <2>2. /\ pump'[z][j].task = pump[z][j].task
              \/ (pump[z][j].task = "ended" /\ pump'[z][j].task = "gone")
          /\ pump'[z][j].up = pump[z][j].up /\ pump'[z][j].down = pump[z][j].down
          /\ pump'[z][j].sent = pump[z][j].sent /\ pump'[z][j].got = pump[z][j].got
          /\ pump'[z][j].held = pump[z][j].held /\ (pump'[z][j].fin <=> pump[z][j].fin)
      BY DEF Gentle, TasksStay
    <2> QED
      BY <1>0, <2>0, <2>1, <2>2 DEF Sane
  <1>4. ASSUME NEW z \in Sides, NEW j \in Ids PROVE Closing(z, j)'
    <2>1. CASE z = y
      <3>1. Closing(y, j) /\ pump'[x][j].up = pump[x][j].up
        BY <1>0, <1>P, InvOf
      <3>2. None(ctrl[x], j, "close") => None(ctrl'[x], j, "close")
        BY <1>0 DEF Keeps
      <3> QED
        BY <1>0, <1>Y, <2>1, <3>1, <3>2, ClosingByFrame
    <2> QED
      BY <1>Z, <2>1
  <1>5. ASSUME NEW z \in Sides, NEW j \in Ids PROVE Flow(z, j)'
    <2>1. CASE z = y
      <3>1. Flow(y, j) /\ (Carried(y, j)' => Carried(y, j))
        BY <1>0, <1>P, <1>Y, InvOf DEF Carried
      <3>2. /\ Keeps(strm[y][j].inq, strm'[y][j].inq, j) /\ Keeps(eng[y].blocked, eng'[y].blocked, j)
            /\ Keeps(wire[x], wire'[x], j) /\ Keeps(out[x], out'[x], j)
        BY <1>0, <1>Y, KeepsSame
      <3> QED
        BY <1>0, <1>P, <1>Y, <2>1, <3>1, <3>2, FlowByFrame
    <2> QED
      BY <1>Z, <2>1
  <1>6. ASSUME NEW j \in Ids, pump'["A"][j].task # "none" PROVE Passed(j)'
    BY <1>6, <1>0, <1>P, SidesAre, InvOf
  <1> QED
    BY <1>2, <1>3, <1>4, <1>5, <1>6 DEF StreamInv

\* A stream the step leaves alone, apart from frames that are not its own.
LEMMA AloneKeeps ==
    ASSUME StreamInv, NEW x \in Sides, Gentle(x), NEW j \in Ids,
           Keeps(strm[x][j].inq, strm'[x][j].inq, j), Keeps(eng[x].blocked, eng'[x].blocked, j),
           Keeps(wire[Peer(x)], wire'[Peer(x)], j),
           strm'[x][j].entry => strm[x][j].entry
    PROVE  Closing(x, j)' /\ Flow(x, j)'
  <1> DEFINE y == Peer(x)
  <1>0. /\ Typed /\ Units' = Units /\ y \in Sides /\ y # x /\ Peer(y) = x /\ (Passed(j) => Passed(j)')
        /\ pump'[x][j].task = "none" <=> pump[x][j].task = "none"
        /\ pump'[y][j].up = pump[y][j].up
        /\ Receiving(x, j)' <=> Receiving(x, j)
        /\ Taken(x, j)' = Taken(x, j)
        /\ Alive(y, j)' => Alive(y, j) /\ Queued(y, j)' = Queued(y, j)
    BY GentleLeaves
  <1>Y. /\ eng'[y] = eng[y] /\ ctrl'[y] = ctrl[y] /\ out' = out /\ env'.case = env.case
    BY <1>0 DEF Gentle
  <1>I. Closing(x, j) /\ Flow(x, j)
    BY InvOf
  <1>1. Closing(x, j)'
    BY <1>0, <1>Y, <1>I, ClosingByFrame DEF Keeps
  <1>2. Carried(x, j)' => Carried(x, j)
    BY <1>0 DEF Carried
  <1>3. Keeps(ctrl[y], ctrl'[y], j) /\ Keeps(out[y], out'[y], j)
    BY <1>Y, KeepsSame
  <1>4. Flow(x, j)'
    BY <1>0, <1>Y, <1>I, <1>2, <1>3, FlowByFrame
  <1> QED
    BY <1>1, <1>4

\* A step that only changes an engine's flags.
LEMMA FlagsKeep ==
    ASSUME StreamInv, Typed', UNCHANGED <<strm, pump, ctrl, out, wire>>, env'.case = env.case,
           \A x \in Sides : (eng'[x].up <=> eng[x].up) /\ eng'[x].blocked = eng[x].blocked,
           NEW w \in Sides, \A z \in Sides : z # w => eng'[z] = eng[z]
    PROVE  StreamInv'
  <1>0. Typed
    BY DEF StreamInv
  <1>1. Gentle(w)
    BY <1>0 DEF Gentle, TasksStay, Consumes, Typed
  <1>2. Waits(w)'
    BY DEF StreamInv, Waits
  <1>3. ASSUME NEW j \in Ids
        PROVE  /\ pump[w][j].task = "none" => ~strm'[w][j].entry /\ strm'[w][j].inq = <<>>
               /\ \A k \in 1..Len(strm'[w][j].inq) : strm'[w][j].inq[k].id = j
    BY InvOf DEF Sane
  <1>4. ASSUME NEW j \in Ids PROVE Closing(w, j)' /\ Flow(w, j)'
    BY <1>1, KeepsSame, AloneKeeps
  <1> QED
    BY <1>1, <1>2, <1>3, <1>4, GentleKeeps

\* Timers and failures of the surroundings touch no stream.
LEMMA SettingKeeps ==
    ASSUME StreamInv, HelloTimeout \/ StopListening \/ Break
    PROVE  StreamInv'
  <1>0. Typed /\ "I" \in Sides /\ eng["I"] \in EngineRecords
    BY SidesAre DEF StreamInv, Typed
  <1>1. CASE HelloTimeout \/ StopListening
    <2>1. PICK e \in EngineRecords : /\ eng' = [eng EXCEPT !["I"] = e]
                                     /\ (e.up <=> eng["I"].up) /\ e.blocked = eng["I"].blocked
      <3>1. CASE HelloTimeout
        <4> DEFINE e == [eng["I"] EXCEPT !.accepting = TRUE]
        <4>1. e \in EngineRecords /\ (e.up <=> eng["I"].up) /\ e.blocked = eng["I"].blocked
          BY <1>0 DEF EngineRecords
        <4>2. eng' = [eng EXCEPT !["I"] = e]
          BY <3>1 DEF HelloTimeout
        <4> QED
          BY <4>1, <4>2
      <3>2. CASE StopListening
        <4> DEFINE e == [eng["I"] EXCEPT !.stop = TRUE]
        <4>1. e \in EngineRecords /\ (e.up <=> eng["I"].up) /\ e.blocked = eng["I"].blocked
          BY <1>0 DEF EngineRecords
        <4>2. eng' = [eng EXCEPT !["I"] = e]
          BY <3>2 DEF StopListening
        <4> QED
          BY <4>1, <4>2
      <3> QED
        BY <1>1, <3>1, <3>2
    <2>2. UNCHANGED <<strm, pump, ctrl, out, wire, env>>
      BY <1>1 DEF HelloTimeout, StopListening
    <2>3. /\ eng' \in [Sides -> EngineRecords] /\ \A z \in Sides : z # "I" => eng'[z] = eng[z]
          /\ eng'["I"] = e
      BY <1>0, <2>1 DEF Typed
    <2>4. Typed'
      BY <1>0, <2>2, <2>3 DEF Typed
    <2>5. \A x \in Sides : (eng'[x].up <=> eng[x].up) /\ eng'[x].blocked = eng[x].blocked
      BY <2>1, <2>3
    <2> QED
      BY <1>0, <2>2, <2>3, <2>4, <2>5, FlagsKeep
  <1>2. CASE Break
    <2>1. /\ UNCHANGED <<eng, strm, pump, ctrl, out, wire>> /\ env'.case = env.case
          /\ env' \in [case : DOMAIN Scenarios, broken : BOOLEAN]
      BY <1>0, <1>2 DEF Break, Typed
    <2>2. Typed'
      BY <1>0, <2>1 DEF Typed
    <2> QED
      BY <1>0, <2>1, <2>2, FlagsKeep
  <1> QED
    BY <1>1, <1>2

\* The queues behind the step's own are as they were.
LEMMA OnTheWayAfter ==
    ASSUME StreamInv, NEW x \in Sides, Gentle(x), NEW j \in Ids,
           NEW a \in Int, NEW b \in Int, NEW c \in Int,
           Run(eng'[x].blocked, j, Units[Peer(x)][j], a, b),
           Run(wire'[Peer(x)], j, Units[Peer(x)][j], b, c),
           Alive(Peer(x), j) => c <= Queued(Peer(x), j),
           Leaving(Peer(x), j, c)
    PROVE  OnTheWay(x, j, a)'
  <1> DEFINE y == Peer(x)
  <1>0. /\ Units' = Units /\ y \in Sides /\ y # x
        /\ Alive(y, j)' => Alive(y, j) /\ Queued(y, j)' = Queued(y, j)
    BY GentleLeaves
  <1>1. eng'[y] = eng[y] /\ ctrl'[y] = ctrl[y] /\ out' = out
    BY <1>0 DEF Gentle
  <1>2. Leaving(y, j, c)'
    BY <1>0, <1>1 DEF Leaving
  <1> QED
    BY <1>0, <1>2 DEF OnTheWay

\* The frame the engine has in hand, from its wait or from the wire.
InHand(x, f) ==
    \/ /\ eng[x].blocked # <<>> /\ f = Head(eng[x].blocked) /\ Tail(eng[x].blocked) = <<>>
       /\ eng'[x].blocked = <<>> /\ wire' = wire
    \/ /\ eng[x].blocked = <<>> /\ wire[Peer(x)] # <<>> /\ f = Head(wire[Peer(x)])
       /\ wire'[Peer(x)] = Tail(wire[Peer(x)])

\* It is nothing to the streams it does not belong to.
LEMMA InHandOther ==
    ASSUME Typed, NEW x \in Sides, NEW f, InHand(x, f), NEW j \in Ids,
           eng[x].blocked = <<>> => eng'[x].blocked = <<>>
    PROVE  /\ ~Carries(f, j) => /\ Keeps(eng[x].blocked, eng'[x].blocked, j)
                                /\ Keeps(wire[Peer(x)], wire'[Peer(x)], j)
           /\ None(eng[x].blocked, j, "close") => None(eng'[x].blocked, j, "close")
           /\ None(wire[Peer(x)], j, "close") => None(wire'[Peer(x)], j, "close")
           /\ (f.id = j /\ f.t = "close") =>
                ~None(eng[x].blocked, j, "close") \/ ~None(wire[Peer(x)], j, "close")
  <1>0. Peer(x) \in Sides /\ wire[Peer(x)] \in Seq(Frames) /\ eng[x].blocked \in Seq(Frames)
    BY TypedParts, SidesAre
  <1>1. CASE /\ eng[x].blocked # <<>> /\ f = Head(eng[x].blocked) /\ Tail(eng[x].blocked) = <<>>
             /\ eng'[x].blocked = <<>> /\ wire' = wire
    <2>1. eng'[x].blocked = Tail(eng[x].blocked)
      BY <1>1
    <2>2. ~Carries(f, j) => Keeps(eng[x].blocked, eng'[x].blocked, j)
      BY <1>0, <1>1, <2>1, KeepsTail
    <2>3. (f.id = j /\ f.t = "close") => ~None(eng[x].blocked, j, "close")
      BY <1>0, <1>1, NoneTail
    <2> QED
      BY <1>1, <2>2, <2>3, KeepsSame, NoneEmpty
  <1>2. CASE /\ eng[x].blocked = <<>> /\ wire[Peer(x)] # <<>> /\ f = Head(wire[Peer(x)])
             /\ wire'[Peer(x)] = Tail(wire[Peer(x)])
    <2>1. ~Carries(f, j) => Keeps(wire[Peer(x)], wire'[Peer(x)], j)
      BY <1>0, <1>2, KeepsTail
    <2>2. /\ (f.id = j /\ f.t = "close") => ~None(wire[Peer(x)], j, "close")
          /\ None(wire[Peer(x)], j, "close") => None(wire'[Peer(x)], j, "close")
      BY <1>0, <1>2, NoneTail
    <2> QED
      BY <1>2, <2>1, <2>2, KeepsSame
  <1> QED
    BY <1>1, <1>2 DEF InHand

\* A numbered frame in hand is the next one of its stream.
LEMMA InHandNext ==
    ASSUME StreamInv, NEW x \in Sides, NEW f, InHand(x, f), NEW i \in Ids, Carries(f, i), Carried(x, i)
    PROVE  \E a \in Int, c \in Int :
             /\ Run(strm[x][i].inq, i, Units[Peer(x)][i], Taken(x, i), a)
             /\ Pos(f, Units[Peer(x)][i]) = a + 1 /\ f \in Frames
             /\ Run(wire'[Peer(x)], i, Units[Peer(x)][i], a + 1, c)
             /\ Alive(Peer(x), i) => c <= Queued(Peer(x), i)
             /\ Leaving(Peer(x), i, c)
  <1> DEFINE y == Peer(x)
             u == Units[y][i]
  <1>0. /\ Typed /\ y \in Sides /\ u \in Nat /\ wire[y] \in Seq(Frames) /\ eng[x].blocked \in Seq(Frames)
    BY SidesAre, TypedParts DEF StreamInv
  <1>1. PICK a \in Int : Run(strm[x][i].inq, i, u, Taken(x, i), a) /\ OnTheWay(x, i, a)
    BY InvOf DEF Flow
  <1>2. PICK b \in Int, c \in Int :
          /\ Run(eng[x].blocked, i, u, a, b) /\ Run(wire[y], i, u, b, c)
          /\ Alive(y, i) => c <= Queued(y, i)
          /\ Leaving(y, i, c)
    BY <1>1 DEF OnTheWay
  <1>3. CASE /\ eng[x].blocked # <<>> /\ f = Head(eng[x].blocked) /\ Tail(eng[x].blocked) = <<>>
             /\ eng'[x].blocked = <<>> /\ wire' = wire
    <2>1. Pos(f, u) = a + 1 /\ Run(<<>>, i, u, a + 1, b) /\ f \in Frames
      <3>1. Pos(Head(eng[x].blocked), u) = a + 1 /\ Run(Tail(eng[x].blocked), i, u, a + 1, b)
        BY <1>0, <1>2, <1>3, RunTail
      <3>2. Head(eng[x].blocked) \in Frames
        BY <1>0, <1>3, TailAt
      <3> QED
        BY <1>3, <3>1, <3>2
    <2>2. b = a + 1
      BY <2>1, RunEmptyIs
    <2> QED
      BY <1>1, <1>2, <1>3, <2>1, <2>2
  <1>4. CASE /\ eng[x].blocked = <<>> /\ wire[y] # <<>> /\ f = Head(wire[y])
             /\ wire'[y] = Tail(wire[y])
    <2>1. b = a
      BY <1>2, <1>4, RunEmptyIs
    <2>2. Pos(f, u) = a + 1 /\ Run(wire'[y], i, u, a + 1, c) /\ f \in Frames
      BY <1>0, <1>2, <1>4, <2>1, RunTail, TailAt
    <2> QED
      BY <1>1, <1>2, <2>2
  <1> QED
    BY <1>3, <1>4 DEF InHand

\* The frame in hand is handed to its stream's task.
LEMMA HandedOver ==
    ASSUME StreamInv, NEW x \in Sides, Gentle(x), NEW f, InHand(x, f), f \in Messages, eng'[x].blocked = <<>>,
           NEW i \in Ids, f.id = i, strm'[x][i].inq = Append(strm[x][i].inq, f),
           strm'[x][i].entry => strm[x][i].entry,
           f.t # "abort" => Carried(x, i)
    PROVE  Closing(x, i)' /\ Flow(x, i)'
  <1> DEFINE y == Peer(x)
             u == Units[y][i]
  <1>0. /\ Typed /\ Units' = Units /\ y \in Sides /\ y # x /\ u \in Nat
        /\ pump'[y][i].up = pump[y][i].up /\ Taken(x, i)' = Taken(x, i)
    BY GentleLeaves, UnitsAre
  <1>T. strm[x][i].inq \in Seq(Frames) /\ f \in Frames
    BY <1>0, TypedParts DEF Messages
  <1>1. CASE f.t = "abort"
    <2>1. ~Carries(f, i)
      BY <1>1 DEF Carries
    <2>2. Keeps(eng[x].blocked, eng'[x].blocked, i) /\ Keeps(wire[y], wire'[y], i)
      BY <1>0, <2>1, InHandOther
    <2>3. Keeps(strm[x][i].inq, strm'[x][i].inq, i)
      BY <1>T, <2>1, KeepsAppend
    <2> QED
      BY <2>2, <2>3, AloneKeeps
  <1>2. CASE f.t # "abort"
    <2>1. Carries(f, i) /\ Carried(x, i)
      BY <1>2 DEF Carries, Messages
    <2>2. PICK a \in Int, c \in Int :
            /\ Run(strm[x][i].inq, i, u, Taken(x, i), a)
            /\ Pos(f, u) = a + 1
            /\ Run(wire'[y], i, u, a + 1, c)
            /\ Alive(y, i) => c <= Queued(y, i)
            /\ Leaving(y, i, c)
      BY <2>1, InHandNext
    <2>3. Taken(x, i) \in Int /\ a + 1 \in Int
      BY <1>0, NumbersAre
    <2>4. Run(Append(strm[x][i].inq, f), i, u, Taken(x, i), a + 1)
      BY <1>0, <1>T, <2>1, <2>2, <2>3, RunAppend
    <2>5. Run(eng'[x].blocked, i, u, a + 1, a + 1)
      BY <2>3, RunEmpty
    <2>6. PICK b \in Int : b = a + 1
      BY <2>3
    <2>7. OnTheWay(x, i, b)'
      BY <2>2, <2>3, <2>5, <2>6, OnTheWayAfter
    <2>8. Flow(x, i)'
      BY <1>0, <2>4, <2>6, <2>7 DEF Flow
    <2>9. Closing(x, i)'
      <3>1. Closing(x, i)
        BY InvOf
      <3>2. /\ None(eng[x].blocked, i, "close") => None(eng'[x].blocked, i, "close")
            /\ None(wire[y], i, "close") => None(wire'[y], i, "close")
            /\ f.t = "close" => ~None(eng[x].blocked, i, "close") \/ ~None(wire[y], i, "close")
        BY <1>0, InHandOther
      <3>3. f.t # "close" /\ None(strm[x][i].inq, i, "close") => None(strm'[x][i].inq, i, "close")
        BY <1>T, NoneAppend
      <3>4. ctrl'[y] = ctrl[y] /\ out' = out
        BY <1>0 DEF Gentle
      <3> QED
        BY <1>0, <3>1, <3>2, <3>3, <3>4 DEF Closing
    <2> QED
      BY <2>8, <2>9
  <1> QED
    BY <1>1, <1>2

\* The frame in hand is lost: nothing more of its stream is delivered here.
LEMMA LostKeeps ==
    ASSUME StreamInv, NEW x \in Sides, Gentle(x), NEW f, InHand(x, f), eng'[x].blocked = <<>>,
           NEW i \in Ids, Keeps(strm[x][i].inq, strm'[x][i].inq, i), ~Carried(x, i)'
    PROVE  Closing(x, i)' /\ Flow(x, i)'
  <1> DEFINE y == Peer(x)
  <1>0. /\ Typed /\ Units' = Units /\ y \in Sides /\ y # x
        /\ pump'[y][i].up = pump[y][i].up /\ Taken(x, i)' = Taken(x, i)
        /\ ctrl'[y] = ctrl[y] /\ out' = out /\ env'.case = env.case
    BY GentleLeaves DEF Gentle
  <1>1. Closing(x, i) /\ Flow(x, i)
    BY InvOf
  <1>2. /\ None(eng[x].blocked, i, "close") => None(eng'[x].blocked, i, "close")
        /\ None(wire[y], i, "close") => None(wire'[y], i, "close")
    BY <1>0, InHandOther
  <1>3. Closing(x, i)'
    BY <1>0, <1>1, <1>2, ClosingByFrame DEF Keeps
  <1>4. Flow(x, i)'
    BY <1>0, <1>1, FlowByFrame
  <1> QED
    BY <1>3, <1>4

\* The frame in hand has to wait for room in its stream's queue.
LEMMA HeldBack ==
    ASSUME StreamInv, NEW x \in Sides, Gentle(x), NEW f, InHand(x, f), f \in Messages, eng[x].blocked = <<>>,
           eng'[x].blocked = <<f>>, NEW i \in Ids, f.id = i, strm'[x][i].inq = strm[x][i].inq,
           strm'[x][i].entry => strm[x][i].entry,
           f.t # "abort" => Carried(x, i)
    PROVE  Closing(x, i)' /\ Flow(x, i)'
  <1> DEFINE y == Peer(x)
             u == Units[y][i]
  <1>0. /\ Typed /\ Units' = Units /\ y \in Sides /\ y # x /\ u \in Nat
        /\ pump'[y][i].up = pump[y][i].up /\ Taken(x, i)' = Taken(x, i)
    BY GentleLeaves, UnitsAre
  <1>H. /\ wire[y] # <<>> /\ f = Head(wire[y]) /\ wire'[y] = Tail(wire[y]) /\ wire[y] \in Seq(Frames)
        /\ f \in Frames
    BY <1>0 DEF InHand, Typed, Messages
  <1>E. <<>> \in Seq(Frames) /\ eng'[x].blocked = Append(eng[x].blocked, f)
    OBVIOUS
  <1>1. CASE f.t = "abort"
    <2>1. ~Carries(f, i)
      BY <1>1 DEF Carries
    <2>2. Keeps(eng[x].blocked, eng'[x].blocked, i)
      BY <1>E, <1>H, <2>1, KeepsAppend
    <2>3. Keeps(wire[y], wire'[y], i)
      BY <1>H, <2>1, KeepsTail
    <2> QED
      BY <2>2, <2>3, KeepsSame, AloneKeeps
  <1>2. CASE f.t # "abort"
    <2>1. Carries(f, i) /\ Carried(x, i)
      BY <1>2 DEF Carries, Messages
    <2>2. PICK a \in Int, c \in Int :
            /\ Run(strm[x][i].inq, i, u, Taken(x, i), a)
            /\ Pos(f, u) = a + 1
            /\ Run(wire'[y], i, u, a + 1, c)
            /\ Alive(y, i) => c <= Queued(y, i)
            /\ Leaving(y, i, c)
      BY <2>1, InHandNext
    <2>3. a + 1 \in Int
      OBVIOUS
    <2>4. Run(<<>>, i, u, a, a)
      BY RunEmpty
    <2>5. Run(eng'[x].blocked, i, u, a, a + 1)
      BY <1>0, <1>E, <1>H, <2>1, <2>2, <2>4, RunAppend
    <2>7. OnTheWay(x, i, a)'
      BY <2>2, <2>3, <2>5, OnTheWayAfter
    <2>8. Flow(x, i)'
      BY <1>0, <2>2, <2>7 DEF Flow
    <2>9. Closing(x, i)'
      <3>1. Closing(x, i)
        BY InvOf
      <3>2. /\ None(wire[y], i, "close") => None(wire'[y], i, "close")
            /\ f.t = "close" => ~None(wire[y], i, "close")
        BY <1>H, NoneTail
      <3>3. f.t # "close" /\ None(eng[x].blocked, i, "close") => None(eng'[x].blocked, i, "close")
        BY <1>E, <1>H, NoneAppend
      <3>4. ctrl'[y] = ctrl[y] /\ out' = out
        BY <1>0 DEF Gentle
      <3> QED
        BY <1>0, <3>1, <3>2, <3>3, <3>4 DEF Closing
    <2> QED
      BY <2>8, <2>9
  <1> QED
    BY <1>1, <1>2

\* A stream the frame in hand does not belong to.
LEMMA RestKeeps ==
    ASSUME StreamInv, NEW x \in Sides, Gentle(x), NEW f \in Frames, InHand(x, f),
           NEW j \in Ids, ~Carries(f, j),
           strm'[x][j].inq = strm[x][j].inq, strm'[x][j].entry => strm[x][j].entry,
           eng'[x].blocked = <<>> \/ (eng[x].blocked = <<>> /\ eng'[x].blocked = <<f>>)
    PROVE  Closing(x, j)' /\ Flow(x, j)'
  <1>0. Typed /\ Peer(x) \in Sides /\ wire[Peer(x)] \in Seq(Frames) /\ <<>> \in Seq(Frames)
    BY SidesAre DEF StreamInv, Typed
  <1>1. CASE eng'[x].blocked = <<>>
    <2>1. Keeps(eng[x].blocked, eng'[x].blocked, j) /\ Keeps(wire[Peer(x)], wire'[Peer(x)], j)
      BY <1>0, <1>1, InHandOther
    <2> QED
      BY <2>1, KeepsSame, AloneKeeps
  <1>2. CASE eng[x].blocked = <<>> /\ eng'[x].blocked = <<f>>
    <2>1. eng'[x].blocked = Append(eng[x].blocked, f)
      BY <1>2
    <2>2. Keeps(eng[x].blocked, eng'[x].blocked, j)
      BY <1>0, <1>2, <2>1, KeepsAppend
    <2>3. /\ wire[Peer(x)] # <<>> /\ f = Head(wire[Peer(x)])
          /\ wire'[Peer(x)] = Tail(wire[Peer(x)])
      BY <1>2 DEF InHand
    <2>4. Keeps(wire[Peer(x)], wire'[Peer(x)], j)
      BY <1>0, <2>3, KeepsTail
    <2> QED
      BY <2>2, <2>4, KeepsSame, AloneKeeps
  <1> QED
    BY <1>1, <1>2

\* An engine and its streams as they were, apart from what an action names.
EngineAs(e, x) ==
    /\ e \in [Sides -> EngineRecords] /\ (e[x].up <=> eng[x].up) /\ e[x].blocked = eng[x].blocked
    /\ \A z \in Sides : z # x => e[z] = eng[z]
StreamsAs(s, x, i) ==
    /\ s \in [Sides -> [Ids -> StreamRecords]]
    /\ \A z \in Sides, j \in Ids : ~(z = x /\ j = i) => s[z][j] = strm[z][j]

\* The table as it is is one that differs at most at a stream.
LEMMA StreamsSame ==
    ASSUME Typed, NEW x \in Sides, NEW i \in Ids
    PROVE  StreamsAs(strm, x, i)
  BY DEF StreamsAs, Typed

\* One more message in a stream's queue, and the frames an engine waits with.
Added(s, x, i, f) == [s EXCEPT ![x][i].inq = Append(@, f)]
Waiting(e, x, b) == [e EXCEPT ![x].blocked = b]

\* Adding a message to an inbound queue touches that stream only.
LEMMA StreamAdds ==
    ASSUME Typed, NEW x \in Sides, NEW i \in Ids, NEW s, StreamsAs(s, x, i), NEW f \in Messages
    PROVE  /\ StreamsAs(Added(s, x, i, f), x, i) /\ Added(s, x, i, f)[x][i].inq = Append(s[x][i].inq, f)
           /\ Added(s, x, i, f)[x][i].entry <=> s[x][i].entry
  <1> DEFINE v == Added(s, x, i, f)
             q == Append(s[x][i].inq, f)
             t == [s[x][i] EXCEPT !.inq = q]
  <1>1. s[x][i] \in StreamRecords
    BY DEF StreamsAs
  <1>2. s[x][i].inq \in Seq(Messages)
    BY <1>1 DEF StreamRecords
  <1>3. q \in Seq(Messages)
    BY <1>2, AppendAt
  <1>4. v = [s EXCEPT ![x][i] = t]
    BY DEF StreamsAs, Added
  <1> HIDE DEF q
  <1>5. t \in StreamRecords /\ t.inq = q /\ (t.entry <=> s[x][i].entry)
    BY <1>1, <1>3 DEF StreamRecords
  <1> HIDE DEF t, v
  <1>6. StreamsAs(v, x, i) /\ v[x][i] = t
    <2>1. s \in [Sides -> [Ids -> StreamRecords]]
      BY DEF StreamsAs
    <2>2. v \in [Sides -> [Ids -> StreamRecords]] /\ v[x][i] = t
      <3> DEFINE w == [s[x] EXCEPT ![i] = t]
      <3>1. w \in [Ids -> StreamRecords] /\ w[i] = t
        BY <1>5, <2>1
      <3>2. v = [s EXCEPT ![x] = w]
        BY <1>4
      <3> HIDE DEF w
      <3> QED
        BY <2>1, <3>1, <3>2
    <2>3. \A z \in Sides, j \in Ids : ~(z = x /\ j = i) => v[z][j] = s[z][j]
      BY <1>4, <2>1
    <2> QED
      BY <2>2, <2>3 DEF StreamsAs
  <1> QED
    BY <1>5, <1>6 DEF q, v

\* Dropping an entry leaves the queue to its task.
LEMMA DroppedIs ==
    ASSUME Typed, NEW x \in Sides, NEW i \in Ids
    PROVE  /\ StreamsAs(Dropped(x, i), x, i) /\ ~Dropped(x, i)[x][i].entry
           /\ Dropped(x, i)[x][i].inq = strm[x][i].inq
  <1> DEFINE t == [strm[x][i] EXCEPT !.entry = FALSE, !.closed = TRUE]
  <1>1. strm[x][i] \in StreamRecords
    BY DEF Typed
  <1>2. t \in StreamRecords /\ t.inq = strm[x][i].inq /\ ~t.entry
    BY <1>1 DEF StreamRecords
  <1>3. Dropped(x, i) = [strm EXCEPT ![x][i] = t]
    BY DEF Dropped, Typed
  <1> HIDE DEF t
  <1>4. StreamsAs(Dropped(x, i), x, i) /\ Dropped(x, i)[x][i] = t
    BY <1>2, <1>3 DEF Typed, StreamsAs
  <1> QED
    BY <1>2, <1>4

\* Noting a stream's flow control leaves the engine's held frame alone.
LEMMA PendingIs ==
    ASSUME Typed, NEW x \in Sides, NEW S \in SUBSET Ids,
           NEW v, v = [eng EXCEPT ![x].pendingFc = S]
    PROVE  EngineAs(v, x)
  <1> DEFINE e == [eng[x] EXCEPT !.pendingFc = S]
  <1>1. eng[x] \in EngineRecords
    BY DEF Typed
  <1>2. e \in EngineRecords /\ (e.up <=> eng[x].up) /\ e.blocked = eng[x].blocked
    BY <1>1 DEF EngineRecords
  <1>3. v = [eng EXCEPT ![x] = e]
    BY DEF Typed
  <1> HIDE DEF e
  <1> QED
    BY <1>2, <1>3 DEF Typed, EngineAs

\* An engine that waits for room holds the frame it waits with.
LEMMA BlockedIs ==
    ASSUME Typed, NEW x \in Sides, NEW e, EngineAs(e, x), NEW b \in Seq(Messages),
           NEW v, v = Waiting(e, x, b)
    PROVE  /\ v \in [Sides -> EngineRecords] /\ (v[x].up <=> eng[x].up) /\ v[x].blocked = b
           /\ \A z \in Sides : z # x => v[z] = eng[z]
  <1> DEFINE t == [e[x] EXCEPT !.blocked = b]
  <1>1. e[x] \in EngineRecords
    BY DEF EngineAs
  <1>2. t \in EngineRecords /\ (t.up <=> e[x].up) /\ t.blocked = b
    BY <1>1 DEF EngineRecords
  <1>3. v = [e EXCEPT ![x] = t]
    BY DEF EngineAs, Waiting
  <1> HIDE DEF t
  <1> QED
    BY <1>2, <1>3 DEF EngineAs

\* A queue of one stream stays one if a frame of that stream is added.
LEMMA AllAppend ==
    ASSUME NEW q \in Seq(Frames), NEW i, \A k \in 1..Len(q) : q[k].id = i, NEW f \in Frames, f.id = i
    PROVE  \A k \in 1..Len(Append(q, f)) : Append(q, f)[k].id = i
  BY AppendAt

\* The awaiting engine goes on.
LEMMA UnblockKeeps ==
    ASSUME StreamInv, NEW x \in Sides, Unblock(x)
    PROVE  StreamInv'
  <1>0. Typed /\ Waits(x) /\ eng[x].blocked # <<>> /\ UNCHANGED <<pump, ctrl, out, wire, env>>
    BY DEF StreamInv, Unblock
  <1>B. eng[x].blocked \in Seq(Messages)
    BY <1>0 DEF Typed, EngineRecords
  <1>F. PICK f \in Messages : f = Head(eng[x].blocked)
    BY <1>0, <1>B, TailAt
  <1>I. PICK i \in Ids : f.id = i
    BY <1>0, <1>F DEF Waits
  <1>1. /\ Tail(eng[x].blocked) = <<>>
        /\ pump[x][i].task # "none" /\ (f.t # "abort" => strm[x][i].entry)
    BY <1>0, <1>F, <1>I DEF Waits
  <1>2. f \in Frames
    BY DEF Messages
  <1>5. \/ ~Receiving(x, i) /\ strm' = strm
        \/ Receiving(x, i) /\ strm' = Added(strm, x, i, f)
    BY <1>F, <1>I DEF Unblock, Added
  <1>S. StreamsAs(strm, x, i) /\ EngineAs(eng, x) /\ <<>> \in Seq(Messages)
    BY <1>0, <1>1, StreamsSame DEF EngineAs, Typed
  <1>3. /\ eng' \in [Sides -> EngineRecords] /\ (eng'[x].up <=> eng[x].up) /\ eng'[x].blocked = <<>>
        /\ \A z \in Sides : z # x => eng'[z] = eng[z]
    <2> DEFINE e == [eng[x] EXCEPT !.blocked = <<>>]
    <2>1. eng[x] \in EngineRecords
      BY <1>0 DEF Typed
    <2>2. e \in EngineRecords /\ (e.up <=> eng[x].up) /\ e.blocked = <<>>
      BY <1>S, <2>1 DEF EngineRecords
    <2>3. eng' = [eng EXCEPT ![x] = e]
      BY <1>0 DEF Typed, Unblock
    <2> HIDE DEF e
    <2> QED
      BY <1>0, <2>2, <2>3 DEF Typed
  <1>4. InHand(x, f)
    BY <1>0, <1>1, <1>3, <1>F, <1>I DEF InHand
  <1>6. /\ StreamsAs(strm', x, i) /\ (strm'[x][i].entry <=> strm[x][i].entry)
        /\ \/ ~Receiving(x, i) /\ strm'[x][i].inq = strm[x][i].inq
           \/ Receiving(x, i) /\ strm'[x][i].inq = Append(strm[x][i].inq, f)
    BY <1>0, <1>1, <1>2, <1>5, <1>S, StreamAdds
  <1>7. Typed'
    BY <1>0, <1>3, <1>6 DEF Typed, StreamsAs
  <1>8. Gentle(x)
    <2>1. \A z \in Sides : z # x => strm'[z] = strm[z]
      BY <1>0, <1>6 DEF Typed, StreamsAs
    <2> QED
      BY <1>0, <1>3, <2>1 DEF Gentle, TasksStay, Consumes, Typed
  <1>9. Waits(x)'
    BY <1>3 DEF Waits
  <1>10. ASSUME NEW j \in Ids, j # i PROVE Closing(x, j)' /\ Flow(x, j)' /\ strm'[x][j] = strm[x][j]
    <2>1. strm'[x][j] = strm[x][j] /\ ~Carries(f, j)
      BY <1>6, <1>10, <1>F, <1>I DEF StreamsAs, Carries
    <2> QED
      BY <1>2, <1>3, <1>4, <1>8, <2>1, RestKeeps
  <1>11. Closing(x, i)' /\ Flow(x, i)'
    <2>1. CASE ~Receiving(x, i) /\ strm'[x][i].inq = strm[x][i].inq
      <3>1. ~Carried(x, i)'
        BY <1>0, <1>1, <2>1 DEF Carried, Receiving
      <3> QED
        BY <1>1, <1>3, <1>4, <1>8, <2>1, <3>1, KeepsSame, LostKeeps
    <2>2. CASE Receiving(x, i) /\ strm'[x][i].inq = Append(strm[x][i].inq, f)
      <3>1. f.t # "abort" => Carried(x, i)
        BY <1>1, <2>2 DEF Carried
      <3> QED
        BY <1>1, <1>2, <1>3, <1>4, <1>6, <1>8, <1>F, <1>I, <2>2, <3>1, HandedOver
    <2> QED
      BY <1>6, <2>1, <2>2
  <1>12. ASSUME NEW j \in Ids
         PROVE  /\ pump[x][j].task = "none" => ~strm'[x][j].entry /\ strm'[x][j].inq = <<>>
                /\ \A k \in 1..Len(strm'[x][j].inq) : strm'[x][j].inq[k].id = j
    <2>0. Sane(x, j)
      BY InvOf
    <2>1. CASE j # i
      BY <1>10, <2>0, <2>1 DEF Sane
    <2>2. CASE j = i
      <3>1. strm[x][i].inq \in Seq(Frames) /\ \A k \in 1..Len(strm[x][i].inq) : strm[x][i].inq[k].id = i
        BY <1>0, <1>1, <2>0, <2>2, TypedParts DEF Sane
      <3>2. \A k \in 1..Len(strm'[x][i].inq) : strm'[x][i].inq[k].id = i
        <4>1. CASE strm'[x][i].inq = strm[x][i].inq
          BY <3>1, <4>1
        <4>2. CASE strm'[x][i].inq = Append(strm[x][i].inq, f)
          BY <1>2, <1>I, <3>1, <4>2, AllAppend
        <4> QED
          BY <1>6, <4>1, <4>2
      <3> QED
        BY <1>1, <2>2, <3>2
    <2> QED
      BY <2>1, <2>2
  <1> QED
    BY <1>7, <1>8, <1>9, <1>10, <1>11, <1>12, GentleKeeps

\* A task that ended is joined.
LEMMA ReapKeeps ==
    ASSUME StreamInv, NEW x \in Sides, NEW i \in Ids, Reap(x, i)
    PROVE  StreamInv'
  <1> DEFINE p == [pump[x][i] EXCEPT !.task = "gone"]
  <1>0. /\ Typed /\ UNCHANGED <<eng, ctrl, out, wire, env>> /\ pump[x][i].task = "ended"
        /\ pump[x][i] \in PumpRecords /\ strm[x][i] \in StreamRecords
    BY DEF StreamInv, Reap, Typed
  <1>1. /\ p \in PumpRecords /\ p.task = "gone" /\ p.up = pump[x][i].up /\ p.down = pump[x][i].down
        /\ p.sent = pump[x][i].sent /\ p.got = pump[x][i].got /\ p.held = pump[x][i].held
        /\ (p.fin <=> pump[x][i].fin)
    BY <1>0 DEF PumpRecords, Tasks
  <1>2. pump' = [pump EXCEPT ![x][i] = p]
    BY <1>0 DEF Reap, Typed
  <1>3. PICK s \in StreamRecords : ~s.entry /\ s.inq = <<>> /\ strm' = [strm EXCEPT ![x][i] = s]
    <2>1. strm' = [strm EXCEPT ![x][i] = Closed(strm[x][i])]
      BY DEF Reap
    <2> QED
      BY <1>0, <2>1, ClosedIs
  <1> HIDE DEF p
  <1>4. OnlyTask(x, i) /\ pump'[x][i] = p
    BY <1>0, <1>1, <1>2, OnlyTaskIs
  <1>5. StreamsAs(strm', x, i) /\ strm'[x][i] = s
    BY <1>0, <1>3 DEF Typed, StreamsAs
  <1>6. TasksStay
    <2>1. pump' \in [Sides -> [Ids -> PumpRecords]]
      BY <1>4 DEF OnlyTask
    <2>2. ASSUME NEW z \in Sides, NEW j \in Ids
          PROVE  /\ pump'[z][j].task = pump[z][j].task
                      \/ (pump[z][j].task = "ended" /\ pump'[z][j].task = "gone")
                 /\ pump'[z][j].up = pump[z][j].up /\ pump'[z][j].down = pump[z][j].down
                 /\ pump'[z][j].sent = pump[z][j].sent /\ pump'[z][j].got = pump[z][j].got
                 /\ pump'[z][j].held = pump[z][j].held /\ (pump'[z][j].fin <=> pump[z][j].fin)
      <3>1. CASE z = x /\ j = i
        BY <1>0, <1>1, <1>4, <3>1
      <3>2. CASE ~(z = x /\ j = i)
        BY <1>4, <3>2 DEF OnlyTask
      <3> QED
        BY <3>1, <3>2
    <2> QED
      BY <2>1, <2>2 DEF TasksStay
  <1>7. Typed'
    BY <1>0, <1>4, <1>5 DEF Typed, OnlyTask, StreamsAs
  <1>8. Gentle(x)
    <2>1. \A z \in Sides : z # x => strm'[z] = strm[z]
      BY <1>0, <1>5 DEF Typed, StreamsAs
    <2> QED
      BY <1>0, <1>6, <2>1 DEF Gentle, Consumes
  <1>9. Waits(x)'
    <2>1. Waits(x)
      BY DEF StreamInv
    <2>2. eng[x].blocked = <<>>
      BY DEF Reap, Ready
    <2> QED
      BY <1>0, <2>2 DEF Waits
  <1>10. ASSUME NEW j \in Ids
         PROVE  /\ pump[x][j].task = "none" => ~strm'[x][j].entry /\ strm'[x][j].inq = <<>>
                /\ \A k \in 1..Len(strm'[x][j].inq) : strm'[x][j].inq[k].id = j
    <2>0. Sane(x, j)
      BY InvOf
    <2>1. CASE j # i
      BY <1>5, <2>0, <2>1 DEF Sane, StreamsAs
    <2>2. CASE j = i
      BY <1>3, <1>5, <2>2
    <2> QED
      BY <2>1, <2>2
  <1>11. ASSUME NEW j \in Ids, j # i PROVE Closing(x, j)' /\ Flow(x, j)'
    <2>1. strm'[x][j] = strm[x][j]
      BY <1>5, <1>11 DEF StreamsAs
    <2> QED
      BY <1>0, <1>8, <2>1, KeepsSame, AloneKeeps
  <1>12. Closing(x, i)' /\ Flow(x, i)'
    <2>1. /\ Units' = Units /\ Peer(x) \in Sides /\ Taken(x, i)' = Taken(x, i)
          /\ pump'[Peer(x)][i].up = pump[Peer(x)][i].up /\ Taken(x, i) \in Int /\ Closing(x, i)
      BY <1>0, <1>8, GentleLeaves, NumbersAre, InvOf
    <2>2. Closing(x, i)'
      BY <1>0, <1>3, <1>5, <2>1, NoneEmpty, ClosingByFrame
    <2>3. ~Carried(x, i)'
      BY <1>1, <1>3, <1>4, <1>5 DEF Carried
    <2>4. PICK a \in Int : a = Taken(x, i)
      BY <2>1
    <2>5. Run(strm'[x][i].inq, i, Units'[Peer(x)][i], Taken(x, i)', a)
      BY <1>3, <1>5, <2>1, <2>4, RunEmpty
    <2>6. Flow(x, i)'
      BY <2>3, <2>5 DEF Flow
    <2> QED
      BY <2>2, <2>6
  <1> QED
    BY <1>7, <1>8, <1>9, <1>10, <1>11, <1>12, GentleKeeps

-----------------------------------------------------------------------------
(* The writers. *)

\* The writer of side x moves one frame onto the wire, from the pumps' queue only when the
\* control queue is empty.
Moves(x, f) ==
    /\ UNCHANGED <<eng, strm, pump, env>> /\ eng[x].up
    /\ wire'[x] = Append(wire[x], f) /\ f \in Frames
    /\ \A z \in Sides : z # x => wire'[z] = wire[z] /\ ctrl'[z] = ctrl[z] /\ out'[z] = out[z]
    /\ wire' \in [Sides -> Seq(Frames)] /\ ctrl' \in [Sides -> Seq(Frames)]
    /\ out' \in [Sides -> Seq(Frames)]
    /\ \/ ctrl[x] # <<>> /\ f = Head(ctrl[x]) /\ ctrl'[x] = Tail(ctrl[x]) /\ out'[x] = out[x]
       \/ /\ ctrl[x] = <<>> /\ ctrl'[x] = <<>>
          /\ out[x] # <<>> /\ f = Head(out[x]) /\ out'[x] = Tail(out[x])

\* The writer takes the head of a queue to the wire.
LEMMA WriteMoves ==
    ASSUME Typed, NEW x \in Sides, Write(x)
    PROVE  \E f \in Frames : Moves(x, f)
  <1>0. /\ wire[x] \in Seq(Frames) /\ ctrl[x] \in Seq(Frames) /\ out[x] \in Seq(Frames)
        /\ UNCHANGED <<eng, strm, pump, env>> /\ eng[x].up
    BY DEF Typed, Write
  <1>1. CASE /\ ctrl[x] # <<>>
             /\ wire' = [wire EXCEPT ![x] = Append(@, Head(ctrl[x]))]
             /\ ctrl' = [ctrl EXCEPT ![x] = Tail(@)]
             /\ out' = out
    <2>1. PICK f \in Frames : f = Head(ctrl[x])
      BY <1>0, <1>1, TailAt
    <2>2. Tail(ctrl[x]) \in Seq(Frames) /\ Append(wire[x], f) \in Seq(Frames)
      BY <1>0, <1>1, TailAt, AppendAt
    <2>3. wire' = [wire EXCEPT ![x] = Append(wire[x], f)] /\ ctrl' = [ctrl EXCEPT ![x] = Tail(ctrl[x])]
      BY <1>1, <2>1 DEF Typed
    <2>4. /\ wire'[x] = Append(wire[x], f) /\ ctrl'[x] = Tail(ctrl[x])
          /\ \A z \in Sides : z # x => wire'[z] = wire[z] /\ ctrl'[z] = ctrl[z] /\ out'[z] = out[z]
          /\ wire' \in [Sides -> Seq(Frames)] /\ ctrl' \in [Sides -> Seq(Frames)]
          /\ out' \in [Sides -> Seq(Frames)]
      BY <1>1, <2>2, <2>3 DEF Typed
    <2> QED
      BY <1>0, <1>1, <2>1, <2>4 DEF Moves
  <1>2. CASE /\ ctrl[x] = <<>> /\ out[x] # <<>>
             /\ wire' = [wire EXCEPT ![x] = Append(@, Head(out[x]))]
             /\ out' = [out EXCEPT ![x] = Tail(@)]
             /\ ctrl' = ctrl
    <2>1. PICK f \in Frames : f = Head(out[x])
      BY <1>0, <1>2, TailAt
    <2>2. Tail(out[x]) \in Seq(Frames) /\ Append(wire[x], f) \in Seq(Frames)
      BY <1>0, <1>2, TailAt, AppendAt
    <2>3. wire' = [wire EXCEPT ![x] = Append(wire[x], f)] /\ out' = [out EXCEPT ![x] = Tail(out[x])]
      BY <1>2, <2>1 DEF Typed
    <2>4. /\ wire'[x] = Append(wire[x], f) /\ out'[x] = Tail(out[x])
          /\ \A z \in Sides : z # x => wire'[z] = wire[z] /\ ctrl'[z] = ctrl[z] /\ out'[z] = out[z]
          /\ wire' \in [Sides -> Seq(Frames)] /\ ctrl' \in [Sides -> Seq(Frames)]
          /\ out' \in [Sides -> Seq(Frames)]
      BY <1>2, <2>2, <2>3 DEF Typed
    <2> QED
      BY <1>0, <1>2, <2>1, <2>4 DEF Moves
  <1> QED
    BY <1>1, <1>2 DEF Write

\* The moved frame is the next of its stream; to the others it is nothing.
LEMMA MovesOn ==
    ASSUME Typed, NEW x \in Sides, NEW f \in Frames, Moves(x, f), NEW j \in Ids, NEW a \in Int,
           OnTheWay(Peer(x), j, a)
    PROVE  OnTheWay(Peer(x), j, a)'
  <1> DEFINE y == Peer(x)
             u == Units[x][j]
  <1>0. /\ y \in Sides /\ y # x /\ Peer(y) = x /\ u \in Nat /\ Units' = Units
        /\ wire[x] \in Seq(Frames) /\ ctrl[x] \in Seq(Frames) /\ out[x] \in Seq(Frames)
        /\ UNCHANGED <<eng, strm, pump, env>> /\ eng[x].up /\ wire'[x] = Append(wire[x], f)
    BY SidesAre, UnitsAre DEF Typed, Moves
  <1>1. CASE ~Carries(f, j)
    <2>1. Keeps(wire[x], wire'[x], j)
      BY <1>0, <1>1, KeepsAppend
    <2>2. Keeps(ctrl[x], ctrl'[x], j) /\ Keeps(out[x], out'[x], j)
      BY <1>0, <1>1, KeepsTail, KeepsSame DEF Moves
    <2>3. Alive(x, j)' => Alive(x, j) /\ Queued(x, j)' = Queued(x, j)
      BY <1>0 DEF Alive, Queued
    <2> QED
      BY <1>0, <2>1, <2>2, <2>3, KeepsSame, OnTheWayByFrame
  <1>2. CASE Carries(f, j)
    <2>1. PICK b \in Int, c \in Int :
            /\ Run(eng[y].blocked, j, u, a, b) /\ Run(wire[x], j, u, b, c)
            /\ Alive(x, j) => c <= Queued(x, j)
            /\ Leaving(x, j, c)
      BY <1>0 DEF OnTheWay
    <2>2. PICK d \in Int, s \in Int :
            /\ Run(ctrl[x], j, u, c, d) /\ Run(out[x], j, u, d, s)
            /\ Alive(x, j) => s = Queued(x, j)
      BY <1>0, <2>1 DEF Leaving
    <2>3. PICK e \in Int : /\ Pos(f, u) = c + 1
                           /\ Run(ctrl'[x], j, u, c + 1, e) /\ Run(out'[x], j, u, e, s)
      <3>1. CASE ctrl[x] # <<>> /\ f = Head(ctrl[x]) /\ ctrl'[x] = Tail(ctrl[x]) /\ out'[x] = out[x]
        <4>1. Pos(Head(ctrl[x]), u) = c + 1 /\ Run(Tail(ctrl[x]), j, u, c + 1, d)
          BY <1>0, <1>2, <2>2, <3>1, RunTail
        <4> QED
          BY <2>2, <3>1, <4>1
      <3>2. CASE /\ ctrl[x] = <<>> /\ ctrl'[x] = <<>>
                 /\ out[x] # <<>> /\ f = Head(out[x]) /\ out'[x] = Tail(out[x])
        <4>1. d = c
          BY <2>2, <3>2, RunEmptyIs
        <4>2. Pos(Head(out[x]), u) = c + 1 /\ Run(Tail(out[x]), j, u, c + 1, s)
          BY <1>0, <1>2, <2>2, <3>2, <4>1, RunTail
        <4>3. c + 1 \in Int
          OBVIOUS
        <4>4. Run(<<>>, j, u, c + 1, c + 1)
          BY <4>3, RunEmpty
        <4> QED
          BY <3>2, <4>2, <4>3, <4>4
      <3> QED
        BY <3>1, <3>2 DEF Moves
    <2>4. PICK g \in Int : g = c + 1
      OBVIOUS
    <2>5. Run(wire'[x], j, u, b, g)
      BY <1>0, <1>2, <2>1, <2>3, <2>4, RunAppend
    <2>6. g <= e /\ e <= s
      BY <2>3, <2>4, RunUp
    <2>7. (Alive(x, j)' <=> Alive(x, j)) /\ Queued(x, j)' = Queued(x, j)
      BY <1>0 DEF Alive, Queued
    <2>8. Alive(x, j)' => g <= Queued(x, j)'
      BY <2>2, <2>6, <2>7
    <2>9. Leaving(x, j, g)'
      BY <1>0, <2>2, <2>3, <2>4, <2>7 DEF Leaving
    <2> QED
      BY <1>0, <2>1, <2>5, <2>8, <2>9 DEF OnTheWay
  <1> QED
    BY <1>1, <1>2

\* What a type of frame is missing from, it is missing from afterwards.
LEMMA MovesNone ==
    ASSUME Typed, NEW x \in Sides, NEW f \in Frames, Moves(x, f), NEW j \in Ids, NEW t,
           None(wire[x], j, t), None(ctrl[x], j, t), None(out[x], j, t)
    PROVE  None(wire'[x], j, t) /\ None(ctrl'[x], j, t) /\ None(out'[x], j, t)
  <1>0. /\ wire[x] \in Seq(Frames) /\ ctrl[x] \in Seq(Frames) /\ out[x] \in Seq(Frames)
        /\ wire'[x] = Append(wire[x], f)
    BY DEF Typed, Moves
  <1>1. ~(f.id = j /\ f.t = t) /\ None(ctrl'[x], j, t) /\ None(out'[x], j, t)
    <2>1. CASE ctrl[x] # <<>> /\ f = Head(ctrl[x]) /\ ctrl'[x] = Tail(ctrl[x]) /\ out'[x] = out[x]
      BY <1>0, <2>1, NoneTail
    <2>2. CASE /\ ctrl[x] = <<>> /\ ctrl'[x] = <<>>
               /\ out[x] # <<>> /\ f = Head(out[x]) /\ out'[x] = Tail(out[x])
      BY <1>0, <2>2, NoneTail, NoneEmpty
    <2> QED
      BY <2>1, <2>2 DEF Moves
  <1> QED
    BY <1>0, <1>1, NoneAppend

\* The writer passes numbers on in order, from whichever queue it takes them.
LEMMA WriteKeeps ==
    ASSUME StreamInv, NEW x \in Sides, Write(x)
    PROVE  StreamInv'
  <1> DEFINE y == Peer(x)
  <1>0. Typed /\ y \in Sides /\ y # x /\ Peer(y) = x
    BY SidesAre DEF StreamInv
  <1>F. PICK f \in Frames : Moves(x, f)
    BY <1>0, WriteMoves
  <1>1. /\ UNCHANGED <<eng, strm, pump, env>> /\ eng[x].up
        /\ \A z \in Sides : z # x => wire'[z] = wire[z] /\ ctrl'[z] = ctrl[z] /\ out'[z] = out[z]
    BY <1>F DEF Moves
  <1>U. Units' = Units
    BY <1>0, <1>1, UnitsAre
  <1>Z. \A z \in Sides : z = x \/ z = y
    BY <1>0, SidesAre
  <1>2. Typed'
    BY <1>0, <1>1, <1>F DEF Typed, Moves
  <1>3. \A z \in Sides : Waits(z)'
    BY <1>1 DEF StreamInv, Waits
  <1>4. \A z \in Sides, j \in Ids : Sane(z, j)'
    BY <1>1, <1>U DEF StreamInv, Sane
  <1>G. ASSUME NEW j \in Ids, Passed(j) PROVE Passed(j)'
    <2>1. CASE x = "I"
      <3>1. None(wire["I"], j, "open") /\ None(ctrl["I"], j, "open") /\ None(out["I"], j, "open")
        BY <1>1, <1>G, <2>1 DEF Passed
      <3>2. None(wire'["I"], j, "open") /\ None(ctrl'["I"], j, "open") /\ None(out'["I"], j, "open")
        BY <1>0, <1>F, <2>1, <3>1, MovesNone
      <3> QED
        BY <1>1, <1>G, <3>2 DEF Passed
    <2>2. CASE x # "I"
      BY <1>1, <1>G, <2>2, SidesAre DEF Passed
    <2> QED
      BY <2>1, <2>2
  <1>5. ASSUME NEW z \in Sides, NEW j \in Ids PROVE Closing(z, j)'
    <2>0. Closing(z, j)
      BY InvOf
    <2>1. CASE z = x
      BY <1>0, <1>1, <2>0, <2>1 DEF Closing
    <2>2. CASE z = y
      BY <1>0, <1>1, <1>F, <2>0, <2>2, MovesNone DEF Closing
    <2> QED
      BY <1>Z, <2>1, <2>2
  <1>6. ASSUME NEW z \in Sides, NEW j \in Ids PROVE Flow(z, j)'
    <2>0. Flow(z, j) /\ Taken(z, j)' = Taken(z, j) /\ (Carried(z, j)' => Carried(z, j))
      BY <1>1, <1>G, <1>U, InvOf DEF Taken, Carried, Receiving
    <2>1. CASE z = x
      <3>1. wire'[y] = wire[y] /\ ctrl'[y] = ctrl[y] /\ out'[y] = out[y]
        BY <1>0, <1>1
      <3>2. Alive(y, j)' => Alive(y, j) /\ Queued(y, j)' = Queued(y, j)
        BY <1>1, <1>U DEF Alive, Queued
      <3> QED
        BY <1>0, <1>1, <2>0, <2>1, <3>1, <3>2, KeepsSame, FlowByFrame
    <2>2. CASE z = y
      <3>1. PICK a \in Int : /\ Run(strm[y][j].inq, j, Units[x][j], Taken(y, j), a)
                             /\ Carried(y, j) => OnTheWay(y, j, a)
        BY <1>0, <2>0, <2>2 DEF Flow
      <3>2. Carried(y, j)' => OnTheWay(y, j, a)'
        BY <1>0, <1>F, <2>0, <2>2, <3>1, MovesOn
      <3> QED
        BY <1>0, <1>1, <1>U, <2>0, <2>2, <3>1, <3>2 DEF Flow
    <2> QED
      BY <1>Z, <2>1, <2>2
  <1>7. ASSUME NEW j \in Ids, pump'["A"][j].task # "none" PROVE Passed(j)'
    BY <1>1, <1>7, <1>G, InvOf, SidesAre
  <1> QED
    BY <1>2, <1>3, <1>4, <1>5, <1>6, <1>7 DEF StreamInv

-----------------------------------------------------------------------------
(* One frame from the peer. *)

\* A frame that starts no stream and ends no session: it is ignored, handed to the stream's
\* task, held back until that has room, or it resets its stream.
Handles(x, f) ==
    /\ Gentle(x) /\ Typed' /\ InHand(x, f) /\ eng[x].blocked = <<>>
    /\ \A j \in Ids : f.id # j => strm'[x][j] = strm[x][j]
    /\ \/ /\ eng'[x].blocked = <<>>
          /\ \A j \in Ids : /\ strm'[x][j].inq = strm[x][j].inq
                            /\ strm'[x][j].entry => strm[x][j].entry
          /\ f.t \in {"data", "close"} => ~strm[x][f.id].entry \/ ~Receiving(x, f.id)
          /\ f.t = "open" => x = "I" \/ ~strm[x][f.id].entry
       \/ /\ f \in Messages /\ strm[x][f.id].entry /\ Receiving(x, f.id)
          /\ strm'[x][f.id].inq = Append(strm[x][f.id].inq, f) /\ eng'[x].blocked = <<>>
       \/ /\ f \in Messages /\ strm[x][f.id].entry /\ Receiving(x, f.id)
          /\ strm'[x][f.id].inq = strm[x][f.id].inq /\ eng'[x].blocked = <<f>>
          /\ f.t # "abort" => strm'[x][f.id].entry
       \/ /\ f.id \in Ids /\ strm[x][f.id].entry /\ ~strm'[x][f.id].entry
          /\ strm'[x][f.id].inq = Append(strm[x][f.id].inq, Frame("abort", f.id, 0))
          /\ eng'[x].blocked = <<>>

\* A numbered frame that is not delivered belongs to a stream that gets nothing more.
LEMMA IgnoredKeeps ==
    ASSUME StreamInv, NEW x \in Sides, Gentle(x), NEW f \in Frames, InHand(x, f), eng[x].blocked = <<>>,
           eng'[x].blocked = <<>>, NEW i \in Ids, Carries(f, i),
           strm'[x][i].inq = strm[x][i].inq, strm'[x][i].entry => strm[x][i].entry,
           f.t \in {"data", "close"} => ~strm[x][i].entry \/ ~Receiving(x, i),
           f.t = "open" => x = "I" \/ ~strm[x][i].entry
    PROVE  Closing(x, i)' /\ Flow(x, i)'
  <1> DEFINE y == Peer(x)
  <1>0. /\ Typed /\ y \in Sides /\ (Passed(i) => Passed(i)')
        /\ pump'[x][i].task = "none" <=> pump[x][i].task = "none"
        /\ pump'["I"][i].task = "none" <=> pump["I"][i].task = "none"
        /\ pump'["I"][i].task = "start" <=> pump["I"][i].task = "start"
        /\ Receiving(x, i)' <=> Receiving(x, i)
        /\ Units[y][i] \in Nat /\ Taken(x, i) \in Int /\ Sane(x, i)
    BY GentleLeaves, SidesAre, UnitsAre, NumbersAre, InvOf
  <1>H. wire[y] # <<>> /\ f = Head(wire[y]) /\ wire'[y] = Tail(wire[y])
    BY DEF InHand
  <1>1. ~Carried(x, i)'
    <2> SUFFICES ASSUME Carried(x, i)' PROVE FALSE
      OBVIOUS
    <2>1. Carried(x, i)
      BY <1>0 DEF Carried
    <2>2. CASE f.t = "open" /\ x = "I"
      <3>1. PICK a \in Int : /\ Run(strm[x][i].inq, i, Units[y][i], Taken(x, i), a)
                             /\ Pos(f, Units[y][i]) = a + 1
        BY <2>1, InHandNext
      <3>2. Taken(x, i) >= 0
        <4>1. pump[x][i].got \in Nat /\ Units[y][i] \in Nat
          BY <1>0, TypedParts
        <4> QED
          BY <2>2, <4>1 DEF Taken
      <3>3. Taken(x, i) <= a
        BY <1>0, <3>1, RunUp
      <3> QED
        BY <1>0, <2>2, <3>1, <3>2, <3>3 DEF Pos
    <2>3. CASE pump[x][i].task = "none"
      <3>1. /\ x = "A"
            /\ pump["I"][i].task \notin {"none", "start"}
            /\ None(Tail(wire["I"]), i, "open")
            /\ eng["I"].up => None(ctrl["I"], i, "open") /\ None(out["I"], i, "open")
        BY <1>H, <2>1, <2>3, Unopened
      <3>2. y = "I" /\ "I" # x /\ eng'["I"] = eng["I"] /\ ctrl'["I"] = ctrl["I"] /\ out' = out
        BY <3>1, SidesAre DEF Gentle
      <3>3. Passed(i)'
        BY <1>0, <1>H, <3>1, <3>2 DEF Passed
      <3>4. ~Receiving(x, i)
        BY <2>3 DEF Receiving
      <3> QED
        BY <1>0, <3>1, <3>3, <3>4 DEF Carried
    <2>4. CASE strm[x][i].entry /\ Receiving(x, i) /\ pump[x][i].task # "none"
      BY <2>2, <2>4 DEF Carries
    <2> QED
      BY <2>1, <2>3, <2>4 DEF Carried
  <1> QED
    BY <1>1, KeepsSame, LostKeeps

\* An engine that handles a frame hands its number to the stream or drops the stream.
LEMMA HandlesKeeps ==
    ASSUME StreamInv, NEW x \in Sides, NEW f \in Frames, Handles(x, f)
    PROVE  StreamInv'
  <1>0. /\ Typed /\ Gentle(x) /\ Typed' /\ InHand(x, f) /\ eng[x].blocked = <<>>
        /\ \A j \in Ids : f.id # j => strm'[x][j] = strm[x][j]
    BY DEF StreamInv, Handles
  <1>B. eng'[x].blocked = <<>> \/ eng'[x].blocked = <<f>>
    BY DEF Handles
  <1>1. ASSUME NEW j \in Ids, f.id # j PROVE Closing(x, j)' /\ Flow(x, j)'
    <2>1. ~Carries(f, j) /\ strm'[x][j] = strm[x][j]
      BY <1>0, <1>1 DEF Carries
    <2> QED
      BY <1>0, <1>B, <2>1, RestKeeps
  <1>N. ASSUME NEW i \in Ids, strm[x][i].entry PROVE pump[x][i].task # "none"
    BY <1>N, InvOf DEF Sane
  <1>2. ASSUME NEW i \in Ids, f.id = i
        PROVE  /\ Closing(x, i)' /\ Flow(x, i)'
               /\ pump[x][i].task = "none" => ~strm'[x][i].entry /\ strm'[x][i].inq = <<>>
               /\ \A k \in 1..Len(strm'[x][i].inq) : strm'[x][i].inq[k].id = i
               /\ Waits(x)'
    <2>0. /\ Sane(x, i) /\ strm[x][i].inq \in Seq(Frames)
          /\ \A k \in 1..Len(strm[x][i].inq) : strm[x][i].inq[k].id = i
      BY <1>0, InvOf, TypedParts DEF Sane
    <2>P. pump'[x][i].task = "none" <=> pump[x][i].task = "none"
      BY <1>0, GentleLeaves
    <2>1. CASE /\ eng'[x].blocked = <<>>
               /\ \A j \in Ids : /\ strm'[x][j].inq = strm[x][j].inq
                                 /\ strm'[x][j].entry => strm[x][j].entry
               /\ f.t \in {"data", "close"} => ~strm[x][f.id].entry \/ ~Receiving(x, f.id)
               /\ f.t = "open" => x = "I" \/ ~strm[x][f.id].entry
      <3>1. Closing(x, i)' /\ Flow(x, i)'
        <4>1. CASE Carries(f, i)
          BY <1>0, <1>2, <2>1, <4>1, IgnoredKeeps
        <4>2. CASE ~Carries(f, i)
          BY <1>0, <2>1, <4>2, RestKeeps
        <4> QED
          BY <4>1, <4>2
      <3>2. Waits(x)'
        BY <2>1 DEF Waits
      <3> QED
        BY <2>0, <2>1, <3>1, <3>2 DEF Sane
    <2>2. CASE /\ f \in Messages /\ strm[x][i].entry /\ Receiving(x, i)
               /\ strm'[x][i].inq = Append(strm[x][i].inq, f) /\ eng'[x].blocked = <<>>
      <3>1. Closing(x, i)' /\ Flow(x, i)'
        <4>1. Carried(x, i)
          BY <2>2 DEF Carried
        <4> QED
          BY <1>0, <1>2, <2>2, <4>1, HandedOver
      <3>2. \A k \in 1..Len(strm'[x][i].inq) : strm'[x][i].inq[k].id = i
        BY <1>2, <2>0, <2>2, AllAppend
      <3>3. Waits(x)'
        BY <2>2 DEF Waits
      <3> QED
        BY <1>N, <2>2, <3>1, <3>2, <3>3
    <2>3. CASE /\ f \in Messages /\ strm[x][i].entry /\ Receiving(x, i)
               /\ strm'[x][i].inq = strm[x][i].inq /\ eng'[x].blocked = <<f>>
               /\ f.t # "abort" => strm'[x][i].entry
      <3>1. Closing(x, i)' /\ Flow(x, i)'
        <4>1. Carried(x, i)
          BY <2>3 DEF Carried
        <4> QED
          BY <1>0, <1>2, <2>3, <4>1, HeldBack
      <3>2. Waits(x)'
        <4>1. Head(eng'[x].blocked) = f /\ Tail(eng'[x].blocked) = <<>>
          BY <2>3
        <4>2. pump'[x][i].task # "none"
          BY <1>N, <2>3, <2>P
        <4> QED
          BY <1>2, <2>3, <4>1, <4>2 DEF Waits
      <3> QED
        BY <1>N, <2>0, <2>3, <3>1, <3>2
    <2>4. CASE /\ strm[x][i].entry /\ ~strm'[x][i].entry
               /\ strm'[x][i].inq = Append(strm[x][i].inq, Frame("abort", i, 0))
               /\ eng'[x].blocked = <<>>
      <3>1. Keeps(strm[x][i].inq, strm'[x][i].inq, i)
        BY <2>0, <2>4, AbortIsFrame, KeepsAppend
      <3>2. ~Carried(x, i)'
        BY <1>N, <2>4, <2>P DEF Carried
      <3>3. Closing(x, i)' /\ Flow(x, i)'
        BY <1>0, <2>4, <3>1, <3>2, LostKeeps
      <3>4. \A k \in 1..Len(strm'[x][i].inq) : strm'[x][i].inq[k].id = i
        <4>1. PICK g \in Frames : g = Frame("abort", i, 0) /\ g.id = i
          BY AbortIsFrame DEF Frame
        <4> QED
          BY <2>0, <2>4, <4>1, AllAppend
      <3>5. Waits(x)'
        BY <2>4 DEF Waits
      <3> QED
        BY <1>N, <2>4, <3>3, <3>4, <3>5
    <2> QED
      BY <1>2, <2>1, <2>2, <2>3, <2>4 DEF Handles
  <1>3. Waits(x)'
    <2>1. CASE f.id \in Ids
      BY <1>2, <2>1
    <2>2. CASE f.id \notin Ids
      <3>1. f \notin Messages
        BY <2>2 DEF Messages, Frames
      <3>2. eng'[x].blocked = <<>>
        BY <2>2, <3>1 DEF Handles
      <3> QED
        BY <3>2 DEF Waits
    <2> QED
      BY <2>1, <2>2
  <1>4. ASSUME NEW j \in Ids
        PROVE  /\ Closing(x, j)' /\ Flow(x, j)'
               /\ pump[x][j].task = "none" => ~strm'[x][j].entry /\ strm'[x][j].inq = <<>>
               /\ \A k \in 1..Len(strm'[x][j].inq) : strm'[x][j].inq[k].id = j
    <2>1. CASE f.id = j
      BY <1>2, <2>1
    <2>2. CASE f.id # j
      <3>1. strm'[x][j] = strm[x][j] /\ Sane(x, j)
        BY <1>0, <2>2, InvOf
      <3> QED
        BY <1>1, <2>2, <3>1 DEF Sane
    <2> QED
      BY <2>1, <2>2
  <1> QED
    BY <1>0, <1>3, <1>4, GentleKeeps

\* The engine of side x reads frame f.
Reads(x, f) ==
    /\ Ready(x) /\ wire[Peer(x)] # <<>> /\ f = Head(wire[Peer(x)])
    /\ wire' = [wire EXCEPT ![Peer(x)] = Tail(@)] /\ UNCHANGED <<out, env>>

\* A frame that was read was the head of the wire.
LEMMA ReadsDoes ==
    ASSUME Typed, NEW x \in Sides, NEW f, Reads(x, f)
    PROVE  /\ f \in Frames /\ InHand(x, f) /\ Consumes(x) /\ eng[x].blocked = <<>>
           /\ wire' \in [Sides -> Seq(Frames)]
  <1>0. Peer(x) \in Sides /\ wire[Peer(x)] \in Seq(Frames)
    BY SidesAre DEF Typed
  <1>1. Consumes(x) /\ eng[x].blocked = <<>> /\ f \in Frames
    BY <1>0, TailAt DEF Reads, Consumes, Ready
  <1>2. wire'[Peer(x)] = Tail(wire[Peer(x)])
    BY <1>0 DEF Typed, Reads
  <1> QED
    BY <1>1, <1>2, ConsumesDoes DEF Reads, InHand

\* Nothing but the engine's own state and its streams changes.
LEMMA ReadsGently ==
    ASSUME Typed, NEW x \in Sides, NEW f, Reads(x, f), pump' = pump,
           eng' \in [Sides -> EngineRecords], eng'[x].up <=> eng[x].up,
           \A z \in Sides : z # x => eng'[z] = eng[z],
           NEW i \in Ids, StreamsAs(strm', x, i),
           ctrl' \in [Sides -> Seq(Frames)], \A z \in Sides : z # x => ctrl'[z] = ctrl[z],
           ctrl'[x] = ctrl[x] \/ ctrl'[x] = Append(ctrl[x], Frame("abort", i, 0))
    PROVE  Gentle(x) /\ Typed' /\ InHand(x, f) /\ eng[x].blocked = <<>>
  <1>1. /\ InHand(x, f) /\ Consumes(x) /\ eng[x].blocked = <<>>
        /\ wire' \in [Sides -> Seq(Frames)] /\ UNCHANGED <<out, env>>
    BY ReadsDoes DEF Reads
  <1>2. strm' \in [Sides -> [Ids -> StreamRecords]] /\ \A z \in Sides : z # x => strm'[z] = strm[z]
    BY DEF StreamsAs, Typed
  <1>3. Typed'
    BY <1>1, <1>2 DEF Typed
  <1>4. TasksStay
    BY DEF TasksStay, Typed
  <1> QED
    BY <1>1, <1>2, <1>3, <1>4 DEF Gentle

\* A frame that touches no stream.
LEMMA ReadsPlainly ==
    ASSUME Typed, NEW x \in Sides, NEW f, Reads(x, f), UNCHANGED <<strm, pump, ctrl>>,
           EngineAs(eng', x), f.t \in {"data", "close"} => ~strm[x][f.id].entry,
           f.t = "open" => x = "I"
    PROVE  Handles(x, f)
  <1>1. 1 \in Ids
    BY StreamAssumption DEF Ids
  <1>2. StreamsAs(strm', x, 1)
    BY <1>1, StreamsSame
  <1>3. /\ Gentle(x) /\ Typed' /\ InHand(x, f) /\ eng[x].blocked = <<>>
    BY <1>1, <1>2, ReadsGently DEF EngineAs, Typed
  <1> QED
    BY <1>3 DEF Handles, EngineAs

\* CtrlTx::send of one reset, or the end of the session.
LEMMA SendDoes ==
    ASSUME Typed, NEW x \in Sides, NEW i \in Ids, NEW e, NEW s, Send(x, <<Frame("abort", i, 0)>>, e, s)
    PROVE  \/ End(x, TRUE)
           \/ /\ eng' = e /\ strm' = s /\ pump' = pump
              /\ ctrl' \in [Sides -> Seq(Frames)] /\ \A z \in Sides : z # x => ctrl'[z] = ctrl[z]
              /\ ctrl'[x] = Append(ctrl[x], Frame("abort", i, 0))
  <1>1. CASE Len(ctrl[x]) + Len(<<Frame("abort", i, 0)>>) > CtrlCap
    BY <1>1 DEF Send
  <1>2. CASE ~(Len(ctrl[x]) + Len(<<Frame("abort", i, 0)>>) > CtrlCap)
    <2>1. ctrl' = [ctrl EXCEPT ![x] = @ \o <<Frame("abort", i, 0)>>] /\ eng' = e /\ strm' = s /\ pump' = pump
      BY <1>2 DEF Send
    <2>2. PICK g \in Frames : g = Frame("abort", i, 0)
      BY AbortIsFrame
    <2>3. ctrl[x] \in Seq(Frames)
      BY DEF Typed
    <2>4. ctrl[x] \o <<g>> = Append(ctrl[x], g) /\ Append(ctrl[x], g) \in Seq(Frames)
      BY <2>3
    <2>5. PICK q \in Seq(Frames) : q = Append(ctrl[x], g)
      BY <2>4
    <2>6. ctrl' = [ctrl EXCEPT ![x] = q]
      BY <2>1, <2>2, <2>4, <2>5
    <2>7. ctrl' \in [Sides -> Seq(Frames)] /\ ctrl'[x] = q /\ \A z \in Sides : z # x => ctrl'[z] = ctrl[z]
      BY <2>6 DEF Typed
    <2> QED
      BY <2>1, <2>2, <2>5, <2>7
  <1> QED
    BY <1>1, <1>2

\* The peer broke the rules of a stream.
LEMMA ResetDoes ==
    ASSUME Typed, NEW x \in Sides, NEW f, Reads(x, f), NEW i \in Ids, f.id = i,
           strm[x][i].entry, Reset(x, i)
    PROVE  End(x, TRUE) \/ Handles(x, f)
  <1> DEFINE s == Added(Dropped(x, i), x, i, Frame("abort", i, 0))
  <1>1. Send(x, <<Frame("abort", i, 0)>>, eng, s)
    BY DEF Reset, Added
  <1>2. /\ StreamsAs(s, x, i) /\ s[x][i].inq = Append(strm[x][i].inq, Frame("abort", i, 0))
        /\ ~s[x][i].entry
    <2>1. Frame("abort", i, 0) \in Messages
      BY AbortIsFrame
    <2>2. StreamsAs(Dropped(x, i), x, i) /\ ~Dropped(x, i)[x][i].entry
          /\ Dropped(x, i)[x][i].inq = strm[x][i].inq
      BY DroppedIs
    <2>3. PICK d : d = Dropped(x, i)
      OBVIOUS
    <2>4. PICK a \in Messages : a = Frame("abort", i, 0)
      BY <2>1
    <2>5. StreamsAs(d, x, i)
      BY <2>2, <2>3
    <2>6. s = Added(d, x, i, a)
      BY <2>3, <2>4
    <2> HIDE DEF s
    <2>7. StreamsAs(s, x, i) /\ s[x][i].inq = Append(d[x][i].inq, a) /\ (s[x][i].entry <=> d[x][i].entry)
      BY <2>5, <2>6, StreamAdds
    <2>8. ~d[x][i].entry /\ d[x][i].inq = strm[x][i].inq
      BY <2>2, <2>3
    <2> QED
      BY <2>4, <2>7, <2>8
  <1> HIDE DEF s
  <1>3. CASE End(x, TRUE)
    BY <1>3
  <1>4. CASE /\ eng' = eng /\ strm' = s /\ pump' = pump
             /\ ctrl' \in [Sides -> Seq(Frames)] /\ \A z \in Sides : z # x => ctrl'[z] = ctrl[z]
             /\ ctrl'[x] = Append(ctrl[x], Frame("abort", i, 0))
    <2>1. StreamsAs(strm', x, i)
      BY <1>2, <1>4
    <2>2. Gentle(x) /\ Typed' /\ InHand(x, f) /\ eng[x].blocked = <<>>
      BY <1>4, <2>1, ReadsGently DEF Typed
    <2>3. \A j \in Ids : f.id # j => strm'[x][j] = strm[x][j]
      BY <2>1 DEF StreamsAs
    <2> QED
      BY <1>2, <1>4, <2>2, <2>3 DEF Handles
  <1> QED
    BY <1>1, <1>3, <1>4, SendDoes

\* A table in which the stream has the inbound queue that it had.
QueueAs(s, x, i) == s[x][i].inq = strm[x][i].inq

\* StreamEntry::deliver.
LEMMA DeliverDoes ==
    ASSUME Typed, NEW x \in Sides, NEW f \in Messages, Reads(x, f), NEW i \in Ids, f.id = i,
           strm[x][i].entry, NEW e, EngineAs(e, x), NEW s, StreamsAs(s, x, i),
           QueueAs(s, x, i), f.t # "abort" => s = strm,
           Deliver(x, f, e, s)
    PROVE  Handles(x, f)
  <1>0. pump' = pump /\ ctrl' = ctrl /\ eng[x].blocked = <<>>
    BY ReadsDoes DEF Deliver
  <1>1. CASE ~Receiving(x, i) /\ strm' = s /\ eng' = e
    <2>1. Gentle(x) /\ Typed' /\ InHand(x, f) /\ eng[x].blocked = <<>>
      BY <1>0, <1>1, ReadsGently DEF EngineAs, Typed
    <2>2. \A j \in Ids : f.id # j => strm'[x][j] = strm[x][j]
      BY <1>1 DEF StreamsAs
    <2>3. \A j \in Ids : strm'[x][j].inq = strm[x][j].inq /\ (strm'[x][j].entry => strm[x][j].entry)
      BY <1>1, <2>2 DEF QueueAs
    <2>4. f.t # "open"
      BY DEF Messages
    <2> QED
      BY <1>0, <1>1, <2>1, <2>2, <2>3, <2>4 DEF Handles, EngineAs
  <1>2. CASE Receiving(x, i) /\ strm' = Added(s, x, i, f) /\ eng' = e
    <2>1. StreamsAs(strm', x, i) /\ strm'[x][i].inq = Append(s[x][i].inq, f)
      BY <1>2, StreamAdds
    <2>2. Gentle(x) /\ Typed' /\ InHand(x, f) /\ eng[x].blocked = <<>>
      BY <1>0, <1>2, <2>1, ReadsGently DEF EngineAs, Typed
    <2>3. \A j \in Ids : f.id # j => strm'[x][j] = strm[x][j]
      BY <2>1 DEF StreamsAs
    <2> QED
      BY <1>0, <1>2, <2>1, <2>2, <2>3 DEF Handles, EngineAs, QueueAs
  <1>3. CASE Receiving(x, i) /\ strm' = s /\ eng' = Waiting(e, x, <<f>>)
    <2>0. <<>> \in Seq(Messages) /\ <<f>> = Append(<<>>, f)
      OBVIOUS
    <2>1. PICK b \in Seq(Messages) : b = <<f>>
      BY <2>0, AppendAt
    <2>2. eng' = Waiting(e, x, b)
      BY <1>3, <2>1
    <2>3. /\ eng' \in [Sides -> EngineRecords] /\ (eng'[x].up <=> eng[x].up) /\ eng'[x].blocked = b
          /\ \A z \in Sides : z # x => eng'[z] = eng[z]
      BY <2>2, BlockedIs
    <2>4. Gentle(x) /\ Typed' /\ InHand(x, f) /\ eng[x].blocked = <<>>
      BY <1>0, <1>3, <2>3, ReadsGently DEF Typed
    <2>5. \A j \in Ids : f.id # j => strm'[x][j] = strm[x][j]
      BY <1>3 DEF StreamsAs
    <2> QED
      BY <1>3, <2>1, <2>3, <2>4, <2>5 DEF Handles, QueueAs
  <1> QED
    BY <1>1, <1>2, <1>3 DEF Deliver, Added, Waiting

\* A new stream has its entry and nothing in its queue.
LEMMA FreshIs ==
    ASSUME Typed, NEW c \in BOOLEAN
    PROVE  Fresh(c) \in StreamRecords /\ Fresh(c).entry /\ Fresh(c).inq = <<>>
  <1>0. FcWindow \in Nat /\ <<>> \in Seq(Messages)
    BY UnitsAre
  <1>1. PICK n \in Int : n = IF c THEN FcWindow ELSE 0
    BY <1>0
  <1>2. NoStream \in StreamRecords /\ NoStream.inq = <<>>
    BY <1>0 DEF NoStream, StreamRecords
  <1>3. Fresh(c) = [NoStream EXCEPT !.entry = TRUE, !.credited = c, !.credit = n]
    BY <1>1 DEF Fresh
  <1> QED
    BY <1>2, <1>3 DEF StreamRecords

\* The task of stream i on side w starts.
LEMMA StartIs ==
    ASSUME Typed, NEW w \in Sides, NEW i \in Ids, NEW t \in Tasks, pump' = [pump EXCEPT ![w][i].task = t]
    PROVE  /\ OnlyTask(w, i) /\ pump'[w][i].task = t
           /\ pump'[w][i].up = pump[w][i].up /\ pump'[w][i].down = pump[w][i].down
           /\ pump'[w][i].sent = pump[w][i].sent /\ pump'[w][i].got = pump[w][i].got
           /\ pump'[w][i].held = pump[w][i].held /\ (pump'[w][i].fin <=> pump[w][i].fin)
  <1> DEFINE p == [pump[w][i] EXCEPT !.task = t]
  <1>1. pump[w][i] \in PumpRecords
    BY DEF Typed
  <1>2. /\ p \in PumpRecords /\ p.task = t /\ p.up = pump[w][i].up /\ p.down = pump[w][i].down
        /\ p.sent = pump[w][i].sent /\ p.got = pump[w][i].got /\ p.held = pump[w][i].held
        /\ (p.fin <=> pump[w][i].fin)
    BY <1>1 DEF PumpRecords
  <1>3. pump' = [pump EXCEPT ![w][i] = p]
    BY DEF Typed
  <1> HIDE DEF p
  <1>4. OnlyTask(w, i) /\ pump'[w][i] = p
    <2> DEFINE w1 == [pump[w] EXCEPT ![i] = p]
    <2>1. pump[w] \in [Ids -> PumpRecords]
      BY DEF Typed
    <2>2. w1 \in [Ids -> PumpRecords] /\ w1[i] = p /\ \A j \in Ids : j # i => w1[j] = pump[w][j]
      BY <1>2, <2>1
    <2>3. pump' = [pump EXCEPT ![w] = w1]
      BY <1>3 DEF Typed
    <2> HIDE DEF w1
    <2> QED
      BY <2>2, <2>3 DEF Typed, OnlyTask
  <1> QED
    BY <1>2, <1>4

\* The accept side starts stream i.
Opens(f, i) ==
    /\ Reads("A", f) /\ f.t = "open" /\ f.id = i
    /\ EngineAs(eng', "A") /\ ctrl' = ctrl
    /\ StreamsAs(strm', "A", i) /\ strm'["A"][i].entry /\ strm'["A"][i].inq = <<>>
    /\ OnlyTask("A", i)
    /\ pump["A"][i].task \in {"none", "gone"} /\ pump'["A"][i].task = "start"
    /\ pump'["A"][i].up = pump["A"][i].up /\ pump'["A"][i].down = pump["A"][i].down
    /\ pump'["A"][i].sent = pump["A"][i].sent /\ pump'["A"][i].got = pump["A"][i].got
    /\ pump'["A"][i].held = pump["A"][i].held /\ (pump'["A"][i].fin <=> pump["A"][i].fin)

\* An Open starts a stream, is refused, or ends the session.
LEMMA OpenDoes ==
    ASSUME Typed, NEW x \in Sides, NEW f, Reads(x, f), NEW i \in Ids, f.id = i, f.t = "open", OnOpen(x, i)
    PROVE  End(x, TRUE) \/ Handles(x, f) \/ (x = "A" /\ Opens(f, i))
  <1> DEFINE e == [eng EXCEPT ![x].pendingFc = @ \ {i}]
  <1>0. EngineAs(e, x)
    <2>1. eng[x] \in EngineRecords
      BY DEF Typed
    <2>2. PICK S \in SUBSET Ids : S = eng[x].pendingFc \ {i}
      BY <2>1 DEF EngineRecords
    <2> QED
      BY <2>2, PendingIs
  <1>1. CASE x = "I" /\ UNCHANGED <<eng, strm, pump, ctrl>>
    <2>1. EngineAs(eng', x)
      BY <1>1 DEF EngineAs, Typed
    <2> QED
      BY <1>1, <2>1, ReadsPlainly
  <1>2. CASE End(x, TRUE)
    BY <1>2
  <1>3. CASE ~strm[x][i].entry /\ Send(x, <<Frame("abort", i, 0)>>, e, strm)
    <2> HIDE DEF e
    <2> SUFFICES ASSUME /\ eng' = e /\ strm' = strm /\ pump' = pump
                        /\ ctrl' \in [Sides -> Seq(Frames)]
                        /\ \A z \in Sides : z # x => ctrl'[z] = ctrl[z]
                        /\ ctrl'[x] = Append(ctrl[x], Frame("abort", i, 0))
                 PROVE  Handles(x, f)
      BY <1>3, SendDoes
    <2>1. StreamsAs(strm', x, i)
      BY StreamsSame
    <2>2. Gentle(x) /\ Typed' /\ InHand(x, f) /\ eng[x].blocked = <<>>
      BY <1>0, <2>1, ReadsGently DEF EngineAs
    <2>3. eng'[x].blocked = <<>>
      BY <1>0, <2>2 DEF EngineAs
    <2> QED
      BY <1>3, <2>2, <2>3 DEF Handles
  <1>4. CASE /\ x = "A" /\ ~(strm[x][i].entry \/ i \in Running(x))
             /\ eng' = e /\ strm' = [strm EXCEPT ![x][i] = Fresh(i \in eng[x].pendingFc)]
             /\ pump' = [pump EXCEPT ![x][i].task = "start"] /\ ctrl' = ctrl
    <2>1. /\ Fresh(i \in eng[x].pendingFc) \in StreamRecords /\ Fresh(i \in eng[x].pendingFc).entry
          /\ Fresh(i \in eng[x].pendingFc).inq = <<>>
      <3>1. CASE i \in eng[x].pendingFc
        <4>1. (i \in eng[x].pendingFc) = TRUE
          BY <3>1
        <4> QED
          BY <4>1, FreshIs, Zenon
      <3>2. CASE i \notin eng[x].pendingFc
        <4>1. (i \in eng[x].pendingFc) = FALSE
          BY <3>2
        <4> QED
          BY <4>1, FreshIs, Zenon
      <3> QED
        BY <3>1, <3>2
    <2>2. PICK s \in StreamRecords : s = Fresh(i \in eng[x].pendingFc) /\ s.entry /\ s.inq = <<>>
      BY <2>1, Zenon
    <2>3. strm' = [strm EXCEPT ![x][i] = s]
      BY <1>4, <2>2
    <2>4. StreamsAs(strm', x, i) /\ strm'[x][i] = s
      BY <2>3 DEF Typed, StreamsAs
    <2>5. "start" \in Tasks /\ pump[x][i] \in PumpRecords
      BY DEF Tasks, Typed
    <2>6. /\ OnlyTask(x, i) /\ pump'[x][i].task = "start"
          /\ pump'[x][i].up = pump[x][i].up /\ pump'[x][i].down = pump[x][i].down
          /\ pump'[x][i].sent = pump[x][i].sent /\ pump'[x][i].got = pump[x][i].got
          /\ pump'[x][i].held = pump[x][i].held /\ (pump'[x][i].fin <=> pump[x][i].fin)
      BY <1>4, <2>5, StartIs
    <2>7. pump[x][i].task \in {"none", "gone"}
      BY <1>4, <2>5 DEF Running, PumpRecords, Tasks
    <2> HIDE DEF e
    <2> QED
      BY <1>0, <1>4, <2>2, <2>4, <2>6, <2>7 DEF Opens
  <1> QED
    BY <1>1, <1>2, <1>3, <1>4, SidesAre DEF OnOpen

\* What one frame does.
LEMMA ReadDoes ==
    ASSUME Typed, NEW x \in Sides, ReadFrame(x)
    PROVE  \E f \in Frames :
             /\ Reads(x, f)
             /\ \/ End(x, TRUE)
                \/ Handles(x, f)
                \/ x = "A" /\ f.id \in Ids /\ Opens(f, f.id)
  <1>0. /\ wire[Peer(x)] \in Seq(Frames) /\ wire[Peer(x)] # <<>> /\ eng[x] \in EngineRecords
    BY SidesAre DEF Typed, ReadFrame
  <1>F. PICK f \in Frames : f = Head(wire[Peer(x)])
    BY <1>0, TailAt
  <1>R. Reads(x, f)
    BY <1>F DEF ReadFrame, Reads
  <1>T. f.t \in FrameTypes /\ (f.t # "hello" => f.id \in Ids) /\ f.n \in Nat
    BY DEF Frames
  <1>U. ASSUME UNCHANGED <<eng, strm, pump, ctrl>>,
               f.t \in {"data", "close"} => ~strm[x][f.id].entry, f.t = "open" => x = "I"
        PROVE  Handles(x, f)
    <2>1. EngineAs(eng', x)
      BY <1>U DEF EngineAs, Typed
    <2> QED
      BY <1>R, <1>U, <2>1, ReadsPlainly
  <1>1. CASE f.t = "hello"
    <2>1. OnHello(x)
      BY <1>1, <1>F DEF ReadFrame
    <2>2. PICK b \in BOOLEAN : b = FcOn[x]
      <3>1. Scenario \in ScenarioSet
        BY StreamAssumption DEF Typed, Scenario
      <3> QED
        BY <3>1 DEF ScenarioSet, FcOn
    <2>3. PICK c \in BOOLEAN : c = (eng[x].accepting \/ b)
      OBVIOUS
    <2> DEFINE e == [eng[x] EXCEPT !.peerFc = b, !.accepting = c]
    <2>4. e \in EngineRecords /\ (e.up <=> eng[x].up) /\ e.blocked = eng[x].blocked
      BY <1>0 DEF EngineRecords
    <2>5. eng' = [eng EXCEPT ![x] = e]
      BY <2>1, <2>2, <2>3 DEF OnHello, Typed
    <2> HIDE DEF e
    <2>6. EngineAs(eng', x) /\ UNCHANGED <<strm, pump, ctrl>>
      BY <2>1, <2>4, <2>5 DEF Typed, EngineAs, OnHello
    <2> QED
      BY <1>1, <1>R, <2>6, ReadsPlainly
  <1>2. CASE f.t = "fcon"
    <2>1. OnFcOn(x, f.id) /\ f.id \in Ids
      BY <1>2, <1>F, <1>T DEF ReadFrame
    <2>2. CASE End(x, TRUE)
      BY <1>R, <2>2
    <2>3. CASE /\ eng' = [eng EXCEPT ![x].pendingFc = IF FcOn[x] THEN @ \cup {f.id} ELSE @]
               /\ UNCHANGED <<strm, pump, ctrl>>
      <3>1. PICK S \in SUBSET Ids : S = IF FcOn[x] THEN eng[x].pendingFc \cup {f.id} ELSE eng[x].pendingFc
        BY <1>0, <2>1 DEF EngineRecords
      <3>2. eng' = [eng EXCEPT ![x].pendingFc = S]
        BY <2>3, <3>1
      <3>3. EngineAs(eng', x)
        BY <3>2, PendingIs
      <3> QED
        BY <1>2, <1>R, <2>3, <3>3, ReadsPlainly
    <2> QED
      BY <2>1, <2>2, <2>3 DEF OnFcOn
  <1>3. CASE f.t = "window"
    <2>1. OnWindow(x, f.id, f.n) /\ f.id \in Ids
      BY <1>3, <1>F, <1>T DEF ReadFrame
    <2>2. CASE UNCHANGED <<eng, strm, pump, ctrl>>
      BY <1>3, <1>R, <1>U, <2>2
    <2>3. CASE strm[x][f.id].entry /\ Reset(x, f.id)
      BY <1>R, <2>1, <2>3, ResetDoes
    <2>4. CASE strm' = [strm EXCEPT ![x][f.id].credit = @ + f.n] /\ UNCHANGED <<eng, pump, ctrl>>
      <3>1. PICK i \in Ids : i = f.id
        BY <2>1
      <3>2. strm[x][i] \in StreamRecords
        BY DEF Typed
      <3> DEFINE s == [strm[x][i] EXCEPT !.credit = @ + f.n]
      <3>3. s \in StreamRecords /\ s.inq = strm[x][i].inq /\ (s.entry <=> strm[x][i].entry)
        BY <1>T, <3>2 DEF StreamRecords
      <3>4. strm' = [strm EXCEPT ![x][i] = s]
        BY <2>4, <3>1 DEF Typed
      <3> HIDE DEF s
      <3>5. StreamsAs(strm', x, i) /\ strm'[x][i] = s
        BY <3>3, <3>4 DEF Typed, StreamsAs
      <3>6. Gentle(x) /\ Typed' /\ InHand(x, f) /\ eng[x].blocked = <<>>
        BY <1>R, <2>4, <3>5, ReadsGently DEF Typed
      <3>7. \A j \in Ids : (i # j => strm'[x][j] = strm[x][j])
                           /\ strm'[x][j].inq = strm[x][j].inq /\ (strm'[x][j].entry => strm[x][j].entry)
        BY <3>3, <3>5 DEF StreamsAs
      <3>8. eng'[x].blocked = <<>>
        BY <2>4, <3>6
      <3> QED
        BY <1>3, <1>R, <3>1, <3>6, <3>7, <3>8 DEF Handles
    <2> QED
      BY <2>1, <2>2, <2>3, <2>4 DEF OnWindow
  <1>4. CASE f.t = "data"
    <2>1. OnData(x, f) /\ f.id \in Ids /\ f \in Messages
      BY <1>4, <1>F, <1>T DEF ReadFrame, Messages
    <2>2. CASE ~strm[x][f.id].entry /\ UNCHANGED <<eng, strm, pump, ctrl>>
      BY <1>4, <1>R, <1>U, <2>2
    <2>3. CASE strm[x][f.id].entry /\ Reset(x, f.id)
      BY <1>R, <2>1, <2>3, ResetDoes
    <2>4. CASE strm[x][f.id].entry /\ Deliver(x, f, eng, strm)
      <3>1. EngineAs(eng, x) /\ StreamsAs(strm, x, f.id)
        BY <2>1, StreamsSame DEF EngineAs, Typed
      <3> QED
        BY <1>R, <2>1, <2>4, <3>1, DeliverDoes DEF QueueAs
    <2> QED
      BY <2>1, <2>2, <2>3, <2>4 DEF OnData
  <1>5. CASE f.t = "open"
    <2>1. OnOpen(x, f.id) /\ f.id \in Ids
      BY <1>5, <1>F, <1>T DEF ReadFrame
    <2> QED
      BY <1>5, <1>R, <2>1, OpenDoes
  <1>6. CASE f.t \in {"close", "abort"}
    <2>1. OnClose(x, f) /\ f.id \in Ids /\ f \in Messages
      BY <1>6, <1>F, <1>T DEF ReadFrame, Messages
    <2>2. PICK i \in Ids : i = f.id
      BY <2>1
    <2>3. PICK e : e = [eng EXCEPT ![x].pendingFc = @ \ {i}]
      OBVIOUS
    <2>4. EngineAs(e, x)
      <3>1. PICK S \in SUBSET Ids : S = eng[x].pendingFc \ {i}
        BY <1>0 DEF EngineRecords
      <3>2. e = [eng EXCEPT ![x].pendingFc = S]
        BY <2>3, <3>1
      <3> QED
        BY <3>2, PendingIs
    <2>5. CASE ~strm[x][i].entry /\ eng' = e /\ UNCHANGED <<strm, pump, ctrl>>
      BY <1>6, <1>R, <2>2, <2>4, <2>5, ReadsPlainly
    <2>6. CASE strm[x][i].entry /\ f.t = "abort" /\ Deliver(x, f, e, Dropped(x, i))
      <3>1. StreamsAs(Dropped(x, i), x, i) /\ Dropped(x, i)[x][i].inq = strm[x][i].inq
        BY DroppedIs
      <3> QED
        BY <1>R, <2>1, <2>2, <2>4, <2>6, <3>1, DeliverDoes DEF QueueAs
    <2>7. CASE strm[x][i].entry /\ f.t # "abort" /\ Deliver(x, f, e, strm)
      <3>1. StreamsAs(strm, x, i)
        BY StreamsSame
      <3> QED
        BY <1>R, <2>1, <2>2, <2>4, <2>7, <3>1, DeliverDoes DEF QueueAs
    <2> QED
      BY <2>1, <2>2, <2>3, <2>5, <2>6, <2>7 DEF OnClose
  <1> QED
    BY <1>T, <1>R, <1>1, <1>2, <1>3, <1>4, <1>5, <1>6 DEF FrameTypes

\* The accept side starts a stream: its Open was the next frame, and the only one.
LEMMA OpensKeeps ==
    ASSUME StreamInv, NEW f \in Frames, NEW i \in Ids, Opens(f, i)
    PROVE  StreamInv'
  <1>0. /\ Typed /\ "A" \in Sides /\ "I" \in Sides /\ Peer("A") = "I" /\ Peer("I") = "A"
        /\ \A z \in Sides : z = "I" \/ z = "A"
        /\ UNCHANGED <<ctrl, out, env>> /\ Reads("A", f)
    BY SidesAre DEF StreamInv, Opens, Reads
  <1>U. Units' = Units /\ Units["I"][i] \in Nat
    BY <1>0, UnitsAre
  <1>R. /\ InHand("A", f) /\ Consumes("A") /\ eng["A"].blocked = <<>> /\ wire' \in [Sides -> Seq(Frames)]
    BY <1>0, ReadsDoes
  <1>H. /\ wire["I"] # <<>> /\ f = Head(wire["I"]) /\ wire'["I"] = Tail(wire["I"])
        /\ wire["I"] \in Seq(Frames) /\ wire'["A"] = wire["A"]
    BY <1>0, <1>R, ConsumesDoes DEF InHand, Typed
  <1>E. /\ eng' \in [Sides -> EngineRecords] /\ (eng'["A"].up <=> eng["A"].up)
        /\ eng'["A"].blocked = <<>> /\ eng'["I"] = eng["I"]
    BY <1>0, <1>R DEF Opens, EngineAs
  <1>S. /\ strm' \in [Sides -> [Ids -> StreamRecords]]
        /\ \A z \in Sides, j \in Ids : ~(z = "A" /\ j = i) => strm'[z][j] = strm[z][j]
        /\ strm'["A"][i].entry /\ strm'["A"][i].inq = <<>>
    BY DEF Opens, StreamsAs
  <1>P. /\ pump' \in [Sides -> [Ids -> PumpRecords]]
        /\ \A z \in Sides, j \in Ids : ~(z = "A" /\ j = i) => pump'[z][j] = pump[z][j]
        /\ pump'["A"][i].task = "start"
        /\ pump'["A"][i].up = pump["A"][i].up /\ pump'["A"][i].down = pump["A"][i].down
        /\ pump'["A"][i].sent = pump["A"][i].sent /\ pump'["A"][i].got = pump["A"][i].got
        /\ pump'["A"][i].held = pump["A"][i].held /\ (pump'["A"][i].fin <=> pump["A"][i].fin)
    BY DEF Opens, OnlyTask
  <1>C. Carries(f, i) /\ f.id = i /\ f.t = "open" /\ pump["A"][i].task \in {"none", "gone"}
    BY DEF Opens, Carries
  <1>N. ~Passed(i)
    <2>1. ~None(wire["I"], i, "open")
      BY <1>H, <1>C, NoneTail
    <2> QED
      BY <2>1 DEF Passed
  <1>T. pump["A"][i].task = "none"
    BY <1>0, <1>C, <1>N, InvOf
  <1>K. /\ ~strm["A"][i].entry
        /\ pump["A"][i].sent = 0 /\ pump["A"][i].got = 0 /\ pump["A"][i].up = "read"
        /\ pump["A"][i].down = "recv" /\ ~pump["A"][i].fin
    BY <1>0, <1>T, InvOf DEF Sane
  <1>O. /\ pump["I"][i].task \notin {"none", "start"}
        /\ None(Tail(wire["I"]), i, "open")
        /\ eng["I"].up => None(ctrl["I"], i, "open") /\ None(out["I"], i, "open")
        /\ \E c \in Int :
             /\ Run(Tail(wire["I"]), i, Units["I"][i], 0, c)
             /\ Alive("I", i) => c <= Queued("I", i)
             /\ Leaving("I", i, c)
    <2>1. Carried("A", i)
      BY <1>N, <1>T DEF Carried
    <2>2. wire[Peer("A")] # <<>> /\ Carries(Head(wire[Peer("A")]), i)
      BY <1>0, <1>C, <1>H
    <2> QED
      BY <1>0, <1>R, <1>T, <2>1, <2>2, Unopened
  <1>1. Typed'
    BY <1>0, <1>R, <1>E, <1>S, <1>P DEF Typed
  <1>W. ASSUME NEW j \in Ids, j # i PROVE Keeps(wire["I"], wire'["I"], j)
    <2>1. ~Carries(f, j)
      BY <1>C, <1>W DEF Carries
    <2> QED
      BY <1>H, <2>1, KeepsTail
  <1>X. ASSUME NEW j \in Ids PROVE None(wire["I"], j, "close") => None(wire'["I"], j, "close")
    BY <1>H, NoneTail
  <1>G. ASSUME NEW j \in Ids, Passed(j) PROVE Passed(j)'
    <2>1. j # i
      BY <1>G, <1>N
    <2>2. pump'["I"][j] = pump["I"][j]
      BY <1>0, <1>P
    <2> QED
      BY <1>0, <1>E, <1>G, <1>W, <2>1, <2>2, KeepsSame, PassedByFrame DEF Passed
  <1>I. Passed(i)'
    <2>1. pump'["I"][i] = pump["I"][i]
      BY <1>0, <1>P
    <2> QED
      BY <1>0, <1>E, <1>H, <1>O, <2>1 DEF Passed
  <1>2. ASSUME NEW z \in Sides PROVE Waits(z)'
    <2>1. CASE z = "A"
      BY <1>E, <2>1 DEF Waits
    <2>2. CASE z = "I"
      <3>1. Waits("I") /\ eng'["I"] = eng["I"]
        BY <1>0, <1>E DEF StreamInv
      <3>2. \A j \in Ids : pump'["I"][j] = pump["I"][j] /\ strm'["I"][j] = strm["I"][j]
        BY <1>0, <1>P, <1>S
      <3> QED
        BY <2>2, <3>1, <3>2 DEF Waits
    <2> QED
      BY <1>0, <2>1, <2>2
  <1>Q. ASSUME NEW z \in Sides, NEW j \in Ids
        PROVE  /\ pump'[z][j].up = pump[z][j].up
               /\ Alive(z, j)' => Alive(z, j) /\ Queued(z, j)' = Queued(z, j)
               /\ ~(z = "A" /\ j = i) => Taken(z, j)' = Taken(z, j)
    <2>1. CASE z = "A" /\ j = i
      BY <1>P, <1>T, <1>U, <2>1 DEF Alive, Queued
    <2>2. CASE ~(z = "A" /\ j = i)
      BY <1>P, <1>U, <2>2 DEF Alive, Queued, Taken
    <2> QED
      BY <2>1, <2>2
  <1>3. ASSUME NEW z \in Sides, NEW j \in Ids PROVE Sane(z, j)'
    <2>0. Sane(z, j) /\ Peer(z) \in Sides /\ pump'[Peer(z)][j].up = pump[Peer(z)][j].up
      BY <1>Q, InvOf, SidesAre
    <2>1. CASE z = "A" /\ j = i
      BY <1>K, <1>P, <1>S, <2>1 DEF Sane
    <2>2. CASE ~(z = "A" /\ j = i)
      BY <1>P, <1>S, <1>U, <2>0, <2>2 DEF Sane
    <2> QED
      BY <2>1, <2>2
  <1>4. ASSUME NEW z \in Sides, NEW j \in Ids PROVE Closing(z, j)'
    <2>0. Closing(z, j) /\ Peer(z) \in Sides /\ pump'[Peer(z)][j].up = pump[Peer(z)][j].up
      BY <1>Q, InvOf, SidesAre
    <2>1. None(strm[z][j].inq, j, "close") => None(strm'[z][j].inq, j, "close")
      BY <1>S, NoneEmpty
    <2>2. /\ None(eng[z].blocked, j, "close") => None(eng'[z].blocked, j, "close")
          /\ None(wire[Peer(z)], j, "close") => None(wire'[Peer(z)], j, "close")
      BY <1>0, <1>E, <1>H, <1>X, NoneEmpty
    <2> QED
      BY <1>0, <2>0, <2>1, <2>2, ClosingByFrame
  <1>5. ASSUME NEW z \in Sides, NEW j \in Ids PROVE Flow(z, j)'
    <2>0. Flow(z, j)
      BY InvOf
    <2>1. CASE z = "A" /\ j = i
      <3>1. PICK c \in Int :
              /\ Run(Tail(wire["I"]), i, Units["I"][i], 0, c)
              /\ Alive("I", i) => c <= Queued("I", i)
              /\ Leaving("I", i, c)
        BY <1>O
      <3>2. PICK a \in Int : a = 0
        OBVIOUS
      <3>3. Taken("A", i)' = a
        BY <1>K, <1>P, <3>2 DEF Taken
      <3>4. Run(<<>>, i, Units["I"][i], a, a)
        BY RunEmpty
      <3>5. Alive("I", i)' => c <= Queued("I", i)'
        BY <1>0, <1>Q, <3>1
      <3>6. Leaving("I", i, c)'
        <4>1. ctrl' = ctrl /\ out' = out /\ eng'["I"] = eng["I"]
              /\ (Alive("I", i)' => Alive("I", i) /\ Queued("I", i)' = Queued("I", i))
          BY <1>0, <1>E, <1>Q
        <4> QED
          BY <1>U, <3>1, <4>1 DEF Leaving
      <3>7. OnTheWay("A", i, a)'
        BY <1>0, <1>E, <1>H, <1>U, <3>1, <3>2, <3>4, <3>5, <3>6 DEF OnTheWay
      <3> QED
        BY <1>0, <1>S, <1>U, <2>1, <3>3, <3>4, <3>7 DEF Flow
    <2>2. CASE ~(z = "A" /\ j = i)
      <3>1. Taken(z, j)' = Taken(z, j) /\ strm'[z][j] = strm[z][j] /\ pump'[z][j] = pump[z][j]
        BY <1>P, <1>Q, <1>S, <2>2
      <3>2. Carried(z, j)' => Carried(z, j)
        BY <1>G, <3>1 DEF Carried, Receiving
      <3>3. /\ Keeps(eng[z].blocked, eng'[z].blocked, j) /\ Keeps(wire[Peer(z)], wire'[Peer(z)], j)
            /\ Keeps(ctrl[Peer(z)], ctrl'[Peer(z)], j) /\ Keeps(out[Peer(z)], out'[Peer(z)], j)
            /\ (eng'[Peer(z)].up <=> eng[Peer(z)].up) /\ Peer(z) \in Sides
        BY <1>0, <1>E, <1>H, <1>R, <1>W, <2>2, KeepsSame
      <3> QED
        BY <1>0, <1>Q, <2>0, <3>1, <3>2, <3>3, KeepsSame, FlowByFrame
    <2> QED
      BY <2>1, <2>2
  <1>6. ASSUME NEW j \in Ids, pump'["A"][j].task # "none" PROVE Passed(j)'
    <2>1. CASE j = i
      BY <1>I, <2>1
    <2>2. CASE j # i
      <3>1. pump'["A"][j] = pump["A"][j]
        BY <1>0, <1>P, <2>2
      <3> QED
        BY <1>0, <1>6, <1>G, <3>1, InvOf
    <2> QED
      BY <2>1, <2>2
  <1> QED
    BY <1>1, <1>2, <1>3, <1>4, <1>5, <1>6 DEF StreamInv

\* Reading a frame keeps the invariant, whatever its type.
LEMMA ReadKeeps ==
    ASSUME StreamInv, NEW x \in Sides, ReadFrame(x)
    PROVE  StreamInv'
  <1>0. Typed
    BY DEF StreamInv
  <1>1. PICK f \in Frames : /\ Reads(x, f)
                            /\ \/ End(x, TRUE)
                               \/ Handles(x, f)
                               \/ x = "A" /\ f.id \in Ids /\ Opens(f, f.id)
    BY <1>0, ReadDoes
  <1>2. CASE End(x, TRUE)
    <2>1. Consumes(x) /\ eng[x].blocked = <<>> /\ UNCHANGED <<out, env>>
      BY <1>0, <1>1, ReadsDoes DEF Reads
    <2> QED
      BY <1>2, <2>1, EndKeeps
  <1> QED
    BY <1>1, <1>2, HandlesKeeps, OpensKeeps

-----------------------------------------------------------------------------
(* A local connection becomes a stream. *)

\* The initiate side starts stream i: it announces it at once, or leaves the Open to the task.
Begins(i) ==
    /\ UNCHANGED <<eng, out, wire, env>> /\ eng["I"].up
    /\ pump["I"][i].task = "none"
    /\ StreamsAs(strm', "I", i) /\ strm'["I"][i].entry /\ strm'["I"][i].inq = <<>>
    /\ OnlyTask("I", i)
    /\ pump'["I"][i].up = pump["I"][i].up /\ pump'["I"][i].down = pump["I"][i].down
    /\ pump'["I"][i].sent = pump["I"][i].sent /\ pump'["I"][i].got = pump["I"][i].got
    /\ pump'["I"][i].held = pump["I"][i].held /\ (pump'["I"][i].fin <=> pump["I"][i].fin)
    /\ ctrl' \in [Sides -> Seq(Frames)] /\ ctrl'["A"] = ctrl["A"]
    /\ \/ pump'["I"][i].task = "start" /\ ctrl' = ctrl
       \/ /\ pump'["I"][i].task = "run"
          /\ ctrl'["I"] = Append(Append(ctrl["I"], Frame("fcon", i, 0)), Frame("open", i, 0))

\* The frames that announce a stream: its Open is its number 0.
LEMMA AnnounceIs ==
    ASSUME NEW i \in Ids
    PROVE  /\ Frame("fcon", i, 0) \in Frames /\ Frame("open", i, 0) \in Frames
           /\ \A j : ~Carries(Frame("fcon", i, 0), j)
           /\ \A j : j # i => ~Carries(Frame("open", i, 0), j)
           /\ Carries(Frame("open", i, 0), i) /\ \A u : Pos(Frame("open", i, 0), u) = 0
           /\ Frame("fcon", i, 0).t # "close" /\ Frame("open", i, 0).t # "close"
  BY DEF Frame, Frames, FrameTypes, Carries, Pos

\* Accepting a local connection begins a stream or ends the session.
LEMMA AcceptDoes ==
    ASSUME Typed, NEW i \in Ids, Accept(i)
    PROVE  /\ eng["I"].blocked = <<>> /\ UNCHANGED <<out, wire, env>>
           /\ End("I", TRUE) \/ Begins(i)
  <1>0. /\ "I" \in Sides /\ "A" \in Sides /\ "A" # "I" /\ eng["I"] \in EngineRecords
        /\ Ready("I") /\ pump["I"][i].task = "none" /\ UNCHANGED <<out, wire, env>>
    BY SidesAre DEF Typed, Accept, NextId
  <1>1. CASE End("I", TRUE)
    BY <1>0, <1>1 DEF Ready
  <1>2. CASE /\ strm' = [strm EXCEPT !["I"][i] = Fresh(eng["I"].peerFc)]
             /\ pump' = [pump EXCEPT !["I"][i].task = IF eng["I"].peerFc THEN "run" ELSE "start"]
             /\ ctrl' = [ctrl EXCEPT !["I"] = IF eng["I"].peerFc THEN @ \o Announce(i) ELSE @]
             /\ eng' = eng
    <2>1. PICK c \in BOOLEAN : c = eng["I"].peerFc
      BY <1>0 DEF EngineRecords
    <2>2. PICK s \in StreamRecords : s = Fresh(c) /\ s.entry /\ s.inq = <<>>
      BY FreshIs
    <2>3. strm' = [strm EXCEPT !["I"][i] = s]
      BY <1>2, <2>1, <2>2
    <2>4. StreamsAs(strm', "I", i) /\ strm'["I"][i] = s
      BY <1>0, <2>3 DEF Typed, StreamsAs
    <2>5. PICK t \in Tasks : t = IF c THEN "run" ELSE "start"
      BY DEF Tasks
    <2>6. pump' = [pump EXCEPT !["I"][i].task = t]
      BY <1>2, <2>1, <2>5
    <2>7. /\ OnlyTask("I", i) /\ pump'["I"][i].task = t
          /\ pump'["I"][i].up = pump["I"][i].up /\ pump'["I"][i].down = pump["I"][i].down
          /\ pump'["I"][i].sent = pump["I"][i].sent /\ pump'["I"][i].got = pump["I"][i].got
          /\ pump'["I"][i].held = pump["I"][i].held /\ (pump'["I"][i].fin <=> pump["I"][i].fin)
      BY <1>0, <2>6, StartIs
    <2>8. PICK g \in Frames, h \in Frames : g = Frame("fcon", i, 0) /\ h = Frame("open", i, 0)
      BY AnnounceIs
    <2>9. ctrl["I"] \in Seq(Frames)
      BY <1>0 DEF Typed
    <2>10. ctrl["I"] \o <<g, h>> = Append(Append(ctrl["I"], g), h)
           /\ Append(Append(ctrl["I"], g), h) \in Seq(Frames)
      BY <2>9
    <2>11. PICK q \in Seq(Frames) : q = IF c THEN Append(Append(ctrl["I"], g), h) ELSE ctrl["I"]
      BY <2>9, <2>10
    <2>12. ctrl' = [ctrl EXCEPT !["I"] = q]
      BY <1>2, <2>1, <2>8, <2>10, <2>11 DEF Announce
    <2>13. ctrl' \in [Sides -> Seq(Frames)] /\ ctrl'["A"] = ctrl["A"] /\ ctrl'["I"] = q
      BY <1>0, <2>12 DEF Typed
    <2>14. ~c => ctrl' = ctrl
      BY <1>0, <2>11, <2>12 DEF Typed
    <2>15. \/ pump'["I"][i].task = "start" /\ ctrl' = ctrl
           \/ /\ pump'["I"][i].task = "run"
              /\ ctrl'["I"] = Append(Append(ctrl["I"], Frame("fcon", i, 0)), Frame("open", i, 0))
      BY <2>5, <2>7, <2>8, <2>11, <2>13, <2>14
    <2> QED
      BY <1>0, <1>2, <2>2, <2>4, <2>7, <2>13, <2>15 DEF Begins, Ready
  <1> QED
    BY <1>1, <1>2 DEF Accept

\* A stream that begins has all its numbers still to send.
LEMMA BeginsKeeps ==
    ASSUME StreamInv, NEW i \in Ids, Begins(i)
    PROVE  StreamInv'
  <1>0. /\ Typed /\ "A" \in Sides /\ "I" \in Sides /\ "A" # "I" /\ Peer("A") = "I" /\ Peer("I") = "A"
        /\ \A z \in Sides : z = "I" \/ z = "A"
        /\ UNCHANGED <<eng, out, wire, env>> /\ eng["I"].up /\ pump["I"][i].task = "none"
    BY SidesAre DEF StreamInv, Begins
  <1>U. Units' = Units /\ Units["I"][i] \in Nat
    BY <1>0, UnitsAre
  <1>S. /\ strm' \in [Sides -> [Ids -> StreamRecords]]
        /\ \A z \in Sides, j \in Ids : ~(z = "I" /\ j = i) => strm'[z][j] = strm[z][j]
        /\ strm'["I"][i].entry /\ strm'["I"][i].inq = <<>>
    BY DEF Begins, StreamsAs
  <1>P. /\ pump' \in [Sides -> [Ids -> PumpRecords]]
        /\ \A z \in Sides, j \in Ids : ~(z = "I" /\ j = i) => pump'[z][j] = pump[z][j]
        /\ pump'["I"][i].task \in {"start", "run"}
        /\ pump'["I"][i].up = pump["I"][i].up /\ pump'["I"][i].down = pump["I"][i].down
        /\ pump'["I"][i].sent = pump["I"][i].sent /\ pump'["I"][i].got = pump["I"][i].got
        /\ pump'["I"][i].held = pump["I"][i].held /\ (pump'["I"][i].fin <=> pump["I"][i].fin)
    BY DEF Begins, OnlyTask
  <1>K. /\ ~strm["I"][i].entry /\ strm["I"][i].inq = <<>>
        /\ pump["I"][i].sent = 0 /\ pump["I"][i].got = 0 /\ pump["I"][i].up = "read"
        /\ pump["I"][i].down = "recv" /\ ~pump["I"][i].fin
    BY <1>0, InvOf DEF Sane
  <1>N. ~Passed(i) /\ pump["A"][i].task = "none"
    BY <1>0, InvOf DEF Passed
  <1>F. PICK g \in Frames, h \in Frames : g = Frame("fcon", i, 0) /\ h = Frame("open", i, 0)
    BY AnnounceIs
  <1>A. /\ \A j : ~Carries(g, j)
        /\ \A j : j # i => ~Carries(h, j)
        /\ Carries(h, i) /\ \A u : Pos(h, u) = 0
        /\ g.t # "close" /\ h.t # "close"
    BY <1>F, AnnounceIs
  <1>C. /\ ctrl' \in [Sides -> Seq(Frames)] /\ ctrl'["A"] = ctrl["A"] /\ ctrl["I"] \in Seq(Frames)
        /\ \/ pump'["I"][i].task = "start" /\ ctrl' = ctrl
           \/ pump'["I"][i].task = "run" /\ ctrl'["I"] = Append(Append(ctrl["I"], g), h)
    BY <1>0, <1>F DEF Begins, Typed
  <1>1. Typed'
    BY <1>0, <1>S, <1>P, <1>C DEF Typed
  <1>W. ASSUME NEW j \in Ids PROVE /\ j # i => Keeps(ctrl["I"], ctrl'["I"], j)
                                   /\ None(ctrl["I"], j, "close") => None(ctrl'["I"], j, "close")
    <2>1. CASE ctrl' = ctrl
      BY <2>1, KeepsSame
    <2>2. CASE ctrl'["I"] = Append(Append(ctrl["I"], g), h)
      <3>0. PICK q \in Seq(Frames) : q = Append(ctrl["I"], g)
        BY <1>C, AppendAt
      <3>1. Keeps(ctrl["I"], q, j)
        BY <1>A, <1>C, <3>0, KeepsAppend
      <3>2. j # i => Keeps(q, Append(q, h), j)
        BY <1>A, KeepsAppend
      <3>3. None(ctrl["I"], j, "close") => None(q, j, "close")
        BY <1>A, <1>C, <3>0, NoneAppend
      <3>4. None(q, j, "close") => None(Append(q, h), j, "close")
        BY <1>A, NoneAppend
      <3>5. ctrl'["I"] = Append(q, h)
        BY <2>2, <3>0
      <3>6. j # i => Keeps(ctrl["I"], ctrl'["I"], j)
        BY <3>1, <3>2, <3>5 DEF Keeps
      <3> QED
        BY <3>3, <3>4, <3>5, <3>6
    <2> QED
      BY <1>C, <2>1, <2>2
  <1>G. ASSUME NEW j \in Ids, Passed(j) PROVE Passed(j)'
    <2>1. j # i
      BY <1>G, <1>N
    <2>2. pump'["I"][j] = pump["I"][j]
      BY <1>0, <1>P, <2>1
    <2> QED
      BY <1>0, <1>G, <1>W, <2>1, <2>2, KeepsSame, PassedByFrame DEF Passed
  <1>2. ASSUME NEW z \in Sides PROVE Waits(z)'
    <2>0. Waits(z)
      BY DEF StreamInv
    <2>1. ASSUME NEW j \in Ids, pump[z][j].task # "none"
          PROVE  pump'[z][j].task # "none" /\ (strm[z][j].entry => strm'[z][j].entry)
      BY <1>0, <1>P, <1>S, <2>1
    <2> QED
      BY <1>0, <2>0, <2>1 DEF Waits
  <1>Q. ASSUME NEW z \in Sides, NEW j \in Ids
        PROVE  /\ pump'[z][j].up = pump[z][j].up
               /\ Taken(z, j)' = Taken(z, j)
               /\ ~(z = "I" /\ j = i) =>
                    (Alive(z, j)' => Alive(z, j) /\ Queued(z, j)' = Queued(z, j))
    <2>1. CASE z = "I" /\ j = i
      BY <1>P, <1>U, <2>1 DEF Taken
    <2>2. CASE ~(z = "I" /\ j = i)
      BY <1>P, <1>U, <2>2 DEF Alive, Queued, Taken
    <2> QED
      BY <2>1, <2>2
  <1>3. ASSUME NEW z \in Sides, NEW j \in Ids PROVE Sane(z, j)'
    <2>0. Sane(z, j) /\ Peer(z) \in Sides /\ pump'[Peer(z)][j].up = pump[Peer(z)][j].up
      BY <1>Q, InvOf, SidesAre
    <2>1. CASE z = "I" /\ j = i
      BY <1>K, <1>P, <1>S, <2>1 DEF Sane
    <2>2. CASE ~(z = "I" /\ j = i)
      BY <1>P, <1>S, <1>U, <2>0, <2>2 DEF Sane
    <2> QED
      BY <2>1, <2>2
  <1>4. ASSUME NEW z \in Sides, NEW j \in Ids PROVE Closing(z, j)'
    <2>0. Closing(z, j) /\ Peer(z) \in Sides /\ pump'[Peer(z)][j].up = pump[Peer(z)][j].up
      BY <1>Q, InvOf, SidesAre
    <2>1. None(strm[z][j].inq, j, "close") => None(strm'[z][j].inq, j, "close")
      BY <1>S, NoneEmpty
    <2>2. None(ctrl[Peer(z)], j, "close") => None(ctrl'[Peer(z)], j, "close")
      BY <1>0, <1>C, <1>W
    <2> QED
      BY <1>0, <2>0, <2>1, <2>2, ClosingByFrame
  <1>5. ASSUME NEW z \in Sides, NEW j \in Ids PROVE Flow(z, j)'
    <2>0. Flow(z, j) /\ Taken(z, j)' = Taken(z, j) /\ Peer(z) \in Sides
      BY <1>Q, InvOf, SidesAre
    <2>1. Keeps(strm[z][j].inq, strm'[z][j].inq, j)
      BY <1>K, <1>S, KeepsSame
    <2>2. Carried(z, j)' => Carried(z, j)
      <3>1. CASE z = "I" /\ j = i
        BY <1>0, <3>1 DEF Carried
      <3>2. CASE ~(z = "I" /\ j = i)
        BY <1>G, <1>P, <1>S, <3>2 DEF Carried, Receiving
      <3> QED
        BY <3>1, <3>2
    <2>3. CASE ~(z = "A" /\ j = i)
      <3>1. Keeps(ctrl[Peer(z)], ctrl'[Peer(z)], j)
        BY <1>0, <1>C, <1>W, <2>3, KeepsSame
      <3>2. Alive(Peer(z), j)' => Alive(Peer(z), j) /\ Queued(Peer(z), j)' = Queued(Peer(z), j)
        BY <1>0, <1>Q, <2>0, <2>3
      <3> QED
        BY <1>0, <2>0, <2>1, <2>2, <3>1, <3>2, KeepsSame, FlowByFrame
    \* Nothing of the stream was on its way: the Open is the first.
    <2>4. CASE z = "A" /\ j = i
      <3> DEFINE u == Units["I"][i]
      <3>U. u \in Nat
        BY <1>U
      <3>1. Carried("A", i)
        BY <1>N DEF Carried
      <3>2. PICK a \in Int : Run(strm["A"][i].inq, i, u, Taken("A", i), a) /\ OnTheWay("A", i, a)
        BY <1>0, <2>0, <2>4, <3>1 DEF Flow
      <3>3. Taken("A", i) = -1 /\ strm["A"][i].inq = <<>>
        BY <1>0, <1>N, InvOf DEF Taken, Sane
      <3>4. a = -1
        BY <3>2, <3>3, RunEmptyIs
      <3>5. PICK b \in Int, c \in Int :
              /\ Run(eng["A"].blocked, i, u, a, b) /\ Run(wire["I"], i, u, b, c)
              /\ Alive("I", i) => c <= Queued("I", i)
              /\ Leaving("I", i, c)
        BY <1>0, <3>2 DEF OnTheWay
      <3>6. Alive("I", i) /\ Queued("I", i) = -1
        BY <1>0 DEF Alive, Queued
      <3>7. PICK d \in Int, s \in Int : Run(ctrl["I"], i, u, c, d) /\ Run(out["I"], i, u, d, s) /\ s = -1
        BY <1>0, <3>5, <3>6 DEF Leaving
      <3>8. a <= b /\ b <= c /\ c <= d /\ d <= s
        BY <3>5, <3>7, RunUp
      <3>9. c = -1 /\ d = -1
        BY <3>4, <3>7, <3>8
      <3>10. CASE pump'["I"][i].task = "start" /\ ctrl' = ctrl
        <4>1. Queued("I", i)' = -1
          BY <3>10 DEF Queued
        <4> QED
          BY <1>0, <2>0, <2>1, <2>2, <2>4, <3>6, <3>10, <4>1, KeepsSame, FlowByFrame
      <3>11. CASE pump'["I"][i].task = "run" /\ ctrl'["I"] = Append(Append(ctrl["I"], g), h)
        <4>0. PICK q \in Seq(Frames) : q = Append(ctrl["I"], g)
          BY <1>C, AppendAt
        <4>1. Queued("I", i)' = 0
          BY <1>K, <1>P, <3>11 DEF Queued
        <4>2. Run(q, i, u, c, d)
          BY <1>A, <1>C, <3>U, <3>7, <4>0, RunAppendOther
        <4>3. Pos(h, u) = d + 1
          BY <1>A, <3>9
        <4>4. Run(Append(q, h), i, u, c, d + 1)
          BY <1>A, <3>U, <4>2, <4>3, RunAppend
        <4>5. PICK e \in Int : e = 0
          OBVIOUS
        <4>6. Run(ctrl'["I"], i, u, c, e)
          BY <3>9, <3>11, <4>0, <4>4, <4>5
        <4>7. out["I"] \in Seq(Frames) /\ Run(out["I"], i, u, d, d)
          BY <1>0, <3>7, <3>9 DEF Typed
        <4>8. Run(out["I"], i, u, e, e)
          BY <3>U, <4>7, RunShift
        <4>9. Leaving("I", i, c)'
          BY <1>0, <1>U, <4>1, <4>5, <4>6, <4>8 DEF Leaving
        <4>10. Alive("I", i)' => c <= Queued("I", i)'
          BY <3>9, <4>1
        <4>11. OnTheWay("A", i, a)'
          BY <1>0, <1>U, <3>5, <4>9, <4>10 DEF OnTheWay
        <4>12. strm'["A"][i] = strm["A"][i]
          BY <1>0, <1>S
        <4> QED
          BY <1>0, <1>U, <2>0, <2>4, <3>2, <4>11, <4>12 DEF Flow
      <3> QED
        BY <1>C, <3>10, <3>11
    <2> QED
      BY <2>3, <2>4
  <1>6. ASSUME NEW j \in Ids, pump'["A"][j].task # "none" PROVE Passed(j)'
    BY <1>0, <1>6, <1>G, <1>P, InvOf
  <1> QED
    BY <1>1, <1>2, <1>3, <1>4, <1>5, <1>6 DEF StreamInv

\* Accepting keeps the invariant.
LEMMA AcceptKeeps ==
    ASSUME StreamInv, NEW i \in Ids, Accept(i)
    PROVE  StreamInv'
  <1>1. Typed /\ "I" \in Sides
    BY SidesAre DEF StreamInv
  <1>2. /\ eng["I"].blocked = <<>> /\ UNCHANGED <<out, wire, env>>
        /\ End("I", TRUE) \/ Begins(i)
    BY <1>1, AcceptDoes
  <1>3. Consumes("I")
    BY <1>2 DEF Consumes
  <1> QED
    BY <1>1, <1>2, <1>3, EndKeeps, BeginsKeeps

-----------------------------------------------------------------------------
(* The invariant holds. *)

\* Nothing is on its way at first.
LEMMA StreamInit == Init => StreamInv
  <1> SUFFICES ASSUME Init PROVE StreamInv
    OBVIOUS
  <1>0. <<>> \in Seq(Messages) /\ <<>> \in Seq(Frames) /\ {} \in SUBSET Ids
    OBVIOUS
  <1>E. env \in [case : DOMAIN Scenarios, broken : BOOLEAN]
    BY DEF Init
  <1>F. FcOn \in [Sides -> BOOLEAN]
    <2>1. Scenario \in ScenarioSet
      BY <1>E, StreamAssumption DEF Scenario
    <2> QED
      BY <2>1 DEF ScenarioSet, FcOn
  <1>1. /\ eng \in [Sides -> EngineRecords]
        /\ \A x \in Sides : eng[x].blocked = <<>>
    <2>1. PICK p \in BOOLEAN :
            eng = [x \in Sides |-> [up |-> TRUE, bad |-> FALSE, stop |-> FALSE, policy |-> p,
                                    accepting |-> ~FcOn[x], peerFc |-> FALSE,
                                    pendingFc |-> {}, blocked |-> <<>>]]
      BY DEF Init
    <2>2. ASSUME NEW x \in Sides PROVE eng[x] \in EngineRecords /\ eng[x].blocked = <<>>
      <3>1. PICK a \in BOOLEAN : a = ~FcOn[x]
        BY <1>F
      <3>2. eng[x] = [up |-> TRUE, bad |-> FALSE, stop |-> FALSE, policy |-> p, accepting |-> a,
                      peerFc |-> FALSE, pendingFc |-> {}, blocked |-> <<>>]
        BY <2>1, <3>1
      <3> QED
        BY <1>0, <3>2 DEF EngineRecords
    <2> QED
      BY <2>1, <2>2
  <1>2. /\ strm \in [Sides -> [Ids -> StreamRecords]]
        /\ \A x \in Sides, i \in Ids : ~strm[x][i].entry /\ strm[x][i].inq = <<>>
    <2>1. NoStream \in StreamRecords /\ ~NoStream.entry /\ NoStream.inq = <<>>
      BY <1>0 DEF NoStream, StreamRecords
    <2> QED
      BY <2>1 DEF Init
  <1>3. /\ pump \in [Sides -> [Ids -> PumpRecords]]
        /\ \A x \in Sides, i \in Ids :
             /\ pump[x][i].task = "none" /\ pump[x][i].up = "read" /\ pump[x][i].down = "recv"
             /\ pump[x][i].sent = 0 /\ pump[x][i].got = 0 /\ ~pump[x][i].fin
    <2>1. /\ NoPump \in PumpRecords /\ NoPump.task = "none" /\ NoPump.up = "read" /\ NoPump.down = "recv"
          /\ NoPump.sent = 0 /\ NoPump.got = 0 /\ ~NoPump.fin
      BY DEF NoPump, PumpRecords, Tasks
    <2> QED
      BY <2>1 DEF Init
  <1>4. /\ out \in [Sides -> Seq(Frames)] /\ wire \in [Sides -> Seq(Frames)]
        /\ \A x \in Sides : out[x] = <<>> /\ wire[x] = <<>>
    BY <1>0 DEF Init
  <1>H. PICK h \in Frames : h = Frame("hello", 0, 0) /\ h.t = "hello"
    <2>1. /\ Frame("hello", 0, 0) \in [t : FrameTypes, id : Ids \cup {0}, n : Nat]
          /\ Frame("hello", 0, 0).t = "hello"
      BY DEF Frame, FrameTypes
    <2>2. Frame("hello", 0, 0) \in Frames
      BY <2>1 DEF Frames
    <2> QED
      BY <2>1, <2>2
  <1>5. /\ ctrl \in [Sides -> Seq(Frames)]
        /\ \A x \in Sides : \A k \in 1..Len(ctrl[x]) : ctrl[x][k].t = "hello"
    <2>1. <<h>> \in Seq(Frames) /\ \A k \in 1..Len(<<h>>) : <<h>>[k].t = "hello"
      BY <1>H
    <2>2. \A x \in Sides : ctrl[x] = <<h>> \/ ctrl[x] = <<>>
      BY <1>H DEF Init
    <2>3. ctrl = [x \in Sides |-> ctrl[x]]
      BY DEF Init
    <2>4. ASSUME NEW x \in Sides
          PROVE  ctrl[x] \in Seq(Frames) /\ \A k \in 1..Len(ctrl[x]) : ctrl[x][k].t = "hello"
      <3>1. CASE ctrl[x] = <<h>>
        BY <2>1, <3>1
      <3>2. CASE ctrl[x] = <<>>
        BY <3>2
      <3> QED
        BY <2>2, <3>1, <3>2
    <2> QED
      BY <2>3, <2>4
  <1>6. Typed
    BY <1>E, <1>1, <1>2, <1>3, <1>4, <1>5 DEF Typed
  <1>7. \A x \in Sides : Waits(x)
    BY <1>1 DEF Waits
  <1>8. ASSUME NEW x \in Sides, NEW i \in Ids PROVE Sane(x, i)
    BY <1>2, <1>3 DEF Sane
  <1>9. ASSUME NEW x \in Sides, NEW i \in Ids PROVE Closing(x, i)
    <2>1. Peer(x) \in Sides
      BY SidesAre
    <2>2. None(ctrl[Peer(x)], i, "close")
      BY <1>5, <2>1 DEF None
    <2> QED
      BY <1>1, <1>2, <1>4, <2>1, <2>2, NoneEmpty DEF Closing
  <1>10. ASSUME NEW x \in Sides, NEW i \in Ids PROVE Flow(x, i)
    <2> DEFINE y == Peer(x)
               u == Units[y][i]
    <2>0. y \in Sides /\ u \in Nat
      BY <1>6, SidesAre, UnitsAre
    <2>1. PICK a \in Int : a = Taken(x, i)
      BY <1>6, NumbersAre
    <2>2. Queued(y, i) = a
      <3>1. x \in {"I", "A"} /\ (x = "I" => y = "A") /\ (x = "A" => y = "I")
        BY SidesAre
      <3>2. Taken(x, i) = (IF x = "A" THEN -1 ELSE 0)
        BY <1>3 DEF Taken
      <3>3. Queued(y, i) = (IF y = "I" THEN -1 ELSE 0)
        BY <1>3, <2>0 DEF Queued
      <3> QED
        BY <2>1, <3>1, <3>2, <3>3
    <2>3. Run(<<>>, i, u, a, a)
      BY RunEmpty
    <2>4. Run(ctrl[y], i, u, a, a)
      <3>1. \A k \in 1..Len(ctrl[y]) : ~Carries(ctrl[y][k], i)
        BY <1>5, <2>0 DEF Carries
      <3> QED
        BY <3>1 DEF Run
    <2>5. Leaving(y, i, a)
      BY <1>4, <2>0, <2>2, <2>3, <2>4 DEF Leaving
    <2>6. OnTheWay(x, i, a)
      BY <1>1, <1>4, <2>0, <2>2, <2>3, <2>5 DEF OnTheWay
    <2> QED
      BY <1>2, <2>1, <2>3, <2>6 DEF Flow
  <1> QED
    BY <1>3, <1>6, <1>7, <1>8, <1>9, <1>10, SidesAre DEF StreamInv

\* Every step of the two members keeps the invariant.
LEMMA StreamNext == StreamInv /\ [Next]_vars => StreamInv'
  <1> SUFFICES ASSUME StreamInv, [Next]_vars PROVE StreamInv'
    OBVIOUS
  <1>0. Typed /\ "I" \in Sides /\ "A" \in Sides
    BY SidesAre DEF StreamInv
  \* Every step of a task.
  <1>T. ASSUME NEW w \in Sides, NEW i \in Ids,
               TellsStep(w, i) \/ SendsStep(w, i) \/ DownRecv(w, i)
        PROVE  StreamInv'
    <2>1. Sane(w, i)
      BY InvOf
    <2>2. CASE TellsStep(w, i)
      BY <1>0, <2>1, <2>2, TellsStepDoes, TellsKeeps
    <2>3. CASE SendsStep(w, i)
      BY <1>0, <2>1, <2>3, SendsStepDoes, TellsKeeps, SendsKeeps
    <2>4. CASE DownRecv(w, i)
      BY <1>0, <2>1, <2>4, TakesDoes, TakesKeeps
    <2> QED
      BY <1>T, <2>2, <2>3, <2>4
  <1>1. CASE HelloTimeout \/ StopListening \/ Break
    BY <1>1, SettingKeeps
  <1>2. ASSUME NEW i \in Ids, Accept(i) PROVE StreamInv'
    BY <1>2, AcceptKeeps
  <1>3. ASSUME NEW i \in Ids, StartStep(i) PROVE StreamInv'
    <2>1. TellsStep("A", i) \/ SendsStep("I", i)
      BY <1>3 DEF StartStep, TellsStep, SendsStep
    <2> QED
      BY <1>0, <1>T, <2>1
  <1>4. ASSUME NEW x \in Sides, ReadFrame(x) PROVE StreamInv'
    BY <1>4, ReadKeeps
  <1>5. ASSUME NEW x \in Sides, Unblock(x) PROVE StreamInv'
    BY <1>5, UnblockKeeps
  <1>6. ASSUME NEW x \in Sides, Write(x) PROVE StreamInv'
    BY <1>6, WriteKeeps
  <1>7. ASSUME NEW x \in Sides, EndOnError(x) PROVE StreamInv'
    <2>1. End(x, FALSE) /\ eng[x].blocked = <<>> /\ Consumes(x) /\ UNCHANGED <<out, env>>
      BY <1>7 DEF EndOnError, Ready, Consumes
    <2> QED
      BY <2>1, EndKeeps
  <1>8. ASSUME NEW x \in Sides, NEW i \in Ids, Reap(x, i) PROVE StreamInv'
    BY <1>8, ReapKeeps
  <1>9. ASSUME NEW x \in Sides, NEW i \in Ids,
               AppStep(x, i) \/ UpStep(x, i) \/ DownStep(x, i) \/ Idle(x, i) \/ IdleClose(x, i)
        PROVE  StreamInv'
    <2>1. TellsStep(x, i) \/ SendsStep(x, i) \/ DownRecv(x, i)
      <3>1. UpClose(x, i) => pump[x][i].up \in {"eof", "fail"}
        BY DEF UpClose
      <3> QED
        BY <1>9, <3>1 DEF AppStep, UpStep, DownStep, TellsStep, SendsStep
    <2> QED
      BY <1>T, <2>1
  <1>10. CASE UNCHANGED vars
    <2>1. UNCHANGED <<eng, strm, pump, ctrl, out, wire, env>>
      BY <1>10 DEF vars
    <2>2. Typed'
      BY <1>0, <2>1 DEF Typed
    <2> QED
      BY <1>0, <2>1, <2>2, FlagsKeep
  <1> QED
    BY <1>1, <1>2, <1>3, <1>4, <1>5, <1>6, <1>7, <1>8, <1>9, <1>10 DEF Next

\* The invariant holds of every session.
LEMMA StreamInvHolds == Spec => []StreamInv
  BY StreamInit, StreamNext, PTL DEF Spec

\* A forwarded stream is byte-transparent, whatever the sizes of the queues and windows and
\* whatever fails: each socket gets what the other side's socket sent, in order, none twice and
\* none left out, and it ends cleanly only after all of it (the pumps, the engines' handlers and
\* the writers of forward_stream.rs).
THEOREM StreamAlwaysIntact == Spec => []StreamIntact
  <1>1. StreamInv => StreamIntact
    BY DEF StreamInv, Sane, StreamIntact, InOrder, NoTruncation
  <1> QED
    BY <1>1, StreamInvHolds, PTL
=============================================================================
