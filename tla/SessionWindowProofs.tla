------------------------ MODULE SessionWindowProofs ------------------------
(***************************************************************************)
(* Proofs about SessionWindow, for any finite set of streams, any chunk    *)
(* size and any window the code accepts.                                   *)
(***************************************************************************)
EXTENDS SessionWindow, FiniteSetTheorems, TLAPS

-----------------------------------------------------------------------------
(* The bytes the pumps have: what one pump adds to their sum. *)

\* The part of ChunkBytes that belongs to s, and the rest.
Own(ps, s, st) == IF ps[s].pc = st THEN ps[s].bytes ELSE 0
OwnBytes(ps, s, st) == {x \in ChunkBytes(ps, st) : x[1] = s}
OthersBytes(ps, s, st) == {x \in ChunkBytes(ps, st) : x[1] # s}

\* The sum is taken over a finite set, hence a number.
LEMMA ChunkBytesFinite ==
    ASSUME NEW ps, NEW st
    PROVE  IsFiniteSet(ChunkBytes(ps, st)) /\ BytesOf(ps, st) \in Nat
<1>1. IsFiniteSet(1..Chunk)
  BY WindowAssumption, FS_Interval
<1>2. IsFiniteSet(Streams \X (1..Chunk))
  BY <1>1, WindowAssumption, FS_Product
<1>3. IsFiniteSet(ChunkBytes(ps, st))
  BY <1>2, FS_Subset DEF ChunkBytes
<1> QED
  BY <1>3, FS_CardinalityType DEF BytesOf

\* The numbers up to k are k in number.
LEMMA IntervalCardinality ==
    \A k \in Nat : IsFiniteSet(1..k) /\ Cardinality(1..k) = k
BY FS_Interval

\* A pump in state st adds its chunk, any other pump nothing.
LEMMA OwnBytesCardinality ==
    ASSUME NEW ps \in [Streams -> Pumps], NEW s \in Streams, NEW st
    PROVE  /\ IsFiniteSet(OwnBytes(ps, s, st))
           /\ Cardinality(OwnBytes(ps, s, st)) = Own(ps, s, st)
           /\ Own(ps, s, st) \in Nat
<1>1. /\ ps[s].bytes \in Nat
      /\ ps[s].bytes <= Chunk
      /\ Chunk \in Nat
  BY WindowAssumption DEF Pumps
<1>2. CASE ps[s].pc = st
  <2>1. OwnBytes(ps, s, st) = {s} \X (1..ps[s].bytes)
    <3>1. ASSUME NEW x \in OwnBytes(ps, s, st)
          PROVE  x \in {s} \X (1..ps[s].bytes)
      BY <1>1 DEF OwnBytes, ChunkBytes
    <3>2. ASSUME NEW x \in {s} \X (1..ps[s].bytes)
          PROVE  x \in OwnBytes(ps, s, st)
      BY <1>1, <1>2 DEF OwnBytes, ChunkBytes
    <3> QED
      BY <3>1, <3>2
  <2>2. IsFiniteSet({s}) /\ Cardinality({s}) = 1
    BY FS_Singleton
  <2>3. IsFiniteSet(1..ps[s].bytes) /\ Cardinality(1..ps[s].bytes) = ps[s].bytes
    BY <1>1, IntervalCardinality
  <2>4. /\ IsFiniteSet({s} \X (1..ps[s].bytes))
        /\ Cardinality({s} \X (1..ps[s].bytes)) = 1 * ps[s].bytes
    <3>1. PICK A : A = {s}
      OBVIOUS
    <3>2. PICK B : B = 1..ps[s].bytes
      OBVIOUS
    <3>3. IsFiniteSet(A) /\ Cardinality(A) = 1 /\ IsFiniteSet(B) /\ Cardinality(B) = ps[s].bytes
      BY <2>2, <2>3, <3>1, <3>2
    <3>4. IsFiniteSet(A \X B) /\ Cardinality(A \X B) = Cardinality(A) * Cardinality(B)
      BY <3>3, FS_Product
    <3> QED
      BY <3>1, <3>2, <3>3, <3>4
  <2> QED
    BY <1>1, <1>2, <2>1, <2>4 DEF Own
<1>3. CASE ps[s].pc # st
  <2>1. OwnBytes(ps, s, st) = {}
    BY <1>3 DEF OwnBytes, ChunkBytes
  <2> QED
    BY <1>3, <2>1, FS_EmptySet DEF Own
<1> QED
  BY <1>2, <1>3

\* The sum is what s adds and what the others add.
LEMMA BytesSplit ==
    ASSUME NEW ps \in [Streams -> Pumps], NEW s \in Streams, NEW st
    PROVE  /\ Cardinality(OthersBytes(ps, s, st)) \in Nat
           /\ BytesOf(ps, st) = Cardinality(OthersBytes(ps, s, st)) + Own(ps, s, st)
<1>1. IsFiniteSet(OthersBytes(ps, s, st))
  BY ChunkBytesFinite, FS_Subset DEF OthersBytes
<1>2. Cardinality(OthersBytes(ps, s, st)) \in Nat
  BY <1>1, FS_CardinalityType
<1>3. ChunkBytes(ps, st) = OthersBytes(ps, s, st) \cup OwnBytes(ps, s, st)
  BY DEF OthersBytes, OwnBytes
<1>4. OthersBytes(ps, s, st) \cap OwnBytes(ps, s, st) = {}
  BY DEF OthersBytes, OwnBytes
<1>5. Cardinality(ChunkBytes(ps, st))
        = Cardinality(OthersBytes(ps, s, st)) + Cardinality(OwnBytes(ps, s, st))
  <2>1. IsFiniteSet(OwnBytes(ps, s, st))
    BY OwnBytesCardinality
  <2> HIDE DEF OthersBytes, OwnBytes, ChunkBytes
  <2>2. Cardinality(OthersBytes(ps, s, st) \cup OwnBytes(ps, s, st))
          = Cardinality(OthersBytes(ps, s, st)) + Cardinality(OwnBytes(ps, s, st))
            - Cardinality(OthersBytes(ps, s, st) \cap OwnBytes(ps, s, st))
    BY <1>1, <2>1, FS_Union
  <2>3. Cardinality({}) = 0
    BY FS_EmptySet
  <2>4. Cardinality(OwnBytes(ps, s, st)) \in Nat
    BY OwnBytesCardinality
  <2>5. Cardinality(ChunkBytes(ps, st))
          = Cardinality(OthersBytes(ps, s, st) \cup OwnBytes(ps, s, st))
    BY <1>3, Zenon
  <2>6. Cardinality(OthersBytes(ps, s, st) \cap OwnBytes(ps, s, st)) = 0
    BY <1>4, <2>3, Zenon
  <2> QED
    BY <1>2, <2>2, <2>4, <2>5, <2>6
<1> QED
  BY <1>2, <1>5, OwnBytesCardinality DEF BytesOf

\* When only the pump of s changes, the sum changes by what s adds before and after.
LEMMA BytesMove ==
    ASSUME NEW ps \in [Streams -> Pumps], NEW qs \in [Streams -> Pumps],
           NEW s \in Streams, NEW st,
           \A t \in Streams \ {s} : qs[t] = ps[t]
    PROVE  /\ BytesOf(ps, st) \in Nat /\ BytesOf(qs, st) \in Nat
           /\ Own(ps, s, st) \in Nat /\ Own(ps, s, st) <= BytesOf(ps, st)
           /\ BytesOf(qs, st) = BytesOf(ps, st) - Own(ps, s, st) + Own(qs, s, st)
<1>1. OthersBytes(qs, s, st) = OthersBytes(ps, s, st)
  BY DEF OthersBytes, ChunkBytes
<1>2. /\ Own(ps, s, st) \in Nat /\ Own(qs, s, st) \in Nat
      /\ BytesOf(ps, st) \in Nat /\ BytesOf(qs, st) \in Nat
  BY OwnBytesCardinality, ChunkBytesFinite
<1> QED
  BY <1>1, <1>2, BytesSplit

-----------------------------------------------------------------------------
(* The inductive invariant.  No part of it is inductive alone: that the counters
   stay natural numbers needs the accounting of what the pumps hold, that
   accounting needs the order in which a chunk is queued, and both are what makes
   an honest acknowledgement never exceed what is unacknowledged. *)

IInv == TypeOK /\ PartsAddUp /\ OwedIsInFlight /\ NoFalseViolation

\* The split of the window adds up to the window.
LEMMA CapsType == FirstCap \in Nat /\ BudgetCap \in Nat /\ FirstCap + BudgetCap = Window
<1>1. Window \div 4 \in Nat /\ Window \div 4 <= Window
  BY WindowAssumption
<1>2. Chunk \in Nat /\ Window \in Nat
  BY WindowAssumption
<1> QED
  BY <1>1, <1>2 DEF FirstCap, BudgetCap, Lesser

\* A fresh session satisfies the invariant: nothing is taken and nothing is in flight.
LEMMA InitInv == Init => IInv
<1> SUFFICES ASSUME Init PROVE IInv
  OBVIOUS
<1>1. FreshPump \in Pumps
  BY WindowAssumption DEF FreshPump, Pumps, PumpStates
<1>2. TypeOK
  BY <1>1, CapsType DEF Init, TypeOK
<1>3. PartsAddUp /\ NoFalseViolation
  BY CapsType DEF Init, PartsAddUp, NoFalseViolation
<1>4. \A st \in {"held", "ready"} : ChunkBytes(pump, st) = {}
  BY DEF Init, ChunkBytes, FreshPump
<1>5. Cardinality({}) = 0
  BY FS_EmptySet
<1>6. BytesOf(pump, "held") = 0 /\ BytesOf(pump, "ready") = 0
  BY <1>4, <1>5 DEF BytesOf
<1>7. OwedIsInFlight
  BY <1>6 DEF Init, OwedIsInFlight, Unacknowledged
<1> QED
  BY <1>2, <1>3, <1>7 DEF IInv

\* What a step of one pump does to the two sums.
LEMMA PumpMove ==
    ASSUME TypeOK, TypeOK', NEW s \in Streams,
           \A t \in Streams \ {s} : pump'[t] = pump[t]
    PROVE  \A st \in {"held", "ready"} :
                /\ BytesOf(pump, st) \in Nat /\ BytesOf(pump', st) \in Nat
                /\ Own(pump, s, st) <= BytesOf(pump, st)
                /\ BytesOf(pump', st)
                     = BytesOf(pump, st) - Own(pump, s, st) + Own(pump', s, st)
<1>1. ASSUME NEW ps \in [Streams -> Pumps], NEW qs \in [Streams -> Pumps],
             \A t \in Streams \ {s} : qs[t] = ps[t], NEW st \in {"held", "ready"}
      PROVE  /\ BytesOf(ps, st) \in Nat /\ BytesOf(qs, st) \in Nat
             /\ Own(ps, s, st) <= BytesOf(ps, st)
             /\ BytesOf(qs, st) = BytesOf(ps, st) - Own(ps, s, st) + Own(qs, s, st)
  BY <1>1, BytesMove
<1>2. pump \in [Streams -> Pumps] /\ pump' \in [Streams -> Pumps]
  BY DEF TypeOK
<1> QED
  BY <1>1, <1>2

-----------------------------------------------------------------------------
(* One lemma per action. *)

\* Leaving the queue leaves a queue.
LEMMA LeaveQueueType ==
    ASSUME TypeOK, NEW s \in Streams
    PROVE  LeaveQueue(s) \in [Streams -> SUBSET Streams]
BY DEF TypeOK, LeaveQueue

\* Asking for bytes of the window takes none.
LEMMA RequestInv ==
    ASSUME IInv, NEW s \in Streams, NEW n \in 1..Chunk, Request(s, n), UNCHANGED ended
    PROVE  IInv'
<1>0. n \in 0..Chunk
  BY WindowAssumption
<1>1. /\ TypeOK /\ PartsAddUp /\ OwedIsInFlight /\ NoFalseViolation
      /\ pump[s] \in Pumps
  BY DEF IInv, TypeOK
<1>2. /\ pump'[s].pc = "wait" /\ pump'[s] \in Pumps
      /\ pump' \in [Streams -> Pumps]
      /\ \A t \in Streams \ {s} : pump'[t] = pump[t]
  BY <1>0, <1>1 DEF Request, TypeOK, Pumps, PumpStates
<1>3. TypeOK'
  BY <1>1, <1>2 DEF Request, TypeOK, Waiting
<1>4. PartsAddUp' /\ NoFalseViolation'
  BY <1>1 DEF Request, PartsAddUp, NoFalseViolation
<1>5. \A st \in {"held", "ready"} : Own(pump, s, st) = 0 /\ Own(pump', s, st) = 0
  BY <1>2 DEF Request, Own
<1>6. \A st \in {"held", "ready"} : BytesOf(pump', st) = BytesOf(pump, st)
  BY <1>1, <1>2, <1>3, <1>5, PumpMove
<1>7. OwedIsInFlight'
  BY <1>1, <1>6 DEF Request, OwedIsInFlight, Unacknowledged
<1> QED
  BY <1>3, <1>4, <1>7 DEF IInv

\* Taking bytes of the reserve moves them from free to owed and held.
LEMMA TakeFirstInv ==
    ASSUME IInv, NEW s \in Streams, TakeFirst(s), UNCHANGED ended
    PROVE  IInv'
<1>1. /\ TypeOK /\ PartsAddUp /\ OwedIsInFlight /\ NoFalseViolation
      /\ pump[s] \in Pumps
      /\ pump[s].bytes \in Nat
  BY WindowAssumption DEF IInv, TypeOK, Pumps
<1>2. /\ pump'[s].pc = "held" /\ pump'[s].bytes = pump[s].bytes
      /\ pump' \in [Streams -> Pumps]
      /\ \A t \in Streams \ {s} : pump'[t] = pump[t]
  BY <1>1 DEF TakeFirst, TypeOK, Pumps, PumpStates
<1>3. TypeOK'
  <2>1. first' \in Nat /\ owed' \in [first : Nat, budget : Nat, sending : Nat]
    <3>1. /\ first >= pump[s].bytes
          /\ first' = first - pump[s].bytes
          /\ owed' = [owed EXCEPT !.first = @ + pump[s].bytes, !.sending = @ + pump[s].bytes]
      BY DEF TakeFirst, FirstReady
    <3>2. /\ owed.first \in Nat /\ owed.budget \in Nat /\ owed.sending \in Nat
          /\ first \in Nat
      BY <1>1 DEF TypeOK
    <3>3. owed' = [first |-> owed.first + pump[s].bytes, budget |-> owed.budget,
                   sending |-> owed.sending + pump[s].bytes]
      BY <1>1, <3>1 DEF TypeOK
    <3> QED
      BY <1>1, <3>1, <3>2, <3>3
  <2>2. ahead' \in [Streams -> SUBSET Streams]
    BY <1>1, LeaveQueueType DEF TakeFirst
  <2> QED
    BY <1>1, <1>2, <2>1, <2>2 DEF TakeFirst, TypeOK
<1>4. PartsAddUp' /\ NoFalseViolation'
  BY <1>1, CapsType DEF TakeFirst, TypeOK, PartsAddUp, NoFalseViolation
<1>5. /\ Own(pump, s, "held") = 0 /\ Own(pump', s, "held") = pump[s].bytes
      /\ Own(pump, s, "ready") = 0 /\ Own(pump', s, "ready") = 0
  BY <1>2 DEF TakeFirst, Own
<1>6. /\ BytesOf(pump', "held") = BytesOf(pump, "held") + pump[s].bytes
      /\ BytesOf(pump', "ready") = BytesOf(pump, "ready")
  BY <1>1, <1>2, <1>3, <1>5, PumpMove
<1>7. OwedIsInFlight'
  BY <1>1, <1>6 DEF TakeFirst, TypeOK, OwedIsInFlight, Unacknowledged
<1> QED
  BY <1>3, <1>4, <1>7 DEF IInv

\* Taking bytes of the budget moves them from free to owed and held.
LEMMA TakeBudgetInv ==
    ASSUME IInv, NEW s \in Streams, TakeBudget(s), UNCHANGED ended
    PROVE  IInv'
<1>1. /\ TypeOK /\ PartsAddUp /\ OwedIsInFlight /\ NoFalseViolation
      /\ pump[s] \in Pumps
      /\ pump[s].bytes \in Nat
  BY WindowAssumption DEF IInv, TypeOK, Pumps
<1>2. /\ pump'[s].pc = "held" /\ pump'[s].bytes = pump[s].bytes
      /\ pump' \in [Streams -> Pumps]
      /\ \A t \in Streams \ {s} : pump'[t] = pump[t]
  BY <1>1 DEF TakeBudget, TypeOK, Pumps, PumpStates
<1>3. TypeOK'
  <2>1. budget' \in Nat /\ owed' \in [first : Nat, budget : Nat, sending : Nat]
    <3>1. /\ budget >= pump[s].bytes
          /\ budget' = budget - pump[s].bytes
          /\ owed' = [owed EXCEPT !.budget = @ + pump[s].bytes, !.sending = @ + pump[s].bytes]
      BY DEF TakeBudget
    <3>2. /\ owed.first \in Nat /\ owed.budget \in Nat /\ owed.sending \in Nat
          /\ budget \in Nat
      BY <1>1 DEF TypeOK
    <3>3. owed' = [budget |-> owed.budget + pump[s].bytes, first |-> owed.first,
                   sending |-> owed.sending + pump[s].bytes]
      BY <1>1, <3>1 DEF TypeOK
    <3> QED
      BY <1>1, <3>1, <3>2, <3>3
  <2>2. ahead' \in [Streams -> SUBSET Streams]
    BY <1>1, LeaveQueueType DEF TakeBudget
  <2> QED
    BY <1>1, <1>2, <2>1, <2>2 DEF TakeBudget, TypeOK
<1>4. PartsAddUp' /\ NoFalseViolation'
  BY <1>1, CapsType DEF TakeBudget, TypeOK, PartsAddUp, NoFalseViolation
<1>5. /\ Own(pump, s, "held") = 0 /\ Own(pump', s, "held") = pump[s].bytes
      /\ Own(pump, s, "ready") = 0 /\ Own(pump', s, "ready") = 0
  BY <1>2 DEF TakeBudget, Own
<1>6. /\ BytesOf(pump', "held") = BytesOf(pump, "held") + pump[s].bytes
      /\ BytesOf(pump', "ready") = BytesOf(pump, "ready")
  BY <1>1, <1>2, <1>3, <1>5, PumpMove
<1>7. OwedIsInFlight'
  BY <1>1, <1>6 DEF TakeBudget, TypeOK, OwedIsInFlight, Unacknowledged
<1> QED
  BY <1>3, <1>4, <1>7 DEF IInv

\* queued() moves a chunk from held to ready; sending its frame puts it on the wire.
LEMMA QueueInv ==
    ASSUME IInv, NEW s \in Streams, Queue(s), UNCHANGED ended
    PROVE  IInv'
<1>1. /\ TypeOK /\ PartsAddUp /\ OwedIsInFlight /\ NoFalseViolation
      /\ pump[s] \in Pumps
      /\ pump[s].bytes \in Nat
      /\ 0 \in 0..Chunk
  BY WindowAssumption DEF IInv, TypeOK, Pumps
<1>2. CASE pump[s].pc = "held"
  <2>1. /\ pump'[s].pc = "ready" /\ pump'[s].bytes = pump[s].bytes
        /\ pump' \in [Streams -> Pumps]
        /\ \A t \in Streams \ {s} : pump'[t] = pump[t]
    BY <1>1, <1>2 DEF Queue, TypeOK, Pumps, PumpStates
  <2>2. Own(pump, s, "held") = pump[s].bytes /\ Own(pump, s, "ready") = 0
    BY <1>2 DEF Own
  <2>3. owed.sending >= pump[s].bytes
    <3>1. Own(pump, s, "held") <= BytesOf(pump, "held")
      BY <1>1, ChunkBytesFinite, BytesSplit, OwnBytesCardinality DEF TypeOK
    <3> QED
      BY <1>1, <2>2, <3>1 DEF OwedIsInFlight, TypeOK
  <2>4. TypeOK'
    BY <1>1, <1>2, <2>1, <2>3 DEF Queue, TypeOK
  <2>5. PartsAddUp' /\ NoFalseViolation'
    BY <1>1, <1>2 DEF Queue, TypeOK, PartsAddUp, NoFalseViolation
  <2>6. Own(pump', s, "held") = 0 /\ Own(pump', s, "ready") = pump[s].bytes
    BY <2>1 DEF Own
  <2>7. /\ BytesOf(pump', "held") = BytesOf(pump, "held") - pump[s].bytes
        /\ BytesOf(pump', "ready") = BytesOf(pump, "ready") + pump[s].bytes
        /\ BytesOf(pump, "held") \in Nat /\ BytesOf(pump, "ready") \in Nat
    BY <1>1, <2>1, <2>2, <2>4, <2>6, PumpMove
  <2>8. OwedIsInFlight'
    BY <1>1, <1>2, <2>7 DEF Queue, TypeOK, OwedIsInFlight, Unacknowledged
  <2> QED
    BY <2>4, <2>5, <2>8 DEF IInv
<1>3. CASE pump[s].pc = "ready"
  <2>1. /\ pump'[s].pc = "idle"
        /\ pump' \in [Streams -> Pumps]
        /\ \A t \in Streams \ {s} : pump'[t] = pump[t]
    BY <1>1, <1>3 DEF Queue, TypeOK, Pumps, PumpStates
  <2>2. TypeOK'
    BY <1>1, <1>3, <2>1 DEF Queue, TypeOK
  <2>3. PartsAddUp' /\ NoFalseViolation'
    BY <1>1, <1>3 DEF Queue, PartsAddUp, NoFalseViolation
  <2>4. /\ Own(pump, s, "held") = 0 /\ Own(pump', s, "held") = 0
        /\ Own(pump, s, "ready") = pump[s].bytes /\ Own(pump', s, "ready") = 0
    BY <1>3, <2>1 DEF Own
  <2>5. /\ BytesOf(pump', "held") = BytesOf(pump, "held")
        /\ BytesOf(pump', "ready") = BytesOf(pump, "ready") - pump[s].bytes
        /\ BytesOf(pump, "held") \in Nat /\ BytesOf(pump, "ready") \in Nat
    BY <1>1, <2>1, <2>2, <2>4, PumpMove
  <2>6. OwedIsInFlight'
    BY <1>1, <1>3, <2>5 DEF Queue, TypeOK, OwedIsInFlight, Unacknowledged
  <2> QED
    BY <2>2, <2>3, <2>6 DEF IInv
<1> QED
  BY <1>2, <1>3 DEF Queue

\* A dropped chunk gives back exactly its bytes, no more of a part than the part owes.
LEMMA GiveBackSum ==
    ASSUME TypeOK, NEW p \in Pumps,
           p.bytes <= owed.first + owed.budget
    PROVE  /\ GiveBackFirst(p) \in Nat /\ GiveBackBudget(p) \in Nat
           /\ GiveBackFirst(p) <= owed.first /\ GiveBackBudget(p) <= owed.budget
           /\ GiveBackFirst(p) + GiveBackBudget(p) = p.bytes
<1>1. p.bytes \in Nat /\ owed.first \in Nat /\ owed.budget \in Nat
  BY WindowAssumption DEF TypeOK, Pumps
<1> QED
  BY <1>1 DEF GiveBackFirst, GiveBackBudget, Lesser

\* The reset of a stream that holds bytes gives back exactly those bytes.
LEMMA ResetHoldingInv ==
    ASSUME IInv, NEW s \in Streams, ResetHolding(s), UNCHANGED ended
    PROVE  IInv'
<1> DEFINE f == GiveBackFirst(pump[s])
           b == GiveBackBudget(pump[s])
<1>1. /\ TypeOK /\ PartsAddUp /\ OwedIsInFlight /\ NoFalseViolation
      /\ pump[s] \in Pumps
      /\ pump[s].bytes \in Nat
      /\ pump[s].pc = "held"
  BY WindowAssumption DEF IInv, TypeOK, Pumps, ResetHolding
<1>2. /\ owed' = [first |-> owed.first - f, budget |-> owed.budget - b,
                  sending |-> owed.sending - pump[s].bytes]
      /\ first' = first + f
      /\ budget' = budget + b
  BY DEF ResetHolding
<1>3. /\ pump'[s].pc = "idle"
      /\ pump' \in [Streams -> Pumps]
      /\ \A t \in Streams \ {s} : pump'[t] = pump[t]
  BY <1>1, WindowAssumption DEF ResetHolding, FreshPump, TypeOK, Pumps, PumpStates
<1>4. /\ Own(pump, s, "held") = pump[s].bytes /\ Own(pump', s, "held") = 0
      /\ Own(pump, s, "ready") = 0 /\ Own(pump', s, "ready") = 0
  BY <1>1, <1>3 DEF Own
<1>5. /\ BytesOf(pump, "held") \in Nat /\ BytesOf(pump, "ready") \in Nat
      /\ Own(pump, s, "held") <= BytesOf(pump, "held")
  BY <1>1, ChunkBytesFinite, BytesSplit, OwnBytesCardinality DEF TypeOK
<1>6. /\ owed.first \in Nat /\ owed.budget \in Nat /\ owed.sending \in Nat
      /\ wire \in Nat /\ unacked \in Nat /\ acks \in Nat
      /\ first \in Nat /\ budget \in Nat
  BY <1>1 DEF TypeOK
<1>7. /\ pump[s].bytes <= owed.sending
      /\ owed.sending <= owed.first + owed.budget
  BY <1>1, <1>4, <1>5, <1>6 DEF OwedIsInFlight, Unacknowledged
<1>8. /\ f \in Nat /\ b \in Nat
      /\ f <= owed.first /\ b <= owed.budget
      /\ f + b = pump[s].bytes
  BY <1>1, <1>6, <1>7, GiveBackSum
<1> HIDE DEF f, b
<1>9. TypeOK'
  <2>1. /\ first' \in Nat /\ budget' \in Nat
        /\ owed' \in [first : Nat, budget : Nat, sending : Nat]
    BY <1>1, <1>2, <1>6, <1>7, <1>8
  <2> QED
    BY <1>1, <1>3, <2>1 DEF ResetHolding, TypeOK
<1>10. PartsAddUp' /\ NoFalseViolation'
  BY <1>1, <1>2, <1>6, <1>8, CapsType DEF PartsAddUp, NoFalseViolation
<1>11. /\ BytesOf(pump', "held") = BytesOf(pump, "held") - pump[s].bytes
       /\ BytesOf(pump', "ready") = BytesOf(pump, "ready")
  BY <1>1, <1>3, <1>4, <1>9, PumpMove
<1>12. wire' = wire /\ unacked' = unacked /\ acks' = acks
  BY DEF ResetHolding
<1>13. OwedIsInFlight'
  BY <1>1, <1>2, <1>5, <1>6, <1>8, <1>11, <1>12 DEF OwedIsInFlight, Unacknowledged
<1> QED
  BY <1>9, <1>10, <1>13 DEF IInv

\* A stream that holds no bytes ends without touching the accounting.
LEMMA ResetOtherInv ==
    ASSUME IInv, NEW s \in Streams, ResetOther(s), UNCHANGED ended
    PROVE  IInv'
<1>1. /\ TypeOK /\ PartsAddUp /\ OwedIsInFlight /\ NoFalseViolation
      /\ pump[s] \in Pumps
  BY DEF IInv, TypeOK
<1>2. /\ pump'[s].pc = "idle"
      /\ pump' \in [Streams -> Pumps]
      /\ \A t \in Streams \ {s} : pump'[t] = pump[t]
  BY <1>1, WindowAssumption DEF ResetOther, FreshPump, TypeOK, Pumps, PumpStates
<1>3. TypeOK'
  <2>1. ahead' \in [Streams -> SUBSET Streams]
    BY <1>1, LeaveQueueType DEF ResetOther
  <2> QED
    BY <1>1, <1>2, <2>1 DEF ResetOther, TypeOK
<1>4. PartsAddUp' /\ NoFalseViolation'
  BY <1>1 DEF ResetOther, PartsAddUp, NoFalseViolation
<1>5. \A st \in {"held", "ready"} : Own(pump, s, st) = 0 /\ Own(pump', s, st) = 0
  BY <1>2 DEF ResetOther, Own
<1>6. \A st \in {"held", "ready"} : BytesOf(pump', st) = BytesOf(pump, st)
  BY <1>1, <1>2, <1>3, <1>5, PumpMove
<1>7. OwedIsInFlight'
  BY <1>1, <1>6 DEF ResetOther, OwedIsInFlight, Unacknowledged
<1> QED
  BY <1>3, <1>4, <1>7 DEF IInv

\* Reading bytes off the wire moves them to unacknowledged or to an acknowledgement.
LEMMA ReceivedInv ==
    ASSUME IInv, NEW n \in 1..Chunk, Received(n), UNCHANGED ended
    PROVE  IInv'
<1>1. /\ TypeOK /\ PartsAddUp /\ OwedIsInFlight /\ NoFalseViolation
      /\ n \in Nat /\ n <= wire
  BY WindowAssumption DEF IInv, Received
<1>2. \/ wire' = wire - n /\ acks' = acks + unacked + n /\ unacked' = 0
      \/ wire' = wire - n /\ acks' = acks /\ unacked' = unacked + n
  BY DEF Received
<1>3. /\ first' = first /\ budget' = budget /\ owed' = owed /\ pump' = pump
      /\ ahead' = ahead /\ ended' = ended
  BY DEF Received
<1>4. wire \in Nat /\ unacked \in Nat /\ acks \in Nat
  BY <1>1 DEF TypeOK
<1>5. TypeOK'
  <2>1. wire' \in Nat /\ unacked' \in Nat /\ acks' \in Nat
    BY <1>1, <1>2, <1>4
  <2>2. flushAt' \in BOOLEAN
    BY Zenon DEF Received
  <2> QED
    BY <1>1, <1>3, <2>1, <2>2 DEF TypeOK
<1>6. PartsAddUp' /\ NoFalseViolation'
  BY <1>1, <1>3 DEF PartsAddUp, NoFalseViolation
<1>7. OwedIsInFlight'
  <2>1. BytesOf(pump, "ready") \in Nat
    BY ChunkBytesFinite
  <2>2. /\ BytesOf(pump', "ready") = BytesOf(pump, "ready")
        /\ BytesOf(pump', "held") = BytesOf(pump, "held")
        /\ Unacknowledged' = Unacknowledged
        /\ owed'.sending = owed.sending
    BY <1>3 DEF Unacknowledged
  <2>3. BytesOf(pump, "ready") + wire' + unacked' + acks'
          = BytesOf(pump, "ready") + wire + unacked + acks
    BY <1>1, <1>2, <1>4, <2>1
  <2> QED
    BY <1>1, <2>2, <2>3 DEF OwedIsInFlight
<1> QED
  BY <1>5, <1>6, <1>7 DEF IInv

\* The delayed flush moves what is unacknowledged into an acknowledgement.
LEMMA FlushInv ==
    ASSUME IInv, Flush, UNCHANGED ended
    PROVE  IInv'
<1>1. TypeOK /\ PartsAddUp /\ OwedIsInFlight /\ NoFalseViolation
  BY DEF IInv
<1>2. TypeOK'
  <2>1. acks' \in Nat /\ unacked' \in Nat
    BY <1>1 DEF Flush, TypeOK
  <2>2. flushAt' \in BOOLEAN
    BY Zenon DEF Flush
  <2> QED
    BY <1>1, <2>1, <2>2 DEF Flush, TypeOK
<1>3. PartsAddUp' /\ NoFalseViolation'
  BY <1>1 DEF Flush, PartsAddUp, NoFalseViolation
<1>4. OwedIsInFlight'
  <2>1. BytesOf(pump, "ready") \in Nat
    BY ChunkBytesFinite
  <2> QED
    BY <1>1, <2>1 DEF Flush, OwedIsInFlight, Unacknowledged, TypeOK
<1> QED
  BY <1>2, <1>3, <1>4 DEF IInv

\* An honest acknowledgement is never refused, and pays each part no more than it owes.
LEMMA AcknowledgeInv ==
    ASSUME IInv, NEW n \in 1..Window, Acknowledge(n), ~ended
    PROVE  IInv'
<1> DEFINE pay == Lesser(n, owed.first)
<1>1. /\ TypeOK /\ PartsAddUp /\ OwedIsInFlight
      /\ n \in Nat /\ n <= acks
  BY WindowAssumption DEF IInv, Acknowledge
<1>2. BytesOf(pump, "held") \in Nat /\ BytesOf(pump, "ready") \in Nat
  BY ChunkBytesFinite
<1>3. /\ owed.first \in Nat /\ owed.budget \in Nat /\ owed.sending \in Nat
      /\ wire \in Nat /\ unacked \in Nat /\ acks \in Nat
      /\ first \in Nat /\ budget \in Nat
  BY <1>1 DEF TypeOK
<1>4. n <= owed.first + owed.budget - owed.sending
  BY <1>1, <1>2, <1>3 DEF OwedIsInFlight, Unacknowledged
<1>5. /\ owed' = [owed EXCEPT !.first = @ - pay, !.budget = @ - (n - pay)]
      /\ first' = first + pay
      /\ budget' = budget + (n - pay)
      /\ ended' = ended
      /\ acks' = acks - n
  BY <1>1, <1>3, <1>4 DEF Acknowledge, Unacknowledged
<1>6. pay \in Nat /\ pay <= n /\ pay <= owed.first /\ n - pay <= owed.budget
  BY <1>1, <1>3, <1>4 DEF Lesser
<1> HIDE DEF pay
<1>7. /\ pump' = pump /\ ahead' = ahead /\ wire' = wire /\ unacked' = unacked
      /\ flushAt' = flushAt
  BY DEF Acknowledge
<1>11. /\ owed'.first = owed.first - pay
       /\ owed'.budget = owed.budget - (n - pay)
       /\ owed'.sending = owed.sending
       /\ owed' = [first |-> owed.first - pay, budget |-> owed.budget - (n - pay),
                   sending |-> owed.sending]
  BY <1>1, <1>5 DEF TypeOK
<1>8. TypeOK'
  <2>1. /\ first' \in Nat /\ budget' \in Nat /\ acks' \in Nat
        /\ owed' \in [first : Nat, budget : Nat, sending : Nat]
    BY <1>1, <1>3, <1>5, <1>6, <1>11
  <2> QED
    BY <1>1, <1>5, <1>7, <2>1 DEF TypeOK
<1>9. PartsAddUp' /\ NoFalseViolation'
  BY <1>1, <1>3, <1>5, <1>6, CapsType DEF PartsAddUp, NoFalseViolation, TypeOK
<1>10. OwedIsInFlight'
  <2>1. /\ BytesOf(pump', "ready") = BytesOf(pump, "ready")
        /\ BytesOf(pump', "held") = BytesOf(pump, "held")
        /\ acks' = acks - n
        /\ Unacknowledged' = Unacknowledged - n
    BY <1>1, <1>3, <1>5, <1>6, <1>7, <1>11 DEF Unacknowledged
  <2>2. Unacknowledged \in Int
    BY <1>3 DEF Unacknowledged
  <2> QED
    BY <1>1, <1>2, <1>3, <1>7, <1>11, <2>1, <2>2 DEF OwedIsInFlight
<1> QED
  BY <1>8, <1>9, <1>10 DEF IInv

-----------------------------------------------------------------------------
\* Every step of the session, whichever pump or engine takes it, keeps the invariant.
LEMMA NextInv == IInv /\ [Next]_vars => IInv'
<1> SUFFICES ASSUME IInv, [Next]_vars PROVE IInv'
  OBVIOUS
<1>1. ASSUME NEW s \in Streams, PumpStep(s) PROVE IInv'
  BY <1>1, RequestInv, TakeFirstInv, TakeBudgetInv, QueueInv, ResetHoldingInv, ResetOtherInv
     DEF PumpStep
<1>2. ASSUME PeerStep, ~ended PROVE IInv'
  BY <1>2, ReceivedInv, FlushInv, AcknowledgeInv DEF PeerStep
<1>3. CASE UNCHANGED vars
  BY <1>3 DEF vars, IInv, TypeOK, PartsAddUp, OwedIsInFlight, NoFalseViolation,
              Unacknowledged, BytesOf, ChunkBytes
<1> QED
  BY <1>1, <1>2, <1>3 DEF Next

\* The counters of the session window are always well typed: no unsigned counter of
\* SessionOwed or SessionRecv underflows.
THEOREM TypeCorrect == Spec => []TypeOK
BY InitInv, NextInv, PTL DEF Spec, IInv

\* Free permits and debt always make up each part of the window.
THEOREM PartsAlwaysAddUp == Spec => []PartsAddUp
BY InitInv, NextInv, PTL DEF Spec, IInv

\* The sender's count of unacknowledged bytes is always exact.
THEOREM OwedAlwaysInFlight == Spec => []OwedIsInFlight
BY InitInv, NextInv, PTL DEF Spec, IInv

\* Honest members never end their session over an acknowledgement.
THEOREM NeverFalseViolation == Spec => []NoFalseViolation
BY InitInv, NextInv, PTL DEF Spec, IInv

\* The peer never has more than the window it granted coming.
THEOREM WindowAlwaysRespected == Spec => []WindowRespected
<1>1. IInv => WindowRespected
  <2> SUFFICES ASSUME IInv PROVE WindowRespected
    OBVIOUS
  <2>1. BytesOf(pump, "held") \in Nat /\ BytesOf(pump, "ready") \in Nat
    BY ChunkBytesFinite
  <2> QED
    BY <2>1, CapsType, WindowAssumption
       DEF IInv, TypeOK, PartsAddUp, OwedIsInFlight, Unacknowledged, WindowRespected
<1> QED
  BY <1>1, InitInv, NextInv, PTL DEF Spec

\* The window's books are right in every state, for every window, chunk and number of streams.
THEOREM WindowAlwaysSound == Spec => []WindowSound
<1>1. TypeOK /\ PartsAddUp /\ OwedIsInFlight /\ WindowRespected /\ NoFalseViolation => WindowSound
  BY DEF WindowSound
<1> QED
  BY <1>1, TypeCorrect, PartsAlwaysAddUp, OwedAlwaysInFlight, WindowAlwaysRespected,
     NeverFalseViolation, PTL
=============================================================================
