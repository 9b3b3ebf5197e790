------------------------- MODULE GrantSessionProofs -------------------------
(***************************************************************************)
(* A channel session stays within the two grants for every expiry, timer   *)
(* and poll order: proofs of GrantSession's OnlyWithinGrants, EndsRightly  *)
(* and WatchHolds.                                                         *)
(*                                                                         *)
(* The inductive invariant says what the gate and the lifetime know of the *)
(* grants (Bounded), how far the re-check is behind (Watched, Revoking),   *)
(* that a task that is not polled has left its waker wherever it must be   *)
(* woken from (Polled), and, for an application that keeps its side open,  *)
(* how late it can be in each state of the runner (Timely, Watchful).      *)
(***************************************************************************)
EXTENDS GrantSession, TLAPS

-----------------------------------------------------------------------------
(* Types. *)

Ends == {"no", "own", "peer"}
SetupRecords ==
    [check : BOOLEAN, watch : BOOLEAN, closes : BOOLEAN, own : Expiries, peer : Expiries,
     good : BOOLEAN]
GateRecords ==
    [on : BOOLEAN, out : Nat, got : Nat, verified : BOOLEAN, failed : BOOLEAN, deadline : Nat,
     reader : BOOLEAN]
LifeRecords == [expiry : Nat, peer : Nat, watch : BOOLEAN, ended : Ends]
TaskRecords ==
    [out : {"read", "eof", "err"}, in : {"read", "eof", "err"}, pollOut : BOOLEAN, pollIn : BOOLEAN,
     onExpiry : BOOLEAN, onWatch : BOOLEAN, onDeadline : BOOLEAN, shut : BOOLEAN]
WatcherRecords ==
    [st : {"none", "ask", "wait", "done"}, at : Nat, lastValid : Nat,
     msg : {"no", "own", "peer", "gone"}]
RunRecords == [st : {"pump", "grace", "drain", "ended"}, at : Nat]
PeerRecords == [net : Nat, closed : BOOLEAN]
SeenRecords == [data : Int, from : Nat, revoked : Nat]
CpRecords == [kind : Kinds, standing : {"members", "own", "peer"}]

\* Every record has its fields.
Typed ==
    /\ now \in Nat /\ now <= MaxTime
    /\ setup \in SetupRecords /\ gate \in GateRecords /\ life \in LifeRecords /\ record \in Ends
    /\ task \in TaskRecords /\ watcher \in WatcherRecords /\ cp \in CpRecords /\ run \in RunRecords
    /\ peer \in PeerRecords /\ peer.net <= NetCap /\ seen \in SeenRecords

\* No time of the model is later than Never.
LEMMA NeverIsLater ==
    /\ Never \in Nat /\ MaxTime \in Nat /\ MaxTime < Never
    /\ \A e \in Expiries : e \in Nat /\ e >= 1 /\ e < Never
  BY TimeAssumption DEF Never

\* Least is the smaller of two times.
LEMMA LeastIs ==
    ASSUME NEW a \in Nat, NEW b \in Nat
    PROVE  Least(a, b) \in {a, b} /\ Least(a, b) <= a /\ Least(a, b) <= b
  BY DEF Least

\* The session starts with everything in range.
LEMMA TypedInit == Init => Typed
  <1> SUFFICES ASSUME Init PROVE Typed
    OBVIOUS
  <1> USE NeverIsLater, TimeAssumption
  <1>1. PICK m \in Setups, own \in Expiries, other \in Expiries, good \in BOOLEAN :
          setup = [check |-> m.check, watch |-> m.watch, closes |-> m.closes,
                   own |-> own, peer |-> other, good |-> good]
    BY DEF Init
  <1>2. setup \in SetupRecords
    <2>1. m.check \in BOOLEAN /\ m.watch \in BOOLEAN /\ m.closes \in BOOLEAN
      BY DEF SessionSetups
    <2> QED
      BY <1>1, <2>1 DEF SetupRecords
  <1>3. gate \in GateRecords
    <2>1. setup.check \in BOOLEAN
      BY <1>2 DEF SetupRecords
    <2> QED
      BY <2>1 DEF Init, GateRecords
  <1>4. life \in LifeRecords
    BY <1>2 DEF Init, LifeRecords, SetupRecords, Ends
  <1>5. task \in TaskRecords
    BY DEF Init, TaskRecords
  <1>6. watcher \in WatcherRecords
    BY DEF Init, WatcherRecords
  <1>7. cp \in CpRecords /\ run \in RunRecords /\ peer \in PeerRecords /\ seen \in SeenRecords
    BY DEF Init, CpRecords, RunRecords, PeerRecords, SeenRecords
  <1>8. peer.net <= NetCap /\ now <= MaxTime
    BY DEF Init
  <1> QED
    BY <1>2, <1>3, <1>4, <1>5, <1>6, <1>7, <1>8 DEF Init, Typed, Ends

-----------------------------------------------------------------------------
(* What the steps do, field by field. *)

\* A poll that found no end left its waker wherever an end can come from.
LEMMA RegisteredIs ==
    ASSUME NEW t \in TaskRecords
    PROVE  /\ Registered(t) \in TaskRecords
           /\ Registered(t).out = t.out /\ Registered(t).in = t.in
           /\ (Registered(t).pollOut <=> t.pollOut) /\ (Registered(t).shut <=> t.shut)
           /\ Registered(t).onExpiry
           /\ (Registered(t).onWatch <=> life.watch /\ watcher.msg = "no")
  BY DEF Registered, TaskRecords

\* The reader's wake-up polls both directions.
LEMMA WokenIs ==
    ASSUME NEW g \in GateRecords, NEW t \in TaskRecords
    PROVE  /\ Woken(g, t) \in TaskRecords
           /\ Woken(g, t).out = t.out /\ Woken(g, t).in = t.in
           /\ (Woken(g, t).pollOut <=> t.pollOut \/ g.reader) /\ (Woken(g, t).shut <=> t.shut)
           /\ (Woken(g, t).onExpiry <=> t.onExpiry) /\ (Woken(g, t).onWatch <=> t.onWatch)
  BY DEF Woken, TaskRecords, GateRecords

\* The gate's deadline runs from its first poll on.
LEMMA ArmedIs ==
    ASSUME NEW g \in GateRecords, now \in Nat
    PROVE  /\ Armed(g) \in GateRecords
           /\ Armed(g).out = g.out /\ Armed(g).got = g.got
           /\ (Armed(g).on <=> g.on) /\ (Armed(g).verified <=> g.verified)
           /\ (Armed(g).failed <=> g.failed) /\ (Armed(g).reader <=> g.reader)
  BY TimeAssumption DEF Armed, GateRecords

\* A refusal changes nothing else.
LEMMA FailedIs ==
    ASSUME NEW g \in GateRecords
    PROVE  /\ Failed(g) \in GateRecords
           /\ Failed(g).out = g.out /\ Failed(g).got = g.got
           /\ (Failed(g).on <=> g.on) /\ (Failed(g).verified <=> g.verified)
           /\ Failed(g).failed /\ ~Failed(g).reader
  BY DEF Failed, GateRecords

\* The gate goes once both preludes are through.
LEMMA OpenedIs ==
    ASSUME NEW g \in GateRecords
    PROVE  /\ Opened(g) \in GateRecords
           /\ Opened(g).out = g.out /\ Opened(g).got = g.got
           /\ (Opened(g).on <=> ~(g.verified /\ g.out = 0)) /\ (Opened(g).verified <=> g.verified)
           /\ (Opened(g).failed <=> g.failed) /\ (Opened(g).reader <=> g.reader)
  BY DEF Opened, GateRecords

\* A grant's end, as a poll of either direction records it.
EndsLife ==
    /\ PollEnded # "no"
    /\ life' \in LifeRecords /\ life'.ended = PollEnded /\ ~life'.watch /\ life'.peer = life.peer
    /\ life'.expiry = Never
    /\ record' = (IF record = "no" THEN PollEnded ELSE record)

\* The gate but for what is named: its flags, or its counters.
SameFlags == (gate'.verified <=> gate.verified) /\ (gate'.failed <=> gate.failed)
SameCounts == gate'.out = gate.out /\ gate'.got = gate.got

\* The task's wakers are where an end can come from.
Left == task'.onExpiry /\ (task'.onWatch <=> life.watch /\ watcher.msg = "no")

OutEnds ==
    /\ EndsLife
    /\ task'.out = "eof" /\ task'.shut
    /\ gate' = gate /\ seen' = seen

OutTells ==
    /\ gate.on /\ gate.out > 0
    /\ gate'.out = gate.out - 1 /\ gate'.got = gate.got
    /\ (gate'.on <=> ~(gate.verified /\ gate'.out = 0)) /\ SameFlags
    /\ task'.out = "read" /\ task'.pollOut
    /\ seen' = seen

OutFails ==
    /\ gate.on /\ (gate.failed \/ ~gate.verified)
    /\ gate'.on /\ (gate'.verified <=> gate.verified) /\ gate'.failed /\ SameCounts
    /\ task'.out = "err"
    /\ seen' = seen

OutWaits ==
    /\ gate.on /\ ~gate.verified /\ ~gate.failed
    /\ gate'.on /\ SameFlags /\ SameCounts /\ gate'.reader
    /\ task'.out = "read" /\ Left
    /\ seen' = seen

OutReads ==
    /\ \/ ~gate.on /\ gate' = gate
       \/ gate.on /\ gate.verified /\ ~gate.failed /\ ~gate'.on /\ SameFlags /\ SameCounts
    /\ Left
    /\ \/ task'.out = "read" /\ (seen' = [seen EXCEPT !.data = now] \/ seen' = seen)
       \/ task'.out = "eof" /\ setup.closes /\ seen' = seen

\* One poll of the outbound direction has one of five outcomes.
LEMMA OutboundDoes ==
    ASSUME Typed, Outbound
    PROVE  /\ Running /\ task.out = "read"
           /\ UNCHANGED <<now, setup, watcher, cp, run, peer>>
           /\ gate' \in GateRecords /\ task' \in TaskRecords /\ seen' \in SeenRecords
           /\ \/ OutEnds
              \/ /\ PollEnded = "no" /\ life' = life /\ record' = record /\ (task'.shut <=> task.shut)
                 /\ OutTells \/ OutFails \/ OutWaits \/ OutReads
  <1>0. /\ Running /\ task.out = "read" /\ task.pollOut
        /\ UNCHANGED <<now, setup, watcher, cp, run, peer>>
    BY DEF Outbound
  <1>T. /\ now \in Nat /\ gate \in GateRecords /\ life \in LifeRecords /\ task \in TaskRecords
        /\ seen \in SeenRecords /\ setup \in SetupRecords
    BY DEF Typed
  <1>R. /\ Registered(task) \in TaskRecords
        /\ Registered(task).out = "read" /\ Registered(task).pollOut
        /\ (Registered(task).shut <=> task.shut)
        /\ Registered(task).onExpiry
        /\ (Registered(task).onWatch <=> life.watch /\ watcher.msg = "no")
    BY <1>0, <1>T, RegisteredIs
  <1>A. /\ Armed(gate) \in GateRecords
        /\ Armed(gate).out = gate.out /\ Armed(gate).got = gate.got
        /\ (Armed(gate).on <=> gate.on) /\ (Armed(gate).verified <=> gate.verified)
        /\ (Armed(gate).failed <=> gate.failed) /\ (Armed(gate).reader <=> gate.reader)
    BY <1>T, ArmedIs
  <1>1. CASE PollEnded # "no"
    <2>1. /\ End(PollEnded) /\ gate' = gate /\ seen' = seen
          /\ task' = [task EXCEPT !.out = "eof", !.shut = TRUE]
      BY <1>1 DEF Outbound
    <2>2. task' \in TaskRecords /\ task'.out = "eof" /\ task'.shut
      BY <1>T, <2>1 DEF TaskRecords
    <2>3. EndsLife
      <3>1. PollEnded \in Ends
        BY <1>T DEF PollEnded, ExpiredGrant, LifeRecords, Typed, WatcherRecords, Ends
      <3> QED
        BY <1>T, <1>1, <2>1, <3>1, NeverIsLater DEF End, EndsLife, LifeRecords
    <2> QED
      BY <1>0, <1>T, <2>1, <2>2, <2>3 DEF OutEnds
  <1>L. ASSUME ReadLocal
        PROVE  /\ task' \in TaskRecords /\ seen' \in SeenRecords /\ Left /\ (task'.shut <=> task.shut)
               /\ \/ task'.out = "read" /\ (seen' = [seen EXCEPT !.data = now] \/ seen' = seen)
                  \/ task'.out = "eof" /\ setup.closes /\ seen' = seen
    <2>1. CASE task' = [Registered(task) EXCEPT !.pollOut = FALSE]
      <3>1. task' \in TaskRecords /\ Left /\ (task'.shut <=> task.shut) /\ task'.out = "read"
        BY <1>R, <2>1 DEF TaskRecords, Left
      <3>2. CASE seen' = [seen EXCEPT !.data = now]
        <4>1. seen' \in SeenRecords
          BY <1>T, <3>2 DEF SeenRecords
        <4> QED
          BY <3>1, <3>2, <4>1
      <3>3. CASE seen' = seen
        BY <1>T, <3>1, <3>3
      <3>4. CASE setup.closes /\ task' = [Registered(task) EXCEPT !.out = "eof"] /\ seen' = seen
        BY <1>T, <3>1, <3>4
      <3> QED
        BY <1>L, <3>2, <3>3, <3>4 DEF ReadLocal
    <2>2. CASE setup.closes /\ task' = [Registered(task) EXCEPT !.out = "eof"] /\ seen' = seen
      <3>1. task' \in TaskRecords /\ Left /\ (task'.shut <=> task.shut) /\ task'.out = "eof"
        BY <1>R, <2>2 DEF TaskRecords, Left
      <3> QED
        BY <1>T, <2>2, <3>1
    <2> QED
      BY <1>L, <2>1, <2>2 DEF ReadLocal
  <1>2. CASE PollEnded = "no" /\ ~gate.on
    <2>1. ReadLocal /\ gate' = gate /\ life' = life /\ record' = record
      BY <1>2 DEF Outbound
    <2> QED
      BY <1>0, <1>2, <1>T, <1>L, <2>1 DEF OutReads
  <1>3. CASE PollEnded = "no" /\ gate.on
    <2>0. PollRead /\ life' = life /\ record' = record
      BY <1>3 DEF Outbound
    <2>1. CASE gate.out > 0
      <3>1. /\ gate' = Opened([Armed(gate) EXCEPT !.out = @ - 1])
            /\ task' = Registered(task) /\ seen' = seen
        BY <2>0, <2>1 DEF PollRead
      <3> DEFINE g == [Armed(gate) EXCEPT !.out = @ - 1]
      <3>2. /\ g \in GateRecords /\ g.out = gate.out - 1 /\ g.got = gate.got
            /\ (g.verified <=> gate.verified) /\ (g.failed <=> gate.failed)
        <4>1. gate.out \in Nat /\ gate.out - 1 \in Nat
          BY <1>T, <2>1 DEF GateRecords
        <4> QED
          BY <1>A, <4>1 DEF GateRecords
      <3> HIDE DEF g
      <3>3. gate' = Opened(g)
        BY <3>1 DEF g
      <3>4. /\ gate' \in GateRecords /\ gate'.out = gate.out - 1 /\ gate'.got = gate.got
            /\ (gate'.on <=> ~(gate.verified /\ gate'.out = 0)) /\ SameFlags
        BY <3>2, <3>3, OpenedIs DEF SameFlags
      <3>5. OutTells
        BY <1>3, <1>R, <2>1, <3>1, <3>4 DEF OutTells
      <3> QED
        BY <1>0, <1>3, <1>T, <1>R, <2>0, <3>1, <3>4, <3>5
    <2>2. CASE ~(gate.out > 0) /\ (gate.failed \/ (~gate.verified /\ Armed(gate).deadline <= now))
      <3>1. gate' = Failed(Armed(gate)) /\ task' = [task EXCEPT !.out = "err"] /\ seen' = seen
        BY <2>0, <2>2 DEF PollRead
      <3>2. task' \in TaskRecords /\ task'.out = "err" /\ (task'.shut <=> task.shut)
        BY <1>T, <3>1 DEF TaskRecords
      <3>3. /\ gate' \in GateRecords /\ gate'.on /\ (gate'.verified <=> gate.verified)
            /\ gate'.failed /\ SameCounts
        BY <1>3, <1>A, <3>1, FailedIs DEF SameCounts
      <3> QED
        BY <1>0, <1>3, <1>T, <2>0, <2>2, <3>1, <3>2, <3>3 DEF OutFails
    <2>3. CASE /\ ~(gate.out > 0)
               /\ ~(gate.failed \/ (~gate.verified /\ Armed(gate).deadline <= now))
               /\ ~gate.verified
      <3>1. /\ gate' = [Armed(gate) EXCEPT !.reader = TRUE] /\ seen' = seen
            /\ task' = [Registered(task) EXCEPT !.pollOut = FALSE, !.onDeadline = TRUE]
        BY <2>0, <2>3 DEF PollRead
      <3>2. task' \in TaskRecords /\ task'.out = "read" /\ Left /\ (task'.shut <=> task.shut)
        BY <1>R, <3>1 DEF TaskRecords, Left
      <3>3. gate' \in GateRecords /\ gate'.on /\ SameFlags /\ SameCounts /\ gate'.reader
        BY <1>3, <1>A, <3>1 DEF GateRecords, SameFlags, SameCounts
      <3> QED
        BY <1>0, <1>3, <1>T, <2>0, <2>3, <3>1, <3>2, <3>3 DEF OutWaits
    <2>4. CASE /\ ~(gate.out > 0)
               /\ ~(gate.failed \/ (~gate.verified /\ Armed(gate).deadline <= now))
               /\ gate.verified
      <3>1. gate' = [Armed(gate) EXCEPT !.on = FALSE] /\ ReadLocal
        BY <2>0, <2>4 DEF PollRead
      <3>2. gate' \in GateRecords /\ ~gate'.on /\ SameFlags /\ SameCounts
        BY <1>A, <3>1 DEF GateRecords, SameFlags, SameCounts
      <3> QED
        BY <1>0, <1>3, <1>T, <1>L, <2>0, <2>4, <3>1, <3>2 DEF OutReads
    <2> QED
      BY <2>1, <2>2, <2>3, <2>4
  <1> QED
    BY <1>1, <1>2, <1>3

InEnds ==
    /\ EndsLife
    /\ (task'.pollOut <=> task.pollOut \/ WakeDue) /\ (task'.shut <=> task.shut)
    /\ (task'.onExpiry <=> task.onExpiry) /\ (task'.onWatch <=> task.onWatch)
    /\ gate' = gate /\ watcher' = watcher /\ seen' = seen

\* A unit that changes nothing but the poll's wakers: a write that is refused has none.
InTask ==
    /\ (task'.pollOut <=> task.pollOut) /\ (task'.shut <=> task.shut)
    /\ life' = life /\ record' = record /\ watcher' = watcher

InRefused ==
    /\ gate.on /\ gate.failed
    /\ InTask /\ (task'.onExpiry <=> task.onExpiry) /\ (task'.onWatch <=> task.onWatch)
    /\ gate' = gate /\ seen' = seen

InPrelude ==
    /\ gate.on /\ ~gate.verified /\ ~gate.failed
    /\ gate'.on /\ SameFlags /\ (gate'.reader <=> gate.reader)
    /\ gate'.out = gate.out /\ gate'.got = gate.got + 1 /\ gate'.got < Prelude
    /\ InTask /\ Left
    /\ seen' = seen

InVerifies ==
    /\ gate.on /\ ~gate.verified /\ ~gate.failed
    /\ setup.good /\ now < setup.peer
    /\ (gate'.on <=> gate.out # 0) /\ gate'.verified /\ ~gate'.failed
    /\ gate'.out = gate.out /\ gate'.got = Prelude
    /\ life' \in LifeRecords /\ life'.peer = setup.peer /\ life'.ended = life.ended
    /\ life'.expiry = Least(setup.own, setup.peer) /\ (life'.watch <=> setup.watch)
    /\ record' = record
    /\ (task'.pollOut <=> task.pollOut \/ gate.reader) /\ (task'.shut <=> task.shut)
    /\ watcher' = (IF setup.watch
                   THEN [st |-> "ask", at |-> now + RequestTimeout, lastValid |-> now, msg |-> "no"]
                   ELSE watcher)
    /\ seen' = [seen EXCEPT !.from = now]

InRejects ==
    /\ gate.on /\ ~gate.verified /\ ~gate.failed
    /\ gate'.on /\ ~gate'.verified /\ gate'.failed /\ gate'.out = gate.out
    /\ gate'.got = gate.got + 1
    /\ (task'.pollOut <=> task.pollOut \/ gate.reader) /\ (task'.shut <=> task.shut)
    /\ (task'.onExpiry <=> task.onExpiry) /\ (task'.onWatch <=> task.onWatch)
    /\ life' = life /\ record' = record /\ watcher' = watcher /\ seen' = seen

InData ==
    /\ gate.on => gate.verified
    /\ seen' = [seen EXCEPT !.data = now]
    /\ InTask /\ Left
    /\ gate' = gate

\* One unit from the peer has one of six outcomes.
LEMMA InboundDoes ==
    ASSUME Typed, Inbound
    PROVE  /\ Running /\ task'.out = task.out
           /\ UNCHANGED <<now, setup, cp, run>>
           /\ gate' \in GateRecords /\ task' \in TaskRecords /\ seen' \in SeenRecords
           /\ watcher' \in WatcherRecords
           /\ peer' \in PeerRecords /\ peer'.net <= peer.net
           /\ \/ InEnds
              \/ /\ PollEnded = "no"
                 /\ InRefused \/ InPrelude \/ InVerifies \/ InRejects \/ InData
  <1>0. /\ Running /\ task.in = "read" /\ peer.net > 0 /\ peer' = [peer EXCEPT !.net = @ - 1]
        /\ UNCHANGED <<now, setup, cp, run>>
    BY DEF Inbound
  <1>T. /\ now \in Nat /\ gate \in GateRecords /\ life \in LifeRecords /\ task \in TaskRecords
        /\ seen \in SeenRecords /\ setup \in SetupRecords /\ peer \in PeerRecords
        /\ watcher \in WatcherRecords
    BY DEF Typed
  <1>P. peer' \in PeerRecords /\ peer'.net <= peer.net
    <2>1. peer.net \in Nat /\ peer.net - 1 \in Nat
      BY <1>0, <1>T DEF PeerRecords
    <2> QED
      BY <1>0, <1>T, <2>1 DEF PeerRecords
  <1>R. /\ Registered(task) \in TaskRecords
        /\ Registered(task).out = task.out /\ (Registered(task).pollOut <=> task.pollOut)
        /\ (Registered(task).shut <=> task.shut)
        /\ Registered(task).onExpiry
        /\ (Registered(task).onWatch <=> life.watch /\ watcher.msg = "no")
    BY <1>T, RegisteredIs
  <1>1. CASE PollEnded # "no"
    <2>1. /\ End(PollEnded) /\ gate' = gate /\ seen' = seen /\ watcher' = watcher
          /\ task' = [task EXCEPT !.in = "err", !.pollOut = @ \/ WakeDue]
      BY <1>1 DEF Inbound
    <2>2. /\ task' \in TaskRecords /\ task'.out = task.out
          /\ (task'.pollOut <=> task.pollOut \/ WakeDue) /\ (task'.shut <=> task.shut)
          /\ (task'.onExpiry <=> task.onExpiry) /\ (task'.onWatch <=> task.onWatch)
      BY <1>T, <2>1 DEF TaskRecords
    <2>3. EndsLife
      <3>1. PollEnded \in Ends
        BY <1>T DEF PollEnded, ExpiredGrant, LifeRecords, Typed, WatcherRecords, Ends
      <3> QED
        BY <1>T, <1>1, <2>1, <3>1, NeverIsLater DEF End, EndsLife, LifeRecords
    <2> QED
      BY <1>0, <1>T, <1>P, <2>1, <2>2, <2>3 DEF InEnds
  <1>2. CASE PollEnded = "no" /\ gate.on /\ gate.failed
    <2>1. /\ task' = [task EXCEPT !.in = "err"]
          /\ UNCHANGED <<gate, life, record, watcher, seen>>
      BY <1>2 DEF Inbound
    <2>2. /\ task' \in TaskRecords /\ task'.out = task.out
          /\ (task'.pollOut <=> task.pollOut) /\ (task'.shut <=> task.shut)
          /\ (task'.onExpiry <=> task.onExpiry) /\ (task'.onWatch <=> task.onWatch)
      BY <1>T, <2>1 DEF TaskRecords
    <2> QED
      BY <1>0, <1>2, <1>T, <1>P, <2>1, <2>2 DEF InRefused, InTask
  <1>3. CASE PollEnded = "no" /\ gate.on /\ ~gate.failed /\ ~gate.verified
    <2>0. PollPrelude /\ record' = record
      BY <1>3 DEF Inbound
    <2> DEFINE g == [Armed(gate) EXCEPT !.got = @ + 1]
    <2>A. /\ g \in GateRecords /\ g.out = gate.out /\ g.got = gate.got + 1
          /\ g.on /\ ~g.verified /\ ~g.failed /\ (g.reader <=> gate.reader)
      <3>1. gate.got \in Nat /\ gate.got + 1 \in Nat
        BY <1>T DEF GateRecords
      <3> QED
        BY <1>3, <1>T, <3>1, ArmedIs DEF GateRecords
    <2>1. CASE g.got < Prelude
      <3>1. gate' = g /\ task' = Registered(task) /\ UNCHANGED <<life, watcher, seen>>
        BY <2>0, <2>1 DEF PollPrelude
      <3> HIDE DEF g
      <3>2. InPrelude
        BY <1>3, <1>R, <2>0, <2>1, <2>A, <3>1 DEF InPrelude, InTask, SameFlags, Left
      <3> QED
        BY <1>0, <1>3, <1>T, <1>P, <1>R, <2>A, <3>1, <3>2
    <2>2. CASE ~(g.got < Prelude) /\ GoodGrant
      <3>1. Verify /\ seen' = [seen EXCEPT !.from = now]
        BY <2>0, <2>2 DEF PollPrelude
      <3> DEFINE h == [gate EXCEPT !.got = Prelude, !.verified = TRUE, !.reader = FALSE]
                 t == [task EXCEPT !.onExpiry = FALSE, !.onWatch = FALSE]
      <3>2. /\ h \in GateRecords /\ h.out = gate.out /\ h.got = Prelude /\ h.verified /\ ~h.failed
        BY <1>3, <1>T, TimeAssumption DEF GateRecords
      <3>3. /\ t \in TaskRecords /\ t.out = task.out /\ (t.pollOut <=> task.pollOut)
            /\ (t.shut <=> task.shut)
        BY <1>T DEF TaskRecords
      <3>4. gate' = Opened(h) /\ task' = Woken(gate, t)
        BY <3>1 DEF Verify
      <3> HIDE DEF h, t
      <3>5. /\ gate' \in GateRecords /\ gate'.out = gate.out /\ gate'.got = Prelude
            /\ (gate'.on <=> gate.out # 0) /\ gate'.verified /\ ~gate'.failed
        BY <3>2, <3>4, OpenedIs
      <3>6. /\ task' \in TaskRecords /\ task'.out = task.out
            /\ (task'.pollOut <=> task.pollOut \/ gate.reader) /\ (task'.shut <=> task.shut)
        BY <1>T, <3>3, <3>4, WokenIs
      <3>7. /\ setup.own \in Nat /\ setup.peer \in Nat /\ setup.watch \in BOOLEAN
            /\ Least(setup.own, setup.peer) \in Nat
        BY <1>T, NeverIsLater, LeastIs DEF SetupRecords
      <3>8. /\ life' \in LifeRecords /\ life'.peer = setup.peer /\ life'.ended = life.ended
            /\ life'.expiry = Least(setup.own, setup.peer) /\ (life'.watch <=> setup.watch)
        BY <1>T, <3>1, <3>7 DEF Verify, LifeRecords
      <3>9. /\ watcher' = (IF setup.watch
                           THEN [st |-> "ask", at |-> now + RequestTimeout, lastValid |-> now, msg |-> "no"]
                           ELSE watcher)
        BY <3>1 DEF Verify
      <3>10. watcher' \in WatcherRecords
        <4>1. now + RequestTimeout \in Nat
          BY <1>T, TimeAssumption
        <4> QED
          BY <1>T, <3>9, <4>1 DEF WatcherRecords
      <3>11. seen' \in SeenRecords
        BY <1>T, <3>1 DEF SeenRecords
      <3>12. InVerifies
        BY <1>3, <2>0, <2>2, <3>1, <3>5, <3>6, <3>8, <3>9 DEF InVerifies, GoodGrant
      <3> QED
        BY <1>0, <1>3, <1>P, <3>5, <3>6, <3>10, <3>11, <3>12
    <2>3. CASE ~(g.got < Prelude) /\ ~GoodGrant
      <3>1. /\ gate' = Failed(g) /\ task' = [Woken(gate, task) EXCEPT !.in = "err"]
            /\ UNCHANGED <<life, watcher, seen>>
        BY <2>0, <2>3 DEF PollPrelude
      <3> HIDE DEF g
      <3>2. /\ gate' \in GateRecords /\ gate'.on /\ ~gate'.verified /\ gate'.failed
            /\ gate'.out = gate.out /\ gate'.got = gate.got + 1
        BY <2>A, <3>1, FailedIs
      <3>3. /\ task' \in TaskRecords /\ task'.out = task.out
            /\ (task'.pollOut <=> task.pollOut \/ gate.reader) /\ (task'.shut <=> task.shut)
            /\ (task'.onExpiry <=> task.onExpiry) /\ (task'.onWatch <=> task.onWatch)
        BY <1>T, <3>1, WokenIs DEF TaskRecords
      <3>4. InRejects
        BY <1>3, <2>0, <3>1, <3>2, <3>3 DEF InRejects
      <3> QED
        BY <1>0, <1>3, <1>T, <1>P, <3>1, <3>2, <3>3, <3>4
    <2> QED
      BY <2>1, <2>2, <2>3
  <1>4. CASE PollEnded = "no" /\ (gate.on => gate.verified) /\ ~(gate.on /\ gate.failed)
    <2>1. /\ seen' = [seen EXCEPT !.data = now] /\ task' = Registered(task)
          /\ UNCHANGED <<gate, life, record, watcher>>
      BY <1>4 DEF Inbound
    <2>2. seen' \in SeenRecords
      BY <1>T, <2>1 DEF SeenRecords
    <2> QED
      BY <1>0, <1>4, <1>T, <1>P, <1>R, <2>1, <2>2 DEF InData, InTask, Left
  <1> QED
    BY <1>1, <1>2, <1>3, <1>4

\* The peer's close has one of two outcomes.
LEMMA InboundEndDoes ==
    ASSUME Typed, InboundEnd
    PROVE  /\ Running /\ task'.out = task.out
           /\ UNCHANGED <<now, setup, life, record, watcher, cp, run, peer, seen>>
           /\ gate' \in GateRecords /\ task' \in TaskRecords
           /\ (task'.onExpiry <=> task.onExpiry) /\ (task'.onWatch <=> task.onWatch)
           /\ task.shut => task'.shut
           /\ \/ /\ gate' = gate /\ (task'.pollOut <=> task.pollOut)
              \/ /\ gate.on /\ ~gate.verified
                 /\ gate'.on /\ ~gate'.verified /\ gate'.failed /\ SameCounts
                 /\ (task'.pollOut <=> task.pollOut \/ gate.reader)
  <1>T. gate \in GateRecords /\ task \in TaskRecords
    BY DEF Typed
  <1>1. CASE gate.on /\ ~gate.verified /\ ~gate.failed
    <2>1. gate' = Failed(gate) /\ task' = [Woken(gate, task) EXCEPT !.in = "eof"]
      BY <1>1 DEF InboundEnd
    <2>2. /\ gate' \in GateRecords /\ gate'.on /\ ~gate'.verified /\ gate'.failed /\ SameCounts
      BY <1>1, <1>T, <2>1, FailedIs DEF SameCounts
    <2>3. /\ task' \in TaskRecords /\ task'.out = task.out /\ (task.shut => task'.shut)
          /\ (task'.pollOut <=> task.pollOut \/ gate.reader)
          /\ (task'.onExpiry <=> task.onExpiry) /\ (task'.onWatch <=> task.onWatch)
      BY <1>T, <2>1, WokenIs DEF TaskRecords
    <2> QED
      BY <1>1, <2>2, <2>3 DEF InboundEnd
  <1>2. CASE ~(gate.on /\ ~gate.verified /\ ~gate.failed)
    <2>1. gate' = gate /\ task' = [task EXCEPT !.in = "eof", !.shut = TRUE]
      BY <1>2 DEF InboundEnd
    <2>2. /\ task' \in TaskRecords /\ task'.out = task.out /\ task'.shut
          /\ (task'.pollOut <=> task.pollOut)
          /\ (task'.onExpiry <=> task.onExpiry) /\ (task'.onWatch <=> task.onWatch)
      BY <1>T, <2>1 DEF TaskRecords
    <2> QED
      BY <1>T, <2>1, <2>2 DEF InboundEnd
  <1> QED
    BY <1>1, <1>2

\* A wake-up, of a waker, of the application or by the peer's bytes or close: the outbound
\* direction is polled, and nothing else changes but what the peer has sent.
Polls == Wake \/ AppReady \/ PeerSends \/ PeerCloses

\* A wake-up changes nothing but that the pump is to be polled.
LEMMA PollsDo ==
    ASSUME Typed, Polls
    PROVE  /\ UNCHANGED <<now, setup, gate, life, record, watcher, cp, run, seen>>
           /\ task' \in TaskRecords /\ peer' \in PeerRecords /\ peer'.net <= NetCap
           /\ task'.out = task.out /\ task'.pollOut /\ (task'.shut <=> task.shut)
  <1>T. task \in TaskRecords /\ peer \in PeerRecords /\ peer.net <= NetCap
    BY DEF Typed
  <1>1. UNCHANGED <<now, setup, gate, life, record, watcher, cp, run, seen>>
    BY DEF Polls, Wake, AppReady, PeerSends, PeerCloses
  <1>2. task' \in TaskRecords /\ task'.out = task.out /\ task'.pollOut /\ (task'.shut <=> task.shut)
    BY <1>T DEF Polls, Wake, AppReady, PeerSends, PeerCloses, TaskRecords
  <1>3. peer' \in PeerRecords /\ peer'.net <= NetCap
    <2>1. CASE PeerSends
      <3>1. peer.net + 1 \in Nat /\ peer.net + 1 <= NetCap
        BY <1>T, <2>1, TimeAssumption DEF PeerSends, PeerRecords
      <3> QED
        BY <1>T, <2>1, <3>1 DEF PeerSends, PeerRecords
    <2>2. CASE PeerCloses
      BY <1>T, <2>2 DEF PeerCloses, PeerRecords
    <2>3. CASE Wake \/ AppReady
      BY <1>T, <2>3 DEF Wake, AppReady
    <2> QED
      BY <2>1, <2>2, <2>3 DEF Polls
  <1> QED
    BY <1>1, <1>2, <1>3

\* A step of the runner.
Runs == RunPumped \/ RunGrace \/ RunGiveUp \/ RunDrained

\* A step of the runner changes the runner and the shut-down of the local side.
LEMMA RunsDo ==
    ASSUME Typed, Runs
    PROVE  /\ UNCHANGED <<now, setup, gate, life, record, watcher, cp, peer, seen>>
           /\ task' \in TaskRecords /\ run' \in RunRecords
           /\ task'.out = task.out /\ (task'.pollOut <=> task.pollOut) /\ (task.shut => task'.shut)
           /\ (task'.onExpiry <=> task.onExpiry) /\ (task'.onWatch <=> task.onWatch)
           /\ \/ Running /\ run'.st = "drain" /\ run'.at = now + RelayDrain
              \/ run.st = "pump" /\ LocalOver /\ run'.st = "grace" /\ run'.at = now + FailGrace
              \/ run.st = "grace" /\ run'.st = "drain" /\ run'.at = now + FailDrain
              \/ run.st = "drain" /\ run'.st = "ended"
  <1>T. task \in TaskRecords /\ run \in RunRecords /\ now \in Nat
    BY DEF Typed
  <1>1. UNCHANGED <<now, setup, gate, life, record, watcher, cp, peer, seen>>
    BY DEF Runs, RunPumped, RunGrace, RunGiveUp, RunDrained
  <1>2. /\ task' \in TaskRecords /\ task'.out = task.out /\ (task'.pollOut <=> task.pollOut)
        /\ (task.shut => task'.shut)
        /\ (task'.onExpiry <=> task.onExpiry) /\ (task'.onWatch <=> task.onWatch)
    BY <1>T DEF Runs, RunPumped, RunGrace, RunGiveUp, RunDrained, TaskRecords
  <1>3. /\ now + RelayDrain \in Nat /\ now + FailGrace \in Nat /\ now + FailDrain \in Nat
        /\ Never \in Nat
    BY <1>T, TimeAssumption, NeverIsLater
  <1>4. run' \in RunRecords
    BY <1>T, <1>3 DEF Runs, RunPumped, RunGrace, RunGiveUp, RunDrained, RunRecords
  <1>5. \/ Running /\ run'.st = "drain" /\ run'.at = now + RelayDrain
        \/ run.st = "pump" /\ LocalOver /\ run'.st = "grace" /\ run'.at = now + FailGrace
        \/ run.st = "grace" /\ run'.st = "drain" /\ run'.at = now + FailDrain
        \/ run.st = "drain" /\ run'.st = "ended"
    BY DEF Runs, RunPumped, RunGrace, RunGiveUp, RunDrained
  <1> QED
    BY <1>1, <1>2, <1>4, <1>5

\* A step of the re-check.
Watches == WatchAnswer \/ WatchAsk \/ WatchClosed \/ WatchDies

\* An answer that ends nothing: the next request is an interval away.
AnswersOn ==
    /\ Listening
    /\ watcher.st = "ask" /\ watcher'.st = "wait" /\ watcher'.at = now + Interval
    /\ watcher'.msg = watcher.msg
    /\ \/ watcher'.lastValid = watcher.lastValid /\ now - watcher.lastValid < Grace
       \/ watcher'.lastValid = now /\ Verdict \notin {"unreadable", "own", "peer"}

\* An answer, or the want of one for the grace, that ends the session.
AnswersEnd ==
    /\ watcher.st = "ask" /\ watcher'.st = "done" /\ watcher'.lastValid = watcher.lastValid
    /\ \/ watcher'.msg = "own" /\ Verdict = "own"
       \/ watcher'.msg = "peer" /\ Verdict = "peer"
       \/ watcher'.msg = "peer" /\ now - watcher.lastValid >= Grace

\* A step of the re-check changes only the re-check, in one of four ways.
LEMMA WatchesDo ==
    ASSUME Typed, Watches
    PROVE  /\ UNCHANGED <<now, setup, gate, life, record, task, cp, run, peer, seen>>
           /\ watcher' \in WatcherRecords
           /\ \/ AnswersOn
              \/ AnswersEnd
              \/ /\ watcher.st = "wait" /\ watcher'.st = "ask" /\ watcher.at <= now
                 /\ watcher'.at = now + RequestTimeout
                 /\ watcher'.lastValid = watcher.lastValid /\ watcher'.msg = watcher.msg
              \/ /\ ~Listening /\ watcher.st \in {"ask", "wait"} /\ watcher'.st = "done"
                 /\ watcher'.lastValid = watcher.lastValid /\ watcher'.msg = watcher.msg
              \/ /\ watcher.st \in {"ask", "wait"} /\ watcher'.st = "done" /\ watcher'.msg = "gone"
                 /\ watcher'.lastValid = watcher.lastValid
  <1>T. watcher \in WatcherRecords /\ now \in Nat /\ watcher.lastValid \in Nat
    BY DEF Typed, WatcherRecords
  <1>1. UNCHANGED <<now, setup, gate, life, record, task, cp, run, peer, seen>>
    BY DEF Watches, WatchAnswer, WatchAsk, WatchClosed, WatchDies
  <1>N. now + Interval \in Nat /\ now + RequestTimeout \in Nat /\ Never \in Nat
    BY <1>T, TimeAssumption, NeverIsLater
  <1>2. CASE WatchAnswer
    <2> DEFINE ends == IF Verdict = "unreadable" THEN now - watcher.lastValid >= Grace
                       ELSE Verdict \in {"own", "peer"}
    <2>1. CASE ends
      <3>1. /\ watcher.st = "ask" /\ Listening
            /\ watcher' = [watcher EXCEPT !.st = "done", !.at = Never,
                                          !.msg = IF Verdict = "own" THEN "own" ELSE "peer"]
        BY <1>2, <2>1 DEF WatchAnswer
      <3>2. /\ watcher' \in WatcherRecords /\ watcher'.st = "done"
            /\ watcher'.lastValid = watcher.lastValid
            /\ watcher'.msg = IF Verdict = "own" THEN "own" ELSE "peer"
        BY <1>T, <1>N, <3>1 DEF WatcherRecords
      <3>3. AnswersEnd
        BY <2>1, <3>1, <3>2 DEF AnswersEnd
      <3> QED
        BY <1>1, <3>2, <3>3
    <2>2. CASE ~ends
      <3>1. /\ watcher.st = "ask" /\ Listening
            /\ watcher' = [watcher EXCEPT !.st = "wait", !.at = now + Interval,
                                 !.lastValid = IF Verdict = "unreadable" THEN @ ELSE now]
        BY <1>2, <2>2 DEF WatchAnswer
      <3>2. /\ watcher' \in WatcherRecords /\ watcher'.st = "wait" /\ watcher'.at = now + Interval
            /\ watcher'.lastValid = (IF Verdict = "unreadable" THEN watcher.lastValid ELSE now)
            /\ watcher'.msg = watcher.msg
        BY <1>T, <1>N, <3>1 DEF WatcherRecords
      <3>3. AnswersOn
        BY <1>T, <2>2, <3>1, <3>2, TimeAssumption DEF AnswersOn
      <3> QED
        BY <1>1, <3>2, <3>3
    <2> QED
      BY <2>1, <2>2
  <1>3. CASE WatchAsk \/ WatchClosed \/ WatchDies
    BY <1>1, <1>3, <1>T, <1>N DEF WatchAsk, WatchClosed, WatchDies, WatcherRecords
  <1> QED
    BY <1>2, <1>3 DEF Watches

\* A change at the control plane: a revocation, or another kind of answer.
LEMMA ControlPlaneDoes ==
    ASSUME Typed, ControlPlane
    PROVE  /\ UNCHANGED <<now, setup, gate, life, record, task, watcher, run, peer>>
           /\ setup.watch /\ cp' \in CpRecords /\ seen' \in SeenRecords
           /\ seen'.data = seen.data /\ seen'.from = seen.from
           /\ \/ /\ cp.standing = "members" /\ cp'.standing \in {"own", "peer"}
                 /\ seen'.revoked = now
              \/ cp'.standing = cp.standing /\ seen'.revoked = seen.revoked
  <1>T. cp \in CpRecords /\ seen \in SeenRecords /\ now \in Nat
    BY DEF Typed
  <1> QED
    BY <1>T DEF ControlPlane, CpRecords, SeenRecords

\* The steps of the session, by what they change.
LEMMA NextIs ==
    ASSUME [Next]_vars
    PROVE  \/ Outbound \/ Inbound \/ InboundEnd \/ Polls \/ Runs \/ Watches \/ ControlPlane
           \/ Tick \/ UNCHANGED vars
  BY DEF Next, Polls, Runs, Watches

\* Every step keeps the records in range.
LEMMA TypedNext == ASSUME Typed, [Next]_vars PROVE Typed'
  <1>1. CASE Outbound
    <2>1. /\ UNCHANGED <<now, setup, watcher, cp, run, peer>>
          /\ gate' \in GateRecords /\ task' \in TaskRecords /\ seen' \in SeenRecords
          /\ EndsLife \/ (life' = life /\ record' = record)
      BY <1>1, OutboundDoes DEF OutEnds
    <2>2. life' \in LifeRecords /\ record' \in Ends
      <3>1. CASE EndsLife
        BY <3>1 DEF EndsLife, Typed, LifeRecords
      <3> QED
        BY <2>1, <3>1 DEF Typed
    <2> QED
      BY <2>1, <2>2 DEF Typed
  <1>2. CASE Inbound
    <2>1. /\ UNCHANGED <<now, setup, cp, run>>
          /\ gate' \in GateRecords /\ task' \in TaskRecords /\ seen' \in SeenRecords
          /\ watcher' \in WatcherRecords /\ peer' \in PeerRecords /\ peer'.net <= peer.net
          /\ EndsLife \/ (life' = life /\ record' = record) \/ (life' \in LifeRecords /\ record' = record)
      BY <1>2, InboundDoes DEF InEnds, InRefused, InPrelude, InVerifies, InRejects, InData, InTask
    <2>2. life' \in LifeRecords /\ record' \in Ends
      <3>1. CASE EndsLife
        BY <3>1 DEF EndsLife, Typed, LifeRecords
      <3> QED
        BY <2>1, <3>1 DEF Typed
    <2>3. peer'.net <= NetCap
      BY <2>1, TimeAssumption DEF Typed, PeerRecords
    <2> QED
      BY <2>1, <2>2, <2>3 DEF Typed
  <1>3. CASE InboundEnd
    BY <1>3, InboundEndDoes DEF Typed
  <1>4. CASE Polls
    BY <1>4, PollsDo DEF Typed
  <1>5. CASE Runs
    BY <1>5, RunsDo DEF Typed
  <1>6. CASE Watches
    BY <1>6, WatchesDo DEF Typed
  <1>7. CASE ControlPlane
    BY <1>7, ControlPlaneDoes DEF Typed
  <1>8. CASE Tick
    BY <1>8, TimeAssumption DEF Tick, Typed
  <1>9. CASE UNCHANGED vars
    BY <1>9 DEF vars, Typed
  <1> QED
    BY <1>1, <1>2, <1>3, <1>4, <1>5, <1>6, <1>7, <1>8, <1>9, NextIs

-----------------------------------------------------------------------------
(* The gate and the lifetime. *)

\* What the gate and the lifetime know of the grants: nothing holds data back that may pass, and
\* nothing passes that the timer would not stop.
Bounded ==
    /\ gate.on => setup.check
    /\ setup.check /\ ~gate.verified => gate.on
    /\ gate.verified => setup.check /\ setup.good /\ ~gate.failed
    /\ gate.failed => gate.on
    /\ ~gate.verified /\ ~gate.failed => gate.got < Prelude
    /\ gate.out <= Prelude /\ gate.got <= Prelude
    /\ life.peer = (IF gate.verified THEN setup.peer ELSE Never)
    /\ life.ended = "no" => life.expiry = SessionEnd /\ (life.watch <=> gate.verified /\ setup.watch)
    /\ life.ended # "no" => ~life.watch /\ life.expiry = Never
    /\ record = life.ended
    /\ seen.data <= now
    /\ OnlyWithinGrants

\* The gate starts before the prelude, with the own expiry.
LEMMA BoundedInit == Init => Bounded
  <1> SUFFICES ASSUME Init PROVE Bounded
    OBVIOUS
  <1>1. Typed
    BY TypedInit
  <1>2. /\ gate.on <=> setup.check
        /\ gate.out = Prelude /\ gate.got = 0 /\ ~gate.verified /\ ~gate.failed
        /\ life.expiry = setup.own /\ life.peer = Never /\ ~life.watch /\ life.ended = "no"
        /\ record = "no" /\ seen.data = -1 /\ now = 0
    BY DEF Init
  <1> QED
    BY <1>2, TimeAssumption DEF Bounded, SessionEnd, OnlyWithinGrants

\* A poll that finds no end finds it before the end of either grant it knows.
LEMMA NotEnded ==
    ASSUME Typed, Bounded, PollEnded = "no"
    PROVE  /\ life.ended = "no" /\ now < SessionEnd /\ now < setup.own
           /\ gate.verified => now < setup.peer
           /\ life.watch => watcher.msg = "no"
  <1>1. life.ended = "no" /\ ~(life.expiry <= now)
    BY DEF PollEnded, ExpiredGrant
  <1>2. life.watch => watcher.msg = "no"
    BY <1>1 DEF PollEnded
  <1>3. now \in Nat /\ setup.own \in Nat /\ setup.peer \in Nat
    BY NeverIsLater DEF Typed, SetupRecords
  <1>4. life.expiry = SessionEnd
    BY <1>1 DEF Bounded
  <1> QED
    BY <1>1, <1>2, <1>3, <1>4 DEF SessionEnd, Least

\* Steps that touch neither the gate nor the lifetime.
LEMMA BoundedByFrame ==
    ASSUME Typed, Bounded, UNCHANGED <<setup, gate, life, record>>, seen'.data = seen.data,
           now' \in Nat, now' >= now
    PROVE  Bounded'
  <1>1. SessionEnd' = SessionEnd
    BY DEF SessionEnd
  <1>2. now \in Nat /\ seen.data \in Int
    BY DEF Typed, SeenRecords
  <1> QED
    BY <1>1, <1>2 DEF Bounded, OnlyWithinGrants

\* A grant's end changes the lifetime alone.
LEMMA BoundedByEnd ==
    ASSUME Typed, Bounded, EndsLife, UNCHANGED <<now, setup, gate, seen>>
    PROVE  Bounded'
  <1>1. record' = life'.ended /\ life'.ended # "no"
    BY DEF EndsLife, Bounded, PollEnded
  <1> QED
    BY <1>1 DEF Bounded, EndsLife, OnlyWithinGrants

\* A step of the gate that verifies nothing.
LEMMA BoundedByGate ==
    ASSUME Typed, Bounded, UNCHANGED <<now, setup, life, record>>, gate' \in GateRecords,
           gate'.verified <=> gate.verified, gate.failed => gate'.failed,
           gate'.failed => gate'.on /\ ~gate'.verified,
           gate'.on => gate.on, gate.on /\ ~gate.verified => gate'.on,
           gate'.out <= gate.out, gate'.got <= Prelude,
           ~gate'.verified /\ ~gate'.failed => gate'.got < Prelude,
           \/ seen' = seen
           \/ /\ seen' = [seen EXCEPT !.data = now]
              /\ now < setup.own /\ (setup.check => setup.good /\ now < setup.peer)
    PROVE  Bounded'
  <1>1. SessionEnd' = SessionEnd
    BY DEF SessionEnd
  <1>2. gate.out \in Nat /\ gate'.out \in Nat /\ Prelude \in Nat
    BY TimeAssumption DEF Typed, GateRecords
  <1>3. gate'.out <= Prelude
    BY <1>2 DEF Bounded
  <1>4. seen'.data <= now' /\ OnlyWithinGrants'
    <2>1. CASE seen' = seen
      BY <2>1 DEF Bounded, OnlyWithinGrants
    <2>2. CASE /\ seen' = [seen EXCEPT !.data = now]
               /\ now < setup.own /\ (setup.check => setup.good /\ now < setup.peer)
      <3>1. seen'.data = now /\ now \in Nat
        BY <2>2 DEF Typed, SeenRecords
      <3> QED
        BY <2>2, <3>1 DEF OnlyWithinGrants
    <2> QED
      BY <2>1, <2>2
  <1> QED
    BY <1>1, <1>3, <1>4 DEF Bounded

\* Every step keeps the bounds; data passes only below both expiries.
LEMMA BoundedNext == ASSUME Typed, Bounded, [Next]_vars PROVE Bounded'
  <1>0. gate.got \in Nat /\ gate.out \in Nat /\ Prelude \in Nat /\ now \in Nat
    BY TimeAssumption DEF Typed, GateRecords
  <1>1. CASE Outbound
    <2>0. /\ UNCHANGED <<now, setup, watcher, cp, run, peer>> /\ gate' \in GateRecords
          /\ \/ OutEnds
             \/ /\ PollEnded = "no" /\ life' = life /\ record' = record
                /\ OutTells \/ OutFails \/ OutWaits \/ OutReads
      BY <1>1, OutboundDoes
    <2>1. CASE OutEnds
      BY <2>0, <2>1, BoundedByEnd DEF OutEnds
    <2>2. CASE PollEnded = "no" /\ life' = life /\ record' = record /\ OutTells
      <3>1. gate'.out <= gate.out /\ gate'.got <= Prelude
        BY <1>0, <2>2 DEF OutTells, Bounded
      <3>2. ~gate'.verified /\ ~gate'.failed => gate'.got < Prelude
        BY <2>2 DEF OutTells, SameFlags, Bounded
      <3> QED
        BY <2>0, <2>2, <3>1, <3>2, BoundedByGate DEF OutTells, SameFlags, Bounded
    <2>3. CASE PollEnded = "no" /\ life' = life /\ record' = record /\ OutFails
      <3>1. gate'.out <= gate.out /\ gate'.got <= Prelude
        BY <1>0, <2>3 DEF OutFails, SameCounts, Bounded
      <3> QED
        BY <2>0, <2>3, <3>1, BoundedByGate DEF OutFails, Bounded
    <2>4. CASE PollEnded = "no" /\ life' = life /\ record' = record /\ OutWaits
      <3>1. gate'.out <= gate.out /\ gate'.got <= Prelude
        BY <1>0, <2>4 DEF OutWaits, SameCounts, Bounded
      <3>2. ~gate'.verified /\ ~gate'.failed => gate'.got < Prelude
        BY <2>4 DEF OutWaits, SameFlags, SameCounts, Bounded
      <3> QED
        BY <2>0, <2>4, <3>1, <3>2, BoundedByGate DEF OutWaits, SameFlags, Bounded
    <2>5. CASE PollEnded = "no" /\ life' = life /\ record' = record /\ OutReads
      <3>0. now < setup.own /\ (gate.verified => now < setup.peer)
        BY <2>5, NotEnded
      <3>1. setup.check => gate.verified /\ setup.good
        BY <2>5 DEF OutReads, Bounded
      <3>2. gate'.out <= gate.out /\ gate'.got <= Prelude
        BY <1>0, <2>5 DEF OutReads, SameCounts, Bounded
      <3>3. ~gate'.verified /\ ~gate'.failed => gate'.got < Prelude
        BY <2>5 DEF OutReads, SameFlags, SameCounts, Bounded
      <3>4. seen' = [seen EXCEPT !.data = now] \/ seen' = seen
        BY <2>5 DEF OutReads
      <3>5. /\ gate'.verified <=> gate.verified
            /\ gate'.failed <=> gate.failed
            /\ gate'.on => gate.on
            /\ gate.on /\ ~gate.verified => gate'.on
            /\ gate'.failed => gate'.on /\ ~gate'.verified
        BY <2>5 DEF OutReads, SameFlags, Bounded
      <3> QED
        BY <2>0, <2>5, <3>0, <3>1, <3>2, <3>3, <3>4, <3>5, BoundedByGate
    <2> QED
      BY <2>0, <2>1, <2>2, <2>3, <2>4, <2>5
  <1>2. CASE Inbound
    <2>0. /\ UNCHANGED <<now, setup, cp, run>> /\ gate' \in GateRecords
          /\ \/ InEnds
             \/ /\ PollEnded = "no"
                /\ InRefused \/ InPrelude \/ InVerifies \/ InRejects \/ InData
      BY <1>2, InboundDoes
    <2>1. CASE InEnds
      BY <2>0, <2>1, BoundedByEnd DEF InEnds
    <2>2. CASE InRefused
      BY <1>0, <2>0, <2>2, BoundedByFrame DEF InRefused, InTask
    <2>3. CASE InPrelude
      <3>1. gate'.out <= gate.out /\ gate'.got <= Prelude
        BY <1>0, <2>3 DEF InPrelude
      <3> QED
        BY <2>0, <2>3, <3>1, BoundedByGate DEF InPrelude, SameFlags, InTask, Bounded
    <2>4. CASE PollEnded = "no" /\ InVerifies
      <3>0. life.ended = "no" /\ now < setup.own
        BY <2>4, NotEnded
      <3>1. SessionEnd' = Least(setup.own, setup.peer)
        BY <2>0, <2>4 DEF InVerifies, SessionEnd
      <3>2. seen'.data = seen.data
        BY <2>4 DEF InVerifies, Typed, SeenRecords
      <3>3. /\ life'.ended = "no" /\ record' = "no"
            /\ life'.expiry = SessionEnd' /\ (life'.watch <=> gate'.verified /\ setup'.watch)
            /\ life'.peer = setup'.peer
        BY <2>0, <2>4, <3>0, <3>1 DEF InVerifies, Bounded
      <3>4. setup.check
        BY <2>4 DEF InVerifies, Bounded
      <3>5. gate'.out <= Prelude /\ gate'.got <= Prelude
        BY <1>0, <2>4 DEF InVerifies, Bounded
      <3>6. seen'.data <= now' /\ OnlyWithinGrants'
        BY <2>0, <3>2 DEF Bounded, OnlyWithinGrants
      <3> QED
        BY <2>0, <2>4, <3>3, <3>4, <3>5, <3>6 DEF InVerifies, Bounded
    <2>5. CASE InRejects
      <3>1. gate'.out <= gate.out /\ gate'.got <= Prelude
        BY <1>0, <2>5 DEF InRejects, Bounded
      <3> QED
        BY <2>0, <2>5, <3>1, BoundedByGate DEF InRejects, Bounded
    <2>6. CASE PollEnded = "no" /\ InData
      <3>0. now < setup.own /\ (gate.verified => now < setup.peer)
        BY <2>6, NotEnded
      <3>1. setup.check => gate.verified /\ setup.good
        BY <2>6 DEF InData, Bounded
      <3>2. gate'.out <= gate.out /\ gate'.got <= Prelude
        BY <1>0, <2>6 DEF InData, Bounded
      <3> QED
        BY <2>0, <2>6, <3>0, <3>1, <3>2, BoundedByGate DEF InData, InTask, Bounded
    <2> QED
      BY <2>0, <2>1, <2>2, <2>3, <2>4, <2>5, <2>6
  <1>3. CASE InboundEnd
    <2>0. /\ UNCHANGED <<now, setup, life, record, seen>> /\ gate' \in GateRecords
          /\ \/ gate' = gate
             \/ /\ gate.on /\ ~gate.verified
                /\ gate'.on /\ ~gate'.verified /\ gate'.failed /\ SameCounts
      BY <1>3, InboundEndDoes
    <2>1. gate'.out <= gate.out /\ gate'.got <= Prelude
      BY <1>0, <2>0 DEF SameCounts, Bounded
    <2> QED
      BY <2>0, <2>1, BoundedByGate DEF Bounded
  <1>4. CASE Polls \/ Runs \/ Watches \/ ControlPlane
    <2>1. UNCHANGED <<now, setup, gate, life, record>> /\ seen'.data = seen.data
      BY <1>4, PollsDo, RunsDo, WatchesDo, ControlPlaneDoes
    <2> QED
      BY <1>0, <2>1, BoundedByFrame
  <1>5. CASE Tick \/ UNCHANGED vars
    <2>1. UNCHANGED <<setup, gate, life, record, seen>> /\ (now' = now \/ now' = now + 1)
      BY <1>5 DEF Tick, vars
    <2> QED
      BY <1>0, <2>1, BoundedByFrame
  <1> QED
    BY <1>1, <1>2, <1>3, <1>4, <1>5, NextIs

-----------------------------------------------------------------------------
(* The re-check. *)

\* How far the re-check may be behind, what its one message says, and what history says of it.
Watched ==
    /\ gate.verified <=> seen.from # Never
    /\ seen.from # Never => seen.from <= now
    /\ cp.standing # "members" <=> seen.revoked # Never
    /\ seen.revoked # Never => seen.revoked <= now /\ setup.watch
    /\ watcher.lastValid <= now
    /\ ~(gate.verified /\ setup.watch) => watcher.st = "none"
    /\ watcher.st # "done" => watcher.msg = "no"
    /\ watcher.st = "wait" =>
         now <= watcher.at /\ watcher.at <= watcher.lastValid + Grace + Interval
    /\ watcher.st = "ask" =>
         now <= watcher.at /\ watcher.at <= watcher.lastValid + Grace + Interval + RequestTimeout
    /\ Listening => watcher.st # "none" /\ (watcher.st = "done" => watcher.msg # "no")
    /\ watcher.msg = "own" => cp.standing = "own"
    /\ watcher.msg = "peer" => cp.standing = "peer" \/ now - watcher.lastValid >= Grace

\* Nothing is watched before the peer's grant is verified.
LEMMA WatchedInit == Init => Watched
  BY NeverIsLater DEF Init, Watched, Listening

\* The numbers of the re-check.
LEMMA WatchNumbers ==
    ASSUME Typed
    PROVE  /\ now \in Nat /\ now < Never /\ Never \in Nat
           /\ watcher.at \in Nat /\ watcher.lastValid \in Nat /\ seen.from \in Nat
           /\ seen.revoked \in Nat /\ seen.data \in Int
           /\ Grace \in Nat /\ Interval \in Nat /\ RequestTimeout \in Nat
  BY NeverIsLater, TimeAssumption DEF Typed, WatcherRecords, SeenRecords

\* Steps of the session itself: the re-check stays where it is.
LEMMA WatchedByFrame ==
    ASSUME Watched, UNCHANGED <<now, setup, watcher, cp>>, gate'.verified <=> gate.verified,
           seen'.from = seen.from, seen'.revoked = seen.revoked, Listening' => Listening
    PROVE  Watched'
  BY DEF Watched

\* Every step keeps the re-check's times.
LEMMA WatchedNext == ASSUME Typed, Bounded, Watched, [Next]_vars PROVE Watched'
  <1>N. /\ now \in Nat /\ now < Never /\ Never \in Nat
        /\ watcher.at \in Nat /\ watcher.lastValid \in Nat
        /\ Grace \in Nat /\ Interval \in Nat /\ RequestTimeout \in Nat
    BY WatchNumbers
  <1>1. CASE Outbound
    <2>0. /\ UNCHANGED <<now, setup, watcher, cp, run, peer>>
          /\ \/ OutEnds
             \/ /\ PollEnded = "no" /\ life' = life /\ record' = record
                /\ OutTells \/ OutFails \/ OutWaits \/ OutReads
      BY <1>1, OutboundDoes
    <2>1. gate'.verified <=> gate.verified
      BY <2>0 DEF OutEnds, OutTells, OutFails, OutWaits, OutReads, SameFlags
    <2>2. seen'.from = seen.from /\ seen'.revoked = seen.revoked
      <3>1. seen' = seen \/ seen' = [seen EXCEPT !.data = now]
        BY <2>0 DEF OutEnds, OutTells, OutFails, OutWaits, OutReads
      <3> QED
        BY <3>1 DEF Typed, SeenRecords
    <2>3. Listening' => Listening
      BY <2>0 DEF Listening, Running, OutEnds, EndsLife
    <2> QED
      BY <2>0, <2>1, <2>2, <2>3, WatchedByFrame
  <1>2. CASE Inbound
    <2>0. /\ UNCHANGED <<now, setup, cp, run>>
          /\ \/ InEnds
             \/ /\ PollEnded = "no"
                /\ InRefused \/ InPrelude \/ InVerifies \/ InRejects \/ InData
      BY <1>2, InboundDoes
    <2>1. CASE InEnds \/ InRefused \/ InPrelude \/ InRejects \/ InData
      <3>1. gate'.verified <=> gate.verified
        BY <2>1 DEF InEnds, InRefused, InPrelude, InRejects, InData, SameFlags
      <3>2. seen'.from = seen.from /\ seen'.revoked = seen.revoked
        <4>1. seen' = seen \/ seen' = [seen EXCEPT !.data = now]
          BY <2>1 DEF InEnds, InRefused, InPrelude, InRejects, InData
        <4> QED
          BY <4>1 DEF Typed, SeenRecords
      <3>3. watcher' = watcher /\ (life' = life \/ ~life'.watch)
        BY <2>1 DEF InEnds, InRefused, InPrelude, InRejects, InData, InTask, EndsLife
      <3>4. Listening' => Listening
        BY <2>0, <3>3 DEF Listening, Running
      <3> QED
        BY <2>0, <3>1, <3>2, <3>3, <3>4, WatchedByFrame
    <2>2. CASE InVerifies
      <3>1. seen'.from = now /\ seen'.revoked = seen.revoked
        BY <2>2 DEF InVerifies, Typed, SeenRecords
      <3>2. watcher.st = "none" /\ watcher.msg = "no" /\ ~gate.verified /\ gate'.verified
        BY <2>2 DEF InVerifies, Watched
      <3>3. CASE setup.watch
        <4>1. /\ watcher'.st = "ask" /\ watcher'.msg = "no" /\ watcher'.lastValid = now
              /\ watcher'.at = now + RequestTimeout
          BY <2>2, <3>3 DEF InVerifies
        <4>2. now <= watcher'.at /\ watcher'.at <= now + Grace + Interval + RequestTimeout
          BY <1>N, <4>1
        <4> QED
          BY <1>N, <2>0, <3>1, <3>2, <3>3, <4>1, <4>2 DEF Watched
      <3>4. CASE ~setup.watch
        <4>1. watcher' = watcher /\ ~life'.watch
          BY <2>2, <3>4 DEF InVerifies
        <4> QED
          BY <1>N, <2>0, <3>1, <3>2, <3>4, <4>1 DEF Watched, Listening
      <3> QED
        BY <3>3, <3>4
    <2> QED
      BY <2>0, <2>1, <2>2
  <1>3. CASE InboundEnd
    <2>1. /\ UNCHANGED <<now, setup, life, watcher, cp, run, seen>>
          /\ gate'.verified <=> gate.verified
      BY <1>3, InboundEndDoes
    <2> QED
      BY <2>1, WatchedByFrame DEF Listening, Running
  <1>4. CASE Polls
    BY <1>4, PollsDo, WatchedByFrame DEF Listening, Running
  <1>5. CASE Runs
    <2>1. /\ UNCHANGED <<now, setup, gate, life, watcher, cp, seen>>
          /\ Running' => Running
      BY <1>5, RunsDo DEF Running
    <2> QED
      BY <2>1, WatchedByFrame DEF Listening
  <1>6. CASE Watches
    <2>0. UNCHANGED <<now, setup, gate, life, record, task, cp, run, peer, seen>>
      BY <1>6, WatchesDo
    <2>L. Listening' <=> Listening
      BY <2>0 DEF Listening, Running
    <2>V. watcher.st \in {"ask", "wait"} => gate.verified /\ setup.watch
      BY DEF Watched
    <2>1. CASE AnswersOn
      <3>1. watcher'.st = "wait" /\ watcher'.msg = "no"
        BY <2>1 DEF AnswersOn, Watched
      <3>2. now <= watcher'.at /\ watcher'.at <= watcher'.lastValid + Grace + Interval
        BY <1>N, <2>1 DEF AnswersOn
      <3>3. watcher'.lastValid <= now
        BY <1>N, <2>1 DEF AnswersOn, Watched
      <3>4. gate.verified /\ setup.watch
        BY <2>1, <2>V DEF AnswersOn
      <3> QED
        BY <2>0, <2>L, <3>1, <3>2, <3>3, <3>4 DEF Watched
    <2>2. CASE AnswersEnd
      <3>1. gate.verified /\ setup.watch /\ watcher'.st = "done" /\ watcher'.lastValid = watcher.lastValid
        BY <2>2, <2>V DEF AnswersEnd
      <3>2. /\ watcher'.msg = "own" => cp.standing = "own"
            /\ watcher'.msg = "peer" => cp.standing = "peer" \/ now - watcher.lastValid >= Grace
            /\ watcher'.msg # "no"
        BY <2>2 DEF AnswersEnd, Verdict
      <3> QED
        BY <2>0, <2>L, <3>1, <3>2 DEF Watched
    <2>3. CASE /\ watcher.st = "wait" /\ watcher'.st = "ask" /\ watcher.at <= now
               /\ watcher'.at = now + RequestTimeout
               /\ watcher'.lastValid = watcher.lastValid /\ watcher'.msg = watcher.msg
      <3>1. /\ now <= watcher'.at
            /\ watcher'.at <= watcher'.lastValid + Grace + Interval + RequestTimeout
        BY <1>N, <2>3 DEF Watched
      <3> QED
        BY <2>0, <2>L, <2>3, <2>V, <3>1 DEF Watched
    <2>4. CASE /\ ~Listening /\ watcher.st \in {"ask", "wait"} /\ watcher'.st = "done"
               /\ watcher'.lastValid = watcher.lastValid /\ watcher'.msg = watcher.msg
      BY <2>0, <2>L, <2>4, <2>V DEF Watched
    <2>5. CASE /\ watcher.st \in {"ask", "wait"} /\ watcher'.st = "done" /\ watcher'.msg = "gone"
               /\ watcher'.lastValid = watcher.lastValid
      BY <2>0, <2>L, <2>5, <2>V DEF Watched
    <2> QED
      BY <1>6, <2>1, <2>2, <2>3, <2>4, <2>5, WatchesDo
  <1>7. CASE ControlPlane
    <2>0. /\ UNCHANGED <<now, setup, gate, life, watcher, run>> /\ setup.watch
          /\ seen'.from = seen.from
          /\ \/ /\ cp.standing = "members" /\ cp'.standing \in {"own", "peer"}
                /\ seen'.revoked = now
             \/ cp'.standing = cp.standing /\ seen'.revoked = seen.revoked
      BY <1>7, ControlPlaneDoes
    <2>1. Listening' <=> Listening
      BY <2>0 DEF Listening, Running
    <2>2. seen'.revoked # Never => seen'.revoked <= now
      BY <1>N, <2>0 DEF Watched
    <2>3. cp'.standing # "members" <=> seen'.revoked # Never
      BY <1>N, <2>0 DEF Watched
    <2> QED
      BY <2>0, <2>1, <2>2, <2>3 DEF Watched
  <1>8. CASE Tick
    <2>0. now' = now + 1 /\ UNCHANGED <<setup, gate, life, watcher, cp, run, seen>> /\ ~Urgent
      BY <1>8 DEF Tick
    <2>1. watcher.st \in {"ask", "wait"} => now' <= watcher.at
      BY <1>N, <2>0 DEF Urgent
    <2>2. Listening' <=> Listening
      BY <2>0 DEF Listening, Running
    <2>3. /\ seen.from # Never => seen.from <= now'
          /\ seen.revoked # Never => seen.revoked <= now'
          /\ watcher.lastValid <= now'
          /\ now - watcher.lastValid >= Grace => now' - watcher.lastValid >= Grace
      BY <1>N, <2>0, WatchNumbers DEF Watched
    <2> QED
      BY <2>0, <2>1, <2>2, <2>3 DEF Watched
  <1>9. CASE UNCHANGED vars
    BY <1>9, WatchedByFrame DEF vars, Listening, Running
  <1> QED
    BY <1>1, <1>2, <1>3, <1>4, <1>5, <1>6, <1>7, <1>8, <1>9, NextIs

\* With a control plane that has the endpoint, or with CT_CHANNEL_REVOCATION=require, an answer
\* that counts as valid is one.
AnswersCount == Require \/ "old" \notin Kinds

\* Since when a grant that was revoked can have been known to be.
Latest == IF seen.revoked < seen.from THEN seen.from ELSE seen.revoked

\* No valid answer is later than the revocation, and no data than the re-check allows.
Revoking ==
    /\ (seen.revoked # Never /\ seen.from # Never) => watcher.lastValid <= Latest
    /\ RevocationBound

\* No grant is revoked at first.
LEMMA RevokingInit == Init => Revoking
  BY DEF Init, Revoking, RevocationBound

\* While a poll finds no end, the re-check is behind by no more than its bound.
LEMMA DataIsWatched ==
    ASSUME Typed, Bounded, Watched, Running, PollEnded = "no", gate.verified, setup.watch
    PROVE  now <= watcher.lastValid + Grace + Interval + RequestTimeout
  <1>N. /\ now \in Nat /\ watcher.at \in Nat /\ watcher.lastValid \in Nat
        /\ Grace \in Nat /\ Interval \in Nat /\ RequestTimeout \in Nat
    BY WatchNumbers
  <1>1. life.ended = "no" /\ (life.watch => watcher.msg = "no")
    BY NotEnded
  <1>2. life.watch
    BY <1>1 DEF Bounded
  <1>3. watcher.st # "none" /\ watcher.st # "done"
    BY <1>1, <1>2 DEF Watched, Listening
  <1>4. watcher.st \in {"ask", "wait"}
    BY <1>3 DEF Typed, WatcherRecords
  <1> QED
    BY <1>N, <1>4 DEF Watched

\* Data that passes keeps the bound of a revocation.
LEMMA RevokingByData ==
    ASSUME Typed, Bounded, Watched, Revoking, Running, PollEnded = "no", watcher' = watcher,
           seen' = [seen EXCEPT !.data = now] \/ seen' = seen
    PROVE  Revoking'
  <1>N. /\ now \in Nat /\ watcher.lastValid \in Nat /\ seen.from \in Nat /\ seen.revoked \in Nat
        /\ Grace \in Nat /\ Interval \in Nat /\ RequestTimeout \in Nat
    BY WatchNumbers
  <1>1. CASE seen' = seen
    BY <1>1 DEF Revoking, RevocationBound, Latest
  <1>2. CASE seen' = [seen EXCEPT !.data = now]
    <2>1. seen'.data = now /\ seen'.from = seen.from /\ seen'.revoked = seen.revoked
      BY <1>2 DEF Typed, SeenRecords
    <2>2. ASSUME seen.revoked # Never, seen.from # Never
          PROVE  now <= Grace + Interval + RequestTimeout + Latest
      <3>1. gate.verified /\ setup.watch
        BY <2>2 DEF Watched
      <3>2. now <= watcher.lastValid + Grace + Interval + RequestTimeout
        BY <3>1, DataIsWatched
      <3>3. watcher.lastValid <= Latest /\ Latest \in Nat
        BY <1>N, <2>2 DEF Revoking, Latest
      <3> QED
        BY <1>N, <3>2, <3>3
    <2> QED
      BY <2>1, <2>2 DEF Revoking, RevocationBound, Latest
  <1> QED
    BY <1>1, <1>2

\* Every step keeps it.
LEMMA RevokingNext ==
    ASSUME AnswersCount, Typed, Bounded, Watched, Revoking, [Next]_vars
    PROVE  Revoking'
  <1>N. /\ now \in Nat /\ now < Never /\ Never \in Nat /\ watcher.lastValid \in Nat
        /\ seen.from \in Nat /\ seen.revoked \in Nat /\ seen.data \in Int
        /\ Grace \in Nat /\ Interval \in Nat /\ RequestTimeout \in Nat
    BY WatchNumbers
  <1>F. ASSUME watcher'.lastValid = watcher.lastValid, seen' = seen PROVE Revoking'
    BY <1>F DEF Revoking, RevocationBound, Latest
  <1>1. CASE Outbound
    <2>1. Running /\ watcher' = watcher
      BY <1>1, OutboundDoes
    <2>2. seen' = seen \/ (PollEnded = "no" /\ seen' = [seen EXCEPT !.data = now])
      BY <1>1, OutboundDoes DEF OutEnds, OutTells, OutFails, OutWaits, OutReads
    <2> QED
      BY <1>F, <2>1, <2>2, RevokingByData
  <1>2. CASE Inbound
    <2>1. Running
      BY <1>2, InboundDoes
    <2>2. \/ watcher' = watcher /\ seen' = seen
          \/ PollEnded = "no" /\ watcher' = watcher /\ seen' = [seen EXCEPT !.data = now]
          \/ InVerifies
      BY <1>2, InboundDoes DEF InEnds, InRefused, InPrelude, InRejects, InData, InTask
    <2>3. CASE InVerifies
      <3>1. seen'.from = now /\ seen'.revoked = seen.revoked /\ seen'.data = seen.data
        BY <2>3 DEF InVerifies, Typed, SeenRecords
      <3>2. ASSUME seen.revoked # Never
            PROVE  watcher'.lastValid = now /\ Latest' = now
        <4>1. setup.watch /\ seen.revoked <= now
          BY <3>2 DEF Watched
        <4> QED
          BY <1>N, <2>3, <3>1, <4>1 DEF InVerifies, Latest
      <3>3. seen.data <= now
        BY DEF Bounded
      <3>4. Latest' = IF seen'.revoked < seen'.from THEN seen'.from ELSE seen'.revoked
        BY DEF Latest
      <3>5. ASSUME seen.revoked # Never
            PROVE  seen'.data <= Grace + Interval + RequestTimeout + Latest'
        BY <1>N, <3>1, <3>2, <3>3, <3>5
      <3> QED
        BY <1>N, <3>1, <3>2, <3>4, <3>5 DEF Revoking, RevocationBound
    <2> QED
      BY <1>F, <2>1, <2>2, <2>3, RevokingByData
  <1>3. CASE InboundEnd \/ Polls \/ Runs
    <2>1. watcher' = watcher /\ seen' = seen
      BY <1>3, InboundEndDoes, PollsDo, RunsDo
    <2> QED
      BY <1>F, <2>1
  <1>4. CASE Watches
    <2>0. seen' = seen /\ cp' = cp
      BY <1>4, WatchesDo
    <2>1. CASE watcher'.lastValid = watcher.lastValid
      BY <1>F, <2>0, <2>1
    <2>2. CASE Verdict \notin {"unreadable", "own", "peer"}
      <3>1. cp.kind \in Kinds /\ cp.standing \in {"members", "own", "peer"}
        BY DEF Typed, CpRecords
      <3>2. cp.standing = "members"
        BY <2>2, <3>1 DEF Verdict, AnswersCount
      <3>3. seen.revoked = Never
        BY <3>2 DEF Watched
      <3> QED
        BY <2>0, <3>3 DEF Revoking, RevocationBound
    <2> QED
      BY <1>4, <2>1, <2>2, WatchesDo DEF AnswersOn, AnswersEnd
  <1>5. CASE ControlPlane
    <2>0. /\ watcher' = watcher /\ seen'.data = seen.data /\ seen'.from = seen.from
          /\ seen'.revoked = now \/ seen'.revoked = seen.revoked
      BY <1>5, ControlPlaneDoes
    <2>1. CASE seen'.revoked = seen.revoked
      BY <2>0, <2>1 DEF Revoking, RevocationBound, Latest
    <2>2. CASE seen'.revoked = now
      <3>1. seen.from # Never => Latest' = now
        <4>1. seen.from # Never => seen.from <= now
          BY DEF Watched
        <4> QED
          BY <1>N, <2>0, <2>2, <4>1 DEF Latest
      <3>2. watcher.lastValid <= now /\ seen.data <= now
        BY DEF Watched, Bounded
      <3>3. Latest' = IF seen'.revoked < seen'.from THEN seen'.from ELSE seen'.revoked
        BY DEF Latest
      <3>4. seen.from # Never => seen'.data <= Grace + Interval + RequestTimeout + Latest'
        BY <1>N, <2>0, <3>1, <3>2
      <3> QED
        BY <1>N, <2>0, <3>1, <3>2, <3>3, <3>4 DEF Revoking, RevocationBound
    <2> QED
      BY <2>0, <2>1, <2>2
  <1>6. CASE Tick \/ UNCHANGED vars
    <2>1. watcher' = watcher /\ seen' = seen
      BY <1>6 DEF Tick, vars
    <2> QED
      BY <1>F, <2>1
  <1> QED
    BY <1>1, <1>2, <1>3, <1>4, <1>5, <1>6, NextIs

-----------------------------------------------------------------------------
(* The wakers. *)

\* An outbound direction that is not to be polled has its waker on everything that can end the
\* session; one that is over is so for a reason.
Polled ==
    /\ Running /\ task.out = "read" /\ ~task.pollOut =>
         /\ life.ended = "no"
         /\ task.onExpiry /\ (life.watch => task.onWatch)
         /\ gate.on => gate.reader
    /\ task.out = "err" => gate.failed
    /\ task.out = "eof" /\ ~setup.closes => life.ended # "no" /\ task.shut

\* The pump is to be polled at first.
LEMMA PolledInit == Init => Polled
  BY DEF Init, Polled

\* Every step keeps a way to wake the task: a new timer and a new re-check wake the reader.
LEMMA PolledNext == ASSUME Typed, Bounded, Watched, Polled, [Next]_vars PROVE Polled'
  <1>1. CASE Outbound
    <2>0. /\ UNCHANGED <<now, setup, watcher, cp, run, peer>>
          /\ \/ OutEnds
             \/ /\ PollEnded = "no" /\ life' = life /\ record' = record /\ (task'.shut <=> task.shut)
                /\ OutTells \/ OutFails \/ OutWaits \/ OutReads
      BY <1>1, OutboundDoes
    <2>1. CASE OutEnds
      BY <2>1 DEF OutEnds, EndsLife, Polled
    <2>2. CASE OutTells
      BY <2>2 DEF OutTells, Polled
    <2>3. CASE OutFails
      BY <2>3 DEF OutFails, Polled
    <2>4. CASE PollEnded = "no" /\ life' = life /\ (OutWaits \/ OutReads)
      <3>1. life.ended = "no" /\ (life.watch => watcher.msg = "no")
        BY <2>4, NotEnded
      <3> QED
        BY <2>0, <2>4, <3>1 DEF OutWaits, OutReads, Left, Polled
    <2> QED
      BY <2>0, <2>1, <2>2, <2>3, <2>4
  <1>2. CASE Inbound
    <2>0. /\ UNCHANGED <<now, setup, cp, run>> /\ task'.out = task.out /\ Running
          /\ \/ InEnds
             \/ /\ PollEnded = "no"
                /\ InRefused \/ InPrelude \/ InVerifies \/ InRejects \/ InData
      BY <1>2, InboundDoes
    <2>R. Running' <=> Running
      BY <2>0 DEF Running
    <2>1. CASE InEnds
      <3>1. ASSUME task.out = "read", ~task.pollOut PROVE WakeDue
        <4>1. life.ended = "no" /\ task.onExpiry /\ (life.watch => task.onWatch)
          BY <2>0, <3>1 DEF Polled
        <4>2. life.expiry <= now \/ (life.watch /\ watcher.msg # "no")
          BY <2>1, <4>1 DEF InEnds, EndsLife, PollEnded
        <4> QED
          BY <4>1, <4>2 DEF WakeDue
      <3> QED
        BY <2>0, <2>1, <3>1 DEF InEnds, EndsLife, Polled
    <2>2. CASE InRefused
      BY <2>0, <2>R, <2>2 DEF InRefused, InTask, Polled
    <2>3. CASE PollEnded = "no" /\ (InPrelude \/ InData)
      <3>1. life.ended = "no" /\ (life.watch => watcher.msg = "no")
        BY <2>3, NotEnded
      <3> QED
        BY <2>0, <2>R, <2>3, <3>1 DEF InPrelude, InData, InTask, Left, SameFlags, Polled
    <2>4. CASE InVerifies
      BY <2>0, <2>R, <2>4 DEF InVerifies, Polled
    <2>5. CASE InRejects
      BY <2>0, <2>R, <2>5 DEF InRejects, Polled
    <2> QED
      BY <2>0, <2>1, <2>2, <2>3, <2>4, <2>5
  <1>3. CASE InboundEnd
    BY <1>3, InboundEndDoes DEF Polled, Running
  <1>4. CASE Polls
    BY <1>4, PollsDo DEF Polled
  <1>5. CASE Runs
    <2>1. Running' => Running
      BY <1>5, RunsDo DEF Running
    <2> QED
      BY <1>5, <2>1, RunsDo DEF Polled
  <1>6. CASE Watches
    BY <1>6, WatchesDo DEF Polled, Running
  <1>7. CASE ControlPlane
    BY <1>7, ControlPlaneDoes DEF Polled, Running
  <1>8. CASE Tick \/ UNCHANGED vars
    BY <1>8 DEF Tick, vars, Polled, Running
  <1> QED
    BY <1>1, <1>2, <1>3, <1>4, <1>5, <1>6, <1>7, <1>8, NextIs

-----------------------------------------------------------------------------
(* The ends. *)

\* How late it can be, in each state of the runner, with an application that keeps its side open.
Timely ==
    ~setup.closes =>
      /\ Running /\ task.out = "read" => now <= SessionEnd
      /\ run.st = "pump" => now <= SessionEnd
      /\ run.st = "grace" => LocalOver /\ run.at <= SessionEnd + FailGrace /\ now <= run.at
      /\ run.st = "drain" => run.at <= SessionEnd + FailGrace + RelayDrain /\ now <= run.at

\* The times of the ends are numbers.
LEMMA EndNumbers ==
    ASSUME Typed
    PROVE  /\ now \in Nat /\ SessionEnd \in Nat /\ run.at \in Nat
           /\ setup.own \in Nat /\ setup.peer \in Nat /\ life.expiry \in Nat
           /\ FailGrace \in Nat /\ FailDrain \in Nat /\ RelayDrain \in Nat /\ FailDrain <= RelayDrain
  BY NeverIsLater, TimeAssumption DEF Typed, SetupRecords, RunRecords, LifeRecords, SessionEnd, Least

\* A session starts before the end of its grants.
LEMMA TimelyInit == Init => Timely
  <1> SUFFICES ASSUME Init PROVE Timely
    OBVIOUS
  <1>1. now \in Nat /\ SessionEnd \in Nat
    BY TypedInit, EndNumbers
  <1>2. now <= SessionEnd /\ run.st = "pump"
    BY <1>1 DEF Init
  <1> QED
    BY <1>2 DEF Timely

\* Steps that leave the runner, the outbound direction and the session's end as they are.
LEMMA TimelyByFrame ==
    ASSUME Timely, UNCHANGED <<now, setup, run>>, SessionEnd' = SessionEnd,
           task'.out = "read" => task.out = "read",
           LocalOver => LocalOver'
    PROVE  Timely'
  BY DEF Timely, Running

\* A clock that moves on found the outbound direction woken by nothing.
LEMMA QuietTask ==
    ASSUME Typed, Bounded, Watched, Polled, ~Urgent, Running, task.out = "read"
    PROVE  now < SessionEnd /\ (life.watch => watcher.msg = "no")
  <1>1. ~task.pollOut /\ ~WakeDue
    BY DEF Urgent
  <1>2. life.ended = "no" /\ task.onExpiry /\ (life.watch => task.onWatch)
    BY <1>1 DEF Polled
  <1>3. ~(life.expiry <= now) /\ (life.watch => watcher.msg = "no")
    BY <1>1, <1>2 DEF WakeDue
  <1>4. life.expiry = SessionEnd
    BY <1>2 DEF Bounded
  <1> QED
    BY <1>3, <1>4, EndNumbers

\* Every step is in time.
LEMMA TimelyNext ==
    ASSUME Typed, Bounded, Watched, Polled, Timely, [Next]_vars
    PROVE  Timely'
  <1>N. /\ now \in Nat /\ SessionEnd \in Nat /\ run.at \in Nat
        /\ setup.own \in Nat /\ setup.peer \in Nat
        /\ FailGrace \in Nat /\ FailDrain \in Nat /\ RelayDrain \in Nat /\ FailDrain <= RelayDrain
    BY EndNumbers
  <1>1. CASE Outbound
    <2>0. /\ UNCHANGED <<now, setup, run>> /\ task.out = "read"
          /\ \/ OutEnds
             \/ /\ PollEnded = "no" /\ life' = life /\ record' = record
                /\ OutTells \/ OutFails \/ OutWaits \/ OutReads
      BY <1>1, OutboundDoes
    <2>1. gate'.verified <=> gate.verified
      BY <2>0 DEF OutEnds, OutTells, OutFails, OutWaits, OutReads, SameFlags
    <2>2. SessionEnd' = SessionEnd
      BY <2>0, <2>1 DEF SessionEnd
    <2>3. record # "no" => record' # "no"
      BY <2>0 DEF OutEnds, EndsLife
    <2>4. LocalOver => LocalOver'
      BY <2>0, <2>3 DEF LocalOver
    <2> QED
      BY <2>0, <2>2, <2>4, TimelyByFrame
  <1>2. CASE Inbound
    <2>0. /\ UNCHANGED <<now, setup, cp, run>> /\ task'.out = task.out
          /\ \/ InEnds
             \/ /\ PollEnded = "no"
                /\ InRefused \/ InPrelude \/ InVerifies \/ InRejects \/ InData
      BY <1>2, InboundDoes
    <2>1. CASE InEnds \/ InRefused \/ InPrelude \/ InRejects \/ InData
      <3>1. gate'.verified <=> gate.verified
        BY <2>1 DEF InEnds, InRefused, InPrelude, InRejects, InData, SameFlags
      <3>2. SessionEnd' = SessionEnd
        BY <2>0, <3>1 DEF SessionEnd
      <3>3. record # "no" => record' # "no"
        BY <2>1 DEF InEnds, EndsLife, InRefused, InPrelude, InRejects, InData, InTask
      <3>4. LocalOver => LocalOver'
        BY <2>0, <3>3 DEF LocalOver
      <3> QED
        BY <2>0, <3>2, <3>4, TimelyByFrame
    <2>2. CASE PollEnded = "no" /\ InVerifies
      <3>1. life.ended = "no" /\ now < setup.own /\ now < setup.peer
        BY <2>2, NotEnded DEF InVerifies
      <3>2. SessionEnd' = Least(setup.own, setup.peer)
        BY <2>0, <2>2 DEF InVerifies, SessionEnd
      <3>3. now' <= SessionEnd'
        BY <1>N, <2>0, <3>1, <3>2 DEF Least
      <3>4. record = "no" /\ task.out # "err"
        BY <2>2, <3>1 DEF InVerifies, Bounded, Polled
      <3>5. ~LocalOver
        BY <3>4 DEF LocalOver
      <3>6. run.st \notin {"drain", "ended"}
        BY <1>2, InboundDoes DEF Running
      <3> QED
        BY <2>0, <3>3, <3>5, <3>6 DEF Timely
    <2> QED
      BY <2>0, <2>1, <2>2
  <1>3. CASE InboundEnd
    <2>1. /\ UNCHANGED <<now, setup, record, run>> /\ task'.out = task.out
          /\ gate'.verified <=> gate.verified
      BY <1>3, InboundEndDoes
    <2> QED
      BY <2>1, TimelyByFrame DEF SessionEnd, LocalOver
  <1>4. CASE Polls
    BY <1>4, PollsDo, TimelyByFrame DEF SessionEnd, LocalOver
  <1>5. CASE Runs
    <2>0. /\ UNCHANGED <<now, setup, gate, record>> /\ task'.out = task.out /\ run' \in RunRecords
          /\ \/ Running /\ run'.st = "drain" /\ run'.at = now + RelayDrain
             \/ run.st = "pump" /\ LocalOver /\ run'.st = "grace" /\ run'.at = now + FailGrace
             \/ run.st = "grace" /\ run'.st = "drain" /\ run'.at = now + FailDrain
             \/ run.st = "drain" /\ run'.st = "ended"
      BY <1>5, RunsDo
    <2>1. SessionEnd' = SessionEnd /\ (LocalOver' <=> LocalOver)
      BY <2>0 DEF SessionEnd, LocalOver
    <2>2. ASSUME ~setup.closes
          PROVE  /\ Running => now <= SessionEnd + FailGrace
                 /\ run.st = "pump" => now <= SessionEnd
                 /\ run.st = "pump" /\ task.out = "read" => now <= SessionEnd
                 /\ run.st = "grace" /\ task.out = "read" => now <= SessionEnd
      BY <1>N, <2>2 DEF Timely, Running
    <2>3. CASE Running /\ run'.st = "drain" /\ run'.at = now + RelayDrain
      BY <1>N, <2>0, <2>1, <2>2, <2>3 DEF Timely, Running
    <2>4. CASE run.st = "pump" /\ LocalOver /\ run'.st = "grace" /\ run'.at = now + FailGrace
      BY <1>N, <2>0, <2>1, <2>2, <2>4 DEF Timely, Running
    <2>5. CASE run.st = "grace" /\ run'.st = "drain" /\ run'.at = now + FailDrain
      BY <1>N, <2>0, <2>1, <2>2, <2>5 DEF Timely, Running
    <2>6. CASE run.st = "drain" /\ run'.st = "ended"
      BY <2>0, <2>6 DEF Timely, Running
    <2> QED
      BY <2>0, <2>3, <2>4, <2>5, <2>6
  <1>6. CASE Watches
    BY <1>6, WatchesDo, TimelyByFrame DEF SessionEnd, LocalOver
  <1>7. CASE ControlPlane
    BY <1>7, ControlPlaneDoes, TimelyByFrame DEF SessionEnd, LocalOver
  <1>8. CASE Tick
    <2>0. /\ now' = now + 1 /\ UNCHANGED <<setup, gate, life, record, task, run>> /\ ~Urgent
      BY <1>8 DEF Tick
    <2>1. SessionEnd' = SessionEnd /\ (LocalOver' <=> LocalOver) /\ (Running' <=> Running)
      BY <2>0 DEF SessionEnd, LocalOver, Running
    <2>2. Running /\ task.out = "read" => now < SessionEnd
      BY <2>0, QuietTask
    <2>3. ~setup.closes /\ run.st = "pump" => now < SessionEnd
      <3>1. SUFFICES ASSUME ~setup.closes, run.st = "pump" PROVE now < SessionEnd
        OBVIOUS
      <3>2. ~LocalOver
        BY <2>0, <3>1 DEF Urgent
      <3>3. task.out # "err" /\ life.ended = "no"
        BY <3>2 DEF LocalOver, Bounded
      <3>4. task.out = "read"
        BY <3>1, <3>3 DEF Polled, Typed, TaskRecords
      <3> QED
        BY <2>2, <3>1, <3>4 DEF Running
    <2>4. run.st \in {"grace", "drain"} => now < run.at
      BY <1>N, <2>0 DEF Urgent
    <2> QED
      BY <1>N, <2>0, <2>1, <2>2, <2>3, <2>4 DEF Timely
  <1>9. CASE UNCHANGED vars
    BY <1>9, TimelyByFrame DEF vars, SessionEnd, LocalOver
  <1> QED
    BY <1>1, <1>2, <1>3, <1>4, <1>5, <1>6, <1>7, <1>8, <1>9, NextIs

\* The re-check of a session that still listens is never behind by more than its bound.
Watchful ==
    ~setup.closes /\ Listening => now <= watcher.lastValid + Grace + Interval + RequestTimeout

\* Nobody listens to a re-check at first.
LEMMA WatchfulInit == Init => Watchful
  BY DEF Init, Watchful, Listening

\* A session that is not polled has its waker on the re-check, so it does not go on past the verdict.
LEMMA WatchfulNext ==
    ASSUME Typed, Bounded, Watched, Polled, Watchful, [Next]_vars
    PROVE  Watchful'
  <1>N. /\ now \in Nat /\ watcher.at \in Nat /\ watcher.lastValid \in Nat
        /\ Grace \in Nat /\ Interval \in Nat /\ RequestTimeout \in Nat
    BY WatchNumbers
  <1>F. ASSUME UNCHANGED <<now, setup>>, Listening' => Listening,
               watcher'.lastValid = watcher.lastValid
        PROVE  Watchful'
    BY <1>F DEF Watchful
  <1>G. ASSUME now' = now, watcher'.lastValid = now
        PROVE  Watchful'
    BY <1>G, <1>N DEF Watchful
  <1>1. CASE Outbound
    <2>1. UNCHANGED <<now, setup, watcher, run>> /\ (life' = life \/ ~life'.watch)
      BY <1>1, OutboundDoes DEF OutEnds, EndsLife
    <2> QED
      BY <1>F, <2>1 DEF Listening, Running
  <1>2. CASE Inbound
    <2>1. /\ UNCHANGED <<now, setup, run>>
          /\ \/ watcher' = watcher /\ (life' = life \/ ~life'.watch)
             \/ InVerifies
      BY <1>2, InboundDoes DEF InEnds, EndsLife, InRefused, InPrelude, InRejects, InData, InTask
    <2>2. CASE watcher' = watcher /\ (life' = life \/ ~life'.watch)
      BY <1>F, <2>1, <2>2 DEF Listening, Running
    <2>3. CASE InVerifies /\ setup.watch
      <3>1. watcher'.lastValid = now
        BY <2>3 DEF InVerifies
      <3> QED
        BY <1>G, <2>1, <3>1
    <2>4. CASE InVerifies /\ ~setup.watch
      <3>1. ~Listening'
        BY <2>4 DEF InVerifies, Listening
      <3> QED
        BY <3>1 DEF Watchful
    <2> QED
      BY <2>1, <2>2, <2>3, <2>4
  <1>3. CASE InboundEnd \/ Polls \/ ControlPlane
    <2>1. UNCHANGED <<now, setup, watcher, life, run>>
      BY <1>3, InboundEndDoes, PollsDo, ControlPlaneDoes
    <2> QED
      BY <1>F, <2>1 DEF Listening, Running
  <1>4. CASE Runs
    <2>1. UNCHANGED <<now, setup, watcher, life>> /\ (Running' => Running)
      BY <1>4, RunsDo DEF Running
    <2> QED
      BY <1>F, <2>1 DEF Listening
  <1>5. CASE Watches
    <2>1. UNCHANGED <<now, setup, life, run>>
          /\ (watcher'.lastValid = watcher.lastValid \/ watcher'.lastValid = now)
      BY <1>5, WatchesDo DEF AnswersOn, AnswersEnd
    <2> QED
      BY <1>F, <1>G, <2>1 DEF Listening, Running
  <1>6. CASE Tick
    <2>0. now' = now + 1 /\ UNCHANGED <<setup, gate, life, record, task, watcher, run>> /\ ~Urgent
      BY <1>6 DEF Tick
    <2>1. SUFFICES ASSUME ~setup.closes, Listening
                   PROVE  now + 1 <= watcher.lastValid + Grace + Interval + RequestTimeout
      BY <2>0 DEF Watchful, Listening, Running
    <2>2. life.ended = "no" /\ gate.verified /\ ~gate.failed
      BY <2>1 DEF Bounded, Listening
    <2>3. task.out = "read"
      BY <2>1, <2>2 DEF Polled, Typed, TaskRecords
    <2>4. watcher.msg = "no"
      BY <2>0, <2>1, <2>3, QuietTask DEF Listening
    <2>5. watcher.st \in {"ask", "wait"}
      BY <2>1, <2>4 DEF Watched, Typed, WatcherRecords
    <2>6. now < watcher.at
      BY <1>N, <2>0, <2>5 DEF Urgent
    <2> QED
      BY <1>N, <2>5, <2>6 DEF Watched
  <1>7. CASE UNCHANGED vars
    BY <1>7, <1>F DEF vars, Listening, Running
  <1> QED
    BY <1>1, <1>2, <1>3, <1>4, <1>5, <1>6, <1>7, NextIs

-----------------------------------------------------------------------------
(* Whose grant ended. *)

\* No end is recorded at first.
LEMMA WhoseGrantInit == Init => WhoseGrant
  BY DEF Init, WhoseGrant

\* What an end that is already recorded was put down to stays true: time goes on, a revocation
\* is not taken back, and the re-check's last valid answer is the one the end came after.
LEMMA WhoseGrantByFrame ==
    ASSUME Typed, WhoseGrant, UNCHANGED <<setup, record>>, gate'.verified <=> gate.verified,
           now' \in Nat, now' >= now,
           cp.standing # "members" => cp'.standing = cp.standing,
           watcher.msg = "gone" => watcher'.msg = "gone",
           record = "peer" => watcher'.lastValid = watcher.lastValid
    PROVE  WhoseGrant'
  <1>N. /\ now \in Nat /\ setup.own \in Nat /\ setup.peer \in Nat /\ watcher.lastValid \in Nat
        /\ Grace \in Nat
    BY EndNumbers, WatchNumbers
  <1>1. ASSUME record = "own"
        PROVE  \/ setup.own <= now' /\ (gate.verified => setup.own <= setup.peer)
               \/ cp'.standing = "own"
    BY <1>N, <1>1 DEF WhoseGrant
  <1>2. ASSUME record = "peer"
        PROVE  /\ gate.verified
               /\ \/ setup.peer < setup.own /\ setup.peer <= now'
                  \/ setup.watch /\ (cp'.standing = "peer" \/ watcher'.msg = "gone"
                                \/ now' - watcher'.lastValid >= Grace)
    BY <1>N, <1>2 DEF WhoseGrant
  <1> QED
    BY <1>1, <1>2 DEF WhoseGrant

\* A poll that finds an end puts it down to the right member.
LEMMA WhoseGrantByEnd ==
    ASSUME Typed, Bounded, Watched, WhoseGrant, EndsLife,
           UNCHANGED <<now, setup, gate, watcher, cp>>
    PROVE  WhoseGrant'
  <1>N. /\ now \in Nat /\ setup.own \in Nat /\ setup.peer \in Nat /\ watcher.lastValid \in Nat
        /\ Grace \in Nat /\ Never \in Nat /\ setup.own < Never
    BY EndNumbers, WatchNumbers, NeverIsLater DEF Typed, SetupRecords
  <1>1. CASE record # "no"
    <2>1. record' = record
      BY <1>1 DEF EndsLife
    <2> QED
      BY <1>N, <2>1, WhoseGrantByFrame
  <1>2. CASE record = "no"
    <2>0. life.ended = "no" /\ record' = PollEnded
      BY <1>2 DEF EndsLife, Bounded
    <2>1. CASE life.expiry <= now
      <3>1. SessionEnd <= now /\ record' = ExpiredGrant
        BY <2>0, <2>1 DEF Bounded, PollEnded
      <3>2. CASE life.peer < setup.own
        <4>1. gate.verified /\ life.peer = setup.peer
          BY <1>N, <3>2 DEF Bounded
        <4>2. record' = "peer" /\ setup.peer <= now
          BY <1>N, <3>1, <3>2, <4>1 DEF ExpiredGrant, SessionEnd, Least
        <4> QED
          BY <1>N, <3>2, <4>1, <4>2 DEF WhoseGrant
      <3>3. CASE ~(life.peer < setup.own)
        <4>1. gate.verified => setup.own <= setup.peer
          BY <1>N, <3>3 DEF Bounded
        <4>2. record' = "own" /\ setup.own <= now
          BY <1>N, <3>1, <3>3, <4>1 DEF ExpiredGrant, SessionEnd, Least
        <4> QED
          BY <4>1, <4>2 DEF WhoseGrant
      <3> QED
        BY <3>2, <3>3
    <2>2. CASE ~(life.expiry <= now)
      <3>1. life.watch /\ watcher.msg # "no"
            /\ record' = (IF watcher.msg = "gone" THEN "peer" ELSE watcher.msg)
        BY <2>0, <2>2 DEF PollEnded, EndsLife
      <3>2. gate.verified /\ setup.watch
        BY <2>0, <3>1 DEF Bounded
      <3>3. record' = "own" => cp.standing = "own"
        BY <3>1 DEF Watched
      <3>4. record' = "peer" =>
              cp.standing = "peer" \/ watcher.msg = "gone" \/ now - watcher.lastValid >= Grace
        BY <3>1 DEF Watched
      <3> QED
        BY <3>2, <3>3, <3>4 DEF WhoseGrant
    <2> QED
      BY <2>1, <2>2
  <1> QED
    BY <1>1, <1>2

\* Every step keeps the end with the member it belongs to.
LEMMA WhoseGrantNext ==
    ASSUME Typed, Bounded, Watched, WhoseGrant, [Next]_vars
    PROVE  WhoseGrant'
  <1>N. now \in Nat
    BY DEF Typed
  <1>1. CASE Outbound
    <2>0. /\ UNCHANGED <<now, setup, watcher, cp>>
          /\ \/ EndsLife /\ gate' = gate
             \/ record' = record /\ (gate'.verified <=> gate.verified)
      BY <1>1, OutboundDoes
         DEF OutEnds, OutTells, OutFails, OutWaits, OutReads, SameFlags
    <2>1. CASE EndsLife /\ gate' = gate
      BY <2>0, <2>1, WhoseGrantByEnd
    <2>2. CASE record' = record /\ (gate'.verified <=> gate.verified)
      BY <1>N, <2>0, <2>2, WhoseGrantByFrame
    <2> QED
      BY <2>0, <2>1, <2>2
  <1>2. CASE Inbound
    <2>0. /\ UNCHANGED <<now, setup, cp>>
          /\ \/ EndsLife /\ gate' = gate /\ watcher' = watcher
             \/ record' = record /\ watcher' = watcher /\ (gate'.verified <=> gate.verified)
             \/ PollEnded = "no" /\ InVerifies
      BY <1>2, InboundDoes
         DEF InEnds, InRefused, InPrelude, InRejects, InData, InTask, SameFlags
    <2>1. CASE EndsLife /\ gate' = gate /\ watcher' = watcher
      BY <2>0, <2>1, WhoseGrantByEnd
    <2>2. CASE record' = record /\ watcher' = watcher /\ (gate'.verified <=> gate.verified)
      BY <1>N, <2>0, <2>2, WhoseGrantByFrame
    <2>3. CASE PollEnded = "no" /\ InVerifies
      <3>1. record' = "no"
        BY <2>3, NotEnded DEF InVerifies, Bounded
      <3> QED
        BY <3>1 DEF WhoseGrant
    <2> QED
      BY <2>0, <2>1, <2>2, <2>3
  <1>3. CASE InboundEnd
    <2>1. /\ UNCHANGED <<now, setup, record, watcher, cp>>
          /\ gate'.verified <=> gate.verified
      BY <1>3, InboundEndDoes
    <2> QED
      BY <1>N, <2>1, WhoseGrantByFrame
  <1>4. CASE Polls \/ Runs
    <2>1. UNCHANGED <<now, setup, gate, record, watcher, cp>>
      BY <1>4, PollsDo, RunsDo
    <2> QED
      BY <1>N, <2>1, WhoseGrantByFrame
  <1>5. CASE Watches
    <2>1. UNCHANGED <<now, setup, gate, life, record, cp>>
      BY <1>5, WatchesDo
    <2>2. watcher.msg = "gone" => watcher'.msg = "gone"
      BY <1>5, WatchesDo DEF Watched, AnswersOn, AnswersEnd
    <2>3. record = "peer" => watcher'.lastValid = watcher.lastValid
      <3>1. Listening => record = "no"
        BY DEF Listening, Bounded
      <3> QED
        BY <1>5, <3>1, WatchesDo DEF AnswersOn, AnswersEnd
    <2> QED
      BY <1>N, <2>1, <2>2, <2>3, WhoseGrantByFrame
  <1>6. CASE ControlPlane
    <2>1. /\ UNCHANGED <<now, setup, gate, record, watcher>>
          /\ cp.standing # "members" => cp'.standing = cp.standing
      BY <1>6, ControlPlaneDoes
    <2> QED
      BY <1>N, <2>1, WhoseGrantByFrame
  <1>7. CASE Tick \/ UNCHANGED vars
    <2>1. UNCHANGED <<setup, gate, record, watcher, cp>> /\ (now' = now \/ now' = now + 1)
      BY <1>7 DEF Tick, vars
    <2> QED
      BY <1>N, <2>1, WhoseGrantByFrame
  <1> QED
    BY <1>1, <1>2, <1>3, <1>4, <1>5, <1>6, <1>7, NextIs

-----------------------------------------------------------------------------
(* The theorems. *)

\* Everything that holds of a session whatever the control plane answers.
SessionInv == Typed /\ Bounded /\ Watched /\ Polled /\ Timely /\ Watchful /\ WhoseGrant

\* The invariant holds of every session.
LEMMA SessionInvariant == Spec => []SessionInv
  <1>1. Init => SessionInv
    BY TypedInit, BoundedInit, WatchedInit, PolledInit, TimelyInit, WatchfulInit, WhoseGrantInit
       DEF SessionInv
  <1>2. SessionInv /\ [Next]_vars => SessionInv'
    <2> SUFFICES ASSUME SessionInv, [Next]_vars PROVE SessionInv'
      OBVIOUS
    <2>1. Typed /\ Bounded /\ Watched /\ Polled /\ Timely /\ Watchful /\ WhoseGrant
      BY DEF SessionInv
    <2>2. Typed' /\ Bounded' /\ Watched'
      BY <2>1, TypedNext, BoundedNext, WatchedNext
    <2>3. Polled' /\ Timely' /\ Watchful' /\ WhoseGrant'
      BY <2>1, PolledNext, TimelyNext, WatchfulNext, WhoseGrantNext
    <2> QED
      BY <2>2, <2>3 DEF SessionInv
  <1> QED
    BY <1>1, <1>2, PTL DEF Spec

\* Application data passes the local side only while the grants that count are valid, and with
\* the check on only for a peer whose grant was verified: for every pair of expiries, every
\* order of polls, bytes and wake-ups, and whatever the control plane answers.
THEOREM DataWithinGrants == Spec => []OnlyWithinGrants
  <1>1. SessionInv => OnlyWithinGrants
    BY DEF SessionInv, Bounded
  <1> QED
    BY <1>1, SessionInvariant, PTL

\* The recorded end names the member whose grant it was, the local side is shut down before the
\* clock passes the end (unless its application closed it itself), and the session is over
\* within the grace and the longer drain.
THEOREM SessionEndsRightly == Spec => []EndsRightly
  <1>1. SessionInv => EndsRightly
    <2> SUFFICES ASSUME SessionInv PROVE EndsRightly
      OBVIOUS
    <2>1. Typed /\ Polled /\ Timely /\ WhoseGrant
      BY DEF SessionInv
    <2>2. /\ now \in Nat /\ SessionEnd \in Nat /\ run.at \in Nat
          /\ FailGrace \in Nat /\ FailDrain \in Nat /\ RelayDrain \in Nat
      BY <2>1, EndNumbers
    <2>3. ClosedAtOnce
      <3>1. SUFFICES ASSUME now > SessionEnd, Running, ~setup.closes PROVE task.shut \/ gate.failed
        BY DEF ClosedAtOnce
      <3>2. task.out # "read"
        BY <2>1, <2>2, <3>1 DEF Timely
      <3>3. task.out \in {"eof", "err"}
        BY <2>1, <3>2 DEF Typed, TaskRecords
      <3> QED
        BY <2>1, <3>1, <3>3 DEF Polled
    <2>4. EndsInTime
      <3>1. SUFFICES ASSUME now > SessionEnd + FailGrace + RelayDrain, ~setup.closes
                     PROVE  run.st = "ended"
        BY DEF EndsInTime
      <3>2. run.st \notin {"pump", "grace", "drain"}
        BY <2>1, <2>2, <3>1 DEF Timely
      <3> QED
        BY <2>1, <3>2 DEF Typed, RunRecords
    <2> QED
      BY <2>1, <2>3, <2>4 DEF EndsRightly
  <1> QED
    BY <1>1, SessionInvariant, PTL

\* A revoked grant carries no data once the grace, an interval and a request have passed, for
\* every timing of the re-check, its failures and the control plane's changes, provided an
\* answer from a control plane without the endpoint does not count as a valid one.
THEOREM RevocationHolds == ASSUME AnswersCount PROVE Spec => []RevocationBound
  <1>1. Init => Revoking
    BY RevokingInit
  <1>2. SessionInv /\ Revoking /\ [Next]_vars => Revoking'
    BY AnswersCount, RevokingNext DEF SessionInv
  <1>3. Revoking => RevocationBound
    BY DEF Revoking
  <1> QED
    BY <1>1, <1>2, <1>3, SessionInvariant, PTL DEF Spec

\* The sessions that are re-checked are the ones whose application keeps its side open.
KeptOpen == setup.watch => ~setup.closes

\* The same bound holds of the session as a whole: none goes on with its re-check gone or unread
\* for longer, when the application of a session that is re-checked keeps its side open.  (One
\* that closed its sending side is polled again by the peer's bytes alone, which need not come.)
THEOREM WatchAlwaysHolds ==
    ASSUME AnswersCount, \A m \in Setups : m.watch => ~m.closes
    PROVE  Spec => []WatchHolds
  <1>1. Init => KeptOpen
    <2> SUFFICES ASSUME Init PROVE KeptOpen
      OBVIOUS
    <2>1. PICK m \in Setups, own \in Expiries, other \in Expiries, good \in BOOLEAN :
            setup = [check |-> m.check, watch |-> m.watch, closes |-> m.closes,
                     own |-> own, peer |-> other, good |-> good]
      BY DEF Init
    <2> QED
      BY <2>1 DEF KeptOpen
  <1>2. KeptOpen /\ [Next]_vars => KeptOpen'
    <2> SUFFICES ASSUME KeptOpen, [Next]_vars PROVE KeptOpen'
      OBVIOUS
    <2>1. setup' = setup
      BY DEF Next, vars, Outbound, Inbound, InboundEnd, Wake, AppReady, RunPumped, RunGrace,
             RunGiveUp, RunDrained, WatchAnswer, WatchAsk, WatchClosed, WatchDies, PeerSends,
             PeerCloses, ControlPlane, Tick
    <2> QED
      BY <2>1 DEF KeptOpen
  <1>3. Init => Revoking
    BY RevokingInit
  <1>4. SessionInv /\ Revoking /\ [Next]_vars => Revoking'
    BY AnswersCount, RevokingNext DEF SessionInv
  <1>5. SessionInv /\ Revoking /\ KeptOpen => WatchHolds
    <2> SUFFICES ASSUME SessionInv, Revoking, KeptOpen PROVE WatchHolds
      OBVIOUS
    <2>1. Typed /\ Bounded /\ Watched /\ Watchful
      BY DEF SessionInv
    <2>2. life.expiry \in Expiries \cup {Never}
      BY <2>1, LeastIs, NeverIsLater DEF Bounded, SessionEnd, Least, Typed, SetupRecords, LifeRecords, Ends
    <2>3. /\ gate.out \in 0..Prelude /\ gate.got \in 0..Prelude /\ peer.net \in 0..NetCap
          /\ now \in Times
      BY <2>1, TimeAssumption DEF Typed, Bounded, GateRecords, PeerRecords, Times
    <2>4. TypeOK
      BY <2>1, <2>2, <2>3
         DEF TypeOK, Typed, SetupRecords, LifeRecords, TaskRecords, WatcherRecords, RunRecords, Ends
    <2>5. NeverUnwatched
      <3>1. SUFFICES ASSUME Running, life.watch
                     PROVE  /\ now <= watcher.lastValid + Grace + Interval + RequestTimeout
                            /\ watcher.st = "done" => watcher.msg # "no"
        BY DEF NeverUnwatched
      <3>2. setup.watch
        BY <2>1, <3>1 DEF Bounded, Typed, LifeRecords
      <3> QED
        BY <2>1, <3>1, <3>2 DEF KeptOpen, Watchful, Watched, Listening
    <2> QED
      BY <2>4, <2>5 DEF WatchHolds, Revoking
  <1> QED
    BY <1>1, <1>2, <1>3, <1>4, <1>5, SessionInvariant, PTL DEF Spec
=============================================================================
