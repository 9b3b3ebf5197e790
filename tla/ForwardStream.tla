--------------------------- MODULE ForwardStream ---------------------------
(***************************************************************************)
(* One session of a channel TCP forward: the initiate engine "I" and the   *)
(* accept engine "A" of forward_stream.rs, their writers, and one pump     *)
(* task per stream and side.                                               *)
(*                                                                         *)
(* A frame goes from a pump into its side's bounded queue (out), or from   *)
(* the engine into its control queue (ctrl), which the writer serves       *)
(* first, onto the wire, and is read by the peer's engine, which hands it  *)
(* to the stream's pump through the stream's inbound queue.                *)
(*                                                                         *)
(* Abstractions.  A Data frame carries one unit of data, known by its      *)
(* position in the stream (n).  A Close without a reason is "close", with  *)
(* any reason "abort": the engines tell no more apart.  Timers (idle,      *)
(* HELLO_WAIT, the grace of send_or_drop) fire at any time their guard     *)
(* holds.  Stream ids are handed out upwards and are not exhausted.  The   *)
(* session runs without a session window (a HELLO of version 1); that      *)
(* window is the module SessionWindow.                                     *)
(***************************************************************************)
EXTENDS Integers, Sequences, FiniteSets

CONSTANTS
    NStreams,   \* local connections that may become streams, at most
    OutCap,     \* CHANNEL_CAP of the pumps' shared queue
    InCap,      \* CHANNEL_CAP of an uncredited stream's inbound queue
    WireCap,    \* frames the transport holds between the two members
    CtrlCap,    \* CTRL_BACKLOG_CAP
    MaxPendingFc, \* MAX_PENDING_FC: streams announced and not opened
    Scenarios   \* a sequence of scenarios: the session runs in one of them

Sides == {"I", "A"}
Ids == 1..NStreams
Peer(x) == IF x = "I" THEN "A" ELSE "I"

(***************************************************************************)
(* A scenario is how the two members are set up and what may happen:       *)
(*   streams   local connections that may become streams                   *)
(*   max       max_streams, of both members                                *)
(*   window    FC_WINDOW: credit of a stream and direction                 *)
(*   units     units[x][i]: data the application of side x sends on i      *)
(*   fc        fc[x]: flow control is enabled on member x                  *)
(*   slow      <<x, i>>: the application of side x does not read stream i  *)
(*   failures  a local socket breaks, a dial fails, the transport breaks   *)
(*             or passes nothing for a while, the process shuts down       *)
(*   idle      the idle timer may run out                                  *)
(*   fair      the applications send all they have and close               *)
(***************************************************************************)
ScenarioSet == [
    streams : Ids, max : Nat \ {0}, window : Nat \ {0, 1}, units : [Sides -> [Ids -> Nat]],
    fc : [Sides -> BOOLEAN], slow : SUBSET (Sides \X Ids),
    failures : SUBSET {"socket", "dial", "transport", "stall", "shutdown"},
    idle : BOOLEAN, fair : BOOLEAN]

ASSUME StreamAssumption ==
    /\ NStreams \in Nat \ {0}
    /\ OutCap \in Nat \ {0} /\ InCap \in Nat \ {0} /\ WireCap \in Nat \ {0}
    /\ CtrlCap \in Nat /\ CtrlCap >= 3 /\ MaxPendingFc \in Nat \ {0}
    /\ Scenarios # <<>> /\ \A k \in DOMAIN Scenarios : Scenarios[k] \in ScenarioSet

VARIABLES
    eng,    \* per side: the engine's own state
    strm,   \* per side and id: the engine's entry and what it shares with the pump
    pump,   \* per side and id: the stream's task
    ctrl,   \* per side: the engine's control queue
    out,    \* per side: the pumps' queue
    wire,   \* per side: frames written by it and not read by the peer
    env     \* which scenario it is, and whether the transport failed

vars == <<eng, strm, pump, ctrl, out, wire, env>>

Scenario == Scenarios[env.case]
MaxStreams == Scenario.max
FcWindow == Scenario.window
Units == Scenario.units
FcOn == Scenario.fc
Slow == Scenario.slow
Failures == Scenario.failures

Frame(t, i, n) == [t |-> t, id |-> i, n |-> n]

\* No stream yet under this id; its counters belong to the id for good.
NoStream == [entry |-> FALSE, credited |-> FALSE, closed |-> FALSE, credit |-> 0, inq |-> <<>>]
NoPump == [task |-> "none", up |-> "read", down |-> "recv", idle |-> FALSE,
           sent |-> 0, held |-> 0, got |-> 0, unrep |-> 0, fin |-> FALSE]

\* Both engines start with their HELLO on the control queue, if flow control is on.
Init ==
    /\ \E k \in DOMAIN Scenarios : env = [case |-> k, broken |-> FALSE]
    /\ \E p \in BOOLEAN :
         eng = [x \in Sides |-> [up |-> TRUE, bad |-> FALSE, stop |-> FALSE, policy |-> p,
                                 accepting |-> ~FcOn[x], peerFc |-> FALSE,
                                 pendingFc |-> {}, blocked |-> <<>>]]
    /\ strm = [x \in Sides |-> [i \in Ids |-> NoStream]]
    /\ pump = [x \in Sides |-> [i \in Ids |-> NoPump]]
    /\ ctrl = [x \in Sides |-> IF FcOn[x] THEN <<Frame("hello", 0, 0)>> ELSE <<>>]
    /\ out = [x \in Sides |-> <<>>]
    /\ wire = [x \in Sides |-> <<>>]

-----------------------------------------------------------------------------
(* What the engines share. *)
\* `running`: the ids whose task was spawned and not joined yet.
Running(x) == {i \in Ids : pump[x][i].task \in {"start", "dialfail", "run", "ended"}}

\* The pump still holds the receiver of its inbound queue.
Receiving(x, i) == pump[x][i].task \in {"start", "dialfail", "run"}

\* The engine is at its select: not ended and not inside an await of a handler.
Ready(x) == eng[x].up /\ eng[x].blocked = <<>>

\* Nothing of a stream is left on its side once its task is joined or aborted.
Closed(s) == [s EXCEPT !.entry = FALSE, !.closed = TRUE, !.credit = 0, !.inq = <<>>]

\* The engine's loop ends: the JoinSet aborts every task, every entry is dropped.
\* `bad`: over a violation of the protocol, and not because the peer went away.
End(x, bad) ==
    /\ eng' = [eng EXCEPT ![x].up = FALSE, ![x].bad = bad, ![x].blocked = <<>>]
    /\ strm' = [strm EXCEPT ![x] = [i \in Ids |-> Closed(strm[x][i])]]
    /\ pump' = [pump EXCEPT ![x] = [i \in Ids |-> [pump[x][i] EXCEPT
                    !.task = IF @ = "none" THEN "none" ELSE "gone"]]]
    /\ ctrl' = [ctrl EXCEPT ![x] = <<>>]

\* CtrlTx::send of every frame of fs, together with the handler's other effects: a
\* backlog over its cap ends the session instead.
Send(x, fs, e, s) ==
    IF Len(ctrl[x]) + Len(fs) > CtrlCap
    THEN End(x, TRUE)
    ELSE /\ ctrl' = [ctrl EXCEPT ![x] = @ \o fs]
         /\ eng' = e
         /\ strm' = s
         /\ UNCHANGED pump

\* Mutation: a credited queue is bounded as well.
DeliverBounded(x, f, e, s) ==
    /\ IF ~Receiving(x, f.id)
       THEN strm' = s /\ eng' = e
       ELSE IF Len(s[x][f.id].inq) < InCap
       THEN strm' = [s EXCEPT ![x][f.id].inq = Append(@, f)] /\ eng' = e
       ELSE strm' = s /\ eng' = [e EXCEPT ![x].blocked = <<f>>]
    /\ UNCHANGED <<ctrl, pump>>

\* StreamEntry::deliver and notify: a credited queue never makes the engine wait, a
\* bounded one does while it is full; a queue nobody receives from takes nothing.
Deliver(x, f, e, s) ==
    /\ IF ~Receiving(x, f.id)
       THEN strm' = s /\ eng' = e
       ELSE IF s[x][f.id].credited \/ Len(s[x][f.id].inq) < InCap
       THEN strm' = [s EXCEPT ![x][f.id].inq = Append(@, f)] /\ eng' = e
       ELSE strm' = s /\ eng' = [e EXCEPT ![x].blocked = <<f>>]
    /\ UNCHANGED <<ctrl, pump>>

\* The awaiting engine goes on: there is room, or the pump is gone.
Unblock(x) ==
    /\ eng[x].up
    /\ eng[x].blocked # <<>>
    /\ LET f == Head(eng[x].blocked)
       IN \/ /\ ~Receiving(x, f.id)
             /\ UNCHANGED strm
          \/ /\ Receiving(x, f.id)
             /\ Len(strm[x][f.id].inq) < InCap
             /\ strm' = [strm EXCEPT ![x][f.id].inq = Append(@, f)]
    /\ eng' = [eng EXCEPT ![x].blocked = <<>>]
    /\ UNCHANGED <<pump, ctrl, out, wire, env>>

\* The stream loses its entry: its pump's credit is closed (StreamEntry::finish).
Dropped(x, i) == [strm EXCEPT ![x][i].entry = FALSE, ![x][i].closed = TRUE]

\* The peer broke the rules of one stream: reset it and tell the peer.
Reset(x, i) ==
    LET s == [Dropped(x, i) EXCEPT ![x][i].inq = Append(@, Frame("abort", i, 0))]
    IN Send(x, <<Frame("abort", i, 0)>>, eng, s)

\* A stream starts on side x, with or without credit.
Fresh(credited) ==
    [NoStream EXCEPT !.entry = TRUE, !.credited = credited,
                     !.credit = IF credited THEN FcWindow ELSE 0]

-----------------------------------------------------------------------------
(* The engines' handlers of one frame from the peer. *)

OnHello(x) ==
    /\ eng' = [eng EXCEPT ![x].peerFc = FcOn[x], ![x].accepting = @ \/ FcOn[x]]
    /\ UNCHANGED <<strm, pump, ctrl>>

\* apply_control for FC_ON: too many streams announced and not opened end the session.
OnFcOn(x, i) ==
    IF FcOn[x] /\ Cardinality(eng[x].pendingFc) >= MaxPendingFc THEN End(x, TRUE)
    ELSE /\ eng' = [eng EXCEPT ![x].pendingFc = IF FcOn[x] THEN @ \cup {i} ELSE @]
         /\ UNCHANGED <<strm, pump, ctrl>>

\* apply_control for WINDOW: credit beyond the window resets the stream.
OnWindow(x, i, n) ==
    LET s == strm[x][i]
    IN IF ~(FcOn[x] /\ s.entry /\ s.credited) THEN UNCHANGED <<eng, strm, pump, ctrl>>
       ELSE IF n > FcWindow - s.credit THEN Reset(x, i)
       ELSE /\ strm' = [strm EXCEPT ![x][i].credit = @ + n]
            /\ UNCHANGED <<eng, pump, ctrl>>

\* Units of data in an inbound queue (InTx::Credited.pending).
Pending(q) == Len(SelectSeq(q, LAMBDA f : f.t = "data"))

OnData(x, f) ==
    LET s == strm[x][f.id]
    IN IF ~s.entry THEN UNCHANGED <<eng, strm, pump, ctrl>>
       ELSE IF s.credited /\ Pending(s.inq) + 1 > FcWindow THEN Reset(x, f.id)
       ELSE Deliver(x, f, eng, strm)

\* A Close without a reason keeps the entry, one with a reason removes it.
OnClose(x, f) ==
    LET e == [eng EXCEPT ![x].pendingFc = @ \ {f.id}]
        s == IF f.t = "abort" THEN Dropped(x, f.id) ELSE strm
    IN IF ~strm[x][f.id].entry
       THEN eng' = e /\ UNCHANGED <<strm, pump, ctrl>>
       ELSE Deliver(x, f, e, s)

\* The accept side's Open; the initiate side ignores one.
OnOpen(x, i) ==
    LET e == [eng EXCEPT ![x].pendingFc = @ \ {i}]
        refuse == <<Frame("abort", i, 0)>>
    IN IF x = "I" THEN UNCHANGED <<eng, strm, pump, ctrl>>
       ELSE IF strm[x][i].entry \/ i \in Running(x) THEN End(x, TRUE)
       ELSE IF Cardinality(Running(x)) >= MaxStreams \/ ~eng[x].policy
       THEN Send(x, refuse, e, strm)
       ELSE /\ eng' = e
            /\ strm' = [strm EXCEPT ![x][i] = Fresh(i \in eng[x].pendingFc)]
            /\ pump' = [pump EXCEPT ![x][i].task = "start"]
            /\ UNCHANGED ctrl

ReadFrame(x) ==
    /\ Ready(x)
    /\ wire[Peer(x)] # <<>>
    /\ wire' = [wire EXCEPT ![Peer(x)] = Tail(@)]
    /\ LET f == Head(wire[Peer(x)])
       IN CASE f.t = "hello"  -> OnHello(x)
            [] f.t = "fcon"   -> OnFcOn(x, f.id)
            [] f.t = "window" -> OnWindow(x, f.id, f.n)
            [] f.t = "data"   -> OnData(x, f)
            [] f.t = "open"   -> OnOpen(x, f.id)
            [] OTHER          -> OnClose(x, f)
    /\ UNCHANGED <<out, env>>

-----------------------------------------------------------------------------
(* The engines' other branches, and the writers. *)

\* Mutation: after the wait the peer is taken to speak flow control.
HelloTimeoutAssumes ==
    /\ Ready("I")
    /\ ~eng["I"].accepting
    /\ eng' = [eng EXCEPT !["I"].accepting = TRUE, !["I"].peerFc = TRUE]
    /\ UNCHANGED <<strm, pump, ctrl, out, wire, env>>

\* The initiate side waited HELLO_WAIT for the peer's HELLO in vain.
HelloTimeout ==
    /\ Ready("I")
    /\ ~eng["I"].accepting
    /\ eng' = [eng EXCEPT !["I"].accepting = TRUE]
    /\ UNCHANGED <<strm, pump, ctrl, out, wire, env>>

\* The process is shutting down: a new connection is closed at once from now on.
StopListening ==
    /\ "shutdown" \in Failures
    /\ Ready("I")
    /\ ~eng["I"].stop
    /\ eng' = [eng EXCEPT !["I"].stop = TRUE]
    /\ UNCHANGED <<strm, pump, ctrl, out, wire, env>>

Announce(i) == <<Frame("fcon", i, 0), Frame("open", i, 0)>>

\* Ids are handed out upwards and none is used again (next_id; the wrap is not modelled).
NextId(i) ==
    /\ i <= Scenario.streams
    /\ pump["I"][i].task = "none"
    /\ \A j \in 1..(i - 1) : pump["I"][j].task # "none"

\* A local connection becomes stream i, the next unused id.  A credited stream announces
\* itself with FC_ON and Open together; an uncredited one's task queues the Open.
Accept(i) ==
    /\ Ready("I")
    /\ eng["I"].accepting
    /\ ~eng["I"].stop
    /\ Cardinality(Running("I")) < MaxStreams
    /\ NextId(i)
    /\ LET credited == eng["I"].peerFc
       IN IF credited /\ Len(ctrl["I"]) + Len(Announce(i)) > CtrlCap
          THEN End("I", TRUE)
          ELSE /\ strm' = [strm EXCEPT !["I"][i] = Fresh(credited)]
               /\ pump' = [pump EXCEPT !["I"][i].task = IF credited THEN "run" ELSE "start"]
               /\ ctrl' = [ctrl EXCEPT !["I"] = IF credited THEN @ \o Announce(i) ELSE @]
               /\ UNCHANGED eng
    /\ UNCHANGED <<out, wire, env>>

\* join_next_with_id: a task ended; its id is free and its entry, if any, goes.
Reap(x, i) ==
    /\ Ready(x)
    /\ pump[x][i].task = "ended"
    /\ pump' = [pump EXCEPT ![x][i].task = "gone"]
    /\ strm' = [strm EXCEPT ![x][i] = Closed(@)]
    /\ UNCHANGED <<eng, ctrl, out, wire, env>>

\* spawn_frame_writer: the control queue first, then the pumps' queue.
Write(x) ==
    /\ eng[x].up
    /\ Len(wire[x]) < WireCap
    /\ \/ /\ ctrl[x] # <<>>
          /\ wire' = [wire EXCEPT ![x] = Append(@, Head(ctrl[x]))]
          /\ ctrl' = [ctrl EXCEPT ![x] = Tail(@)]
          /\ UNCHANGED out
       \/ /\ ctrl[x] = <<>>
          /\ out[x] # <<>>
          /\ wire' = [wire EXCEPT ![x] = Append(@, Head(out[x]))]
          /\ out' = [out EXCEPT ![x] = Tail(@)]
          /\ UNCHANGED ctrl
    /\ UNCHANGED <<eng, strm, pump, env>>

Break ==
    /\ "transport" \in Failures
    /\ ~env.broken
    /\ env' = [env EXCEPT !.broken = TRUE]
    /\ UNCHANGED <<eng, strm, pump, ctrl, out, wire>>

\* A read or a write fails: the transport broke or the peer's engine ended.  It is
\* noticed between frames only; an awaiting engine notices it once it goes on.
EndOnError(x) ==
    /\ Ready(x)
    /\ env.broken \/ ~eng[Peer(x)].up
    /\ End(x, FALSE)
    /\ UNCHANGED <<out, wire, env>>

-----------------------------------------------------------------------------
(* The task of stream i on side x. *)

Room(x) == Len(out[x]) < OutCap

\* The queue stays full for a whole grace while the writer writes nothing.
WriterStandsStill(x) == "stall" \in Failures /\ ~Room(x) /\ Len(wire[x]) >= WireCap

\* A task queues frame f and becomes `then`, or drops it and ends: send_or_drop.
SendOrDrop(x, i, f, then) ==
    /\ \/ /\ Room(x)
          /\ out' = [out EXCEPT ![x] = Append(@, f)]
          /\ pump' = [pump EXCEPT ![x][i] = then]
       \/ /\ WriterStandsStill(x)
          /\ pump' = [pump EXCEPT ![x][i].task = "ended"]
          /\ UNCHANGED out
    /\ UNCHANGED <<eng, strm, ctrl, wire, env>>

Only(x, i, p) ==
    /\ pump' = [pump EXCEPT ![x][i] = p]
    /\ UNCHANGED <<eng, strm, ctrl, out, wire, env>>

Ended(p) == [p EXCEPT !.task = "ended"]

\* Both halves done: the task ends.
Halves(p) == IF p.up = "done" /\ p.down = "done" THEN Ended(p) ELSE p

\* An uncredited stream of the initiate side queues its Open.
QueueOpen(i) ==
    /\ pump["I"][i].task = "start"
    /\ SendOrDrop("I", i, Frame("open", i, 0), [pump["I"][i] EXCEPT !.task = "run"])

\* The accept side dials the target.
Dial(i) ==
    /\ pump["A"][i].task = "start"
    /\ \/ Only("A", i, [pump["A"][i] EXCEPT !.task = "run"])
       \/ "dial" \in Failures /\ Only("A", i, [pump["A"][i] EXCEPT !.task = "dialfail"])

DialFailed(i) ==
    /\ pump["A"][i].task = "dialfail"
    /\ SendOrDrop("A", i, Frame("abort", i, 0), Ended(pump["A"][i]))

\* The pump is inside its select: neither ended nor sending its idle Close.
Pumping(x, i) == pump[x][i].task = "run" /\ ~pump[x][i].idle

\* local -> peer: the local socket has a unit of data ...
UpRead(x, i) ==
    LET p == pump[x][i]
    IN /\ Pumping(x, i)
       /\ p.up = "read"
       /\ p.sent < Units[x][i]
       /\ Only(x, i, [p EXCEPT !.sent = @ + 1,
                               !.up = IF strm[x][i].credited THEN "credit" ELSE "queue"])

\* ... it takes credit, or the engine has closed the stream's credit ...
UpCredit(x, i) ==
    LET p == pump[x][i]
    IN /\ Pumping(x, i)
       /\ p.up = "credit"
       /\ \/ /\ strm[x][i].closed
             /\ Only(x, i, Ended(p))
          \/ /\ ~strm[x][i].closed
             /\ strm[x][i].credit > 0
             /\ strm' = [strm EXCEPT ![x][i].credit = @ - 1]
             /\ pump' = [pump EXCEPT ![x][i].up = "queue"]
             /\ UNCHANGED <<eng, ctrl, out, wire, env>>

\* ... and waits for room in the queue.
UpQueue(x, i) ==
    LET p == pump[x][i]
    IN /\ Pumping(x, i)
       /\ p.up = "queue"
       /\ Room(x)
       /\ out' = [out EXCEPT ![x] = Append(@, Frame("data", i, p.sent))]
       /\ pump' = [pump EXCEPT ![x][i].up = "read"]
       /\ UNCHANGED <<eng, strm, ctrl, wire, env>>

\* The local socket's clean end, or its failure.
UpEnd(x, i) ==
    LET p == pump[x][i]
    IN /\ Pumping(x, i)
       /\ p.up = "read"
       /\ \/ /\ p.sent = Units[x][i]
             /\ Only(x, i, [p EXCEPT !.up = "eof"])
          \/ /\ "socket" \in Failures
             /\ Only(x, i, [p EXCEPT !.up = "fail"])

UpClose(x, i) ==
    LET p == pump[x][i]
    IN /\ Pumping(x, i)
       /\ \/ /\ p.up = "eof"
             /\ SendOrDrop(x, i, Frame("close", i, 0), Halves([p EXCEPT !.up = "done"]))
          \/ /\ p.up = "fail"
             /\ SendOrDrop(x, i, Frame("abort", i, 0), Ended(p))

\* Mutation: a reset is taken for a half-close, as before the flow-control change.
DownRecvDrains(x, i) ==
    LET p == pump[x][i]
        q == strm[x][i].inq
    IN /\ Pumping(x, i)
       /\ p.down = "recv"
       /\ q # <<>>
       /\ strm' = [strm EXCEPT ![x][i].inq = Tail(q)]
       /\ pump' = [pump EXCEPT ![x][i] =
             IF Head(q).t = "data" THEN [p EXCEPT !.down = "write", !.held = Head(q).n]
             ELSE Halves([p EXCEPT !.down = "done", !.fin = TRUE])]
       /\ UNCHANGED <<eng, ctrl, out, wire, env>>

\* peer -> local: the next message of the inbound queue.
DownRecv(x, i) ==
    LET p == pump[x][i]
        q == strm[x][i].inq
    IN /\ Pumping(x, i)
       /\ p.down = "recv"
       /\ q # <<>>
       /\ strm' = [strm EXCEPT ![x][i].inq = Tail(q)]
       /\ pump' = [pump EXCEPT ![x][i] =
             CASE Head(q).t = "data"  -> [p EXCEPT !.down = "write", !.held = Head(q).n]
               [] Head(q).t = "close" -> Halves([p EXCEPT !.down = "done", !.fin = TRUE])
               [] Head(q).t = "abort" -> Ended(p)]
       /\ UNCHANGED <<eng, ctrl, out, wire, env>>

\* A WINDOW is due once half a window is consumed and not reported.
Due(x, i) == strm[x][i].credited /\ pump[x][i].unrep + 1 >= FcWindow \div 2

\* The local application takes the unit; at half a window its credit is due back.
DownWrite(x, i) ==
    LET p == pump[x][i]
    IN /\ Pumping(x, i)
       /\ p.down = "write"
       /\ \/ /\ <<x, i>> \notin Slow
             /\ Only(x, i, [p EXCEPT !.got = @ + 1, !.held = 0,
                                     !.unrep = IF strm[x][i].credited THEN @ + 1 ELSE 0,
                                     !.down = IF Due(x, i) THEN "window" ELSE "recv"])
          \/ /\ "socket" \in Failures
             /\ Only(x, i, [p EXCEPT !.down = "fail", !.held = 0])

\* The WINDOW that is due, or the reset after a failed write.
DownSend(x, i) ==
    LET p == pump[x][i]
    IN /\ Pumping(x, i)
       /\ \/ /\ p.down = "window"
             /\ SendOrDrop(x, i, Frame("window", i, p.unrep),
                           [p EXCEPT !.down = "recv", !.unrep = 0])
          \/ /\ p.down = "fail"
             /\ SendOrDrop(x, i, Frame("abort", i, 0), Ended(p))

\* No byte moved for the idle time: the pump sends a Close with a reason and ends.
Idle(x, i) ==
    /\ Scenario.idle
    /\ Pumping(x, i)
    /\ Only(x, i, [pump[x][i] EXCEPT !.idle = TRUE])

IdleClose(x, i) ==
    /\ pump[x][i].task = "run"
    /\ pump[x][i].idle
    /\ SendOrDrop(x, i, Frame("abort", i, 0), Ended(pump[x][i]))

-----------------------------------------------------------------------------
StartStep(i) == QueueOpen(i) \/ Dial(i) \/ DialFailed(i)
UpStep(x, i) == UpCredit(x, i) \/ UpQueue(x, i) \/ UpClose(x, i)
DownStep(x, i) == DownRecv(x, i) \/ DownWrite(x, i) \/ DownSend(x, i)
AppStep(x, i) == UpRead(x, i) \/ UpEnd(x, i)

Next ==
    \/ HelloTimeout
    \/ StopListening
    \/ Break
    \/ \E i \in Ids : Accept(i) \/ StartStep(i)
    \/ \E x \in Sides :
        \/ ReadFrame(x)
        \/ Unblock(x)
        \/ Write(x)
        \/ EndOnError(x)
        \/ \E i \in Ids :
            \/ Reap(x, i)
            \/ AppStep(x, i)
            \/ UpStep(x, i)
            \/ DownStep(x, i)
            \/ Idle(x, i)
            \/ IdleClose(x, i)

Spec == Init /\ [][Next]_vars

(***************************************************************************)
(* Fairness.  The engines, the writers and the pumps are tasks of one      *)
(* runtime: a branch that stays ready is taken.  The idle timer is armed   *)
(* whenever a pump waits, so it runs out if nothing else ends the stream.  *)
(* That a local connection is made, sends or closes is up to the local     *)
(* applications; in a fair scenario they send all they have and close.     *)
(* No step can be taken for ever (connections and data are finite and      *)
(* every step makes progress), so one weak fairness condition on all these *)
(* steps is the same as one on each of them.                               *)
(***************************************************************************)
Step ==
    \/ \E i \in Ids : StartStep(i)
    \/ \E x \in Sides :
        \/ ReadFrame(x) \/ Unblock(x) \/ Write(x) \/ EndOnError(x)
        \/ \E i \in Ids :
            \/ Reap(x, i) \/ UpStep(x, i) \/ DownStep(x, i) \/ Idle(x, i) \/ IdleClose(x, i)
            \/ Scenario.fair /\ AppStep(x, i)

FairSpec == Spec /\ WF_vars(Step)

-----------------------------------------------------------------------------
(* Properties. *)

MaxUnits == CHOOSE m \in {Units[x][i] : x \in Sides, i \in Ids} :
                \A x \in Sides, i \in Ids : Units[x][i] <= m

\* Engines, streams, tasks and queues have the types of what they model, and no queue
\* grows past its capacity.
TypeOK ==
    /\ eng \in [Sides -> [up : BOOLEAN, bad : BOOLEAN, stop : BOOLEAN, policy : BOOLEAN,
                          accepting : BOOLEAN, peerFc : BOOLEAN, pendingFc : SUBSET Ids,
                          blocked : {<<>>} \cup {<<Frame(t, i, n)>> : t \in {"data", "close", "abort"},
                                                                     i \in Ids, n \in 0..MaxUnits}]]
    /\ \A x \in Sides, i \in Ids :
        /\ strm[x][i].credit \in 0..FcWindow
        /\ Pending(strm[x][i].inq) <= IF strm[x][i].credited THEN FcWindow ELSE InCap
        /\ pump[x][i].task \in {"none", "start", "dialfail", "run", "ended", "gone"}
        /\ pump[x][i].up \in {"read", "credit", "queue", "eof", "fail", "done"}
        /\ pump[x][i].down \in {"recv", "write", "window", "fail", "done"}
    /\ \A x \in Sides :
        Len(ctrl[x]) <= CtrlCap /\ Len(out[x]) <= OutCap /\ Len(wire[x]) <= WireCap

\* A stream is byte-transparent: each side's socket gets the units the other side's
\* socket sent, in order, none twice and none left out.
InOrder ==
    \A x \in Sides, i \in Ids : pump[x][i].down = "write" => pump[x][i].held = pump[x][i].got + 1

\* A clean end is never a truncation: a socket is shut down only after everything the
\* other side's application sent before its own clean end has been written to it.
NoTruncation ==
    \A x \in Sides, i \in Ids :
        pump[x][i].fin => /\ pump[Peer(x)][i].up = "done"
                          /\ pump[x][i].got = Units[Peer(x)][i]

\* Frames of stream i and kind t in a queue.
Of(q, i, t) == SelectSeq(q, LAMBDA f : f.id = i /\ f.t = t)

\* The units of credit that WINDOW frames of stream i in queue q carry.
Granted(q, i) ==
    LET ws == Of(q, i, "window")
        upto[k \in 0..Len(ws)] == IF k = 0 THEN 0 ELSE upto[k - 1] + ws[k].n
    IN upto[Len(ws)]

\* While both sides run a credited stream, no credit is lost and none is made up: what the
\* sender may still send, what is on its way, what waits at the receiver, what the
\* receiver has not reported and what is on its way back make up the window.
CreditConserved ==
    \A x \in Sides, i \in Ids :
        LET y == Peer(x)
            live == \A z \in Sides : strm[z][i].entry /\ strm[z][i].credited /\ Receiving(z, i)
        IN (live /\ pump[y][i].down # "fail") =>
            strm[x][i].credit + (IF pump[x][i].up = "queue" THEN 1 ELSE 0)
            + Len(Of(out[x], i, "data")) + Len(Of(wire[x], i, "data"))
            + Pending(strm[y][i].inq) + (IF pump[y][i].down = "write" THEN 1 ELSE 0)
            + pump[y][i].unrep + Granted(out[y], i) + Granted(wire[y], i) = FcWindow

\* Two members that keep the protocol never take each other for violators: no session
\* ends over one, and the frame about to be read never resets its stream.
NoFalseViolation ==
    \A x \in Sides :
        /\ ~eng[x].bad
        /\ wire[Peer(x)] # <<>> =>
            LET f == Head(wire[Peer(x)])
            IN (f.id \in Ids /\ strm[x][f.id].entry /\ strm[x][f.id].credited) =>
                /\ f.t = "data" => Pending(strm[x][f.id].inq) < FcWindow
                /\ f.t = "window" => f.n <= FcWindow - strm[x][f.id].credit

\* A stream runs with credit exactly when both sides know it, however late a HELLO is.
CreditAgreement ==
    \A i \in Ids :
        (strm["I"][i].entry /\ strm["A"][i].entry) => strm["I"][i].credited = strm["A"][i].credited

\* The stream limit counts every task that still runs, also after a reset removed its
\* entry, and no entry outlives its task.
SlotsBounded ==
    \A x \in Sides :
        LET tasks == {i \in Ids : pump[x][i].task \notin {"none", "gone"}}
        IN /\ Cardinality(tasks) <= MaxStreams
           /\ \A i \in Ids : strm[x][i].entry => i \in tasks

\* Every stream ends on both sides and frees its slot, whatever the applications, the
\* sockets and the peer's stream do, if the idle timer is on; there are finitely many
\* connections, so in the end all slots are free.
AllFree == \A x \in Sides : Running(x) = {}
SlotFreed == (Scenario.idle /\ ~AllFree) ~> AllFree

\* Nothing fails and the applications of stream i read, send what they have and close.
Orderly(i) ==
    /\ Scenario.fair /\ ~Scenario.idle /\ Failures = {}
    /\ pump["I"][i].task = "run" /\ eng["A"].policy
    /\ \A x \in Sides : <<x, i>> \notin Slow
Completed(i) ==
    \A x \in Sides : pump[x][i].fin /\ pump[x][i].got = Units[Peer(x)][i]

\* A stream whose applications read, send what they have and close is carried through to
\* the clean end on both sides, with and without credit: flow control never stalls it, and
\* neither does another stream whose application does not read, if that one has credit.
Completes ==
    \A i \in Ids :
        (Orderly(i) /\ \A p \in Slow : strm["I"][p[2]].credited) ~> Completed(i)

\* A Close with a reason ends the stream at once and not only at the idle limit: a pump
\* whose entry is gone ends although no idle timer runs.
AbortEnds ==
    \A x \in Sides, i \in Ids :
        (pump[x][i].task = "run" /\ ~strm[x][i].entry) ~> (pump[x][i].task # "run")

\* What a socket gets is what the other side's socket sent, and all of it when it ends cleanly.
StreamIntact == InOrder /\ NoTruncation

\* The stream's window and the stream limit hold on both sides, and neither side takes the other
\* for one that breaks them.
LimitsKept == TypeOK /\ CreditConserved /\ NoFalseViolation /\ CreditAgreement /\ SlotsBounded

\* Streams that can complete do, and every slot is freed in the end.
StreamsEnd == Completes /\ SlotFreed
=============================================================================
