---------------------------- MODULE FramedRelay -----------------------------
(***************************************************************************)
(* The framed relay of the TLS-TCP fallback (serve.rs): one edge reader    *)
(* (up), one Origin reader (down) and the single owner of the edge's write *)
(* direction (writer), joined by a bounded queue.  Keepalives are counted  *)
(* and judged, both directions end with a FIN of their own, and a relay    *)
(* whose peer has finished is bounded by the idleness of its data.         *)
(*                                                                         *)
(* A frame is its kind; an ACK carries its counter and when the peer sent  *)
(* it.  A write to the Origin or to the edge takes as long as the other     *)
(* side does not read: whoever writes waits inside that write.  Time is    *)
(* discrete; what else the agent has to do goes before the next tick.      *)
(***************************************************************************)
EXTENDS Integers, Sequences

CONSTANTS
    Interval,   \* KEEPALIVE_INTERVAL
    DeadAfter,  \* KEEPALIVE_DEAD_AFTER
    IdleBound,  \* POST_PEER_FIN_IDLE_BOUND
    QueueCap,   \* FRAMED_WRITE_QUEUE
    DialBound,  \* ORIGIN_CONNECT_TIMEOUT
    Frames,     \* frames the peer sends of its own accord, at most
    Replies,    \* chunks the Origin sends, at most
    RelayTime   \* the clock stops here

ASSUME RelayAssumption ==
    /\ \A n \in {Interval, DeadAfter, IdleBound, QueueCap, DialBound} : n \in Nat \ {0}
    /\ Frames \in Nat /\ Replies \in Nat /\ RelayTime \in Nat

VARIABLES
    relay,   \* the clock, how the relay ended, history: when the peer's FIN was applied, when
             \* DATA was last written, and how much of it was before the own FIN
    peer,    \* the edge: frames sent, whether its data is over, the keepalives it has not answered
    inp,     \* frames on their way to the edge reader
    up,      \* the edge reader: what it does, since when it dials or when it last got on
    down,    \* the Origin reader
    orig,    \* the Origin: dialled, chunks written and chunks read by the agent, EOF
    queue,   \* the queue into the writer
    wr       \* the writer: what it is doing, counter, outstanding keepalives, FINs, clocks

relayVars == <<relay, peer, inp, up, down, orig, queue, wr>>

NoOp == <<"none">>
Running == relay.end = "run"

RelayInit ==
    /\ relay = [now |-> 0, end |-> "run", finAt |-> 0, putAt |-> 0, put |-> 0, fin |-> "none"]
    /\ peer = [sent |-> 0, over |-> FALSE, eof |-> FALSE, owes |-> {}]
    /\ inp = << >>
    /\ up = [st |-> "read", ev |-> NoOp, at |-> 0, dialable |-> TRUE]
    /\ down = "dial"
    /\ orig = [st |-> "none", wrote |-> 0, read |-> 0, eof |-> FALSE]
    /\ queue = << >>
    /\ wr = [mode |-> "select", op |-> NoOp, counter |-> 0, out |-> << >>, peerFin |-> FALSE,
             finSent |-> FALSE, lastWrite |-> 0, lastData |-> 0]

-----------------------------------------------------------------------------
(* Edge -> Origin: serve_framed_duplex_to_origin's up. *)

\* Hand an event to the writer; the edge reader waits while the queue is full.
UpSends(ev) == up' = [up EXCEPT !.st = "send", !.ev = ev]

\* One frame.  The first non-empty DATA dials the Origin; after a FIN the Origin is half-closed
\* and will not be dialled any more.
UpReads ==
    /\ Running /\ up.st = "read" /\ inp # << >>
    /\ inp' = Tail(inp)
    /\ LET f == Head(inp) IN
       CASE f[1] = "empty"  -> UNCHANGED up
         [] f[1] = "data" /\ orig.st = "none" -> up' = [up EXCEPT !.st = "dial", !.at = relay.now]
         [] f[1] = "data" /\ orig.st # "none" -> up' = [up EXCEPT !.st = "write"]
         [] f[1] = "ka"     -> UpSends(<<"ack">>)
         [] f[1] = "ack"    -> UpSends(<<"acked", f[2]>>)
         [] f[1] = "fin"    -> up' = [up EXCEPT !.st = "send", !.ev = <<"peerfin">>, !.dialable = FALSE]
         [] OTHER           -> up' = [up EXCEPT !.st = "last", !.ev = <<"peerfin">>, !.dialable = FALSE]
    /\ UNCHANGED <<relay, peer, down, orig, queue, wr>>

\* connect_origin: an answer within its bound, or the end of the relay.
UpDials(ok) ==
    /\ Running /\ up.st = "dial"
    /\ IF ok THEN /\ orig' = [orig EXCEPT !.st = "open"]
                  /\ up' = [up EXCEPT !.st = "write"]
                  /\ down' = "read"
                  /\ UNCHANGED relay
             ELSE relay' = [relay EXCEPT !.end = "error"] /\ UNCHANGED <<up, down, orig>>
    /\ UNCHANGED <<peer, inp, queue, wr>>

\* The Origin has taken the bytes.
UpWrites ==
    /\ Running /\ up.st = "write"
    /\ up' = [up EXCEPT !.st = "read", !.at = relay.now]
    /\ UNCHANGED <<relay, peer, inp, down, orig, queue, wr>>

\* The event goes into the queue; the one of an EOF is the last.
UpEnqueues ==
    /\ Running /\ up.st \in {"send", "last"} /\ Len(queue) < QueueCap
    /\ queue' = Append(queue, up.ev)
    /\ up' = [up EXCEPT !.st = IF @ = "last" THEN "done" ELSE "read", !.ev = NoOp,
                        !.at = relay.now]
    /\ UNCHANGED <<relay, peer, inp, down, orig, wr>>

-----------------------------------------------------------------------------
(* Origin -> edge: down. *)
\* No dial will ever come: the peer is owed a FIN all the same.
DownLearnsNoDial ==
    /\ Running /\ down = "dial" /\ ~up.dialable /\ orig.st = "none"
    /\ down' = "fin"
    /\ UNCHANGED <<relay, peer, inp, up, orig, queue, wr>>

DownReads ==
    /\ Running /\ down = "read"
    /\ \/ /\ orig.read < orig.wrote
          /\ orig' = [orig EXCEPT !.read = @ + 1]
          /\ down' = "data"
       \/ /\ orig.read = orig.wrote /\ orig.eof
          /\ down' = "fin"
          /\ UNCHANGED orig
    /\ UNCHANGED <<relay, peer, inp, up, queue, wr>>

DownEnqueues ==
    /\ Running /\ down \in {"data", "fin"} /\ Len(queue) < QueueCap
    /\ queue' = Append(queue, <<down>>)
    /\ down' = IF down = "fin" THEN "done" ELSE "read"
    /\ UNCHANGED <<relay, peer, inp, up, orig, wr>>

-----------------------------------------------------------------------------
(* The writer. *)

\* KeepaliveTracker: an ACK settles its keepalive and those before it.
Settle(out, c) == SelectSeq(out, LAMBDA k : k[1] > c)

\* apply_edge_write, the two events that put nothing on the wire.  A peer that has finished is
\* not judged any more.
ApplyBookkeeping(ev) ==
    IF ev[1] = "acked"
    THEN /\ wr' = [wr EXCEPT !.out = Settle(@, ev[2])]
         /\ UNCHANGED relay
    ELSE /\ wr' = [wr EXCEPT !.peerFin = TRUE, !.out = << >>,
                             !.lastData = IF wr.peerFin THEN @ ELSE relay.now]
         /\ relay' = IF wr.peerFin THEN relay ELSE [relay EXCEPT !.finAt = relay.now]

BothFins == wr.finSent /\ wr.peerFin

\* The loop top and the select!: between two arms.
Selecting == Running /\ wr.op = NoOp /\ wr.mode = "select" /\ ~BothFins

\* An event off the queue; what it writes is written by WriterWrites.
WriterTakes ==
    /\ Running /\ wr.op = NoOp /\ queue # << >>
    /\ Selecting \/ wr.mode = "drain"
    /\ queue' = Tail(queue)
    /\ LET ev == Head(queue) IN
       IF ev[1] \in {"acked", "peerfin"} THEN ApplyBookkeeping(ev)
       ELSE wr' = [wr EXCEPT !.op = ev] /\ UNCHANGED relay
    /\ UNCHANGED <<peer, inp, up, down, orig>>

\* Own silence: the next keepalive.
WriterKeepalive ==
    /\ Selecting
    /\ relay.now >= wr.lastWrite + Interval
    /\ wr' = [wr EXCEPT !.counter = @ + 1, !.op = <<"ka">>]
    /\ UNCHANGED <<relay, peer, inp, up, down, orig, queue>>

\* The peer has finished and the Origin's data has been idle for the whole bound.
WriterIdleFin ==
    /\ Selecting
    /\ wr.peerFin /\ ~wr.finSent
    /\ relay.now >= wr.lastData + IdleBound
    /\ wr' = [wr EXCEPT !.op = <<"idlefin">>]
    /\ UNCHANGED <<relay, peer, inp, up, down, orig, queue>>

\* Mutation: whatever is written counts as data, the own keepalives too.
WriterWritesRestart ==
    /\ Running /\ wr.op # NoOp
    /\ LET op == wr.op[1] IN
       /\ wr' = [wr EXCEPT !.op = NoOp, !.lastWrite = relay.now,
                           !.lastData = relay.now,
                           !.finSent = @ \/ op \in {"fin", "idlefin"},
                           !.out = IF op = "ka" /\ ~wr.peerFin
                                   THEN Append(@, <<wr.counter, relay.now>>) ELSE @]
       /\ peer' = IF op = "ka" THEN [peer EXCEPT !.owes = @ \cup {wr.counter}] ELSE peer
       /\ relay' = CASE op = "data" /\ ~wr.finSent -> [relay EXCEPT !.put = @ + 1, !.putAt = relay.now]
                     [] op \in {"fin", "idlefin"} /\ ~wr.finSent -> [relay EXCEPT !.fin = op]
                     [] OTHER -> relay
    /\ UNCHANGED <<inp, up, down, orig, queue>>

\* The write itself, once the edge took it; the clocks are read after it.
WriterWrites ==
    /\ Running /\ wr.op # NoOp
    /\ LET op == wr.op[1] IN
       /\ wr' = [wr EXCEPT !.op = NoOp, !.lastWrite = relay.now,
                           !.lastData = IF op = "data" THEN relay.now ELSE @,
                           !.finSent = @ \/ op \in {"fin", "idlefin"},
                           !.out = IF op = "ka" /\ ~wr.peerFin
                                   THEN Append(@, <<wr.counter, relay.now>>) ELSE @]
       /\ peer' = IF op = "ka" THEN [peer EXCEPT !.owes = @ \cup {wr.counter}] ELSE peer
       /\ relay' = CASE op = "data" /\ ~wr.finSent -> [relay EXCEPT !.put = @ + 1, !.putAt = relay.now]
                     [] op \in {"fin", "idlefin"} /\ ~wr.finSent -> [relay EXCEPT !.fin = op]
                     [] OTHER -> relay
    /\ UNCHANGED <<inp, up, down, orig, queue>>

Due == wr.out # << >> /\ relay.now >= wr.out[1][2] + DeadAfter

\* The dead-peer deadline: first everything the queue holds.
WriterDeadline ==
    /\ Selecting /\ Due
    /\ wr' = [wr EXCEPT !.mode = "drain"]
    /\ UNCHANGED <<relay, peer, inp, up, down, orig, queue>>

WriterJudges ==
    /\ Running /\ wr.mode = "drain" /\ wr.op = NoOp /\ queue = << >>
    /\ IF Due THEN relay' = [relay EXCEPT !.end = "dead"] /\ UNCHANGED wr
       ELSE wr' = [wr EXCEPT !.mode = "select"] /\ UNCHANGED relay
    /\ UNCHANGED <<peer, inp, up, down, orig, queue>>

\* Both FINs, or no one is left to feed the queue.
WriterEnds ==
    /\ Running /\ wr.op = NoOp /\ wr.mode = "select"
    /\ BothFins \/ (up.st = "done" /\ down = "done" /\ queue = << >>)
    /\ relay' = [relay EXCEPT !.end = "ok"]
    /\ UNCHANGED <<peer, inp, up, down, orig, queue, wr>>

-----------------------------------------------------------------------------
(* The edge, the Origin and time. *)

\* A frame of the peer's own accord; after its FIN only keepalives, after an EOF nothing.
PeerSends(kind) ==
    /\ Running /\ ~peer.eof /\ peer.sent < Frames
    /\ kind \in {"data", "empty"} => ~peer.over
    /\ kind = "fin" => ~peer.over
    /\ inp' = Append(inp, <<kind>>)
    /\ peer' = [peer EXCEPT !.sent = @ + 1, !.over = @ \/ kind \in {"fin", "eof"}, !.eof = kind = "eof"]
    /\ UNCHANGED <<relay, up, down, orig, queue, wr>>

PeerAnswers ==
    /\ Running /\ ~peer.eof
    /\ \E c \in peer.owes :
         /\ \A d \in peer.owes : c <= d
         /\ inp' = Append(inp, <<"ack", c, relay.now>>)
         /\ peer' = [peer EXCEPT !.owes = @ \ {c}]
    /\ UNCHANGED <<relay, up, down, orig, queue, wr>>

OriginSends ==
    /\ Running /\ orig.st = "open" /\ ~orig.eof
    /\ \/ orig.wrote < Replies /\ orig' = [orig EXCEPT !.wrote = @ + 1]
       \/ orig' = [orig EXCEPT !.eof = TRUE]
    /\ UNCHANGED <<relay, peer, inp, up, down, queue, wr>>

\* What the agent does before time passes.
RelayUrgent ==
    \/ up.st = "read" /\ inp # << >>
    \/ up.st = "dial" /\ relay.now >= up.at + DialBound
    \/ up.st \in {"send", "last"} /\ Len(queue) < QueueCap
    \/ down = "dial" /\ ~up.dialable /\ orig.st = "none"
    \/ down = "read" /\ (orig.read < orig.wrote \/ orig.eof)
    \/ down \in {"data", "fin"} /\ Len(queue) < QueueCap
    \/ wr.op = NoOp /\ (wr.mode = "drain" \/ queue # << >> \/ BothFins \/ Due)
    \/ wr.op = NoOp /\ up.st = "done" /\ down = "done"
    \/ wr.op = NoOp /\ relay.now >= wr.lastWrite + Interval
    \/ wr.op = NoOp /\ wr.peerFin /\ ~wr.finSent /\ relay.now >= wr.lastData + IdleBound

RelayTick ==
    /\ Running /\ relay.now < RelayTime /\ ~RelayUrgent
    /\ relay' = [relay EXCEPT !.now = @ + 1]
    /\ UNCHANGED <<peer, inp, up, down, orig, queue, wr>>

RelayNext ==
    \/ UpReads \/ (\E ok \in BOOLEAN : UpDials(ok)) \/ UpWrites \/ UpEnqueues
    \/ DownLearnsNoDial \/ DownReads \/ DownEnqueues
    \/ WriterTakes \/ WriterKeepalive \/ WriterIdleFin \/ WriterWrites
    \/ WriterDeadline \/ WriterJudges \/ WriterEnds
    \/ (\E kind \in {"data", "empty", "ka", "fin", "eof"} : PeerSends(kind))
    \/ PeerAnswers \/ OriginSends \/ RelayTick

RelaySpec == RelayInit /\ [][RelayNext]_relayVars

-----------------------------------------------------------------------------
(* Properties. *)

\* The FIN the agent sends over the Origin's own EOF (serve_framed_duplex_to_origin's down) comes
\* after every chunk the Origin wrote, through three tasks and the queue; the agent cuts the
\* Origin short (the idle bound) only when the peer has finished too, and a relay that ends well
\* has said one of the two.
ReplyWholeBeforeFin ==
    /\ relay.fin = "fin" => relay.put = orig.wrote
    /\ relay.fin = "idlefin" => wr.peerFin
    /\ relay.end = "ok" => relay.fin # "none"

\* A peer is judged dead over its own silence only (the drain before the verdict, #528 A2): no
\* ACK is left in the queue when the verdict falls, and none that came before the deadline's tick
\* is left unread, unless the edge reader was held up until that tick (by a DATA frame that the
\* Origin does not take, or by a full queue).
VerdictIsFair ==
    relay.end = "dead" =>
        /\ \A i \in DOMAIN queue : queue[i][1] # "acked"
        /\ \/ up.st # "read" \/ up.at = relay.now
           \/ \A i \in DOMAIN inp : inp[i][1] = "ack" => inp[i][3] = relay.now

Latest(a, b) == IF a < b THEN b ELSE a

\* A half-closed relay does not live on its own keepalives (#528 N2): once the peer has finished,
\* it is over when no DATA was written for the idle bound, wherever the Origin and the readers
\* hang, unless the edge does not take what the agent writes.
HalfClosedEnds ==
    Running /\ wr.peerFin /\ ~RelayUrgent /\ relay.now >= Latest(relay.finAt, relay.putAt) + IdleBound =>
        wr.op # NoOp

\* A half-closed tunnel does not linger, and a peer that answers is not given up.
PeerTreatedFairly == HalfClosedEnds /\ VerdictIsFair

\* Both ends of a relay get what they are owed: the reply whole, and an end in time.
RelaySound == ReplyWholeBeforeFin /\ PeerTreatedFairly
=============================================================================
