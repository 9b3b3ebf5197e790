----------------------------- MODULE MasqueTunnel -----------------------------
(* A QUIC connection dialed through an HTTP/2 CONNECT-UDP proxy                 *)
(* (masque/mod.rs, masque/socket.rs, masque/capsule.rs, masque/varint.rs).      *)
(* The dial goes through TCP, TLS, the HTTP/2 handshake, the wait for the       *)
(* proxy's settings, the CONNECT request and the QUIC handshake, all under one  *)
(* time limit.  The tunnel is two pumps with bounded queues between quinn and   *)
(* the HTTP/2 stream: every UDP datagram is one capsule in a stream of bytes    *)
(* that arrives cut up anywhere.  HTTP/2, TLS, quinn and the proxy are external.*)
EXTENDS Integers, Sequences

CONSTANTS
  PumpCapacity,   \* PUMP_CAPACITY: datagrams a pump's queue holds
  PollAttempts,   \* EXTENDED_CONNECT_POLL_ATTEMPTS
  Capsules,       \* bound: capsules the proxy writes
  Outgoing        \* the lengths of the datagrams quinn sends, in order

MaxUdp == 65527   \* the longest UDP payload (RFC 9298, section 6)

ASSUME MasqueAssumption ==
  /\ PumpCapacity \in Nat \ {0}
  /\ PollAttempts \in Nat
  /\ Capsules \in 0 .. 255            \* a capsule carries its number in one byte
  /\ Outgoing \in Seq(0 .. MaxUdp)

VARIABLES
  tunnel,     \* the dial: where it is, the polls made, the HTTP/2 task, the setting
  inbound,    \* the pump towards quinn, the bytes on their way to it, what quinn got
  outbound    \* the pump towards the proxy, and the bytes it wrote

masqueVars == <<tunnel, inbound, outbound>>

-----------------------------------------------------------------------------
(* Integers of 1, 2 or 4 bytes; a length of 8 bytes is beyond any datagram.     *)

\* The bytes of an integer of this many bytes, before the first one is tagged.
BigEndian(v, n) ==
  CASE n = 1 -> <<v>>
    [] n = 2 -> <<v \div 2^8, v % 2^8>>
    [] n = 4 -> <<v \div 2^24, (v \div 2^16) % 2^8, (v \div 2^8) % 2^8, v % 2^8>>

\* The two highest bits of the first byte say how many bytes there are.
Tagged(v, n, tag) == [BigEndian(v, n) EXCEPT ![1] = @ + 64 * tag]

\* Mutation: the largest one-byte value taken for one more.
VarintEncodeOffByOne(v) ==
  CASE v <= 2^6               -> Tagged(v, 1, 0)
    [] v > 2^6 /\ v < 2^14    -> Tagged(v, 2, 1)
    [] v >= 2^14 /\ v < 2^30  -> Tagged(v, 4, 2)

VarintEncode(v) ==
  CASE v < 2^6                -> Tagged(v, 1, 0)
    [] v >= 2^6 /\ v < 2^14   -> Tagged(v, 2, 1)
    [] v >= 2^14 /\ v < 2^30  -> Tagged(v, 4, 2)

NotYet == [ok |-> FALSE, value |-> 0, len |-> 0]

VarintLen(first) ==
  CASE first < 64                    -> 1
    [] first >= 64 /\ first < 128    -> 2
    [] first >= 128 /\ first < 192   -> 4
    [] first >= 192                  -> 8

\* The first bytes of a buffer, without the tag, as one number.
BytesValue(buf, n) ==
  LET Value[i \in 1 .. n] == IF i = 1 THEN buf[1] % 64 ELSE 256 * Value[i - 1] + buf[i]
  IN Value[n]

VarintDecode(buf) ==
  IF buf = <<>> THEN NotYet
  ELSE LET n == VarintLen(buf[1])
       IN IF Len(buf) < n THEN NotYet
          ELSE [ok |-> TRUE, value |-> BytesValue(buf, n), len |-> n]

-----------------------------------------------------------------------------
(* Capsules: a type, a length and a value; a datagram's value is a context and  *)
(* the UDP payload.                                                             *)

MaxValueLen == MaxUdp + 8

Pending == [result |-> "pending", type |-> 0, value |-> <<>>, consumed |-> 0]

\* Pending until a whole capsule is there; a length no datagram can have is an error.
DecodeCapsule(buf) ==
  LET type  == VarintDecode(buf)
      len   == IF type.ok THEN VarintDecode(SubSeq(buf, type.len + 1, Len(buf))) ELSE NotYet
      total == type.len + len.len + len.value
  IN CASE ~len.ok                               -> Pending
       [] len.ok /\ len.value > MaxValueLen     -> [Pending EXCEPT !.result = "violation"]
       [] len.ok /\ len.value <= MaxValueLen /\ Len(buf) < total -> Pending
       [] OTHER -> [result   |-> "capsule", type |-> type.value,
                    value    |-> SubSeq(buf, type.len + len.len + 1, total),
                    consumed |-> total]

\* The UDP payload of a value, when it is of the context for plain UDP.
UdpPayload(value) ==
  LET context == VarintDecode(value)
  IN IF context.ok /\ context.value = 0
       THEN <<SubSeq(value, context.len + 1, Len(value))>> ELSE <<>>

\* A datagram as it goes out: context 0 before the payload, in a capsule of type 0.
EncodeDatagram(payload) ==
  VarintEncode(0) \o VarintEncode(Len(payload) + 1) \o VarintEncode(0) \o payload

\* What the proxy writes for its k-th capsule: a datagram, its length in one byte
\* or in more than it needs; capsules of another type, of another context, with no
\* value at all; a length that no datagram can have.
ProxyCapsules(k) ==
  { <<0, 2, 0, k>>, <<0, 64, 2, 0, k>>, <<1, 1, k>>, <<0, 2, 1, k>>, <<0, 0>>,
    <<0, 128, 1, 0, 0>> }

IsDatagram(bytes) == bytes[1] = 0 /\ bytes[2] \in {2, 64} /\ bytes[Len(bytes) - 1] = 0

-----------------------------------------------------------------------------
(* The dial.                                                                    *)

DialSteps == {"tcp", "tls", "http", "settings", "request", "quic", "up", "failed", "closed"}

Idle == [at |-> "none", wire |-> <<>>, buf |-> <<>>, queue |-> <<>>, got |-> <<>>,
         sent |-> <<>>, written |-> 0, dropped |-> 0]

Quiet == [at |-> "none", queue |-> <<>>, stream |-> <<>>, sent |-> 0, dropped |-> 0,
          kept |-> <<>>]

Bytes == 0 .. 255

\* The state is of the kinds declared above.
MasqueTypeOK ==
  /\ tunnel \in [at : DialSteps, polls : 0 .. PollAttempts, task : BOOLEAN, enabled : BOOLEAN]
  /\ inbound.at \in {"none", "chunk", "decode", "gone"}
  /\ outbound.at \in {"none", "pump", "gone"}
  /\ inbound.wire \in Seq(Bytes) /\ inbound.buf \in Seq(Bytes)
  /\ Len(inbound.queue) <= PumpCapacity /\ Len(outbound.queue) <= PumpCapacity

MasqueInit ==
  /\ tunnel = [at |-> "tcp", polls |-> 0, task |-> FALSE, enabled |-> FALSE]
  /\ inbound = Idle
  /\ outbound = Quiet

\* An attempt that fails drops its guards: the HTTP/2 task and both pumps with it.
Fails ==
  /\ tunnel' = [tunnel EXCEPT !.at = "failed", !.task = FALSE]
  /\ inbound' = [inbound EXCEPT !.at = IF @ = "none" THEN @ ELSE "gone"]
  /\ outbound' = [outbound EXCEPT !.at = IF @ = "none" THEN @ ELSE "gone"]

Dialing == tunnel.at \notin {"up", "failed", "closed"}

\* Any step of the dial may fail, or be cut off by the dial's one time limit.
DialFails == Dialing /\ Fails

Reaches ==
  /\ \/ /\ tunnel.at = "tcp"
        /\ tunnel' = [tunnel EXCEPT !.at = "tls"]
     \/ /\ tunnel.at = "tls"
        /\ tunnel' = [tunnel EXCEPT !.at = "http"]
     \/ /\ tunnel.at = "http"
        /\ tunnel' = [tunnel EXCEPT !.at = "settings", !.task = TRUE]
  /\ UNCHANGED <<inbound, outbound>>

\* The proxy's settings arrive whenever they do, if the connection is driven.
ProxyEnables ==
  /\ tunnel.task /\ ~tunnel.enabled /\ tunnel.at \in {"settings", "request"}
  /\ tunnel' = [tunnel EXCEPT !.enabled = TRUE]
  /\ UNCHANGED <<inbound, outbound>>

\* The setting is looked at once per interval, and once more after the last one.
PollsSetting ==
  /\ tunnel.at = "settings"
  /\ IF tunnel.enabled
       THEN tunnel' = [tunnel EXCEPT !.at = "request"] /\ UNCHANGED <<inbound, outbound>>
       ELSE IF tunnel.polls < PollAttempts
         THEN tunnel' = [tunnel EXCEPT !.polls = @ + 1] /\ UNCHANGED <<inbound, outbound>>
         ELSE Fails

\* A 200 starts the pumps; any other status ends the dial.
ProxyResponds ==
  /\ tunnel.at = "request"
  /\ tunnel' = [tunnel EXCEPT !.at = "quic"]
  /\ inbound' = [inbound EXCEPT !.at = "chunk"]
  /\ outbound' = [outbound EXCEPT !.at = "pump"]

ProxyRefuses == tunnel.at = "request" /\ Fails

\* quinn's handshake needs datagrams both ways; then the HTTP/2 task is detached.
QuicConnects ==
  /\ tunnel.at = "quic"
  /\ inbound.got # <<>> /\ outbound.stream # <<>>
  /\ tunnel' = [tunnel EXCEPT !.at = "up"]
  /\ UNCHANGED <<inbound, outbound>>

\* quinn drops the socket: both pumps are aborted, and HTTP/2 ends with its streams.
SocketDropped ==
  /\ tunnel.at = "up"
  /\ tunnel' = [tunnel EXCEPT !.at = "closed", !.task = FALSE]
  /\ inbound' = [inbound EXCEPT !.at = "gone"]
  /\ outbound' = [outbound EXCEPT !.at = "gone"]

\* The HTTP/2 connection breaks under a tunnel: neither pump gets any further.
ConnectionBreaks ==
  /\ tunnel.at \in {"quic", "up"} /\ tunnel.task
  /\ tunnel' = [tunnel EXCEPT !.task = FALSE]
  /\ inbound' = [inbound EXCEPT !.wire = <<>>]
  /\ UNCHANGED outbound

-----------------------------------------------------------------------------
(* The two pumps.                                                               *)

\* A datagram is queued, or dropped and counted when the queue is full.
OfferDatagram(pump, payload) ==
  IF Len(pump.queue) < PumpCapacity
    THEN [pump EXCEPT !.queue = Append(@, payload)]
    ELSE [pump EXCEPT !.dropped = @ + 1]

Tunnelled == tunnel.at \in {"quic", "up"}

ProxyWrites ==
  /\ Tunnelled /\ tunnel.task /\ inbound.written < Capsules
  /\ \E bytes \in ProxyCapsules(inbound.written + 1) :
       inbound' = [inbound EXCEPT !.wire = @ \o bytes, !.written = @ + 1,
                                  !.sent = IF IsDatagram(bytes)
                                             THEN Append(@, <<inbound.written + 1>>) ELSE @]
  /\ UNCHANGED <<tunnel, outbound>>

\* A chunk of any size is appended to what is left of the last one.
ReadsChunk ==
  /\ inbound.at = "chunk" /\ inbound.wire # <<>>
  /\ \E n \in 1 .. Len(inbound.wire) :
       inbound' = [inbound EXCEPT !.at = "decode", !.buf = @ \o SubSeq(inbound.wire, 1, n),
                                  !.wire = SubSeq(@, n + 1, Len(@))]
  /\ UNCHANGED <<tunnel, outbound>>

ReadEnds ==
  /\ inbound.at = "chunk" /\ inbound.wire = <<>> /\ ~tunnel.task
  /\ inbound' = [inbound EXCEPT !.at = "gone"]
  /\ UNCHANGED <<tunnel, outbound>>

\* Whole capsules are taken one by one off the front of the buffer.
DecodesNext ==
  /\ inbound.at = "decode"
  /\ LET next  == DecodeCapsule(inbound.buf)
         rest  == [inbound EXCEPT !.buf = SubSeq(@, next.consumed + 1, Len(@))]
         found == IF next.type = 0 THEN UdpPayload(next.value) ELSE <<>>
     IN inbound' = CASE next.result = "pending"   -> [inbound EXCEPT !.at = "chunk"]
                     [] next.result = "violation" -> [inbound EXCEPT !.at = "gone"]
                     [] next.result = "capsule" /\ found = <<>> -> rest
                     [] next.result = "capsule" /\ found # <<>> -> OfferDatagram(rest, found[1])
  /\ UNCHANGED <<tunnel, outbound>>

\* quinn takes a datagram; after the pump's end it gets what is queued, then an error.
PollRecv ==
  /\ Tunnelled /\ inbound.queue # <<>>
  /\ inbound' = [inbound EXCEPT !.got = Append(@, Head(inbound.queue)), !.queue = Tail(@)]
  /\ UNCHANGED <<tunnel, outbound>>

RecvFails ==
  /\ Tunnelled /\ inbound.queue = <<>> /\ inbound.at = "gone"
  /\ IF tunnel.at = "quic" THEN Fails
     ELSE /\ tunnel' = [tunnel EXCEPT !.at = "closed", !.task = FALSE]
          /\ outbound' = [outbound EXCEPT !.at = "gone"]
          /\ UNCHANGED inbound

\* quinn sends its next datagram; a pump that is gone makes it an error.
TrySend ==
  /\ Tunnelled /\ outbound.sent < Len(Outgoing)
  /\ LET n       == outbound.sent + 1
         payload == [i \in 1 .. Outgoing[n] |-> n]
         after   == OfferDatagram(outbound, payload)
     IN outbound' =
          IF outbound.at = "gone" THEN [outbound EXCEPT !.sent = n]
          ELSE [after EXCEPT !.sent = n,
                  !.kept = IF after.queue # outbound.queue THEN Append(@, payload) ELSE @]
  /\ UNCHANGED <<tunnel, inbound>>

\* The next queued datagram is framed and written; a broken stream ends the pump.
PumpsOut ==
  /\ outbound.at = "pump" /\ outbound.queue # <<>>
  /\ outbound' =
       IF tunnel.task
         THEN [outbound EXCEPT !.queue = Tail(@),
                               !.stream = @ \o EncodeDatagram(Head(outbound.queue))]
         ELSE [outbound EXCEPT !.queue = Tail(@), !.at = "gone"]
  /\ UNCHANGED <<tunnel, inbound>>

MasqueNext ==
  \/ Reaches \/ ProxyEnables \/ PollsSetting \/ ProxyResponds \/ ProxyRefuses \/ QuicConnects
  \/ DialFails \/ SocketDropped \/ ConnectionBreaks
  \/ ProxyWrites \/ ReadsChunk \/ ReadEnds \/ DecodesNext \/ PollRecv \/ RecvFails
  \/ TrySend \/ PumpsOut

MasqueSpec == MasqueInit /\ [][MasqueNext]_masqueVars

-----------------------------------------------------------------------------
\* The bytes a receiver finds when it decodes what was written, frame after frame.
Deframed(stream) ==
  LET Taken[i \in 0 .. Len(Outgoing)] ==
        IF i = 0 THEN [rest |-> stream, out |-> <<>>]
        ELSE LET last == Taken[i - 1]
                 next == DecodeCapsule(last.rest)
             IN IF next.result # "capsule" THEN last
                ELSE [rest |-> SubSeq(last.rest, next.consumed + 1, Len(last.rest)),
                      out  |-> last.out \o UdpPayload(next.value)]
  IN Taken[Len(Outgoing)]

Rising(s) == \A i, j \in 1 .. Len(s) : i < j => s[i][1] < s[j][1]

\* However the stream is cut, and whatever else the proxy writes between, each
\* datagram comes through whole, once and in order, or is counted as dropped on a
\* full queue: once every byte is in and the pump waits for more, its buffer is
\* empty and received, queued and counted add up to what was sent; and the bytes
\* written outwards decode to exactly the datagrams the queue took.  The decoder
\* must leave the buffer on a capsule's first byte after each of its four ways out
\* (capsule.rs:39, socket.rs:219), at every cut, and frame lengths on both sides
\* of a one-byte integer.
DatagramsAccounted ==
  /\ MasqueTypeOK
  /\ Rising(inbound.got \o inbound.queue)
  /\ \A i \in 1 .. Len(inbound.got \o inbound.queue) :
       \E j \in 1 .. Len(inbound.sent) : (inbound.got \o inbound.queue)[i] = inbound.sent[j]
  /\ (inbound.at = "chunk" /\ inbound.wire = <<>> /\ tunnel.task) =>
       /\ inbound.buf = <<>>
       /\ Len(inbound.got) + Len(inbound.queue) + inbound.dropped = Len(inbound.sent)
  /\ (outbound.at = "pump" /\ tunnel.task) =>
       /\ Deframed(outbound.stream).rest = <<>>
       /\ Deframed(outbound.stream).out \o outbound.queue = outbound.kept
       /\ Len(outbound.kept) + outbound.dropped = outbound.sent
=============================================================================
