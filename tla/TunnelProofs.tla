---------------------------- MODULE TunnelProofs ----------------------------
(***************************************************************************)
(* Proofs about the tunnel's side of the agent, for any number of clients  *)
(* and connections and any limits: the time a stranger keeps a slot of the *)
(* direct listener, the phases of a connection to the edge, the pool of    *)
(* parked relays it falls back to, the framed relay such a connection      *)
(* carries, and the datagrams of a tunnel through a MASQUE proxy.          *)
(***************************************************************************)
EXTENDS Integers, DirectPath, EdgeLink, TunnelAgent, FramedRelay, MasqueTunnel,
        FiniteSetTheorems, SequenceTheorems, WellFoundedInduction, TLAPS

-----------------------------------------------------------------------------
(* The direct listener (DirectPath).  While a peer is unauthenticated, the time it has held its    *)
(* slot and the time left to it make up the set-up time: no step on its way hands it a new one.    *)

Stages == Unauthenticated \cup {"none", "done", "dial", "pump", "linger"}
DirectRecords == [at : Stages, left : Nat, auth : BOOLEAN, held : Nat]

\* What one connection's record may be.
Timed(r) ==
    /\ r \in DirectRecords
    /\ r.at \in Unauthenticated => ~r.auth /\ r.held + r.left = SetupTime
    /\ r.at \in {"dial", "pump", "linger"} => r.auth

DirectInv == direct \in [Direct -> DirectRecords] /\ \A c \in Direct : Timed(direct[c])

\* A step that sets one connection's record to a timed one keeps the invariant.
LEMMA Framed ==
    ASSUME DirectInv, NEW c \in Direct, NEW r, Timed(r), Sets(c, r)
    PROVE  DirectInv'
  <1>1. r \in DirectRecords /\ direct' = [direct EXCEPT ![c] = r]
    BY DEF Timed, Sets
  <1>2. direct' \in [Direct -> DirectRecords] /\ \A d \in Direct : Timed(direct'[d])
    BY <1>1 DEF DirectInv
  <1> QED
    BY <1>2 DEF DirectInv

\* A connection that comes in has the whole set-up time left, one that ends has none to lose.
LEMMA Corners == Timed(Outside) /\ Timed(Ending) /\ Timed(Incoming)
  <1>0. SetupTime \in Nat
    BY DirectAssumption
  <1>1. Timed(Outside)
    BY <1>0 DEF Timed, Outside, DirectRecords, Stages, Unauthenticated
  <1>2. Outside \in DirectRecords /\ Outside.left = 0 /\ Outside.held = 0 /\ ~Outside.auth
    BY <1>1 DEF Timed, Outside
  <1>3. Timed(Ending)
    <2>1. Ending \in DirectRecords /\ Ending.at = "done"
      BY <1>2 DEF Ending, DirectRecords, Stages
    <2> QED
      BY <2>1 DEF Timed, Unauthenticated
  <1>4. Timed(Incoming)
    <2>1. /\ Incoming \in DirectRecords /\ Incoming.at = "quic" /\ Incoming.left = SetupTime
          /\ Incoming.held = 0 /\ ~Incoming.auth
      BY <1>0, <1>2 DEF Incoming, DirectRecords, Stages, Unauthenticated
    <2> QED
      BY <1>0, <2>1 DEF Timed, Unauthenticated
  <1> QED
    BY <1>1, <1>3, <1>4

\* A record with other contents: what its fields must be.
LEMMA TimedWith ==
    ASSUME NEW r \in DirectRecords, NEW at \in Stages, NEW n \in Nat, NEW h \in Nat, NEW b \in BOOLEAN,
           NEW q, q = [r EXCEPT !.at = at, !.left = n, !.auth = b, !.held = h],
           at \in Unauthenticated => ~b /\ h + n = SetupTime,
           at \in {"dial", "pump", "linger"} => b
    PROVE  Timed(q)
  <1>1. q \in DirectRecords /\ q.at = at /\ q.left = n /\ (q.auth <=> b) /\ q.held = h
    BY DEF DirectRecords
  <1> QED
    BY <1>1 DEF Timed

\* One connection goes on: within the set-up its time is untouched, and out of it it has a name.
LEMMA Onward ==
    ASSUME NEW r, Timed(r)
    PROVE  /\ \A at \in Unauthenticated : r.at \in Unauthenticated => Timed([r EXCEPT !.at = at])
           /\ Timed([r EXCEPT !.at = "dial", !.left = 0, !.auth = TRUE, !.held = 0])
           /\ Timed([r EXCEPT !.at = "linger", !.left = LingerTime, !.auth = TRUE, !.held = 0])
           /\ r.at = "dial" => Timed([r EXCEPT !.at = "pump"])
           /\ r.at = "pump" => Timed([r EXCEPT !.at = "linger", !.left = LingerTime])
  <1>0. /\ r \in DirectRecords /\ r.left \in Nat /\ r.held \in Nat /\ r.auth \in BOOLEAN
        /\ LingerTime \in Nat /\ Unauthenticated \subseteq Stages /\ {"dial", "pump", "linger"} \subseteq Stages
        /\ r.at \in Unauthenticated => ~r.auth /\ r.held + r.left = SetupTime
        /\ r.at \in {"dial", "pump"} => r.auth
        /\ \A at \in Unauthenticated : at \notin {"dial", "pump", "linger"}
    BY DirectAssumption DEF Timed, DirectRecords, Stages, Unauthenticated
  <1>1. ASSUME NEW at \in Unauthenticated, r.at \in Unauthenticated
        PROVE  Timed([r EXCEPT !.at = at])
    <2>1. [r EXCEPT !.at = at] \in DirectRecords
      BY <1>0 DEF DirectRecords
    <2> QED
      BY <1>0, <1>1, <2>1 DEF Timed, DirectRecords
  <1>2. Timed([r EXCEPT !.at = "dial", !.left = 0, !.auth = TRUE, !.held = 0])
    BY <1>0, TimedWith
  <1>3. Timed([r EXCEPT !.at = "linger", !.left = LingerTime, !.auth = TRUE, !.held = 0])
    BY <1>0, TimedWith
  <1>4. r.at = "dial" => Timed([r EXCEPT !.at = "pump"])
    BY <1>0 DEF Timed, DirectRecords, Unauthenticated
  <1>5. r.at = "pump" => Timed([r EXCEPT !.at = "linger", !.left = LingerTime])
    BY <1>0 DEF Timed, DirectRecords, Unauthenticated
  <1> QED
    BY <1>1, <1>2, <1>3, <1>4, <1>5

\* No step of a connection gives it new time before it is authenticated.
LEMMA ConnectionKeeps ==
    ASSUME DirectInv, NEW c \in Direct,
           \/ Accepts(c) \/ DirectConnects(c) \/ OpensStream(c) \/ PassesGate(c) \/ GateAnswers(c)
           \/ FailsAtOnce(c) \/ DialsOrigin(c) \/ Served(c) \/ LingerEnds(c)
           \/ \E says \in Payloads : PassesNoise(c, says) \/ RefusedNoise(c, says)
    PROVE  DirectInv'
  <1>0. PICK r : r = direct[c] /\ Timed(r)
    BY DEF DirectInv
  <1>1. CASE Accepts(c) \/ FailsAtOnce(c) \/ LingerEnds(c) \/ \E says \in Payloads : RefusedNoise(c, says)
    <2>1. Sets(c, Ending) \/ Sets(c, Incoming)
      BY <1>1, SMTT(30) DEF Accepts, FailsAtOnce, LingerEnds, RefusedNoise
    <2> QED
      BY <2>1, Corners, Framed
  <1>2. CASE DirectConnects(c) \/ OpensStream(c)
    <2>1. PICK at \in Unauthenticated : Sets(c, [r EXCEPT !.at = at])
      BY <1>0, <1>2 DEF DirectConnects, OpensStream, Enters, Unauthenticated
    <2>2. r.at \in Unauthenticated
      BY <1>0, <1>2, SMTT(30) DEF DirectConnects, OpensStream, Unauthenticated
    <2> QED
      BY <1>0, <2>1, <2>2, Onward, Framed
  <1>3. CASE \E says \in Payloads : PassesNoise(c, says)
    <2>1. r.at \in Unauthenticated
      BY <1>0, <1>3 DEF PassesNoise, Unauthenticated
    <2>2. \/ Sets(c, [r EXCEPT !.at = "gate"])
          \/ Sets(c, [r EXCEPT !.at = "dial", !.left = 0, !.auth = TRUE, !.held = 0])
      BY <1>0, <1>3 DEF PassesNoise, Enters, Admits
    <2>3. "gate" \in Unauthenticated
      BY SMTT(30) DEF Unauthenticated
    <2> QED
      BY <1>0, <2>1, <2>2, <2>3, Onward, Framed
  <1>4. CASE PassesGate(c) \/ GateAnswers(c)
    <2>1. \/ Sets(c, [r EXCEPT !.at = "dial", !.left = 0, !.auth = TRUE, !.held = 0])
          \/ Sets(c, [r EXCEPT !.at = "linger", !.left = LingerTime, !.auth = TRUE, !.held = 0])
      BY <1>0, <1>4, SMTT(30) DEF PassesGate, GateAnswers, Admits
    <2> QED
      BY <1>0, <2>1, Onward, Framed
  <1>5. CASE DialsOrigin(c) \/ Served(c)
    <2>1. \/ r.at = "dial" /\ Sets(c, [r EXCEPT !.at = "pump"])
          \/ r.at = "pump" /\ Sets(c, [r EXCEPT !.at = "linger", !.left = LingerTime])
      BY <1>0, <1>5 DEF DialsOrigin, Served, Enters
    <2> QED
      BY <1>0, <2>1, Onward, Framed
  <1> QED
    BY <1>1, <1>2, <1>3, <1>4, <1>5

\* Time passes for everyone who waits, and only when nobody's is up.
LEMMA DirectTickKeeps == ASSUME DirectInv, DirectTick PROVE DirectInv'
  <1>1. ASSUME NEW c \in Direct
        PROVE  direct'[c] \in DirectRecords /\ Timed(direct'[c])
    <2>0. PICK r : r = direct[c] /\ Timed(r)
      BY DEF DirectInv
    <2>1. r \in DirectRecords /\ r.left \in Nat /\ r.held \in Nat /\ r.at \in Stages
      BY <2>0 DEF Timed, DirectRecords
    <2>2. r.at \in Unauthenticated \cup {"linger"} => r.left > 0
      <3>1. \A d \in Direct : ~Overdue(d)
        BY DEF DirectTick
      <3> QED
        BY <2>0, <2>1, <3>1 DEF Overdue
    <2>3. PICK n \in Nat : n = IF r.at \in Unauthenticated \cup {"linger"} THEN r.left - 1 ELSE r.left
      BY <2>1, <2>2
    <2>4. PICK h \in Nat : h = IF c \in SlotsTaken /\ ~r.auth THEN r.held + 1 ELSE r.held
      BY <2>1
    <2>5. direct'[c] = [r EXCEPT !.left = n, !.held = h]
      BY <2>0, <2>3, <2>4 DEF DirectTick
    <2>6. r.at \in Unauthenticated => h + n = SetupTime
      <3>1. r.at \in Unauthenticated => c \in SlotsTaken /\ ~r.auth /\ r.held + r.left = SetupTime
        BY <2>0 DEF Timed, SlotsTaken, Unauthenticated
      <3> QED
        BY <2>1, <2>2, <2>3, <2>4, <3>1
    <2>7. /\ direct'[c] \in DirectRecords /\ direct'[c].at = r.at /\ direct'[c].left = n
          /\ direct'[c].held = h /\ (direct'[c].auth <=> r.auth)
      BY <2>1, <2>5 DEF DirectRecords
    <2> QED
      BY <2>0, <2>6, <2>7 DEF Timed
  <1>2. direct' = [c \in Direct |-> direct'[c]]
    BY DEF DirectTick
  <1> QED
    BY <1>1, <1>2 DEF DirectInv

\* No connection is there at first.
LEMMA DirectStarts == DirectInit => DirectInv
  BY Corners DEF DirectInit, DirectInv, Timed

\* Every step of the listener keeps the invariant.
LEMMA DirectKeeps == DirectInv /\ [DirectNext]_directVars => DirectInv'
  <1> SUFFICES ASSUME DirectInv, [DirectNext]_directVars PROVE DirectInv'
    OBVIOUS
  <1>1. CASE ListenerAborts
    BY <1>1, Corners DEF ListenerAborts, DirectInv, Timed
  <1>2. CASE ViewChanges \/ UNCHANGED directVars
    BY <1>2 DEF ViewChanges, directVars, DirectInv
  <1> QED
    BY <1>1, <1>2, ConnectionKeeps, DirectTickKeeps DEF DirectNext

\* For any number of connections and any limits, a peer that has not authenticated itself keeps its
\* slot no longer than the set-up time in all, wherever it stalls (serve_direct_within, PreAuth).
THEOREM StrangersAlwaysHoldBriefly == DirectSpec => []StrangersHoldBriefly
  <1>1. DirectInv => StrangersHoldBriefly
    <2> SUFFICES ASSUME DirectInv, NEW c \in SlotsTaken, ~direct[c].auth
                 PROVE  direct[c].held <= SetupTime
      BY DEF StrangersHoldBriefly
    <2>1. c \in Direct /\ Timed(direct[c]) /\ direct[c].at \notin {"none", "done"}
      BY DEF SlotsTaken, DirectInv
    <2>2. direct[c].held + direct[c].left = SetupTime /\ direct[c].held \in Nat /\ direct[c].left \in Nat
      BY <2>1 DEF Timed, DirectRecords, Stages
    <2> QED
      BY <2>2
  <1> QED
    BY <1>1, DirectStarts, DirectKeeps, PTL DEF DirectSpec

-----------------------------------------------------------------------------
(* The link to the edge (EdgeLink).  What the edge sends on a connection has one layout: the ack,   *)
(* marker and counter of each PING, then the tunnel.  The PONGs the edge has, and where the agent    *)
(* is, say how much of it was read.                                                                *)

Items == [kind : {"register", "OK", "NO", "PING", "STOP", "tunnel", "count", "answer"}, n : Nat]
LinkRecords == [at : {"closed", "register", "phase", "counter", "pong", "tunnel"},
                asked : Anchors \cup {"none"}, trusts : Anchors \cup {"none"}, ping : Nat]
EdgeRecords == [at : {"register", "ping", "tunnel", "over"}, pings : Nat, got : Seq(Items)]

\* A remembered configuration trusts the certificate it is kept under.
MemoRecords == {m \in [key : Anchors, trusts : Anchors] : m.trusts = m.key}

LinkTyped ==
    /\ memo \in Seq(MemoRecords) /\ line \in [Lines -> LinkRecords]
    /\ inward \in [Lines -> Seq(Items)] /\ edgeEnd \in [Lines -> EdgeRecords]

\* What is to be read after r bytes, when so many PINGs were sent.
Laid(q, r, pings) ==
    /\ Len(q) + r >= 2 * pings + 1
    /\ \A j \in 1 .. pings : /\ 2 * j - r \in 1 .. Len(q) => q[2 * j - r] = Byte("PING")
                             /\ 2 * j + 1 - r \in 1 .. Len(q) => q[2 * j + 1 - r] = Count(j)
    /\ \A i \in 1 .. Len(q) : i + r > 2 * pings + 1 => q[i].kind \in {"STOP", "tunnel"}

\* What the edge has received: the registration, the PONGs in order, the tunnel's answer.
Received(e) ==
    /\ Len(e.got) >= 1
    /\ \A i \in 1 .. Len(e.got) :
          e.got[i] = IF i = 1 THEN Byte("register")
                     ELSE IF i - 1 <= e.pings THEN Count(i - 1) ELSE Byte("answer")

\* How much was read: after k PONGs, at each of the places.
ReadUpTo(at, k) == 2 * k + (IF at = "phase" THEN 1 ELSE IF at = "counter" THEN 2 ELSE 3)

Registering(q, e) ==
    /\ Len(e.got) = 1
    /\ e.at = "register" => q = <<>> /\ e.pings = 0
    /\ e.at = "over" => Len(q) = 1 /\ q[1].kind = "NO"
    /\ e.at \in {"ping", "tunnel"} => Len(q) >= 1 /\ q[1].kind = "OK" /\ Laid(q, 0, e.pings)
    /\ e.at = "ping" => Len(q) = 2 * e.pings + 1

Pinging(ln, q, e) ==
    LET k == Len(e.got) - 1
    IN  /\ e.at \in {"ping", "tunnel"} /\ k <= e.pings
        /\ Laid(q, ReadUpTo(ln.at, k), e.pings)
        /\ e.at = "ping" => Len(q) + ReadUpTo(ln.at, k) = 2 * e.pings + 1
        /\ ln.at # "phase" => k < e.pings
        /\ ln.at = "pong" => ln.ping = k + 1

OnLine(ln, q, e) ==
    /\ Received(e)
    /\ ln.at = "register" => Registering(q, e)
    /\ ln.at \in {"phase", "counter", "pong"} => Pinging(ln, q, e)
    /\ ln.at = "tunnel" => e.at = "tunnel" /\ Len(e.got) >= e.pings + 1

\* Nothing of the tunnel is there yet; or the tunnel's bytes are the last, after a STOP or none.
NoTunnel(q) == \A i \in 1 .. Len(q) : q[i].kind \notin {"STOP", "tunnel"}
EndsInTunnel(q) ==
    /\ Len(q) >= 2 /\ q[Len(q) - 1] = OfTunnel(1) /\ q[Len(q)] = OfTunnel(2)
    /\ \A i \in 1 .. Len(q) - 2 : q[i].kind # "tunnel" /\ (q[i].kind = "STOP" => i = Len(q) - 2)

TunnelWhole(ln, q, e) ==
    /\ ln.at # "tunnel" => IF e.at = "tunnel" THEN EndsInTunnel(q) ELSE NoTunnel(q)
    /\ ln.at = "tunnel" => q = Relayed

LinesTrue == \A l \in Lines : line[l].at # "closed" => /\ OnLine(line[l], inward[l], edgeEnd[l])
                                                      /\ TunnelWhole(line[l], inward[l], edgeEnd[l])

LinkInv == LinkTyped /\ LinesTrue /\ TrustsWhatWasAsked

\* The items are what they are called.
LEMMA ItemsAre ==
    /\ \A kind \in {"register", "OK", "NO", "PING", "STOP", "tunnel", "count", "answer"} :
          Byte(kind) \in Items /\ Byte(kind).kind = kind
    /\ \A n \in Nat : Count(n) \in Items /\ Count(n).kind = "count" /\ Count(n).n = n
    /\ \A n \in Nat : OfTunnel(n) \in Items /\ OfTunnel(n).kind = "tunnel"
  BY DEF Byte, Count, OfTunnel, Items

\* A sequence of one item, kept as one value.
LEMMA OneItem ==
    ASSUME NEW S, NEW a \in S
    PROVE  \E s \in Seq(S) : s = <<a>> /\ Len(s) = 1 /\ s[1] = a
  <1>1. <<a>> \in Seq(S) /\ Len(<<a>>) = 1 /\ <<a>>[1] = a
    OBVIOUS
  <1> QED
    BY <1>1, Zenon

\* A sequence of two.
LEMMA TwoItems ==
    ASSUME NEW S, NEW a \in S, NEW b \in S
    PROVE  \E s \in Seq(S) : s = <<a, b>> /\ Len(s) = 2 /\ s[1] = a /\ s[2] = b
  <1>1. <<a, b>> \in Seq(S) /\ Len(<<a, b>>) = 2 /\ <<a, b>>[1] = a /\ <<a, b>>[2] = b
    OBVIOUS
  <1> QED
    BY <1>1, Zenon

\* A sequence of three.
LEMMA ThreeItems ==
    ASSUME NEW S, NEW a \in S, NEW b \in S, NEW c \in S
    PROVE  \E s \in Seq(S) : s = <<a, b, c>> /\ Len(s) = 3 /\ s[1] = a /\ s[2] = b /\ s[3] = c
  <1>1. /\ <<a, b, c>> \in Seq(S) /\ Len(<<a, b, c>>) = 3
        /\ <<a, b, c>>[1] = a /\ <<a, b, c>>[2] = b /\ <<a, b, c>>[3] = c
    OBVIOUS
  <1> QED
    BY <1>1, Zenon

\* More is sent; and one PING, with its number.
Joins(s, q, more) == s = q \o more
IsPing(two, n) == Len(two) = 2 /\ two[1] = Byte("PING") /\ two[2] = Count(n)

\* Read and sent are counted in numbers.
LEMMA ReadIs ==
    ASSUME NEW k \in Nat, NEW at
    PROVE  ReadUpTo(at, k) \in Nat
  BY DEF ReadUpTo

-----------------------------------------------------------------------------
(* What is to be read, when some of it is read and when more is sent. *)

\* One item is read.
LEMMA LaidTail ==
    ASSUME NEW q \in Seq(Items), NEW t, NEW r \in Nat, NEW pings \in Nat, q # <<>>, t = Tail(q),
           Laid(q, r, pings)
    PROVE  t \in Seq(Items) /\ Len(t) + 1 = Len(q) /\ Len(t) \in Nat /\ Laid(t, r + 1, pings)
  <1>1. /\ t \in Seq(Items) /\ Len(t) = Len(q) - 1 /\ \A i \in 1 .. Len(t) : t[i] = q[i + 1]
        /\ Len(t) \in Nat /\ Len(q) \in Nat
    BY HeadTailProperties
  <1>2. Len(t) + (r + 1) >= 2 * pings + 1
    BY <1>1 DEF Laid
  <1>3. ASSUME NEW j \in 1 .. pings
        PROVE  /\ 2 * j - (r + 1) \in 1 .. Len(t) => t[2 * j - (r + 1)] = Byte("PING")
               /\ 2 * j + 1 - (r + 1) \in 1 .. Len(t) => t[2 * j + 1 - (r + 1)] = Count(j)
    <2>1. ASSUME NEW i \in 1 .. Len(t) PROVE i + 1 \in 1 .. Len(q) /\ t[i] = q[i + 1]
      BY <1>1
    <2>2. /\ 2 * j - r \in 1 .. Len(q) => q[2 * j - r] = Byte("PING")
          /\ 2 * j + 1 - r \in 1 .. Len(q) => q[2 * j + 1 - r] = Count(j)
      BY DEF Laid
    <2>3. ASSUME 2 * j - (r + 1) \in 1 .. Len(t) PROVE t[2 * j - (r + 1)] = Byte("PING")
      <3>1. (2 * j - (r + 1)) + 1 = 2 * j - r
        OBVIOUS
      <3> QED
        BY <2>1, <2>2, <2>3, <3>1
    <2>4. ASSUME 2 * j + 1 - (r + 1) \in 1 .. Len(t) PROVE t[2 * j + 1 - (r + 1)] = Count(j)
      <3>1. (2 * j + 1 - (r + 1)) + 1 = 2 * j + 1 - r
        OBVIOUS
      <3> QED
        BY <2>1, <2>2, <2>4, <3>1
    <2> QED
      BY <2>3, <2>4
  <1>4. ASSUME NEW i \in 1 .. Len(t), i + (r + 1) > 2 * pings + 1 PROVE t[i].kind \in {"STOP", "tunnel"}
    <2>1. i + 1 \in 1 .. Len(q) /\ t[i] = q[i + 1] /\ (i + 1) + r > 2 * pings + 1
      BY <1>1, <1>4
    <2> QED
      BY <2>1 DEF Laid
  <1> QED
    BY <1>1, <1>2, <1>3, <1>4 DEF Laid

\* Where the next PING goes.
LEMMA NextPlaces ==
    ASSUME NEW n \in Nat, NEW r \in Nat, NEW pings \in Nat, n + r = 2 * pings + 1
    PROVE  2 * (pings + 1) - r = n + 1 /\ 2 * (pings + 1) + 1 - r = n + 2
  OBVIOUS

\* A marker and a counter are two items.
LEMMA TwoMore ==
    ASSUME NEW n \in Nat, NEW r \in Nat, NEW pings \in Nat, n + r = 2 * pings + 1, NEW m, m = n + 2
    PROVE  m + r = 2 * (pings + 1) + 1 /\ m \in Nat /\ m >= 1
  OBVIOUS

\* One PING more.
LEMMA LaidPing ==
    ASSUME NEW q \in Seq(Items), NEW s, NEW r \in Nat, NEW pings \in Nat, Laid(q, r, pings),
           Len(q) + r = 2 * pings + 1, NEW two \in Seq(Items), Joins(s, q, two), IsPing(two, pings + 1)
    PROVE  /\ s \in Seq(Items) /\ Len(s) + r = 2 * (pings + 1) + 1 /\ Len(s) \in Nat /\ Len(s) >= 1
           /\ Laid(s, r, pings + 1)
           /\ \A i \in 1 .. Len(q) : s[i] = q[i]
  <1>4. /\ s \in Seq(Items) /\ Len(s) = Len(q) + Len(two) /\ Len(q) \in Nat
        /\ \A i \in 1 .. Len(q) + Len(two) : s[i] = IF i <= Len(q) THEN q[i] ELSE two[i - Len(q)]
    <2>1. /\ q \o two \in Seq(Items) /\ Len(q \o two) = Len(q) + Len(two)
          /\ \A i \in 1 .. Len(q) + Len(two) : (q \o two)[i] = IF i <= Len(q) THEN q[i] ELSE two[i - Len(q)]
      BY ConcatProperties, Zenon
    <2>2. Len(q) \in Nat
      OBVIOUS
    <2>3. s = q \o two
      BY DEF Joins
    <2> QED
      BY <2>1, <2>2, <2>3, Zenon
  <1>1. Len(two) = 2 /\ two[1] = Byte("PING") /\ two[2] = Count(pings + 1)
    BY DEF IsPing
  <1>5. /\ Len(s) = Len(q) + 2 /\ \A i \in 1 .. Len(q) : s[i] = q[i]
        /\ s[Len(q) + 1] = Byte("PING") /\ s[Len(q) + 2] = Count(pings + 1)
    <2>1. \A i \in 1 .. Len(q) : s[i] = q[i]
      BY <1>1, <1>4
    <2>2. s[Len(q) + 1] = two[1] /\ s[Len(q) + 2] = two[2]
      <3>1. Len(q) + 1 \in 1 .. Len(q) + Len(two) /\ ~(Len(q) + 1 <= Len(q)) /\ (Len(q) + 1) - Len(q) = 1
        BY <1>1, <1>4
      <3>2. Len(q) + 2 \in 1 .. Len(q) + Len(two) /\ ~(Len(q) + 2 <= Len(q)) /\ (Len(q) + 2) - Len(q) = 2
        BY <1>1, <1>4
      <3> QED
        BY <1>1, <1>4, <3>1, <3>2
    <2> QED
      BY <1>1, <1>4, <2>1, <2>2
  <1>6. ASSUME NEW j \in 1 .. pings + 1
        PROVE  /\ 2 * j - r \in 1 .. Len(s) => s[2 * j - r] = Byte("PING")
               /\ 2 * j + 1 - r \in 1 .. Len(s) => s[2 * j + 1 - r] = Count(j)
    <2>1. CASE j = pings + 1
      <3>1. 2 * j - r = Len(q) + 1 /\ 2 * j + 1 - r = Len(q) + 2
        <4>1. PICK n \in Nat : n = Len(q) /\ n + r = 2 * pings + 1
          BY <1>4
        <4>2. 2 * (pings + 1) - r = n + 1 /\ 2 * (pings + 1) + 1 - r = n + 2
          BY <4>1, NextPlaces
        <4> QED
          BY <2>1, <4>1, <4>2, Zenon
      <3>2. s[2 * j - r] = Byte("PING")
        BY <1>5, <3>1, Zenon
      <3>3. s[2 * j + 1 - r] = Count(j)
        <4>1. Count(j) = Count(pings + 1)
          BY <2>1
        <4>2. s[2 * j + 1 - r] = s[Len(q) + 2]
          BY <3>1
        <4> QED
          BY <1>5, <4>1, <4>2
      <3> QED
        BY <3>2, <3>3, Zenon
    <2>2. CASE j \in 1 .. pings
      <3>1. 2 * j - r <= Len(q) /\ 2 * j + 1 - r <= Len(q)
        BY <1>4, <2>2, SMTT(30)
      <3>2. /\ 2 * j - r \in 1 .. Len(q) => q[2 * j - r] = Byte("PING")
            /\ 2 * j + 1 - r \in 1 .. Len(q) => q[2 * j + 1 - r] = Count(j)
        BY <2>2 DEF Laid
      <3>3. /\ 2 * j - r \in 1 .. Len(s) => 2 * j - r \in 1 .. Len(q)
            /\ 2 * j + 1 - r \in 1 .. Len(s) => 2 * j + 1 - r \in 1 .. Len(q)
        BY <1>4, <3>1
      <3> QED
        BY <1>5, <3>2, <3>3
    <2> QED
      BY <2>1, <2>2
  <1>7. Len(s) + r >= 2 * (pings + 1) + 1 /\ \A i \in 1 .. Len(s) : ~(i + r > 2 * (pings + 1) + 1)
    BY <1>4, <1>5
  <1>8. Laid(s, r, pings + 1)
    BY <1>6, <1>7 DEF Laid
  <1>9. Len(s) + r = 2 * (pings + 1) + 1 /\ Len(s) \in Nat /\ Len(s) >= 1
    <2>1. PICK n \in Nat : n = Len(q)
      BY <1>4
    <2>2. PICK m : m = Len(s)
      OBVIOUS
    <2>3. n + r = 2 * pings + 1 /\ m = n + 2
      BY <1>5, <2>1, <2>2
    <2>4. m + r = 2 * (pings + 1) + 1 /\ m \in Nat /\ m >= 1
      BY <2>3, TwoMore, SMT
    <2> QED
      BY <2>2, <2>4, Zenon
  <1> QED
    BY <1>4, <1>5, <1>8, <1>9

\* The phase is over and the tunnel follows.
LEMMA LaidEnd ==
    ASSUME NEW q \in Seq(Items), NEW s, NEW more \in Seq(Items), NEW r \in Nat, NEW pings \in Nat,
           Laid(q, r, pings), Len(q) + r = 2 * pings + 1, Joins(s, q, more),
           \A i \in 1 .. Len(more) : more[i].kind \in {"STOP", "tunnel"}
    PROVE  /\ s \in Seq(Items) /\ Len(s) >= Len(q) /\ Laid(s, r, pings)
           /\ \A i \in 1 .. Len(q) : s[i] = q[i]
  <1>1. /\ s \in Seq(Items) /\ Len(s) = Len(q) + Len(more) /\ Len(q) \in Nat /\ Len(more) \in Nat
        /\ \A i \in 1 .. Len(q) + Len(more) : s[i] = IF i <= Len(q) THEN q[i] ELSE more[i - Len(q)]
    BY ConcatProperties DEF Joins
  <1>2. \A i \in 1 .. Len(q) : s[i] = q[i]
    BY <1>1
  <1>3. ASSUME NEW j \in 1 .. pings
        PROVE  /\ 2 * j - r \in 1 .. Len(s) => s[2 * j - r] = Byte("PING")
               /\ 2 * j + 1 - r \in 1 .. Len(s) => s[2 * j + 1 - r] = Count(j)
    <2>1. /\ 2 * j - r \in 1 .. Len(q) => q[2 * j - r] = Byte("PING")
          /\ 2 * j + 1 - r \in 1 .. Len(q) => q[2 * j + 1 - r] = Count(j)
      BY DEF Laid
    <2>2. /\ 2 * j - r \in 1 .. Len(s) => 2 * j - r \in 1 .. Len(q)
          /\ 2 * j + 1 - r \in 1 .. Len(s) => 2 * j + 1 - r \in 1 .. Len(q)
      BY <1>1
    <2> QED
      BY <1>2, <2>1, <2>2
  <1>4. ASSUME NEW i \in 1 .. Len(s), i + r > 2 * pings + 1 PROVE s[i].kind \in {"STOP", "tunnel"}
    <2>1. i \in 1 .. Len(q) + Len(more) /\ ~(i <= Len(q)) /\ i - Len(q) \in 1 .. Len(more)
      BY <1>1, <1>4
    <2> QED
      BY <1>1, <2>1
  <1>5. Len(s) + r >= 2 * pings + 1
    BY <1>1
  <1>6. Laid(s, r, pings)
    BY <1>3, <1>4, <1>5 DEF Laid
  <1> QED
    BY <1>1, <1>2, <1>6

-----------------------------------------------------------------------------
(* The bytes of the tunnel among them. *)

\* What is read before the tunnel leaves the tunnel whole.
LEMMA WholeTail ==
    ASSUME NEW q \in Seq(Items), q # <<>>, NEW t, t = Tail(q), Head(q).kind \notin {"STOP", "tunnel"}
    PROVE  /\ NoTunnel(q) => NoTunnel(t)
           /\ EndsInTunnel(q) => EndsInTunnel(t)
  <1>1. /\ t \in Seq(Items) /\ Len(t) = Len(q) - 1 /\ \A i \in 1 .. Len(t) : t[i] = q[i + 1]
        /\ Len(t) \in Nat /\ Len(q) \in Nat /\ Head(q) = q[1]
    <2>1. /\ t \in Seq(Items) /\ Len(t) = Len(q) - 1 /\ \A i \in 1 .. Len(t) : t[i] = q[i + 1]
      BY HeadTailProperties
    <2> QED
      BY <2>1
  <1>2. PICK n \in Nat : n = Len(q) /\ Len(t) = n - 1 /\ n >= 1
    <2>1. Len(q) \in Nat /\ Len(t) \in Nat /\ Len(t) = Len(q) - 1
      BY <1>1, Zenon
    <2>2. PICK n \in Nat, m \in Nat : n = Len(q) /\ m = Len(t) /\ m = n - 1
      BY <2>1, Zenon
    <2>3. n >= 1
      BY <2>2
    <2> QED
      BY <2>2, <2>3, Zenon
  <1>3. ASSUME NoTunnel(q) PROVE NoTunnel(t)
    <2>1. \A i \in 1 .. n : q[i].kind \notin {"STOP", "tunnel"}
      BY <1>2, <1>3 DEF NoTunnel
    <2>2. ASSUME NEW i \in 1 .. n - 1 PROVE t[i].kind \notin {"STOP", "tunnel"}
      <3>1. i + 1 \in 1 .. n /\ t[i] = q[i + 1]
        BY <1>1, <1>2
      <3> QED
        BY <2>1, <3>1
    <2> QED
      BY <1>2, <2>2 DEF NoTunnel
  <1>4. ASSUME EndsInTunnel(q) PROVE EndsInTunnel(t)
    <2>1. /\ n >= 2 /\ q[n - 1] = OfTunnel(1) /\ q[n] = OfTunnel(2)
          /\ \A i \in 1 .. n - 2 : q[i].kind # "tunnel" /\ (q[i].kind = "STOP" => i = n - 2)
      BY <1>2, <1>4 DEF EndsInTunnel
    <2>2. n >= 3
      <3>1. n # 2
        BY <1>1, <2>1, ItemsAre
      <3> QED
        BY <2>1, <3>1
    <2>3. \A i \in 1 .. n - 1 : t[i] = q[i + 1]
      BY <1>1, <1>2
    <2>4. t[n - 2] = OfTunnel(1) /\ t[n - 1] = OfTunnel(2)
      <3>1. n - 2 \in 1 .. n - 1 /\ n - 1 \in 1 .. n - 1 /\ (n - 2) + 1 = n - 1 /\ (n - 1) + 1 = n
        BY <2>2
      <3>2. t[n - 2] = q[(n - 2) + 1] /\ t[n - 1] = q[(n - 1) + 1]
        BY <2>3, <3>1
      <3> QED
        BY <2>1, <3>1, <3>2
    <2>5. ASSUME NEW i \in 1 .. n - 3 PROVE t[i].kind # "tunnel" /\ (t[i].kind = "STOP" => i = n - 3)
      <3>1. i \in 1 .. n - 1 /\ i + 1 \in 1 .. n - 2 /\ (i + 1 = n - 2 => i = n - 3)
        BY <2>2
      <3>2. t[i] = q[i + 1]
        BY <2>3, <3>1
      <3> QED
        BY <2>1, <3>1, <3>2
    <2>6. (n - 1) - 1 = n - 2 /\ (n - 1) - 2 = n - 3 /\ n - 1 >= 2
      BY <2>2
    <2> QED
      BY <1>2, <2>4, <2>5, <2>6 DEF EndsInTunnel
  <1> QED
    BY <1>3, <1>4

\* What is sent before the tunnel.
LEMMA NoTunnelYet ==
    ASSUME NEW q \in Seq(Items), NEW more \in Seq(Items), NEW s, Joins(s, q, more), NoTunnel(q), NoTunnel(more)
    PROVE  NoTunnel(s)
  <1>1. /\ s \in Seq(Items) /\ Len(s) = Len(q) + Len(more) /\ Len(q) \in Nat /\ Len(more) \in Nat
        /\ \A i \in 1 .. Len(q) + Len(more) : s[i] = IF i <= Len(q) THEN q[i] ELSE more[i - Len(q)]
    BY ConcatProperties DEF Joins
  <1>2. ASSUME NEW i \in 1 .. Len(s) PROVE s[i].kind \notin {"STOP", "tunnel"}
    <2>1. CASE i <= Len(q)
      BY <1>1, <2>1 DEF NoTunnel
    <2>2. CASE ~(i <= Len(q))
      <3>1. i - Len(q) \in 1 .. Len(more) /\ s[i] = more[i - Len(q)]
        BY <1>1, <2>2
      <3> QED
        BY <3>1 DEF NoTunnel
    <2> QED
      BY <2>1, <2>2
  <1> QED
    BY <1>2 DEF NoTunnel

\* The tunnel is sent.
LEMMA TunnelSent ==
    ASSUME NEW q \in Seq(Items), NEW more \in Seq(Items), NEW s, Joins(s, q, more), NoTunnel(q), EndsInTunnel(more)
    PROVE  EndsInTunnel(s)
  <1>1. /\ s \in Seq(Items) /\ Len(s) = Len(q) + Len(more) /\ Len(q) \in Nat /\ Len(more) \in Nat
        /\ \A i \in 1 .. Len(q) + Len(more) : s[i] = IF i <= Len(q) THEN q[i] ELSE more[i - Len(q)]
    BY ConcatProperties DEF Joins
  <1>2. PICK n \in Nat, m \in Nat : n = Len(q) /\ m = Len(more) /\ Len(s) = n + m
    BY <1>1
  <1>3. /\ m >= 2 /\ more[m - 1] = OfTunnel(1) /\ more[m] = OfTunnel(2)
        /\ \A i \in 1 .. m - 2 : more[i].kind # "tunnel" /\ (more[i].kind = "STOP" => i = m - 2)
    BY <1>2 DEF EndsInTunnel
  <1>4. \A i \in 1 .. n + m : s[i] = IF i <= n THEN q[i] ELSE more[i - n]
    BY <1>1, <1>2
  <1>5. s[n + m - 1] = OfTunnel(1) /\ s[n + m] = OfTunnel(2)
    <2>1. /\ n + m - 1 \in 1 .. n + m /\ ~(n + m - 1 <= n) /\ (n + m - 1) - n = m - 1
          /\ n + m \in 1 .. n + m /\ ~(n + m <= n) /\ (n + m) - n = m
      BY <1>3, SMTT(30)
    <2> QED
      BY <1>3, <1>4, <2>1
  <1>6. ASSUME NEW i \in 1 .. n + m - 2 PROVE s[i].kind # "tunnel" /\ (s[i].kind = "STOP" => i = n + m - 2)
    <2>1. CASE i <= n
      BY <1>2, <1>4, <2>1 DEF NoTunnel
    <2>2. CASE ~(i <= n)
      <3>1. i - n \in 1 .. m - 2 /\ s[i] = more[i - n] /\ (i - n = m - 2 => i = n + m - 2)
        BY <1>3, <1>4, <2>2
      <3> QED
        BY <1>3, <3>1
    <2> QED
      BY <2>1, <2>2
  <1>7. n + m >= 2
    BY <1>3
  <1> QED
    BY <1>2, <1>5, <1>6, <1>7 DEF EndsInTunnel

\* After STOP, the tunnel is what is left.
LEMMA AfterStop ==
    ASSUME NEW q \in Seq(Items), q # <<>>, Head(q).kind = "STOP", EndsInTunnel(q)
    PROVE  Tail(q) = Relayed
  <1>1. PICK n \in Nat : n = Len(q) /\ Head(q) = q[1] /\ n >= 1
    BY HeadTailProperties
  <1>2. /\ n >= 2 /\ q[n - 1] = OfTunnel(1) /\ q[n] = OfTunnel(2)
        /\ \A i \in 1 .. n - 2 : q[i].kind # "tunnel" /\ (q[i].kind = "STOP" => i = n - 2)
    BY <1>1 DEF EndsInTunnel
  <1>3. n # 2
    BY <1>1, <1>2, ItemsAre
  <1>4. n = 3
    <2>1. 1 \in 1 .. n - 2
      BY <1>2, <1>3
    <2>2. 1 = n - 2
      BY <1>1, <1>2, <2>1
    <2> QED
      BY <2>2
  <1>5. PICK t : t = Tail(q)
    OBVIOUS
  <1>6. t \in Seq(Items) /\ Len(t) = 2 /\ t[1] = q[2] /\ t[2] = q[3]
    <2>0. Tail(q) \in Seq(Items) /\ Len(Tail(q)) = Len(q) - 1 /\ \A i \in 1 .. Len(Tail(q)) : Tail(q)[i] = q[i + 1]
      BY HeadTailProperties
    <2>1. t \in Seq(Items) /\ Len(t) = 2 /\ \A i \in 1 .. Len(t) : t[i] = q[i + 1]
      <3>1. t \in Seq(Items) /\ Len(t) = Len(q) - 1 /\ \A i \in 1 .. Len(t) : t[i] = q[i + 1]
        BY <1>5, <2>0, Zenon
      <3>2. Len(q) = 3
        BY <1>1, <1>4
      <3> QED
        BY <3>1, <3>2
    <2>2. 1 \in 1 .. 2 /\ 2 \in 1 .. 2 /\ 1 + 1 = 2 /\ 2 + 1 = 3
      OBVIOUS
    <2>3. t[1] = q[1 + 1] /\ t[2] = q[2 + 1]
      BY <2>1, <2>2
    <2> QED
      BY <2>1, <2>2, <2>3
  <1>7. q[2] = OfTunnel(1) /\ q[3] = OfTunnel(2)
    BY <1>2, <1>4
  <1>8. PICK two \in Seq(Items) : two = Relayed /\ Len(two) = 2 /\ two[1] = OfTunnel(1) /\ two[2] = OfTunnel(2)
    <2>1. PICK a \in Items, b \in Items : a = OfTunnel(1) /\ b = OfTunnel(2)
      BY ItemsAre
    <2>2. PICK two \in Seq(Items) : two = <<a, b>> /\ Len(two) = 2 /\ two[1] = a /\ two[2] = b
      BY TwoItems
    <2>3. two = Relayed
      BY <2>1, <2>2, Zenon DEF Relayed
    <2> QED
      BY <2>1, <2>2, <2>3, Zenon
  <1>9. t = two
    <2>1. Len(t) = Len(two) /\ \A i \in 1 .. Len(t) : t[i] = two[i]
      BY <1>6, <1>7, <1>8
    <2> QED
      BY <1>6, <1>8, <2>1, SeqEqual
  <1> QED
    BY <1>5, <1>8, <1>9

-----------------------------------------------------------------------------
(* What each step makes of its own connection. *)

\* Another connection, another phase: only what changes at l has to be looked at.
LEMMA LineSteps ==
    ASSUME LinkInv, NEW l \in Lines, NEW ln \in LinkRecords, NEW q \in Seq(Items), NEW e \in EdgeRecords,
           line' = [line EXCEPT ![l] = ln], inward' = [inward EXCEPT ![l] = q],
           edgeEnd' = [edgeEnd EXCEPT ![l] = e],
           ln.at # "closed" => OnLine(ln, q, e) /\ TunnelWhole(ln, q, e), ln.trusts = ln.asked,
           memo' \in Seq(MemoRecords)
    PROVE  LinkInv'
  <1>0. LinkTyped /\ LinesTrue /\ TrustsWhatWasAsked
    BY DEF LinkInv
  <1>1. /\ line' \in [Lines -> LinkRecords] /\ inward' \in [Lines -> Seq(Items)]
        /\ edgeEnd' \in [Lines -> EdgeRecords]
        /\ line'[l] = ln /\ inward'[l] = q /\ edgeEnd'[l] = e
        /\ \A m \in Lines : m # l => line'[m] = line[m] /\ inward'[m] = inward[m] /\ edgeEnd'[m] = edgeEnd[m]
    BY <1>0 DEF LinkTyped
  <1>2. LinkTyped'
    BY <1>1 DEF LinkTyped
  <1>3. LinesTrue'
    BY <1>0, <1>1 DEF LinesTrue
  <1>4. TrustsWhatWasAsked'
    BY <1>0, <1>1 DEF TrustsWhatWasAsked
  <1> QED
    BY <1>2, <1>3, <1>4 DEF LinkInv

\* A connection that is closed.
LEMMA ClosedIs == ClosedLine \in LinkRecords /\ ClosedLine.at = "closed" /\ ClosedLine.trusts = ClosedLine.asked
  BY DEF ClosedLine, LinkRecords

\* How far the edge is says how far the agent is.
LEMMA EdgePlaces ==
    ASSUME NEW ln \in LinkRecords, NEW q \in Seq(Items), NEW e \in EdgeRecords, OnLine(ln, q, e), ln.at # "closed"
    PROVE  /\ e.at = "register" => ln.at = "register" /\ q = <<>> /\ e.pings = 0
           /\ e.at = "ping" => ln.at \in {"register", "phase", "counter", "pong"} /\ Len(e.got) - 1 <= e.pings
           /\ Len(e.got) \in Nat \ {0} /\ e.pings \in Nat /\ Len(q) \in Nat
  <1>1. /\ ln.at \in {"register", "phase", "counter", "pong", "tunnel"} /\ e.got \in Seq(Items)
        /\ e.pings \in Nat /\ Len(e.got) \in Nat /\ Len(q) \in Nat /\ Len(e.got) >= 1
    BY DEF LinkRecords, EdgeRecords, OnLine, Received
  <1>2. CASE ln.at = "register"
    <2>1. Len(e.got) = 1 /\ (e.at = "register" => q = <<>> /\ e.pings = 0)
      BY <1>2 DEF OnLine, Registering
    <2> QED
      BY <1>1, <1>2, <2>1
  <1>3. CASE ln.at \in {"phase", "counter", "pong"}
    BY <1>1, <1>3 DEF OnLine, Pinging
  <1>4. CASE ln.at = "tunnel"
    BY <1>1, <1>4 DEF OnLine
  <1> QED
    BY <1>1, <1>2, <1>3, <1>4

\* The edge's answer to the registration.
LEMMA AnswerIs ==
    ASSUME NEW ln \in LinkRecords, NEW q \in Seq(Items), NEW e \in EdgeRecords, OnLine(ln, q, e), ln.at # "closed",
           e.at = "register", NEW s, NEW f \in EdgeRecords, f.got = e.got, f.pings = e.pings,
           NEW ack \in {"OK", "NO"}, Joins(s, q, <<Byte(ack)>>), f.at = IF ack = "OK" THEN "ping" ELSE "over"
    PROVE  s \in Seq(Items) /\ OnLine(ln, s, f)
  <1>1. ln.at = "register" /\ q = <<>> /\ e.pings = 0 /\ Registering(q, e) /\ Received(e)
    BY EdgePlaces DEF OnLine
  <1>2. Byte(ack) \in Items /\ Byte(ack).kind = ack
    BY ItemsAre
  <1>3. PICK one \in Seq(Items) : one = <<Byte(ack)>> /\ Len(one) = 1 /\ one[1] = Byte(ack)
    BY <1>2, OneItem, Zenon
  <1>4. s = one
    BY <1>1, <1>3, ConcatEmptySeq DEF Joins
  <1>5. Laid(one, 0, 0)
    BY <1>3 DEF Laid
  <1>6. Registering(one, f)
    BY <1>1, <1>2, <1>3, <1>5 DEF Registering
  <1>7. Received(f)
    BY <1>1 DEF Received
  <1> QED
    BY <1>1, <1>4, <1>6, <1>7 DEF OnLine

\* A PING of the edge: no answer of the tunnel can be there yet.
LEMMA PingIs ==
    ASSUME NEW ln \in LinkRecords, NEW q \in Seq(Items), NEW e \in EdgeRecords, OnLine(ln, q, e), ln.at # "closed",
           e.at = "ping", NEW s, NEW f \in EdgeRecords, f.at = "ping", f.got = e.got, f.pings = e.pings + 1,
           NEW two \in Seq(Items), IsPing(two, e.pings + 1), Joins(s, q, two)
    PROVE  s \in Seq(Items) /\ OnLine(ln, s, f)
  <1>0. /\ ln.at \in {"register", "phase", "counter", "pong"} /\ Len(e.got) - 1 <= e.pings /\ Received(e)
        /\ Len(e.got) \in Nat \ {0} /\ e.pings \in Nat /\ Len(q) \in Nat
    BY EdgePlaces DEF OnLine
  <1>4. Received(f)
    <2>1. \A i \in 1 .. Len(e.got) : i - 1 <= e.pings /\ i - 1 <= f.pings
      BY <1>0
    <2>2. Len(e.got) >= 1 /\ \A i \in 1 .. Len(e.got) : e.got[i] = IF i = 1 THEN Byte("register") ELSE Count(i - 1)
      BY <1>0, <2>1 DEF Received
    <2> QED
      BY <2>1, <2>2 DEF Received
  <1>5. CASE ln.at = "register"
    <2>1. Len(e.got) = 1 /\ Len(q) >= 1 /\ q[1].kind = "OK" /\ Laid(q, 0, e.pings) /\ Len(q) + 0 = 2 * e.pings + 1
      BY <1>0, <1>5 DEF OnLine, Registering
    <2>2. /\ s \in Seq(Items) /\ Len(s) + 0 = 2 * (e.pings + 1) + 1 /\ Len(s) \in Nat /\ Len(s) >= 1
          /\ Laid(s, 0, e.pings + 1) /\ \A i \in 1 .. Len(q) : s[i] = q[i]
      BY <1>0, <2>1, LaidPing, ZenonT(40)
    <2>3. s[1].kind = "OK" /\ Len(s) >= 1 /\ Len(s) = 2 * (e.pings + 1) + 1
      <3>2. s[1] = q[1]
        BY <1>0, <2>1, <2>2
      <3> QED
        BY <2>1, <2>2, <3>2
    <2>4. Registering(s, f)
      BY <2>1, <2>2, <2>3 DEF Registering
    <2> QED
      BY <1>4, <1>5, <2>2, <2>4 DEF OnLine
  <1>6. CASE ln.at \in {"phase", "counter", "pong"}
    <2>1. PICK r \in Nat : r = ReadUpTo(ln.at, Len(e.got) - 1)
      <3>1. Len(e.got) - 1 \in Nat
        BY <1>0
      <3> QED
        BY <3>1, ReadIs
    <2>2. Laid(q, r, e.pings) /\ Len(q) + r = 2 * e.pings + 1
      BY <1>0, <1>6, <2>1 DEF OnLine, Pinging
    <2>3. s \in Seq(Items) /\ Laid(s, r, e.pings + 1) /\ Len(s) + r = 2 * (e.pings + 1) + 1
      <3>1. PICK p \in Nat : p = e.pings
        BY <1>0
      <3>2. Laid(q, r, p) /\ Len(q) + r = 2 * p + 1 /\ IsPing(two, p + 1)
        BY <2>2, <3>1
      <3>3. s \in Seq(Items) /\ Laid(s, r, p + 1) /\ Len(s) + r = 2 * (p + 1) + 1
        BY <3>2, LaidPing
      <3> QED
        BY <3>1, <3>3
    <2>5. /\ ln.at # "phase" => Len(e.got) - 1 < e.pings
          /\ ln.at = "pong" => ln.ping = (Len(e.got) - 1) + 1
      BY <1>6 DEF OnLine, Pinging
    <2>6. Pinging(ln, s, f)
      BY <1>0, <2>1, <2>3, <2>5, SMTT(30) DEF Pinging
    <2> QED
      BY <1>4, <1>6, <2>3, <2>6 DEF OnLine
  <1> QED
    BY <1>0, <1>5, <1>6

\* The edge has a client: the tunnel's bytes follow what was sent.
LEMMA StartIs ==
    ASSUME NEW ln \in LinkRecords, NEW q \in Seq(Items), NEW e \in EdgeRecords, OnLine(ln, q, e), ln.at # "closed",
           e.at = "ping", NEW s, NEW f \in EdgeRecords, f.at = "tunnel", f.got = e.got, f.pings = e.pings,
           NEW more \in Seq(Items), Joins(s, q, more),
           \A i \in 1 .. Len(more) : more[i].kind \in {"STOP", "tunnel"}
    PROVE  s \in Seq(Items) /\ OnLine(ln, s, f)
  <1>0. /\ ln.at \in {"register", "phase", "counter", "pong"} /\ Received(e)
        /\ Len(e.got) \in Nat \ {0} /\ e.pings \in Nat /\ Len(q) \in Nat
    BY EdgePlaces DEF OnLine
  <1>4. Received(f)
    BY <1>0 DEF Received
  <1>5. CASE ln.at = "register"
    <2>1. Len(e.got) = 1 /\ Len(q) >= 1 /\ q[1].kind = "OK" /\ Laid(q, 0, e.pings) /\ Len(q) + 0 = 2 * e.pings + 1
      BY <1>0, <1>5 DEF OnLine, Registering
    <2>2. s \in Seq(Items) /\ Len(s) >= Len(q) /\ Laid(s, 0, e.pings) /\ \A i \in 1 .. Len(q) : s[i] = q[i]
      <3>1. PICK p \in Nat : p = e.pings
        BY <1>0
      <3>2. PICK r \in Nat : r = 0
        OBVIOUS
      <3>3. Laid(q, r, p) /\ Len(q) + r = 2 * p + 1
        BY <2>1, <3>1, <3>2
      <3>4. s \in Seq(Items) /\ Len(s) >= Len(q) /\ Laid(s, r, p) /\ \A i \in 1 .. Len(q) : s[i] = q[i]
        BY <3>3, LaidEnd
      <3> QED
        BY <3>1, <3>2, <3>4
    <2>3. s[1].kind = "OK" /\ Len(s) >= 1
      BY <1>0, <2>1, <2>2
    <2>4. Registering(s, f)
      BY <2>1, <2>2, <2>3 DEF Registering
    <2> QED
      BY <1>4, <1>5, <2>2, <2>4 DEF OnLine
  <1>6. CASE ln.at \in {"phase", "counter", "pong"}
    <2>1. PICK r \in Nat : r = ReadUpTo(ln.at, Len(e.got) - 1)
      <3>1. Len(e.got) - 1 \in Nat
        BY <1>0
      <3> QED
        BY <3>1, ReadIs
    <2>2. Laid(q, r, e.pings) /\ Len(q) + r = 2 * e.pings + 1
      BY <1>0, <1>6, <2>1 DEF OnLine, Pinging
    <2>3. s \in Seq(Items) /\ Laid(s, r, e.pings)
      BY <1>0, <2>1, <2>2, LaidEnd, ZenonT(40)
    <2>4. /\ ln.at # "phase" => Len(e.got) - 1 < e.pings
          /\ ln.at = "pong" => ln.ping = (Len(e.got) - 1) + 1 
          /\ Len(e.got) - 1 <= e.pings
      BY <1>6 DEF OnLine, Pinging
    <2>5. Pinging(ln, s, f)
      BY <1>0, <2>1, <2>3, <2>4 DEF Pinging
    <2> QED
      BY <1>4, <1>6, <2>3, <2>5 DEF OnLine
  <1> QED
    BY <1>0, <1>5, <1>6

\* The PONGs the edge has, as a number.
LEMMA PongsSent ==
    ASSUME NEW e \in EdgeRecords, Received(e)
    PROVE  \E k \in Nat : k = Len(e.got) - 1 /\ Len(e.got) = k + 1
  <1>1. PICK n \in Nat : n = Len(e.got) /\ n >= 1
    BY DEF Received, EdgeRecords
  <1>2. n - 1 \in Nat /\ n = (n - 1) + 1
    BY <1>1
  <1> QED
    BY <1>1, <1>2

\* The ack is read.
LEMMA AckIs ==
    ASSUME NEW ln \in LinkRecords, NEW q \in Seq(Items), NEW e \in EdgeRecords, OnLine(ln, q, e),
           ln.at = "register", q # <<>>, Head(q).kind = "OK", NEW t, t = Tail(q),
           NEW nl \in LinkRecords, nl.at = "phase"
    PROVE  t \in Seq(Items) /\ OnLine(nl, t, e)
  <1>0. Registering(q, e) /\ Received(e) /\ e.pings \in Nat /\ Len(q) \in Nat /\ Len(q) >= 1 /\ Head(q) = q[1]
    BY DEF OnLine, EdgeRecords
  <1>1. e.at \in {"ping", "tunnel"} /\ Len(e.got) = 1
    <2>1. q[1].kind = "OK"
      BY <1>0
    <2> QED
      BY <1>0, <2>1 DEF Registering, EdgeRecords
  <1>2. Laid(q, 0, e.pings) /\ (e.at = "ping" => Len(q) = 2 * e.pings + 1)
    BY <1>0, <1>1 DEF Registering
  <1>3. t \in Seq(Items) /\ Len(t) + 1 = Len(q) /\ Len(t) \in Nat /\ Laid(t, 0 + 1, e.pings)
    BY <1>0, <1>2, LaidTail
  <1>4. ReadUpTo("phase", 0) = 1 /\ Len(e.got) - 1 = 0 /\ 0 + 1 = 1
    BY <1>1 DEF ReadUpTo
  <1>5. Pinging(nl, t, e)
    BY <1>0, <1>1, <1>2, <1>3, <1>4 DEF Pinging
  <1> QED
    BY <1>0, <1>3, <1>5 DEF OnLine

\* What the first byte to be read in the phase says of the PINGs.
LEMMA FirstByte ==
    ASSUME NEW q \in Seq(Items), NEW k \in Nat, NEW pings \in Nat, NEW r \in Nat, Laid(q, r, pings), q # <<>>,
           k <= pings
    PROVE  /\ r = 2 * k + 1 => (k < pings <=> q[1].kind = "PING")
           /\ r = 2 * k + 1 /\ k < pings => q[1] = Byte("PING")
           /\ r = 2 * k + 2 /\ k < pings => q[1] = Count(k + 1)
  <1>1. Len(q) \in Nat /\ 1 \in 1 .. Len(q)
    OBVIOUS
  <1>2. ASSUME r = 2 * k + 1, k < pings PROVE q[1] = Byte("PING")
    <2>1. PICK j \in 1 .. pings : j = k + 1
      BY <1>2
    <2>2. 2 * j - r = 1
      BY <1>2, <2>1
    <2>3. 2 * j - r \in 1 .. Len(q) => q[2 * j - r] = Byte("PING")
      BY DEF Laid
    <2> QED
      BY <1>1, <2>2, <2>3, Zenon
  <1>3. ASSUME r = 2 * k + 2, k < pings PROVE q[1] = Count(k + 1)
    <2>1. PICK j \in 1 .. pings : j = k + 1
      BY <1>3
    <2>2. 2 * j + 1 - r = 1
      BY <1>3, <2>1
    <2>3. 2 * j + 1 - r \in 1 .. Len(q) => q[2 * j + 1 - r] = Count(j)
      BY DEF Laid
    <2> QED
      BY <1>1, <2>1, <2>2, <2>3, Zenon
  <1>4. ASSUME r = 2 * k + 1, ~(k < pings) PROVE q[1].kind # "PING"
    <2>1. 1 + r > 2 * pings + 1
      BY <1>4
    <2>2. q[1].kind \in {"STOP", "tunnel"}
      BY <1>1, <2>1 DEF Laid
    <2> QED
      BY <2>2
  <1>5. Byte("PING").kind = "PING"
    BY ItemsAre
  <1> QED
    BY <1>2, <1>3, <1>4, <1>5

\* The marker of a PING is read.
LEMMA MarkerIs ==
    ASSUME NEW ln \in LinkRecords, NEW q \in Seq(Items), NEW e \in EdgeRecords, OnLine(ln, q, e),
           ln.at = "phase", q # <<>>, Head(q).kind = "PING", NEW t, t = Tail(q),
           NEW nl \in LinkRecords, nl.at = "counter"
    PROVE  t \in Seq(Items) /\ OnLine(nl, t, e)
  <1>0. Pinging(ln, q, e) /\ Received(e) /\ e.pings \in Nat /\ Len(q) \in Nat /\ Head(q) = q[1]
    BY DEF OnLine, EdgeRecords
  <1>1. PICK k \in Nat : k = Len(e.got) - 1 /\ Len(e.got) = k + 1
    BY <1>0, PongsSent
  <1>2. PICK r \in Nat : r = 2 * k + 1
    OBVIOUS
  <1>3. ReadUpTo("phase", k) = r /\ ReadUpTo("counter", k) = r + 1
    BY <1>2 DEF ReadUpTo
  <1>4. /\ Laid(q, r, e.pings) /\ k <= e.pings /\ e.at \in {"ping", "tunnel"}
        /\ e.at = "ping" => Len(q) + r = 2 * e.pings + 1
    BY <1>0, <1>1, <1>3 DEF Pinging
  <1>5. t \in Seq(Items) /\ Len(t) + 1 = Len(q) /\ Len(t) \in Nat /\ Laid(t, r + 1, e.pings)
    BY <1>0, <1>4, LaidTail
  <1>6. k < e.pings
    BY <1>0, <1>2, <1>4, FirstByte
  <1>7. Len(t) + (r + 1) = Len(q) + r
    BY <1>0, <1>5
  <1>8. Pinging(nl, t, e)
    BY <1>1, <1>3, <1>4, <1>5, <1>6, <1>7 DEF Pinging
  <1> QED
    BY <1>0, <1>5, <1>8 DEF OnLine

\* After the marker comes the counter.
LEMMA CountNext ==
    ASSUME NEW ln \in LinkRecords, NEW q \in Seq(Items), NEW e \in EdgeRecords, OnLine(ln, q, e),
           ln.at = "counter", q # <<>>
    PROVE  Head(q).kind = "count"
  <1>0. Pinging(ln, q, e) /\ Received(e) /\ e.pings \in Nat /\ Head(q) = q[1]
    BY DEF OnLine, EdgeRecords
  <1>1. PICK k \in Nat : k = Len(e.got) - 1 /\ Len(e.got) = k + 1
    BY <1>0, PongsSent
  <1>2. PICK r \in Nat : r = 2 * k + 2 /\ r = ReadUpTo("counter", k)
    BY DEF ReadUpTo
  <1>3. Laid(q, r, e.pings) /\ k <= e.pings /\ k < e.pings
    BY <1>0, <1>1, <1>2 DEF Pinging
  <1>4. q[1] = Count(k + 1)
    BY <1>0, <1>2, <1>3, FirstByte
  <1> QED
    BY <1>0, <1>4, ItemsAre

\* Its counter is read.
LEMMA CounterIs ==
    ASSUME NEW ln \in LinkRecords, NEW q \in Seq(Items), NEW e \in EdgeRecords, OnLine(ln, q, e),
           ln.at = "counter", q # <<>>, NEW t, t = Tail(q),
           NEW nl \in LinkRecords, nl.at = "pong", nl.ping = Head(q).n
    PROVE  t \in Seq(Items) /\ OnLine(nl, t, e)
  <1>0. Pinging(ln, q, e) /\ Received(e) /\ e.pings \in Nat /\ Len(q) \in Nat /\ Head(q) = q[1]
    BY DEF OnLine, EdgeRecords
  <1>1. PICK k \in Nat : k = Len(e.got) - 1 /\ Len(e.got) = k + 1
    BY <1>0, PongsSent
  <1>2. PICK r \in Nat : r = 2 * k + 2
    OBVIOUS
  <1>3. ReadUpTo("counter", k) = r /\ ReadUpTo("pong", k) = r + 1
    BY <1>2 DEF ReadUpTo
  <1>4. /\ Laid(q, r, e.pings) /\ k <= e.pings /\ k < e.pings /\ e.at \in {"ping", "tunnel"}
        /\ e.at = "ping" => Len(q) + r = 2 * e.pings + 1
    BY <1>0, <1>1, <1>3 DEF Pinging
  <1>5. t \in Seq(Items) /\ Len(t) + 1 = Len(q) /\ Len(t) \in Nat /\ Laid(t, r + 1, e.pings)
    BY <1>0, <1>4, LaidTail
  <1>6. q[1] = Count(k + 1)
    BY <1>0, <1>2, <1>4, FirstByte
  <1>7. nl.ping = k + 1
    BY <1>0, <1>6, ItemsAre
  <1>8. Len(t) + (r + 1) = Len(q) + r
    BY <1>0, <1>5
  <1>9. Pinging(nl, t, e)
    BY <1>1, <1>3, <1>4, <1>5, <1>7, <1>8 DEF Pinging
  <1> QED
    BY <1>0, <1>5, <1>9 DEF OnLine

\* What the edge has received, with one item more that is due.
LEMMA MoreReceived ==
    ASSUME NEW e \in EdgeRecords, NEW f \in EdgeRecords, Received(e), NEW b \in Items, f.pings = e.pings,
           f.got = Append(e.got, b),
           b = IF Len(e.got) <= e.pings THEN Count(Len(e.got)) ELSE Byte("answer")
    PROVE  Received(f) /\ Len(f.got) = Len(e.got) + 1
  <1>1. PICK g \in Seq(Items) : g = e.got /\ Len(g) \in Nat \ {0}
    BY DEF Received, EdgeRecords
  <1>2. PICK h : h = Append(g, b) /\ h = f.got
    BY <1>1
  <1>3. /\ h \in Seq(Items) /\ Len(h) = Len(g) + 1
        /\ \A i \in 1 .. Len(g) : h[i] = g[i]
        /\ h[Len(g) + 1] = b
    BY <1>1, <1>2, AppendProperties
  <1>4. PICK p \in Nat : p = e.pings
    BY DEF EdgeRecords
  <1>5. ASSUME NEW i \in 1 .. Len(h)
        PROVE  h[i] = IF i = 1 THEN Byte("register") ELSE IF i - 1 <= p THEN Count(i - 1) ELSE Byte("answer")
    <2>1. CASE i \in 1 .. Len(g)
      <3>1. g[i] = IF i = 1 THEN Byte("register") ELSE IF i - 1 <= p THEN Count(i - 1) ELSE Byte("answer")
        BY <1>1, <1>4, <2>1 DEF Received
      <3> QED
        BY <1>3, <2>1, <3>1
    <2>2. CASE i = Len(g) + 1
      <3>1. i - 1 = Len(g) /\ i # 1
        BY <1>1, <2>2
      <3>2. b = IF Len(g) <= p THEN Count(Len(g)) ELSE Byte("answer")
        BY <1>1, <1>4
      <3>3. h[i] = b
        BY <1>3, <2>2
      <3> QED
        BY <3>1, <3>2, <3>3
    <2> QED
      BY <1>1, <1>3, <2>1, <2>2
  <1>6. Len(h) >= 1
    BY <1>1, <1>3
  <1>7. Received(f)
    BY <1>2, <1>4, <1>5, <1>6 DEF Received
  <1> QED
    BY <1>1, <1>2, <1>3, <1>7

\* The PONG is written.
LEMMA PongIs ==
    ASSUME NEW ln \in LinkRecords, NEW q \in Seq(Items), NEW e \in EdgeRecords, OnLine(ln, q, e),
           ln.at = "pong", NEW f \in EdgeRecords, f.at = e.at, f.pings = e.pings,
           f.got = Append(e.got, Count(ln.ping)), NEW nl \in LinkRecords, nl.at = "phase"
    PROVE  OnLine(nl, q, f)
  <1>0. Pinging(ln, q, e) /\ Received(e) /\ e.pings \in Nat /\ Len(q) \in Nat
    BY DEF OnLine, EdgeRecords
  <1>1. PICK k \in Nat : k = Len(e.got) - 1 /\ Len(e.got) = k + 1
    BY <1>0, PongsSent
  <1>2. /\ k < e.pings /\ ln.ping = k + 1 /\ e.at \in {"ping", "tunnel"}
        /\ Laid(q, ReadUpTo("pong", k), e.pings)
        /\ e.at = "ping" => Len(q) + ReadUpTo("pong", k) = 2 * e.pings + 1
    BY <1>0, <1>1 DEF Pinging
  <1>3. ReadUpTo("phase", k + 1) = ReadUpTo("pong", k)
    BY DEF ReadUpTo
  <1>4. PICK b \in Items : b = Count(k + 1) /\ f.got = Append(e.got, b)
    BY <1>2, ItemsAre
  <1>5. b = IF Len(e.got) <= e.pings THEN Count(Len(e.got)) ELSE Byte("answer")
    BY <1>0, <1>1, <1>2, <1>4
  <1>6. Received(f) /\ Len(f.got) = Len(e.got) + 1
    BY <1>0, <1>4, <1>5, MoreReceived
  <1>7. Len(f.got) - 1 = k + 1 /\ k + 1 <= e.pings
    BY <1>0, <1>1, <1>2, <1>6
  <1>8. Pinging(nl, q, f)
    BY <1>2, <1>3, <1>7 DEF Pinging
  <1> QED
    BY <1>6, <1>8 DEF OnLine

\* The phase ends with STOP, when every PING has its PONG.
LEMMA StopIs ==
    ASSUME NEW ln \in LinkRecords, NEW q \in Seq(Items), NEW e \in EdgeRecords, OnLine(ln, q, e),
           ln.at = "phase", q # <<>>, Head(q).kind # "PING", NEW t \in Seq(Items), 
           NEW nl \in LinkRecords, nl.at = "tunnel"
    PROVE  OnLine(nl, t, e)
  <1>0. /\ Pinging(ln, q, e) /\ Received(e) /\ e.pings \in Nat /\ Len(q) \in Nat /\ Head(q) = q[1]
        /\ Len(q) >= 1
    BY DEF OnLine, EdgeRecords
  <1>1. PICK k \in Nat : k = Len(e.got) - 1 /\ Len(e.got) = k + 1
    BY <1>0, PongsSent
  <1>2. PICK r \in Nat : r = 2 * k + 1 /\ r = ReadUpTo("phase", k)
    BY DEF ReadUpTo
  <1>3. /\ Laid(q, r, e.pings) /\ k <= e.pings /\ e.at \in {"ping", "tunnel"}
        /\ e.at = "ping" => Len(q) + r = 2 * e.pings + 1
    BY <1>0, <1>1, <1>2 DEF Pinging
  <1>4. ~(k < e.pings)
    BY <1>0, <1>2, <1>3, FirstByte
  <1>5. PICK p \in Nat, n \in Nat : p = e.pings /\ n = Len(q)
    BY <1>0
  <1>6. k = p /\ n >= 1
    BY <1>0, <1>3, <1>4, <1>5
  <1>7. ~(n + r = 2 * p + 1)
    BY <1>2, <1>6
  <1>8. e.at = "tunnel" /\ Len(e.got) >= e.pings + 1
    BY <1>1, <1>3, <1>5, <1>6, <1>7
  <1> QED
    BY <1>0, <1>8 DEF OnLine

\* The tunnel answers, after every PONG.
LEMMA TunnelIs ==
    ASSUME NEW ln \in LinkRecords, NEW q \in Seq(Items), NEW e \in EdgeRecords, OnLine(ln, q, e),
           ln.at = "tunnel", NEW f \in EdgeRecords, f.at = e.at, f.pings = e.pings,
           f.got = Append(e.got, Byte("answer"))
    PROVE  OnLine(ln, q, f)
  <1>0. /\ Received(e) /\ e.pings \in Nat /\ e.at = "tunnel" /\ Len(e.got) >= e.pings + 1 /\ Len(e.got) \in Nat
    BY DEF OnLine, EdgeRecords
  <1>1. PICK b \in Items : b = Byte("answer") /\ f.got = Append(e.got, b)
    BY ItemsAre
  <1>2. ~(Len(e.got) <= e.pings)
    BY <1>0
  <1>3. b = IF Len(e.got) <= e.pings THEN Count(Len(e.got)) ELSE Byte("answer")
    BY <1>1, <1>2
  <1>4. Received(f) /\ Len(f.got) = Len(e.got) + 1
    BY <1>0, <1>1, <1>3, MoreReceived
  <1>5. Len(f.got) >= f.pings + 1
    BY <1>0, <1>4
  <1> QED
    BY <1>0, <1>4, <1>5 DEF OnLine

-----------------------------------------------------------------------------
(* The memo. *)

\* Whatever it holds, a connection trusts the certificate it was opened for.
LEMMA MemoGoes ==
    ASSUME memo \in Seq(MemoRecords), NEW a \in Anchors
    PROVE  Trusted(a) = a /\ GetOrBuild(a) \in Seq(MemoRecords)
  <1>0. Len(memo) \in Nat /\ DOMAIN memo = 1 .. Len(memo) /\ \A i \in 1 .. Len(memo) : memo[i] \in MemoRecords
    OBVIOUS
  <1>1. PICK i : i = CHOOSE h \in Hits(a) : TRUE
    OBVIOUS
  <1>2. Hits(a) # {} => i \in 1 .. Len(memo) /\ memo[i].key = a
    BY <1>0, <1>1 DEF Hits, MemoKey
  <1>3. Trusted(a) = a
    BY <1>0, <1>1, <1>2 DEF Trusted, MemoRecords
  <1>4. PICK kept : kept = IF Hits(a) # {} THEN RemoveAt(memo, i) ELSE IF Len(memo) >= MemoCap THEN Tail(memo) ELSE memo
    OBVIOUS
  <1>5. kept \in Seq(MemoRecords)
    <2>1. CASE Hits(a) # {}
      <3>1. i \in 1 .. Len(memo)
        BY <1>2, <2>1
      <3>2. 1 \in Int /\ i - 1 \in Int /\ \A j \in 1 .. i - 1 : memo[j] \in MemoRecords
        BY <1>0, <3>1
      <3>3. i + 1 \in Int /\ Len(memo) \in Int /\ \A j \in i + 1 .. Len(memo) : memo[j] \in MemoRecords
        BY <1>0, <3>1
      <3>4. PICK s1 : s1 = SubSeq(memo, 1, i - 1) /\ s1 \in Seq(MemoRecords)
        BY <3>2, SubSeqProperties
      <3>5. PICK s2 : s2 = SubSeq(memo, i + 1, Len(memo)) /\ s2 \in Seq(MemoRecords)
        BY <3>3, SubSeqProperties
      <3>6. kept = s1 \o s2
        BY <1>4, <2>1, <3>4, <3>5 DEF RemoveAt
      <3> QED
        BY <3>4, <3>5, <3>6, ConcatProperties
    <2>2. CASE Hits(a) = {} /\ Len(memo) >= MemoCap
      <3>1. memo # <<>>
        BY <1>0, <2>2, LineAssumption
      <3> QED
        BY <1>4, <2>2, <3>1, HeadTailProperties
    <2>3. CASE Hits(a) = {} /\ ~(Len(memo) >= MemoCap)
      BY <1>4, <2>3
    <2> QED
      BY <2>1, <2>2, <2>3
  <1>6. PICK m \in MemoRecords : m = [key |-> MemoKey(a), trusts |-> Trusted(a)]
    BY <1>3 DEF MemoKey, MemoRecords
  <1>7. GetOrBuild(a) = Append(kept, m)
    BY <1>1, <1>4, <1>6 DEF GetOrBuild
  <1>8. Append(kept, m) \in Seq(MemoRecords)
    BY <1>5, AppendProperties
  <1> QED
    BY <1>3, <1>7, <1>8

-----------------------------------------------------------------------------
\* No connection is open at first, and nothing is remembered.
LEMMA LinkStarts == EdgeLinkInit => LinkInv
  <1> SUFFICES ASSUME EdgeLinkInit PROVE LinkInv
    OBVIOUS
  <1>1. <<>> \in Seq(MemoRecords) /\ <<>> \in Seq(Items)
    BY EmptySeq
  <1>2. NewEdgeEnd \in EdgeRecords
    BY <1>1 DEF NewEdgeEnd, EdgeRecords
  <1>3. LinkTyped
    BY <1>1, <1>2, ClosedIs DEF EdgeLinkInit, LinkTyped
  <1>4. LinesTrue /\ TrustsWhatWasAsked
    BY ClosedIs DEF EdgeLinkInit, LinesTrue, TrustsWhatWasAsked
  <1> QED
    BY <1>3, <1>4 DEF LinkInv

\* A connection is opened.
LEMMA ConnectKeeps == ASSUME LinkInv, NEW l \in Lines, NEW a \in Anchors, Connects(l, a) PROVE LinkInv'
  <1>0. LinkTyped
    BY DEF LinkInv
  <1>1. Trusted(a) = a /\ memo' \in Seq(MemoRecords)
    BY <1>0, MemoGoes DEF LinkTyped, Connects
  <1>2. PICK ln : ln = [ClosedLine EXCEPT !.at = "register", !.asked = a, !.trusts = a]
    OBVIOUS
  <1>3. ln \in LinkRecords /\ ln.at = "register" /\ ln.trusts = ln.asked
    BY <1>2 DEF ClosedLine, LinkRecords
  <1>4. PICK g \in Seq(Items) : g = <<Byte("register")>> /\ Len(g) = 1 /\ g[1] = Byte("register")
    <2>1. Byte("register") \in Items
      BY ItemsAre
    <2> QED
      BY <2>1, OneItem, Zenon
  <1>5. PICK e : e = [NewEdgeEnd EXCEPT !.got = g]
    OBVIOUS
  <1>6. e \in EdgeRecords /\ e.at = "register" /\ e.pings = 0 /\ e.got = g
    BY <1>5 DEF NewEdgeEnd, EdgeRecords
  <1>7. PICK q \in Seq(Items) : q = <<>>
    BY EmptySeq
  <1>8. Received(e)
    BY <1>4, <1>6 DEF Received
  <1>9. Registering(q, e)
    BY <1>4, <1>6, <1>7 DEF Registering
  <1>10. OnLine(ln, q, e) /\ TunnelWhole(ln, q, e)
    <2>1. NoTunnel(q)
      BY <1>7 DEF NoTunnel
    <2>2. TunnelWhole(ln, q, e)
      BY <1>3, <1>6, <2>1 DEF TunnelWhole
    <2> QED
      BY <1>3, <1>8, <1>9, <2>2 DEF OnLine
  <1>11. /\ line' = [line EXCEPT ![l] = ln] /\ inward' = [inward EXCEPT ![l] = q]
         /\ edgeEnd' = [edgeEnd EXCEPT ![l] = e]
    BY <1>1, <1>2, <1>4, <1>5, <1>7 DEF Connects
  <1> QED
    BY <1>1, <1>3, <1>6, <1>10, <1>11, LineSteps

\* Where the parts of an open connection are.
LEMMA LineIs ==
    ASSUME LinkInv, NEW l \in Lines
    PROVE  /\ line[l] \in LinkRecords /\ inward[l] \in Seq(Items) /\ edgeEnd[l] \in EdgeRecords
           /\ line[l].at # "closed" => /\ OnLine(line[l], inward[l], edgeEnd[l])
                                       /\ TunnelWhole(line[l], inward[l], edgeEnd[l])
           /\ line[l].trusts = line[l].asked /\ memo \in Seq(MemoRecords)
           /\ line = [line EXCEPT ![l] = line[l]] /\ inward = [inward EXCEPT ![l] = inward[l]]
           /\ edgeEnd = [edgeEnd EXCEPT ![l] = edgeEnd[l]]
           /\ line \in [Lines -> LinkRecords] /\ inward \in [Lines -> Seq(Items)]
           /\ edgeEnd \in [Lines -> EdgeRecords]
  BY DEF LinkInv, LinkTyped, LinesTrue, TrustsWhatWasAsked

\* The edge's end of l is now e, and its unread bytes are q.
Becomes(l, q, e) == inward' = [inward EXCEPT ![l] = q] /\ edgeEnd' = [edgeEnd EXCEPT ![l] = e]

\* What EdgeSends does, when l's bytes are q and the edge's end is e.
LEMMA SendIs ==
    ASSUME LinkInv, NEW l \in Lines, NEW items, NEW at \in {"register", "ping", "tunnel", "over"},
           EdgeSends(l, items, at), NEW q \in Seq(Items), q = inward[l], NEW e \in EdgeRecords, e = edgeEnd[l],
           NEW s, Joins(s, q, items)
    PROVE  \E f \in EdgeRecords : f.at = at /\ f.got = e.got /\ f.pings = e.pings /\ Becomes(l, s, f)
  <1>1. PICK f : f = [e EXCEPT !.at = at]
    OBVIOUS
  <1>2. f \in EdgeRecords /\ f.at = at /\ f.got = e.got /\ f.pings = e.pings
    BY <1>1 DEF EdgeRecords
  <1>3. Becomes(l, s, f)
    BY <1>1 DEF EdgeSends, Joins, Becomes
  <1> QED
    BY <1>2, <1>3

\* What the edge sends.
LEMMA EdgeKeeps ==
    ASSUME LinkInv, NEW l \in Lines, EdgeAnswers(l) \/ EdgePings(l) \/ EdgeStarts(l)
    PROVE  LinkInv'
  <1>0. PICK ln \in LinkRecords, q \in Seq(Items), e \in EdgeRecords :
          ln = line[l] /\ q = inward[l] /\ e = edgeEnd[l]
    BY LineIs
  <1>1. /\ ln.at # "closed" /\ OnLine(ln, q, e) /\ TunnelWhole(ln, q, e) /\ ln.trusts = ln.asked
        /\ line' = [line EXCEPT ![l] = ln] /\ memo' \in Seq(MemoRecords)
    BY <1>0, LineIs DEF EdgeAnswers, EdgePings, EdgeStarts, EdgeSends
  <1>2. CASE EdgeAnswers(l)
    <2>1. PICK ack \in {"OK", "NO"} : EdgeSends(l, <<Byte(ack)>>, IF ack = "OK" THEN "ping" ELSE "over")
      BY <1>2 DEF EdgeAnswers
    <2>2. PICK s : Joins(s, q, <<Byte(ack)>>)
      BY DEF Joins
    <2>3. PICK at \in {"register", "ping", "tunnel", "over"} : at = IF ack = "OK" THEN "ping" ELSE "over"
      OBVIOUS
    <2>4. EdgeSends(l, <<Byte(ack)>>, at)
      BY <2>1, <2>3, Zenon
    <2>5. PICK f \in EdgeRecords : f.at = at /\ f.got = e.got /\ f.pings = e.pings /\ Becomes(l, s, f)
      <3>1. PICK one : one = <<Byte(ack)>>
        OBVIOUS
      <3>2. Joins(s, q, one) /\ EdgeSends(l, one, at)
        BY <2>2, <2>4, <3>1, Zenon
      <3>3. at = "ping" \/ at = "over"
        BY <2>3
      <3>4. CASE at = "ping"
        <4>1. "ping" \in {"register", "ping", "tunnel", "over"} /\ EdgeSends(l, one, "ping")
          BY <3>2, <3>4
        <4>2. \E f \in EdgeRecords : f.at = "ping" /\ f.got = e.got /\ f.pings = e.pings /\ Becomes(l, s, f)
          BY <1>0, <3>2, <4>1, SendIs
        <4> QED
          BY <3>4, <4>2, Zenon
      <3>5. CASE at = "over"
        <4>1. "over" \in {"register", "ping", "tunnel", "over"} /\ EdgeSends(l, one, "over")
          BY <3>2, <3>5
        <4>2. \E f \in EdgeRecords : f.at = "over" /\ f.got = e.got /\ f.pings = e.pings /\ Becomes(l, s, f)
          BY <1>0, <3>2, <4>1, SendIs
        <4> QED
          BY <3>5, <4>2, Zenon
      <3> QED
        BY <3>3, <3>4, <3>5
    <2>6. e.at = "register"
      BY <1>0, <1>2 DEF EdgeAnswers
    <2>7. s \in Seq(Items) /\ OnLine(ln, s, f)
      BY <1>1, <2>2, <2>3, <2>5, <2>6, AnswerIs
    <2>8. TunnelWhole(ln, s, f)
      <3>1. PICK one \in Seq(Items) : one = <<Byte(ack)>> /\ Len(one) = 1 /\ one[1] = Byte(ack)
        <4>1. Byte(ack) \in Items
          BY ItemsAre
        <4> QED
          BY <4>1, OneItem, Zenon
      <3>2. Byte(ack).kind = ack
        BY ItemsAre
      <3>3. NoTunnel(one)
        BY <3>1, <3>2 DEF NoTunnel
      <3>4. ln.at = "register" /\ NoTunnel(q) /\ f.at # "tunnel"
        BY <1>1, <2>3, <2>5, <2>6, EdgePlaces DEF TunnelWhole
      <3>5. NoTunnel(s)
        BY <2>2, <3>1, <3>3, <3>4, NoTunnelYet
      <3> QED
        BY <3>4, <3>5 DEF TunnelWhole
    <2> QED
      BY <1>1, <2>5, <2>7, <2>8, LineSteps, Zenon DEF Becomes
  <1>3. CASE EdgePings(l)
    <2>1. e.pings \in Nat /\ e.pings + 1 \in Nat
      BY DEF EdgeRecords
    <2>2. Byte("PING") \in Items /\ Count(e.pings + 1) \in Items
      BY <2>1, ItemsAre
    <2>3. PICK two \in Seq(Items) : /\ two = <<Byte("PING"), Count(e.pings + 1)>> /\ Len(two) = 2
                                    /\ two[1] = Byte("PING") /\ two[2] = Count(e.pings + 1)
      <3>1. PICK a \in Items, b \in Items : a = Byte("PING") /\ b = Count(e.pings + 1)
        BY <2>2, Zenon
      <3>2. PICK two \in Seq(Items) : two = <<a, b>> /\ Len(two) = 2 /\ two[1] = a /\ two[2] = b
        BY TwoItems
      <3> QED
        BY <3>1, <3>2, Zenon
    <2>4. PICK s : s = q \o two /\ Joins(s, q, two)
      BY DEF Joins
    <2>5. IsPing(two, e.pings + 1)
      BY <2>3 DEF IsPing
    <2>6. PICK f : f = [e EXCEPT !.pings = e.pings + 1]
      OBVIOUS
    <2>7. f \in EdgeRecords /\ f.at = e.at /\ f.got = e.got /\ f.pings = e.pings + 1 /\ e.at = "ping"
      BY <1>0, <1>3, <2>1, <2>6 DEF EdgeRecords, EdgePings
    <2>8. s \in Seq(Items) /\ OnLine(ln, s, f)
      BY <1>1, <2>4, <2>5, <2>7, PingIs
    <2>9. edgeEnd' = [edgeEnd EXCEPT ![l] = f] /\ inward' = [inward EXCEPT ![l] = s]
      <3>1. edgeEnd' = [edgeEnd EXCEPT ![l] = f]
        BY <1>0, <1>3, <2>6 DEF EdgePings, EdgeRecords
      <3>2. inward' = [inward EXCEPT ![l] = @ \o <<Byte("PING"), Count(edgeEnd[l].pings + 1)>>]
        BY <1>3 DEF EdgePings
      <3> QED
        BY <1>0, <2>3, <2>4, <3>1, <3>2
    <2>10. TunnelWhole(ln, s, f)
      <3>1. ln.at # "tunnel" /\ NoTunnel(q) /\ f.at # "tunnel"
        BY <1>1, <2>7, EdgePlaces DEF TunnelWhole
      <3>2. Byte("PING").kind = "PING" /\ Count(e.pings + 1).kind = "count"
        BY <2>1, ItemsAre
      <3>3. NoTunnel(two)
        BY <2>3, <3>2 DEF NoTunnel
      <3>4. NoTunnel(s)
        BY <2>4, <3>1, <3>3, NoTunnelYet
      <3> QED
        BY <3>1, <3>4 DEF TunnelWhole
    <2> QED
      BY <1>1, <2>7, <2>8, <2>9, <2>10, LineSteps
  <1>4. CASE EdgeStarts(l)
    <2>1. PICK more \in Seq(Items) :
            /\ EdgeSends(l, more, "tunnel")
            /\ \A i \in 1 .. Len(more) : more[i].kind \in {"STOP", "tunnel"}
            /\ EndsInTunnel(more)
      <3>1. PICK a \in Items, b \in Items, c \in Items :
               /\ a = Byte("STOP") /\ a.kind = "STOP" /\ b = OfTunnel(1) /\ b.kind = "tunnel"
               /\ c = OfTunnel(2) /\ c.kind = "tunnel"
        BY ItemsAre
      <3>2. CASE EdgeSends(l, <<Byte("STOP"), OfTunnel(1), OfTunnel(2)>>, "tunnel")
        <4>1. PICK more \in Seq(Items) : /\ more = <<a, b, c>> /\ Len(more) = 3
                                         /\ more[1] = a /\ more[2] = b /\ more[3] = c
          BY ThreeItems
        <4>2. \A i \in 1 .. Len(more) : more[i].kind \in {"STOP", "tunnel"}
          BY <3>1, <4>1
        <4>3. EndsInTunnel(more)
          BY <3>1, <4>1 DEF EndsInTunnel
        <4>4. EdgeSends(l, more, "tunnel")
          BY <3>1, <3>2, <4>1, Zenon
        <4> QED
          BY <4>2, <4>3, <4>4
      <3>3. CASE EdgeSends(l, Relayed, "tunnel")
        <4>1. PICK more \in Seq(Items) : more = <<b, c>> /\ Len(more) = 2 /\ more[1] = b /\ more[2] = c
          BY TwoItems
        <4>2. \A i \in 1 .. Len(more) : more[i].kind \in {"STOP", "tunnel"}
          BY <3>1, <4>1
        <4>3. EndsInTunnel(more)
          BY <3>1, <4>1 DEF EndsInTunnel
        <4>4. EdgeSends(l, more, "tunnel")
          BY <3>1, <3>3, <4>1, Zenon DEF Relayed
        <4> QED
          BY <4>2, <4>3, <4>4
      <3> QED
        BY <1>4, <3>2, <3>3 DEF EdgeStarts
    <2>2. PICK s : Joins(s, q, more)
      BY DEF Joins
    <2>3. "tunnel" \in {"register", "ping", "tunnel", "over"}
      OBVIOUS
    <2>4. PICK f \in EdgeRecords : f.at = "tunnel" /\ f.got = e.got /\ f.pings = e.pings /\ Becomes(l, s, f)
      <3>1. PICK a \in {"register", "ping", "tunnel", "over"} : a = "tunnel"
        BY <2>3
      <3>2. EdgeSends(l, more, a)
        BY <2>1, <3>1
      <3>3. \E f \in EdgeRecords : f.at = a /\ f.got = e.got /\ f.pings = e.pings /\ Becomes(l, s, f)
        <4>1. PICK g : g = [e EXCEPT !.at = a]
          OBVIOUS
        <4>2. g \in EdgeRecords /\ g.at = a /\ g.got = e.got /\ g.pings = e.pings
          BY <4>1 DEF EdgeRecords
        <4>3. Becomes(l, s, g)
          BY <1>0, <2>2, <3>2, <4>1 DEF EdgeSends, Joins, Becomes
        <4> QED
          BY <4>2, <4>3
      <3> QED
        BY <3>1, <3>3
    <2>5. e.at = "ping"
      BY <1>0, <1>4 DEF EdgeStarts
    <2>6. s \in Seq(Items) /\ OnLine(ln, s, f)
      BY <1>1, <2>1, <2>2, <2>4, <2>5, StartIs
    <2>7. TunnelWhole(ln, s, f)
      <3>1. ln.at # "tunnel" /\ NoTunnel(q)
        BY <1>1, <2>5, EdgePlaces DEF TunnelWhole
      <3>2. EndsInTunnel(s)
        BY <2>1, <2>2, <3>1, TunnelSent
      <3> QED
        BY <2>4, <3>1, <3>2 DEF TunnelWhole
    <2> QED
      BY <1>1, <2>4, <2>6, <2>7, LineSteps, Zenon DEF Becomes
  <1> QED
    BY <1>2, <1>3, <1>4

\* A connection that closes asks nothing of what is left of it.
LEMMA CloseKeeps ==
    ASSUME LinkInv, NEW l \in Lines, Closes(l), UNCHANGED <<memo, edgeEnd>>,
           NEW q \in Seq(Items), inward' = [inward EXCEPT ![l] = q]
    PROVE  LinkInv'
  <1>1. line' = [line EXCEPT ![l] = ClosedLine]
    BY DEF Closes
  <1>2. PICK e \in EdgeRecords : edgeEnd' = [edgeEnd EXCEPT ![l] = e]
    BY LineIs
  <1> QED
    BY <1>1, <1>2, ClosedIs, LineIs, LineSteps

\* What the agent reads and writes.
LEMMA AgentKeeps ==
    ASSUME LinkInv, NEW l \in Lines, \/ Acked(l) \/ AckTimesOut(l) \/ PingMarker(l) \/ PingCounter(l) \/ Pongs(l)
                                     \/ PhaseEnds(l) \/ TunnelAnswers(l) \/ LineEnds(l)
    PROVE  LinkInv'
  <1>0. PICK ln \in LinkRecords, q \in Seq(Items), e \in EdgeRecords :
          ln = line[l] /\ q = inward[l] /\ e = edgeEnd[l]
    BY LineIs
  <1>1. /\ ln.at # "closed" => OnLine(ln, q, e) /\ TunnelWhole(ln, q, e)
        /\ ln.trusts = ln.asked /\ memo' \in Seq(MemoRecords)
    BY <1>0, LineIs DEF Acked, AckTimesOut, PingMarker, PingCounter, Pongs, PhaseEnds, TunnelAnswers, LineEnds
  <1>2. /\ UNCHANGED edgeEnd => edgeEnd' = [edgeEnd EXCEPT ![l] = e]
        /\ UNCHANGED inward => inward' = [inward EXCEPT ![l] = q]
        /\ UNCHANGED line => line' = [line EXCEPT ![l] = ln]
    BY <1>0, LineIs
  <1>3. PICK t : t = Tail(q)
    OBVIOUS
  <1>4. q # <<>> => t \in Seq(Items)
    BY <1>3, HeadTailProperties
  <1>5. Reads(l) => inward' = [inward EXCEPT ![l] = t]
    BY <1>0, <1>3 DEF Reads
  <1>6. ASSUME NEW at \in {"phase", "counter", "pong", "tunnel"}
        PROVE  \E nl \in LinkRecords : nl = [ln EXCEPT !.at = at] /\ nl.at = at /\ nl.trusts = nl.asked
    <2>1. PICK nl : nl = [ln EXCEPT !.at = at]
      OBVIOUS
    <2>2. nl \in LinkRecords /\ nl.at = at /\ nl.trusts = ln.trusts /\ nl.asked = ln.asked
      BY <2>1 DEF LinkRecords
    <2> QED
      BY <1>1, <2>1, <2>2, Zenon
  <1>14. ASSUME NEW nl \in LinkRecords, nl.at \notin {"closed", "tunnel"}, ln.at \notin {"closed", "tunnel"}, q # <<>>,
                Head(q).kind \notin {"STOP", "tunnel"}
         PROVE  TunnelWhole(nl, t, e)
    <2>1. IF e.at = "tunnel" THEN EndsInTunnel(q) ELSE NoTunnel(q)
      BY <1>1, <1>14 DEF TunnelWhole
    <2>2. (NoTunnel(q) => NoTunnel(t)) /\ (EndsInTunnel(q) => EndsInTunnel(t))
      BY <1>3, <1>14, WholeTail
    <2> QED
      BY <1>14, <2>1, <2>2 DEF TunnelWhole
  <1>7. CASE Acked(l)
    <2>1. ln.at = "register" /\ q # <<>> /\ Reads(l) /\ UNCHANGED <<memo, edgeEnd>>
      BY <1>0, <1>7 DEF Acked, At
    <2>2. CASE Kind(l) = "OK"
      <3>1. PICK nl \in LinkRecords : nl = [ln EXCEPT !.at = "phase"] /\ nl.at = "phase" /\ nl.trusts = nl.asked
        BY <1>6
      <3>2. line' = [line EXCEPT ![l] = nl]
        BY <1>0, <1>7, <2>2, <3>1 DEF Acked
      <3>3. Head(q).kind = "OK"
        BY <1>0, <2>2 DEF Kind
      <3>4. OnLine(ln, q, e)
        BY <1>1, <2>1
      <3>5. t \in Seq(Items) /\ OnLine(nl, t, e)
        BY <1>3, <2>1, <3>1, <3>3, <3>4, AckIs
      <3>6. TunnelWhole(nl, t, e)
        BY <1>14, <2>1, <3>1, <3>3
      <3> QED
        <4>1. edgeEnd' = [edgeEnd EXCEPT ![l] = e] /\ inward' = [inward EXCEPT ![l] = t]
          BY <1>2, <1>5, <2>1
        <4> QED
          BY <1>1, <3>1, <3>2, <3>5, <3>6, <4>1, LineSteps, Zenon
    <2>3. CASE Kind(l) # "OK"
      BY <1>4, <1>5, <1>7, <2>1, <2>3, CloseKeeps DEF Acked
    <2> QED
      BY <2>2, <2>3
  <1>8. CASE AckTimesOut(l) \/ LineEnds(l)
    BY <1>2, <1>8, CloseKeeps DEF AckTimesOut, LineEnds
  <1>9. CASE PingMarker(l)
    <2>1. ln.at = "phase" /\ q # <<>> /\ Reads(l) /\ UNCHANGED <<memo, edgeEnd>> /\ Head(q).kind = "PING"
      BY <1>0, <1>9 DEF PingMarker, At, Kind
    <2>2. PICK nl \in LinkRecords : nl = [ln EXCEPT !.at = "counter"] /\ nl.at = "counter" /\ nl.trusts = nl.asked
      BY <1>6
    <2>3. line' = [line EXCEPT ![l] = nl]
      BY <1>0, <1>9, <2>2 DEF PingMarker
    <2>4. OnLine(ln, q, e)
      BY <1>1, <2>1
    <2>5. t \in Seq(Items) /\ OnLine(nl, t, e)
      BY <1>3, <2>1, <2>2, <2>4, MarkerIs
    <2>6. TunnelWhole(nl, t, e)
      BY <1>14, <2>1, <2>2
    <2> QED
      <3>1. edgeEnd' = [edgeEnd EXCEPT ![l] = e] /\ inward' = [inward EXCEPT ![l] = t]
        BY <1>2, <1>5, <2>1
      <3> QED
        BY <1>1, <2>2, <2>3, <2>5, <2>6, <3>1, LineSteps, Zenon
  <1>10. CASE PingCounter(l)
    <2>1. ln.at = "counter" /\ q # <<>> /\ Reads(l) /\ UNCHANGED <<memo, edgeEnd>>
      BY <1>0, <1>10 DEF PingCounter, At
    <2>2. Head(q).n \in Nat
      <3>1. Head(q) \in Items
        BY <2>1, HeadTailProperties
      <3> QED
        BY <3>1 DEF Items
    <2>3. PICK nl \in LinkRecords : /\ nl = [ln EXCEPT !.at = "pong", !.ping = Head(q).n] /\ nl.at = "pong"
                                    /\ nl.ping = Head(q).n /\ nl.trusts = nl.asked
      <3>1. PICK n \in Nat : n = Head(q).n
        BY <2>2, Zenon
      <3>2. PICK nl : nl = [ln EXCEPT !.at = "pong", !.ping = n]
        OBVIOUS
      <3>3. nl \in LinkRecords /\ nl.at = "pong" /\ nl.ping = n /\ nl.trusts = ln.trusts /\ nl.asked = ln.asked
        BY <3>2 DEF LinkRecords
      <3> QED
        BY <1>1, <3>1, <3>2, <3>3, Zenon
    <2>4. line' = [line EXCEPT ![l] = nl]
      BY <1>0, <1>10, <2>3 DEF PingCounter
    <2>5. OnLine(ln, q, e)
      BY <1>1, <2>1
    <2>6. t \in Seq(Items) /\ OnLine(nl, t, e)
      BY <1>3, <2>1, <2>3, <2>5, CounterIs
    <2>7. Head(q).kind = "count"
      BY <2>1, <2>5, CountNext
    <2>8. TunnelWhole(nl, t, e)
      BY <1>14, <2>1, <2>3, <2>7
    <2> QED
      <3>1. edgeEnd' = [edgeEnd EXCEPT ![l] = e] /\ inward' = [inward EXCEPT ![l] = t]
        BY <1>2, <1>5, <2>1
      <3> QED
        BY <1>1, <2>3, <2>4, <2>6, <2>8, <3>1, LineSteps, Zenon
  <1>11. CASE Pongs(l)
    <2>1. ln.at = "pong" /\ UNCHANGED <<memo, inward>> /\ ln.ping \in Nat
      BY <1>0, <1>11 DEF Pongs, LinkRecords
    <2>2. PICK nl \in LinkRecords : nl = [ln EXCEPT !.at = "phase"] /\ nl.at = "phase" /\ nl.trusts = nl.asked
      BY <1>6
    <2>3. line' = [line EXCEPT ![l] = nl]
      BY <1>0, <1>11, <2>2 DEF Pongs
    <2>4. PICK g \in Seq(Items) : g = Append(e.got, Count(ln.ping))
      BY <2>1, ItemsAre, AppendProperties DEF EdgeRecords
    <2>5. PICK f \in EdgeRecords : /\ f = [e EXCEPT !.got = g] /\ f.at = e.at /\ f.pings = e.pings /\ f.got = g
      <3>1. PICK f : f = [e EXCEPT !.got = g]
        OBVIOUS
      <3>2. f \in EdgeRecords /\ f.at = e.at /\ f.pings = e.pings /\ f.got = g
        BY <3>1 DEF EdgeRecords
      <3> QED
        BY <3>1, <3>2, Zenon
    <2>6. edgeEnd' = [edgeEnd EXCEPT ![l] = f]
      BY <1>0, <1>11, <2>4, <2>5 DEF Pongs
    <2>7. OnLine(ln, q, e)
      BY <1>1, <2>1
    <2>8. OnLine(nl, q, f)
      BY <2>1, <2>2, <2>4, <2>5, <2>7, PongIs
    <2>9. TunnelWhole(nl, q, f)
      BY <1>1, <2>1, <2>2, <2>5 DEF TunnelWhole
    <2> QED
      <3>1. inward' = [inward EXCEPT ![l] = q]
        BY <1>2, <2>1
      <3> QED
        BY <1>1, <2>2, <2>3, <2>5, <2>6, <2>8, <2>9, <3>1, LineSteps, Zenon
  <1>12. CASE PhaseEnds(l)
    <2>1. ln.at = "phase" /\ q # <<>> /\ Reads(l) /\ UNCHANGED <<memo, edgeEnd>> /\ Head(q).kind # "PING"
      BY <1>0, <1>12 DEF PhaseEnds, At, Kind
    <2>2. CASE Kind(l) = "STOP"
      <3>1. PICK nl \in LinkRecords : nl = [ln EXCEPT !.at = "tunnel"] /\ nl.at = "tunnel" /\ nl.trusts = nl.asked
        BY <1>6
      <3>2. line' = [line EXCEPT ![l] = nl]
        BY <1>0, <1>12, <2>2, <3>1 DEF PhaseEnds
      <3>3. OnLine(ln, q, e) /\ t \in Seq(Items)
        BY <1>1, <1>4, <2>1
      <3>4. OnLine(nl, t, e)
        BY <2>1, <3>1, <3>3, StopIs
      <3>5. TunnelWhole(nl, t, e)
        <4>1. Head(q).kind = "STOP"
          BY <1>0, <2>2 DEF Kind
        <4>2. IF e.at = "tunnel" THEN EndsInTunnel(q) ELSE NoTunnel(q)
          BY <1>1, <2>1 DEF TunnelWhole
        <4>3. e.at = "tunnel"
          BY <3>1, <3>4 DEF OnLine
        <4>4. t = Relayed
          BY <1>3, <2>1, <4>1, <4>2, <4>3, AfterStop
        <4> QED
          BY <3>1, <4>4 DEF TunnelWhole
      <3> QED
        <4>1. edgeEnd' = [edgeEnd EXCEPT ![l] = e] /\ inward' = [inward EXCEPT ![l] = t]
          BY <1>2, <1>5, <2>1
        <4> QED
          BY <1>1, <3>1, <3>2, <3>3, <3>4, <3>5, <4>1, LineSteps, Zenon
    <2>3. CASE Kind(l) # "STOP"
      BY <1>4, <1>5, <1>12, <2>1, <2>3, CloseKeeps DEF PhaseEnds
    <2> QED
      BY <2>2, <2>3
  <1>13. CASE TunnelAnswers(l)
    <2>1. ln.at = "tunnel" /\ UNCHANGED <<memo, line, inward>>
      BY <1>0, <1>13 DEF TunnelAnswers
    <2>2. PICK g \in Seq(Items) : g = Append(e.got, Byte("answer"))
      BY ItemsAre, AppendProperties DEF EdgeRecords
    <2>3. PICK f \in EdgeRecords : /\ f = [e EXCEPT !.got = g] /\ f.at = e.at /\ f.pings = e.pings /\ f.got = g
      <3>1. PICK f : f = [e EXCEPT !.got = g]
        OBVIOUS
      <3>2. f \in EdgeRecords /\ f.at = e.at /\ f.pings = e.pings /\ f.got = g
        BY <3>1 DEF EdgeRecords
      <3> QED
        BY <3>1, <3>2, Zenon
    <2>4. edgeEnd' = [edgeEnd EXCEPT ![l] = f]
      BY <1>0, <1>13, <2>2, <2>3 DEF TunnelAnswers
    <2>5. OnLine(ln, q, f)
      BY <1>1, <2>1, <2>2, <2>3, TunnelIs
    <2>6. TunnelWhole(ln, q, f)
      BY <1>1, <2>1 DEF TunnelWhole
    <2> QED
      <3>1. inward' = [inward EXCEPT ![l] = q] /\ line' = [line EXCEPT ![l] = ln]
        BY <1>2, <2>1
      <3> QED
        BY <1>1, <2>3, <2>4, <2>5, <2>6, <3>1, LineSteps, Zenon
  <1> QED
    BY <1>7, <1>8, <1>9, <1>10, <1>11, <1>12, <1>13

\* Every step of either end keeps the invariant.
LEMMA LinkKeeps == LinkInv /\ [EdgeLinkNext]_edgeLinkVars => LinkInv'
  <1> SUFFICES ASSUME LinkInv, [EdgeLinkNext]_edgeLinkVars PROVE LinkInv'
    OBVIOUS
  <1>1. CASE UNCHANGED edgeLinkVars
    BY <1>1 DEF edgeLinkVars, LinkInv, LinkTyped, LinesTrue, TrustsWhatWasAsked
  <1> QED
    BY <1>1, ConnectKeeps, EdgeKeeps, AgentKeeps DEF EdgeLinkNext

\* For any number of connections, certificates and PINGs and any size of the memo: the edge has the
\* registration, the PONGs in order and then the tunnel, the tunnel takes the stream over with all the
\* edge relays still to be read, and every connection trusts the certificate it was opened for
\* (register_tunnel_stream_with_role, await_ping_phase_end, ClientConfigMemo::get_or_build).
THEOREM LinksAlwaysApart == EdgeLinkSpec => []LinksKeptApart
  <1>1. LinkInv => LinksKeptApart
    <2> SUFFICES ASSUME LinkInv PROVE LinksKeptApart
      OBVIOUS
    <2>1. ASSUME NEW l \in Lines, line[l].at # "closed"
          PROVE  /\ line[l].at = "tunnel" => inward[l] = Relayed
                 /\ \A i \in DOMAIN edgeEnd[l].got :
                      edgeEnd[l].got[i] = IF i = 1 THEN Byte("register")
                                          ELSE IF i - 1 <= edgeEnd[l].pings THEN Count(i - 1) ELSE Byte("answer")
      <3>1. line[l] \in LinkRecords /\ edgeEnd[l] \in EdgeRecords /\ Received(edgeEnd[l])
        BY <2>1, LineIs DEF OnLine
      <3>2. DOMAIN edgeEnd[l].got = 1 .. Len(edgeEnd[l].got)
        BY <3>1 DEF EdgeRecords
      <3>3. line[l].at = "tunnel" => inward[l] = Relayed
        BY <2>1, LineIs DEF TunnelWhole
      <3> QED
        BY <3>1, <3>2, <3>3 DEF Received
    <2>2. PhasesKeptApart
      BY <2>1 DEF PhasesKeptApart
    <2> QED
      BY <2>2 DEF LinkInv, LinksKeptApart
  <1> QED
    BY <1>1, LinkStarts, LinkKeeps, PTL DEF EdgeLinkSpec

-----------------------------------------------------------------------------
(* The fallback pool and the loop that falls back to it (FallbackPool, TunnelAgent). *)

PoolProbes == {"none", "look", "register", "registered", "leaving"}
PoolRecords == [on : BOOLEAN, handles : SUBSET WorkerIds, serving : SUBSET WorkerIds, gaveUp : Nat,
                next : Nat \ {0}, streak : Nat, probe : PoolProbes, confirm : Nat]

\* What a worker that has told of no Client in time does, how one ends, and what is left of it.
Live == {"try", "wait", "park", "plain", "plainrelay", "stop", "late"}
Over == {"ok", "err", "panic"}
Left == {"unused", "gone", "lost", "detached"}
WorkerStates == Live \cup Over \cup Left \cup {"relay"}
WorkerRecords == [st : WorkerStates, rung : Nat, tries : Nat, short : Nat, noes : Nat, doomed : BOOLEAN]

PoolTyped ==
    /\ pool \in PoolRecords /\ worker \in [WorkerIds -> WorkerRecords] /\ signals \in Seq(WorkerIds)
    /\ refusedView \in BOOLEAN /\ lateNo \in BOOLEAN

\* The pool's books: it has the workers it names, under ids it has given, and not too many.
Books(p) ==
    /\ p.serving \subseteq p.handles
    /\ \A w \in p.handles : w < p.next
    /\ Cardinality(p.handles) <= PoolSize + MaxServing

\* As many as the budgets allow, or all the cap allows.
Filled(p) ==
    \/ Cardinality(p.handles \ p.serving) >= Target(p)
    \/ Cardinality(p.handles) >= Target(p) + MaxServing

\* A worker of the pool is not aborted; one that relays is in the books or on its way there, and one
\* that is there has fired; it fires late only once the pool has had its last look.  What is no
\* worker of the pool is over, or aborted, and then it has told of no Client in time.
WorkerIn(p, q, r, w) ==
    /\ w \in p.handles => /\ ~r.doomed /\ r.st \notin Left
                          /\ r.st = "relay" => w \in p.serving \cup q
                          /\ w \in p.serving \cup q => r.st \in {"relay", "ok", "panic"}
                          /\ r.st = "late" => p.probe = "leaving"
    /\ w \notin p.handles => r.doomed \/ r.st \in Over \cup Left
    /\ ~p.on => r.doomed \/ r.st \in Left
    /\ r.doomed => r.st # "relay"
    /\ p.on /\ ~r.doomed /\ r.st \in Over \cup {"lost"} => w < p.next

WorkersIn(p, q, ws) ==
    /\ q \subseteq p.handles /\ (p.probe = "leaving" => q = {})
    /\ \A w \in WorkerIds : WorkerIn(p, q, ws[w], w)

\* The workers that gave up or panicked are at least as many as the pool has counted.
LostOf(ws) == {w \in WorkerIds : ws[w].st = "lost" /\ ~ws[w].doomed}
Losses(p, ws) == p.on => p.gaveUp <= Cardinality(LostOf(ws))

\* The pool runs while the loop waits for it, and has nothing otherwise.
Runs ==
    /\ pool.on <=> agent.st = "fallback"
    /\ pool.on /\ pool.probe # "leaving" => Filled(pool)
    /\ ~pool.on => pool.handles = {} /\ pool.probe = "none"

AgentRecords == [st : {"dial", "register", "serve", "fallback", "backoff", "gaveup"}, tries : Nat, flaps : Nat,
                 transport : {"quic", "masque", "tcp-fallback"}, only : BOOLEAN]

\* A verdict that stands while the agent serves came from an aborted worker.
ViewTrue == agent.st = "serve" => (refusedView => lateNo)

TunnelInv ==
    /\ PoolTyped /\ Books(pool) /\ WorkersIn(pool, Queued, worker) /\ Losses(pool, worker)
    /\ agent \in AgentRecords /\ Runs /\ ViewTrue

\* The numbers.
LEMMA PoolNumbers ==
    /\ PoolSize \in Nat \ {0} /\ MaxServing \in Nat \ {0} /\ Rungs \in Nat \ {0} /\ Attempts \in Nat \ {0}
    /\ RefusalsBeforeRevoked \in Nat \ {0} /\ Strikes \in Nat \ {0} /\ Ids \in Nat /\ Ids >= PoolSize
  BY PoolAssumption

\* The states.
LEMMA StatesAre ==
    /\ \A s \in Live : s \notin Over \cup Left /\ s \notin {"relay", "ok", "panic", "lost"} /\ s \in WorkerStates
    /\ \A s \in Over : s \notin Live \cup Left /\ s \notin {"relay", "lost", "late"} /\ s \in WorkerStates
    /\ \A s \in Left : s \notin Live \cup Over /\ s \notin {"relay", "ok", "panic", "late"} /\ s \in WorkerStates
    /\ "relay" \in WorkerStates /\ "relay" \notin Live \cup Over \cup Left
  BY DEF Live, Over, Left, WorkerStates

\* ... and their names.
LEMMA NamesAre ==
    /\ "gone" \in Left /\ "unused" \in Left /\ "lost" \in Left /\ "detached" \in Left
    /\ "ok" \in Over /\ "err" \in Over /\ "panic" \in Over
    /\ "try" \in Live /\ "wait" \in Live /\ "park" \in Live /\ "plain" \in Live /\ "plainrelay" \in Live
    /\ "stop" \in Live /\ "late" \in Live
  BY DEF Live, Over, Left

\* Workers that are done, are started, and were never started.
LEMMA DoneIs ==
    ASSUME NEW s \in WorkerStates PROVE Done(s) \in WorkerRecords /\ Done(s).st = s /\ Done(s).doomed = FALSE
  BY DEF Done, Unused, WorkerRecords

\* A new worker and an unused entry are records of a worker.
LEMMA FreshIs ==
    /\ Fresh \in WorkerRecords /\ Fresh.st = "try" /\ Fresh.doomed = FALSE
    /\ Unused \in WorkerRecords /\ Unused.st = "unused" /\ Unused.doomed = FALSE
  BY DEF Fresh, Unused, WorkerRecords, WorkerStates, Live, Over, Left

-----------------------------------------------------------------------------

\* Sets of ids are finite, and ids that are new add to both counts.
LEMMA SubsetsCount ==
    ASSUME NEW H \in SUBSET WorkerIds PROVE IsFiniteSet(H) /\ Cardinality(H) \in Nat
  <1>1. IsFiniteSet(WorkerIds)
    BY PoolNumbers, FS_Interval DEF WorkerIds
  <1>2. IsFiniteSet(H)
    BY <1>1, FS_Subset
  <1> QED
    BY <1>2, FS_CardinalityType

\* Workers that are new are counted apart from the ones there were.
LEMMA ApartCount ==
    ASSUME NEW A \in SUBSET WorkerIds, NEW new \in SUBSET WorkerIds, A \cap new = {}
    PROVE  Cardinality(A \cup new) = Cardinality(A) + Cardinality(new)
  <1>1. IsFiniteSet(A) /\ Cardinality(A) \in Nat /\ IsFiniteSet(new) /\ Cardinality(new) \in Nat
    BY SubsetsCount
  <1>2. Cardinality({}) = 0
    BY FS_EmptySet
  <1>3. Cardinality(A \cup new) = Cardinality(A) + Cardinality(new) - Cardinality(A \cap new)
    BY <1>1, FS_Union
  <1>4. Cardinality(A \cap new) = 0
    BY <1>2, Zenon
  <1> QED
    BY <1>1, <1>3, <1>4

\* ... to all of them and to those that do not serve.
LEMMA NewCount ==
    ASSUME NEW H \in SUBSET WorkerIds, NEW S \in SUBSET H, NEW new \in SUBSET WorkerIds, new \cap H = {}
    PROVE  /\ Cardinality(H \cup new) = Cardinality(H) + Cardinality(new)
           /\ Cardinality((H \cup new) \ S) = Cardinality(H \ S) + Cardinality(new)
  <1>1. H \cap new = {}
    OBVIOUS
  <1>2. PICK A \in SUBSET WorkerIds : A = H \ S
    OBVIOUS
  <1>3. A \cap new = {} /\ (H \cup new) \ S = A \cup new
    BY <1>2
  <1>4. Cardinality(H \cup new) = Cardinality(H) + Cardinality(new)
    BY <1>1, ApartCount
  <1>5. Cardinality(A \cup new) = Cardinality(A) + Cardinality(new)
    BY <1>3, ApartCount
  <1>6. Cardinality((H \cup new) \ S) = Cardinality(H \ S) + Cardinality(new)
    BY <1>2, <1>3, <1>5, Zenon
  <1> QED
    BY <1>4, <1>6

\* The ids that come next, and what they add.
AreNew(new, H, S, next, m) ==
    /\ new = next..(next + m - 1) /\ new \cap H = {}
    /\ Cardinality(H \cup new) = Cardinality(H) + m
    /\ Cardinality((H \cup new) \ S) = Cardinality(H \ S) + m
    /\ \A w \in H \cup new : w < next + m

\* There are such ids.
LEMMA NewIds ==
    ASSUME NEW H \in SUBSET WorkerIds, NEW S \in SUBSET H, NEW next \in Nat \ {0}, NEW m \in Nat,
           \A w \in H : w < next, next + m - 1 <= Ids
    PROVE  \E new \in SUBSET WorkerIds : AreNew(new, H, S, next, m)
  <1> DEFINE new == next..(next + m - 1)
  <1>1. new \in SUBSET WorkerIds
    BY PoolNumbers DEF WorkerIds
  <1>2. \A w \in new : w \in Nat /\ w >= next /\ w < next + m
    OBVIOUS
  <1>3. \A w \in H : w \in Nat
    BY PoolNumbers DEF WorkerIds
  <1>4. new \cap H = {}
    BY <1>2, <1>3
  <1>5. IsFiniteSet(new) /\ Cardinality(new) = m
    <2>1. next \in Int /\ next + m - 1 \in Int
      OBVIOUS
    <2>2. IsFiniteSet(new) /\ Cardinality(new) = IF next > next + m - 1 THEN 0 ELSE (next + m - 1) - next + 1
      BY <2>1, FS_Interval
    <2> QED
      BY <2>2
  <1>6. \A w \in H \cup new : w < next + m
    BY <1>2, <1>3
  <1> HIDE DEF new
  <1>7. /\ Cardinality(H \cup new) = Cardinality(H) + Cardinality(new)
        /\ Cardinality((H \cup new) \ S) = Cardinality(H \ S) + Cardinality(new)
    BY <1>1, <1>4, NewCount, ZenonT(40)
  <1> QED
    BY <1>1, <1>4, <1>5, <1>6, <1>7 DEF new, AreNew

\* What top_up! is short of.
LEMMA MissingIs ==
    ASSUME NEW p \in PoolRecords, p.serving \subseteq p.handles
    PROVE  /\ Missing(p) \in Nat /\ Target(p) \in Nat /\ Target(p) <= PoolSize
           /\ Cardinality(p.handles) \in Nat /\ Cardinality(p.handles \ p.serving) \in Nat
           /\ \/ Cardinality(p.handles \ p.serving) + Missing(p) >= Target(p)
              \/ Cardinality(p.handles) + Missing(p) >= Target(p) + MaxServing
           /\ Missing(p) = 0 \/ Cardinality(p.handles) + Missing(p) <= Target(p) + MaxServing
  <1>1. p.gaveUp \in Nat /\ p.handles \in SUBSET WorkerIds
    BY DEF PoolRecords
  <1>2. PICK h \in Nat : h = Cardinality(p.handles)
    BY <1>1, SubsetsCount
  <1>3. PICK k \in Nat : k = Cardinality(p.handles \ p.serving)
    <2>1. p.handles \ p.serving \in SUBSET WorkerIds
      BY <1>1
    <2> QED
      BY <2>1, SubsetsCount
  <1>4. PICK t \in Nat : t = Target(p) /\ t <= PoolSize
    BY <1>1, PoolNumbers DEF Target, Most
  <1>5. Missing(p) = Most(Fewest(t - k, t + MaxServing - h), 0)
    BY <1>2, <1>3, <1>4 DEF Missing
  <1> QED
    BY <1>2, <1>3, <1>4, <1>5, PoolNumbers DEF Most, Fewest

\* top_up! fills the pool with fresh workers under new ids and keeps the books.
LEMMA TopUpIs ==
    ASSUME NEW p \in PoolRecords, Books(p), NEW ws \in [WorkerIds -> WorkerRecords], TopUp(p, ws)
    PROVE  \E new \in SUBSET WorkerIds :
             /\ new \cap p.handles = {}
             /\ pool' \in PoolRecords /\ Books(pool') /\ Filled(pool')
             /\ pool'.on = p.on /\ pool'.serving = p.serving /\ pool'.handles = p.handles \cup new
             /\ pool'.probe = p.probe /\ pool'.gaveUp = p.gaveUp /\ pool'.next >= p.next
             /\ \A w \in new : w >= p.next
             /\ worker' = [w \in WorkerIds |-> IF w \in new THEN Fresh ELSE ws[w]]
  <1>0. /\ p.handles \in SUBSET WorkerIds /\ p.serving \in SUBSET p.handles /\ p.next \in Nat \ {0} /\ p.gaveUp \in Nat
        /\ \A w \in p.handles : w < p.next
    BY DEF PoolRecords, Books
  <1>1. PICK m \in Nat : m = Missing(p)
    BY <1>0, MissingIs
  <1>2. p.next + m - 1 <= Ids
    BY <1>1 DEF TopUp
  <1>3. PICK new \in SUBSET WorkerIds : AreNew(new, p.handles, p.serving, p.next, m)
    BY <1>0, <1>2, NewIds
  <1>4. /\ new = p.next..(p.next + m - 1) /\ new \cap p.handles = {}
        /\ Cardinality(p.handles \cup new) = Cardinality(p.handles) + m
        /\ Cardinality((p.handles \cup new) \ p.serving) = Cardinality(p.handles \ p.serving) + m
        /\ \A w \in p.handles \cup new : w < p.next + m
    BY <1>3, Zenon DEF AreNew
  <1>5. PICK hs \in SUBSET WorkerIds : hs = p.handles \cup new
    BY <1>0, <1>4
  <1>6. PICK nx \in Nat \ {0} : nx = p.next + m
    BY <1>0
  <1>7. pool' = [p EXCEPT !.handles = hs, !.next = nx]
        /\ worker' = [w \in WorkerIds |-> IF w \in new THEN Fresh ELSE ws[w]]
    BY <1>1, <1>4, <1>5, <1>6, Zenon DEF TopUp
  <1>8. /\ pool' \in PoolRecords /\ pool'.on = p.on /\ pool'.serving = p.serving /\ pool'.handles = hs
        /\ pool'.probe = p.probe /\ pool'.next = nx /\ pool'.gaveUp = p.gaveUp
    BY <1>7 DEF PoolRecords
  <1>9. /\ Cardinality(p.handles) \in Nat /\ Cardinality(p.handles \ p.serving) \in Nat
        /\ Target(p) \in Nat /\ Target(p) <= PoolSize
        /\ \/ Cardinality(p.handles \ p.serving) + m >= Target(p)
           \/ Cardinality(p.handles) + m >= Target(p) + MaxServing
        /\ m = 0 \/ Cardinality(p.handles) + m <= Target(p) + MaxServing
    BY <1>0, <1>1, MissingIs
  <1>10. Books(pool')
    <2>1. Cardinality(p.handles) <= PoolSize + MaxServing
      BY DEF Books
    <2>2. Cardinality(hs) <= PoolSize + MaxServing
      BY <1>4, <1>5, <1>9, <2>1, PoolNumbers
    <2> QED
      BY <1>0, <1>4, <1>5, <1>6, <1>8, <2>2 DEF Books
  <1>11. Filled(pool')
    <2>1. Target(pool') = Target(p)
      BY <1>8 DEF Target
    <2> QED
      BY <1>4, <1>5, <1>8, <1>9, <2>1 DEF Filled
  <1>12. pool'.next >= p.next /\ \A w \in new : w >= p.next
    BY <1>0, <1>4, <1>6, <1>8
  <1> QED
    BY <1>4, <1>5, <1>7, <1>8, <1>10, <1>11, <1>12

\* ... and the workers stand to them as before.
LEMMA TopUpKeeps ==
    ASSUME NEW p \in PoolRecords, Books(p), NEW ws \in [WorkerIds -> WorkerRecords], TopUp(p, ws), p.on = TRUE,
           p.probe # "leaving", NEW q, WorkersIn(p, q, ws), Losses(p, ws)
    PROVE  /\ pool' \in PoolRecords /\ Books(pool') /\ Filled(pool') /\ pool'.on = TRUE
           /\ worker' \in [WorkerIds -> WorkerRecords] /\ pool'.probe # "leaving"
           /\ WorkersIn(pool', q, worker') /\ Losses(pool', worker')
  <1>1. PICK new \in SUBSET WorkerIds :
             /\ new \cap p.handles = {}
             /\ pool' \in PoolRecords /\ Books(pool') /\ Filled(pool')
             /\ pool'.on = p.on /\ pool'.serving = p.serving /\ pool'.handles = p.handles \cup new
             /\ pool'.probe = p.probe /\ pool'.gaveUp = p.gaveUp /\ pool'.next >= p.next
             /\ \A w \in new : w >= p.next
             /\ worker' = [w \in WorkerIds |-> IF w \in new THEN Fresh ELSE ws[w]]
    BY TopUpIs
  <1>2. worker' \in [WorkerIds -> WorkerRecords]
    BY <1>1, FreshIs
  <1>3. q \subseteq pool'.handles
    BY <1>1 DEF WorkersIn
  <1>4. ASSUME NEW w \in WorkerIds PROVE WorkerIn(pool', q, worker'[w], w)
    <2>1. CASE w \in new
      <3>1. worker'[w].st = "try" /\ ~worker'[w].doomed /\ w \notin p.handles
        BY <1>1, <2>1, FreshIs
      <3>2. w \notin p.serving \cup q
        BY <3>1 DEF WorkersIn, Books
      <3> QED
        BY <1>1, <2>1, <3>1, <3>2 DEF WorkerIn, Left, Over
    <2>2. CASE w \notin new
      <3>1. worker'[w] = ws[w] /\ WorkerIn(p, q, ws[w], w)
        BY <1>1, <2>2 DEF WorkersIn
      <3>2. w < p.next => w < pool'.next
        <4>1. w \in Int /\ p.next \in Int /\ pool'.next \in Int /\ pool'.next >= p.next
          BY <1>1 DEF WorkerIds, PoolRecords
        <4> QED
          BY <4>1
      <3> QED
        BY <1>1, <2>2, <3>1, <3>2 DEF WorkerIn
    <2> QED
      BY <2>1, <2>2
  <1>5. Losses(pool', worker')
    <2>1. \A w \in LostOf(ws) : w \in WorkerIds /\ w < p.next /\ ws[w].st = "lost" /\ ~ws[w].doomed
      BY DEF WorkersIn, WorkerIn, LostOf
    <2>2. \A w \in LostOf(ws) : w \notin new
      <3>1. \A w \in new : w \in Int /\ p.next \in Int /\ w >= p.next
        BY <1>1 DEF WorkerIds, PoolRecords
      <3> QED
        BY <2>1, <3>1
    <2>3. LostOf(worker') = LostOf(ws)
      <3>1. ASSUME NEW w \in WorkerIds PROVE w \in LostOf(worker') <=> w \in LostOf(ws)
        <4>1. CASE w \in new
          <5>1. worker'[w].st = "try"
            BY <1>1, <4>1, FreshIs
          <5> QED
            BY <2>2, <4>1, <5>1 DEF LostOf
        <4>2. CASE w \notin new
          <5>1. worker'[w] = ws[w]
            BY <1>1, <4>2
          <5> QED
            BY <5>1 DEF LostOf
        <4> QED
          BY <4>1, <4>2
      <3> QED
        BY <3>1 DEF LostOf
    <2> QED
      BY <1>1, <2>3 DEF Losses
  <1> QED
    BY <1>1, <1>2, <1>3, <1>4, <1>5 DEF WorkersIn

-----------------------------------------------------------------------------

\* The parts of the invariant, as the steps use them.
LEMMA TunnelParts ==
    ASSUME TunnelInv
    PROVE  /\ pool \in PoolRecords /\ worker \in [WorkerIds -> WorkerRecords] /\ signals \in Seq(WorkerIds)
           /\ refusedView \in BOOLEAN /\ lateNo \in BOOLEAN /\ Books(pool) /\ WorkersIn(pool, Queued, worker)
           /\ Queued \subseteq pool.handles /\ pool.serving \subseteq pool.handles
           /\ pool.handles \in SUBSET WorkerIds /\ pool.on \in BOOLEAN
           /\ agent \in AgentRecords /\ Runs /\ ViewTrue /\ Losses(pool, worker)
           /\ \A w \in WorkerIds : WorkerIn(pool, Queued, worker[w], w) /\ worker[w] \in WorkerRecords
  BY DEF TunnelInv, PoolTyped, PoolRecords, WorkersIn, Books

\* A worker that has told of no Client is one the pool holds, and nothing of it is queued.
LEMMA LivesIn ==
    ASSUME TunnelInv, NEW w \in WorkerIds, worker[w].st \in Live, ~worker[w].doomed
    PROVE  /\ w \in pool.handles /\ w \notin pool.serving \cup Queued /\ w < pool.next
           /\ pool.on = TRUE /\ agent.st = "fallback"
  <1>1. WorkerIn(pool, Queued, worker[w], w) /\ pool.on \in BOOLEAN /\ Runs /\ \A v \in pool.handles : v < pool.next
    BY TunnelParts DEF Books
  <1>2. worker[w].st \notin Over \cup Left /\ worker[w].st \notin {"relay", "ok", "panic"}
    BY StatesAre
  <1> QED
    BY <1>1, <1>2 DEF WorkerIn, Runs

\* The view, as the loop of the agent and the pool leave it.
LEMMA PoolStepKeeps ==
    ASSUME TunnelInv, UNCHANGED agent, refusedView' \in BOOLEAN, lateNo' \in BOOLEAN, signals' \in Seq(WorkerIds),
           pool' \in PoolRecords, worker' \in [WorkerIds -> WorkerRecords],
           Books(pool'), WorkersIn(pool', Queued', worker'), Losses(pool', worker'), pool'.on = pool.on,
           pool.on /\ pool'.probe # "leaving" => Filled(pool'),
           ~pool.on => pool'.handles = {} /\ pool'.probe = "none",
           pool.on \/ UNCHANGED <<refusedView, lateNo>> \/ (refusedView' => lateNo')
    PROVE  TunnelInv'
  <1>1. PoolTyped'
    BY DEF PoolTyped
  <1>2. (agent \in AgentRecords)' /\ Runs'
    BY TunnelParts DEF Runs
  <1>3. ViewTrue'
    <2>1. agent' = agent /\ (pool.on => agent.st # "serve") /\ (agent.st = "serve" => (refusedView => lateNo))
      BY TunnelParts DEF ViewTrue, Runs
    <2>2. agent.st = "serve" => (refusedView' => lateNo')
      BY <2>1
    <2> QED
      BY <2>1, <2>2 DEF ViewTrue
  <1> QED
    BY <1>1, <1>2, <1>3 DEF TunnelInv

\* One worker takes a step that the pool does not know of yet, but for what it has sent.
LEMMA WorkerSteps ==
    ASSUME TunnelInv, NEW w \in WorkerIds, NEW r \in WorkerRecords, worker' = [worker EXCEPT ![w] = r],
           UNCHANGED <<pool, agent>>, signals' \in Seq(WorkerIds), refusedView' \in BOOLEAN, lateNo' \in BOOLEAN,
           pool.on \/ UNCHANGED <<refusedView, lateNo>> \/ (refusedView' => lateNo'),
           NEW q, q = Queued', q \subseteq Queued \cup {w}, Queued \subseteq q,
           w \in q => w \in pool.handles /\ pool.probe # "leaving",
           worker[w].st # "lost", r.st # "lost", WorkerIn(pool, q, r, w)
    PROVE  TunnelInv'
  <1>1. worker' \in [WorkerIds -> WorkerRecords] /\ worker'[w] = r /\ \A v \in WorkerIds \ {w} : worker'[v] = worker[v]
    BY TunnelParts
  <1>2. ASSUME NEW v \in WorkerIds PROVE WorkerIn(pool, q, worker'[v], v)
    <2>1. CASE v = w
      BY <1>1, <2>1
    <2>2. CASE v # w
      <3>1. WorkerIn(pool, Queued, worker[v], v) /\ worker'[v] = worker[v] /\ (v \in q <=> v \in Queued)
        BY <1>1, <2>2, TunnelParts
      <3> QED
        BY <3>1 DEF WorkerIn
    <2> QED
      BY <2>1, <2>2
  <1>3. q \subseteq pool.handles /\ (pool.probe = "leaving" => q = {})
    <2>1. Queued \subseteq pool.handles /\ (pool.probe = "leaving" => Queued = {})
      BY TunnelParts DEF WorkersIn
    <2> QED
      BY <2>1
  <1>4. WorkersIn(pool', Queued', worker')
    BY <1>2, <1>3 DEF WorkersIn
  <1>5. Losses(pool', worker')
    <2>1. LostOf(worker') = LostOf(worker)
      BY <1>1 DEF LostOf
    <2> QED
      BY <2>1, TunnelParts DEF Losses
  <1> QED
    BY <1>1, <1>4, <1>5, TunnelParts, PoolStepKeeps DEF Runs

\* A worker that registers, waits or is parked goes on, or ends; the pool does not know yet.
LEMMA LiveKeeps ==
    ASSUME TunnelInv, NEW w \in WorkerIds, worker[w].st \in Live, ~worker[w].doomed, NEW r \in WorkerRecords,
           r.st \in Live \cup Over, ~r.doomed, r.st = "late" => pool.probe = "leaving",
           worker' = [worker EXCEPT ![w] = r],
           UNCHANGED <<pool, signals, agent>>, refusedView' \in BOOLEAN, lateNo' \in BOOLEAN
    PROVE  TunnelInv'
  <1>0. w \in pool.handles /\ w \notin pool.serving \cup Queued /\ pool.on = TRUE /\ w < pool.next
    BY LivesIn
  <1>1. PICK q : q = Queued /\ q = Queued'
    BY DEF Queued
  <1>2. r.st \notin Left /\ r.st # "relay" /\ r.st # "lost" /\ worker[w].st # "lost"
    BY StatesAre, NamesAre
  <1>3. WorkerIn(pool, q, r, w)
    BY <1>0, <1>1, <1>2 DEF WorkerIn
  <1> QED
    BY <1>0, <1>1, <1>2, <1>3, TunnelParts, WorkerSteps

\* What the loop of a worker makes of its record.
LEMMA BackOffIs ==
    ASSUME NEW r \in WorkerRecords, ~r.doomed
    PROVE  BackOff(r) \in WorkerRecords /\ BackOff(r).st \in {"err", "wait"} /\ ~BackOff(r).doomed
  <1>0. "wait" \in WorkerStates /\ "err" \in WorkerStates
    BY StatesAre, NamesAre
  <1>1. CASE r.tries >= Attempts
    BY <1>0, <1>1, DoneIs DEF BackOff
  <1>2. CASE ~(r.tries >= Attempts)
    <2>1. PICK t \in Nat : t = r.tries + 1
      BY DEF WorkerRecords
    <2>2. PICK n : n = [r EXCEPT !.st = "wait", !.tries = t]
      OBVIOUS
    <2>3. n \in WorkerRecords /\ n.st = "wait" /\ ~n.doomed
      BY <1>0, <2>2 DEF WorkerRecords
    <2>4. BackOff(r) = n
      BY <1>2, <2>1, <2>2 DEF BackOff
    <2> QED
      BY <2>3, <2>4
  <1> QED
    BY <1>1, <1>2

\* A worker that tries again keeps its shape ...
LEMMA TryAgainIs ==
    ASSUME NEW r \in WorkerRecords, ~r.doomed
    PROVE  TryAgain(r) \in WorkerRecords /\ TryAgain(r).st = "try" /\ ~TryAgain(r).doomed
  BY DEF TryAgain, WorkerRecords, WorkerStates, Live

\* ... one whose rung failed tries the next or gives up ...
LEMMA NextRungIs ==
    ASSUME NEW r \in WorkerRecords, r.st = "try", ~r.doomed
    PROVE  NextRung(r) \in WorkerRecords /\ NextRung(r).st \in {"try", "wait", "err"} /\ ~NextRung(r).doomed
  <1>1. CASE r.rung < Rungs
    BY <1>1 DEF NextRung, WorkerRecords
  <1>2. CASE ~(r.rung < Rungs)
    <2>1. PICK n \in WorkerRecords : n = [r EXCEPT !.rung = 1] /\ ~n.doomed
      <3>1. PICK n : n = [r EXCEPT !.rung = 1]
        OBVIOUS
      <3>2. n \in WorkerRecords /\ ~n.doomed
        BY <3>1 DEF WorkerRecords
      <3> QED
        BY <3>1, <3>2
    <2>2. NextRung(r) = BackOff(n)
      BY <1>2, <2>1 DEF NextRung
    <2> QED
      BY <2>1, <2>2, BackOffIs
  <1> QED
    BY <1>1, <1>2

\* ... and one whose park ended starts over, waits or gives up.
LEMMA ParkEndedIs ==
    ASSUME NEW r \in WorkerRecords, ~r.doomed, NEW long \in BOOLEAN
    PROVE  /\ ParkEnded(r, long) \in WorkerRecords /\ ParkEnded(r, long).st \in {"try", "wait", "err"}
           /\ ~ParkEnded(r, long).doomed
  <1>0. "wait" \in WorkerStates
    BY StatesAre, NamesAre
  <1>1. CASE long
    <2>1. StartsOver(r) \in WorkerRecords /\ ~StartsOver(r).doomed
      BY DEF StartsOver, WorkerRecords
    <2> QED
      BY <1>1, <2>1, TryAgainIs DEF ParkEnded
  <1>2. CASE ~long /\ r.short + 1 < Strikes
    <2>1. PICK t \in Nat : t = r.short + 1
      BY DEF WorkerRecords
    <2>2. PICK n : n = [r EXCEPT !.st = "wait", !.short = t]
      OBVIOUS
    <2>3. n \in WorkerRecords /\ n.st = "wait" /\ ~n.doomed
      BY <1>0, <2>2 DEF WorkerRecords
    <2>4. ParkEnded(r, long) = n
      BY <1>2, <2>1, <2>2 DEF ParkEnded
    <2> QED
      BY <2>3, <2>4
  <1>3. CASE ~long /\ ~(r.short + 1 < Strikes)
    <2>1. PICK n \in WorkerRecords : n = [r EXCEPT !.short = Strikes] /\ ~n.doomed
      <3>1. PICK n : n = [r EXCEPT !.short = Strikes]
        OBVIOUS
      <3>2. n \in WorkerRecords /\ ~n.doomed
        BY <3>1, PoolNumbers DEF WorkerRecords
      <3> QED
        BY <3>1, <3>2
    <2>2. ParkEnded(r, long) = BackOff(n)
      BY <1>3, <2>1 DEF ParkEnded
    <2> QED
      BY <2>1, <2>2, BackOffIs
  <1> QED
    BY <1>1, <1>2, <1>3

\* The steps of a worker until it has a Client.
LEMMA WorkerLiveKeeps ==
    ASSUME TunnelInv, NEW w \in WorkerIds, UNCHANGED agent,
           \/ \E role \in {"park", "plain"} : WorkerRegisters(w, role)
           \/ WorkerRefused(w) \/ WorkerFails(w) \/ WorkerWaited(w)
           \/ \E long \in BOOLEAN : WorkerLosesPark(w, long)
    PROVE  TunnelInv'
  <1>0. refusedView \in BOOLEAN /\ lateNo \in BOOLEAN /\ worker[w] \in WorkerRecords
    BY TunnelParts
  <1>1. PICK old \in WorkerRecords : old = worker[w]
    BY <1>0
  <1>2. worker[w].st \in Live /\ ~worker[w].doomed /\ ~old.doomed
    BY <1>1, NamesAre DEF WorkerRegisters, WorkerRefused, WorkerFails, WorkerWaited, WorkerLosesPark, Working
  <1>3. UNCHANGED <<pool, signals>> /\ refusedView' \in BOOLEAN /\ lateNo' \in BOOLEAN
    BY <1>0 DEF WorkerRegisters, WorkerRefused, WorkerFails, WorkerWaited, WorkerLosesPark, Apply
  <1>4. ASSUME NEW r \in WorkerRecords, ~r.doomed, r.st \in {"try", "wait", "err", "park", "plain"},
               worker' = [worker EXCEPT ![w] = r]
        PROVE  TunnelInv'
    <2>1. r.st \in Live \cup Over /\ r.st # "late"
      BY <1>4, NamesAre
    <2> QED
      BY <1>2, <1>3, <1>4, <2>1, LiveKeeps
  <1>5. ASSUME NEW role \in {"park", "plain"}, WorkerRegisters(w, role) PROVE TunnelInv'
    <2>1. PICK r : r = [old EXCEPT !.st = role, !.noes = 0]
      OBVIOUS
    <2>2. r \in WorkerRecords /\ r.st \in {"park", "plain"} /\ ~r.doomed
      BY <1>2, <2>1 DEF WorkerRecords, WorkerStates, Live
    <2>3. worker' = [worker EXCEPT ![w] = r]
      BY <1>0, <1>1, <1>5, <2>1 DEF WorkerRegisters
    <2> QED
      BY <1>4, <2>2, <2>3
  <1>6. CASE WorkerRefused(w)
    <2>1. PICK n \in Nat : n = IF old.noes < RefusalsBeforeRevoked THEN old.noes + 1 ELSE old.noes
      BY DEF WorkerRecords
    <2>2. PICK o : o = [old EXCEPT !.noes = n]
      OBVIOUS
    <2>3. o \in WorkerRecords /\ o.st = old.st /\ ~o.doomed
      BY <1>2, <2>2 DEF WorkerRecords
    <2>4. old.st = "try"
      BY <1>1, <1>6 DEF WorkerRefused, Working
    <2>5. PICK r \in WorkerRecords : r = NextRung(o) /\ r.st \in {"try", "wait", "err"} /\ ~r.doomed
      BY <2>3, <2>4, NextRungIs
    <2>6. worker' = [worker EXCEPT ![w] = r]
      <3>1. worker[w].noes = old.noes /\ worker[w] = old
        BY <1>1
      <3> QED
        BY <1>6, <2>1, <2>2, <2>5, <3>1 DEF WorkerRefused
    <2> QED
      BY <1>4, <2>5, <2>6
  <1>7. CASE WorkerFails(w)
    <2>1. old.st = "try"
      BY <1>1, <1>7 DEF WorkerFails, Working
    <2>2. PICK r \in WorkerRecords : r = NextRung(old) /\ r.st \in {"try", "wait", "err"} /\ ~r.doomed
      BY <1>2, <2>1, NextRungIs
    <2>3. worker' = [worker EXCEPT ![w] = r]
      BY <1>1, <1>7, <2>2 DEF WorkerFails
    <2> QED
      BY <1>4, <2>2, <2>3
  <1>8. CASE WorkerWaited(w)
    <2>1. PICK r \in WorkerRecords : r = TryAgain(old) /\ r.st = "try" /\ ~r.doomed
      BY <1>2, TryAgainIs
    <2>2. worker' = [worker EXCEPT ![w] = r]
      BY <1>1, <1>8, <2>1 DEF WorkerWaited
    <2> QED
      BY <1>4, <2>1, <2>2
  <1>9. ASSUME NEW long \in BOOLEAN, WorkerLosesPark(w, long) PROVE TunnelInv'
    <2>1. PICK r \in WorkerRecords : r = ParkEnded(old, long) /\ r.st \in {"try", "wait", "err"} /\ ~r.doomed
      BY <1>2, ParkEndedIs
    <2>2. worker' = [worker EXCEPT ![w] = r]
      BY <1>1, <1>9, <2>1 DEF WorkerLosesPark
    <2> QED
      BY <1>4, <2>1, <2>2
  <1> QED
    BY <1>5, <1>6, <1>7, <1>8, <1>9

\* The edge relays a Client, a tunnel that was not told of ends, or a worker that registers panics.
LEMMA DeliverKeeps ==
    ASSUME TunnelInv, NEW w \in WorkerIds, UNCHANGED agent, worker[w].st \in Live,
           EdgeDelivers(w) \/ WorkerServed(w) \/ WorkerPanics(w)
    PROVE  TunnelInv'
  <1>0. refusedView \in BOOLEAN /\ lateNo \in BOOLEAN /\ worker[w] \in WorkerRecords
    BY TunnelParts
  <1>1. PICK old \in WorkerRecords : old = worker[w]
    BY <1>0
  <1>2. UNCHANGED <<pool, signals, refusedView, lateNo>> /\ ~worker[w].doomed /\ ~old.doomed
    BY <1>1 DEF EdgeDelivers, WorkerServed, WorkerPanics, Working
  <1>3. ASSUME NEW s \in {"stop", "ok", "panic"}
        PROVE  \E r \in WorkerRecords : r = Done(s) /\ r.st = s /\ ~r.doomed
    <2>1. s \in WorkerStates
      BY StatesAre, NamesAre
    <2> QED
      BY <2>1, DoneIs
  <1>4. \E r \in WorkerRecords : /\ r.st \in {"stop", "plainrelay", "try", "ok", "panic"} /\ ~r.doomed
                                 /\ worker' = [worker EXCEPT ![w] = r]
    <2>1. CASE EdgeDelivers(w) /\ old.st = "park"
      <3>1. PICK r \in WorkerRecords : r = Done("stop") /\ r.st = "stop" /\ ~r.doomed
        BY <1>3
      <3>2. worker' = [worker EXCEPT ![w] = r]
        BY <1>1, <2>1, <3>1 DEF EdgeDelivers
      <3> QED
        BY <3>1, <3>2
    <2>2. CASE EdgeDelivers(w) /\ old.st # "park"
      <3>1. PICK r : r = [old EXCEPT !.st = "plainrelay"]
        OBVIOUS
      <3>2. r \in WorkerRecords /\ r.st = "plainrelay" /\ ~r.doomed
        BY <1>2, <3>1 DEF WorkerRecords, WorkerStates, Live
      <3>3. worker' = [worker EXCEPT ![w] = r]
        BY <1>1, <2>2, <3>1 DEF EdgeDelivers
      <3> QED
        BY <3>2, <3>3
    <2>3. CASE WorkerServed(w) /\ old.st = "plainrelay"
      <3>2. PICK o : o = StartsOver(old)
        OBVIOUS
      <3>3. o \in WorkerRecords /\ ~o.doomed
        BY <1>2, <3>2 DEF StartsOver, WorkerRecords
      <3>4. PICK r \in WorkerRecords : r = TryAgain(o) /\ r.st = "try" /\ ~r.doomed
        BY <3>3, TryAgainIs
      <3>5. worker' = [worker EXCEPT ![w] = r]
        BY <1>1, <2>3, <3>2, <3>4 DEF WorkerServed
      <3> QED
        BY <3>4, <3>5
    <2>4. CASE WorkerServed(w) /\ old.st # "plainrelay"
      <3>1. old.st = "late"
        BY <1>1, <2>4 DEF WorkerServed, Working, Live
      <3>2. PICK r \in WorkerRecords : r = Done("ok") /\ r.st = "ok" /\ ~r.doomed
        BY <1>3
      <3>3. worker' = [worker EXCEPT ![w] = r]
        BY <1>1, <2>4, <3>1, <3>2 DEF WorkerServed
      <3> QED
        BY <3>2, <3>3
    <2>5. CASE WorkerPanics(w)
      <3>1. PICK r \in WorkerRecords : r = Done("panic") /\ r.st = "panic" /\ ~r.doomed
        BY <1>3
      <3>2. worker' = [worker EXCEPT ![w] = r]
        BY <2>5, <3>1 DEF WorkerPanics
      <3> QED
        BY <3>1, <3>2
    <2> QED
      BY <2>1, <2>2, <2>3, <2>4, <2>5
  <1>5. PICK r \in WorkerRecords : /\ r.st \in {"stop", "plainrelay", "try", "ok", "panic"} /\ ~r.doomed
                                   /\ worker' = [worker EXCEPT ![w] = r]
    BY <1>4
  <1>6. r.st \in Live \cup Over /\ r.st # "late"
    BY <1>5, NamesAre
  <1> QED
    BY <1>0, <1>2, <1>5, <1>6, LiveKeeps

\* A worker tells the pool of its Client, in time or not.
LEMMA FireKeeps ==
    ASSUME TunnelInv, NEW w \in WorkerIds, UNCHANGED agent, WorkerFires(w)
    PROVE  TunnelInv'
  <1>0. /\ worker[w].st = "stop" /\ worker[w].st \in Live /\ ~worker[w].doomed
        /\ UNCHANGED <<pool, refusedView, lateNo>>
        /\ refusedView \in BOOLEAN /\ lateNo \in BOOLEAN /\ worker[w] \in WorkerRecords
    BY NamesAre, TunnelParts DEF WorkerFires, Working
  <1>1. w \in pool.handles /\ w \notin pool.serving \cup Queued /\ pool.on = TRUE
    BY <1>0, LivesIn
  <1>2. ASSUME NEW s \in {"relay", "late"}
        PROVE  \E r \in WorkerRecords : r = [worker[w] EXCEPT !.st = s] /\ r.st = s /\ ~r.doomed
    <2>1. s \in WorkerStates
      BY StatesAre, NamesAre
    <2>2. PICK r : r = [worker[w] EXCEPT !.st = s]
      OBVIOUS
    <2>3. r \in WorkerRecords /\ r.st = s /\ ~r.doomed
      BY <1>0, <2>1, <2>2 DEF WorkerRecords
    <2> QED
      BY <2>2, <2>3
  <1>3. CASE pool.probe = "leaving"
    <2>1. PICK r \in WorkerRecords : r = [worker[w] EXCEPT !.st = "late"] /\ r.st = "late" /\ ~r.doomed
      BY <1>2
    <2>2. worker' = [worker EXCEPT ![w] = r] /\ UNCHANGED signals
      BY <1>3, <2>1 DEF WorkerFires
    <2>3. r.st \in Live \cup Over
      BY <2>1, NamesAre
    <2> QED
      BY <1>0, <1>3, <2>1, <2>2, <2>3, LiveKeeps
  <1>4. CASE pool.probe # "leaving"
    <2>1. PICK r \in WorkerRecords : r = [worker[w] EXCEPT !.st = "relay"] /\ r.st = "relay" /\ ~r.doomed
      BY <1>2
    <2>2. worker' = [worker EXCEPT ![w] = r] /\ signals' = Append(signals, w)
      BY <1>4, <2>1 DEF WorkerFires
    <2>3. signals' \in Seq(WorkerIds) /\ Queued' = Queued \cup {w}
      BY <2>2, TunnelParts DEF Queued
    <2>4. PICK q : q = Queued' /\ q = Queued \cup {w}
      BY <2>3
    <2>5. WorkerIn(pool, q, r, w)
      BY <1>0, <1>1, <2>1, <2>4, StatesAre, NamesAre DEF WorkerIn
    <2> QED
      BY <1>0, <1>1, <1>4, <2>1, <2>2, <2>3, <2>4, <2>5, WorkerSteps
  <1> QED
    BY <1>3, <1>4

\* A relaying worker ends, in the pool's hands or left to itself.
LEMMA RelayEndKeeps ==
    ASSUME TunnelInv, NEW w \in WorkerIds, UNCHANGED agent, worker[w].st \in {"relay", "detached"},
           WorkerServed(w) \/ WorkerPanics(w)
    PROVE  TunnelInv'
  <1>0. /\ UNCHANGED <<pool, signals, refusedView, lateNo>> /\ ~worker[w].doomed
        /\ refusedView \in BOOLEAN /\ lateNo \in BOOLEAN /\ signals \in Seq(WorkerIds)
        /\ WorkerIn(pool, Queued, worker[w], w)
    BY TunnelParts DEF WorkerServed, WorkerPanics, Working
  <1>1. PICK q : q = Queued /\ q = Queued'
    BY <1>0 DEF Queued
  <1>2. ASSUME NEW s \in {"ok", "panic", "gone"}, s = "gone" <=> worker[w].st = "detached",
               worker' = [worker EXCEPT ![w] = Done(s)]
        PROVE  TunnelInv'
    <2>1. s \in WorkerStates
      BY StatesAre, NamesAre
    <2>2. PICK r \in WorkerRecords : r = Done(s) /\ r.st = s /\ ~r.doomed
      BY <2>1, DoneIs
    <2>3. worker[w].st = "relay" => /\ w \in pool.handles /\ w \in pool.serving \cup Queued /\ pool.on = TRUE
                                    /\ w < pool.next
      BY <1>0, StatesAre, TunnelParts DEF WorkerIn, Books
    <2>4. worker[w].st = "detached" => w \notin pool.handles
      BY <1>0, NamesAre DEF WorkerIn
    <2>5. WorkerIn(pool, q, r, w)
      <3>1. CASE worker[w].st = "relay"
        <4>1. r.st \in {"ok", "panic"} /\ r.st \notin Left
          BY <1>2, <2>2, <3>1, StatesAre, NamesAre
        <4> QED
          BY <2>2, <2>3, <3>1, <4>1 DEF WorkerIn
      <3>2. CASE worker[w].st = "detached"
        <4>1. r.st = "gone" /\ r.st \in Left /\ r.st \notin Over \cup {"lost"}
          BY <1>2, <2>2, <3>2, NamesAre, StatesAre
        <4> QED
          BY <2>2, <2>4, <3>2, <4>1 DEF WorkerIn
      <3> QED
        BY <3>1, <3>2
    <2>6. r.st # "lost" /\ worker[w].st # "lost" /\ worker' = [worker EXCEPT ![w] = r]
      BY <1>2, <2>2
    <2>7. w \in q => w \in pool.handles /\ pool.probe # "leaving"
      BY <1>1, TunnelParts DEF WorkersIn
    <2> QED
      BY <1>0, <1>1, <2>2, <2>5, <2>6, <2>7, WorkerSteps
  <1>3. CASE WorkerServed(w) /\ worker[w].st = "relay"
    <2>1. worker' = [worker EXCEPT ![w] = Done("ok")]
      BY <1>3 DEF WorkerServed
    <2> QED
      BY <1>2, <1>3, <2>1
  <1>4. CASE WorkerServed(w) /\ worker[w].st = "detached"
    <2>1. worker' = [worker EXCEPT ![w] = Done("gone")]
      BY <1>4 DEF WorkerServed
    <2> QED
      BY <1>2, <1>4, <2>1
  <1>5. CASE WorkerPanics(w)
    <2>1. worker' = [worker EXCEPT ![w] = Done("panic")] /\ worker[w].st # "detached"
      BY <1>5 DEF WorkerPanics, Working
    <2> QED
      BY <1>2, <2>1
  <1> QED
    BY <1>3, <1>4, <1>5

\* An abort lands, after a last verdict or without one.
LEMMA AbortKeeps ==
    ASSUME TunnelInv, NEW w \in WorkerIds, UNCHANGED agent,
           AbortLands(w) \/ \E ok \in BOOLEAN : LastVerdict(w, ok)
    PROVE  TunnelInv'
  <1>0. /\ worker[w].doomed /\ UNCHANGED <<pool, signals>> /\ worker' = [worker EXCEPT ![w] = Done("gone")]
        /\ refusedView \in BOOLEAN /\ lateNo \in BOOLEAN /\ signals \in Seq(WorkerIds)
        /\ WorkerIn(pool, Queued, worker[w], w)
    BY TunnelParts DEF AbortLands, LastVerdict
  <1>1. /\ refusedView' \in BOOLEAN /\ lateNo' \in BOOLEAN
        /\ UNCHANGED <<refusedView, lateNo>> \/ (refusedView' => lateNo')
    <2>1. CASE AbortLands(w)
      BY <1>0, <2>1 DEF AbortLands
    <2>2. ASSUME NEW ok \in BOOLEAN, LastVerdict(w, ok) PROVE <1>1
      BY <1>0, <2>2 DEF LastVerdict, Apply
    <2> QED
      BY <2>1, <2>2
  <1>2. w \notin pool.handles
    BY <1>0 DEF WorkerIn
  <1>3. PICK q : q = Queued /\ q = Queued' /\ w \notin q
    BY <1>0, <1>2, TunnelParts DEF Queued
  <1>4. PICK r \in WorkerRecords : r = Done("gone") /\ r.st = "gone" /\ ~r.doomed
    <2>1. "gone" \in WorkerStates
      BY StatesAre, NamesAre
    <2> QED
      BY <2>1, DoneIs
  <1>5. WorkerIn(pool, q, r, w)
    BY <1>2, <1>4, NamesAre, StatesAre DEF WorkerIn
  <1>6. worker' \in [WorkerIds -> WorkerRecords] /\ worker'[w] = r /\ \A v \in WorkerIds \ {w} : worker'[v] = worker[v]
    BY <1>0, <1>4, TunnelParts
  <1>7. ASSUME NEW v \in WorkerIds PROVE WorkerIn(pool, q, worker'[v], v)
    BY <1>3, <1>5, <1>6, TunnelParts
  <1>8. WorkersIn(pool', Queued', worker')
    BY <1>0, <1>3, <1>7, TunnelParts DEF WorkersIn
  <1>9. Losses(pool', worker')
    <2>1. LostOf(worker') = LostOf(worker)
      BY <1>0, <1>4, <1>6 DEF LostOf
    <2> QED
      BY <1>0, <2>1, TunnelParts DEF Losses
  <1> QED
    BY <1>0, <1>1, <1>6, <1>8, <1>9, TunnelParts, PoolStepKeeps DEF Runs

\* An empty queue.
LEMMA NoneQueued == signals' = << >> => Queued' = {}
  BY DEF Queued

\* The pool joins a worker that has ended and books what is queued: what it has left, it tops up.
LEMMA JoinKeeps ==
    ASSUME TunnelInv, pool.on = TRUE, NEW w \in WorkerIds, worker[w].st \in Over, ~worker[w].doomed,
           NEW p \in PoolRecords, p.on = TRUE, p.probe = pool.probe, p.probe # "leaving",
           p.handles \subseteq pool.handles, w \notin p.handles,
           \A v \in pool.handles \ p.handles : worker[v].st \in Over,
           p.serving = (pool.serving \cup Queued) \cap p.handles, p.next = pool.next,
           signals' = << >>, UNCHANGED <<agent, refusedView, lateNo>>, NEW e \in {"gone", "lost"},
           p.gaveUp = pool.gaveUp \/ (e = "lost" /\ p.gaveUp = pool.gaveUp + 1),
           NEW ws, ws = [worker EXCEPT ![w] = Done(e)], TopUp(p, ws)
    PROVE  TunnelInv'
  <1>0. PICK r \in WorkerRecords : r = Done(e) /\ r.st = e /\ ~r.doomed
    <2>1. e \in WorkerStates
      BY StatesAre, NamesAre
    <2> QED
      BY <2>1, DoneIs
  <1>1. ws \in [WorkerIds -> WorkerRecords] /\ ws[w] = r /\ \A v \in WorkerIds \ {w} : ws[v] = worker[v]
    BY <1>0, TunnelParts
  <1>2. Books(p)
    <2>1. Cardinality(p.handles) <= Cardinality(pool.handles) /\ Cardinality(p.handles) \in Nat
      BY SubsetsCount, FS_Subset, TunnelParts DEF PoolRecords
    <2>2. Cardinality(pool.handles) \in Nat /\ Cardinality(pool.handles) <= PoolSize + MaxServing
      BY SubsetsCount, TunnelParts DEF Books
    <2>3. Cardinality(p.handles) <= PoolSize + MaxServing
      BY <2>1, <2>2, PoolNumbers
    <2>4. \A v \in p.handles : v < p.next
      BY TunnelParts DEF Books
    <2> QED
      BY <2>3, <2>4 DEF Books
  <1>3. WorkersIn(p, {}, ws)
    <2>1. WorkerIn(p, {}, ws[w], w)
      <3>1. WorkerIn(pool, Queued, worker[w], w)
        BY TunnelParts
      <3>2. w < p.next
        BY <3>1 DEF WorkerIn
      <3> QED
        BY <1>0, <1>1, <3>2, NamesAre DEF WorkerIn
    <2>2. ASSUME NEW v \in WorkerIds \ {w} PROVE WorkerIn(p, {}, ws[v], v)
      <3>1. WorkerIn(pool, Queued, worker[v], v) /\ ws[v] = worker[v]
        BY <1>1, TunnelParts
      <3>2. CASE v \in p.handles
        BY <3>1, <3>2 DEF WorkerIn
      <3>3. CASE v \notin p.handles
        BY <3>1, <3>3 DEF WorkerIn
      <3> QED
        BY <3>2, <3>3
    <2> QED
      BY <2>1, <2>2 DEF WorkersIn
  <1>4. Losses(p, ws)
    <2>1. w \notin LostOf(worker) /\ LostOf(worker) \in SUBSET WorkerIds
      BY StatesAre DEF LostOf
    <2>2. IsFiniteSet(LostOf(worker)) /\ Cardinality(LostOf(worker)) \in Nat
      BY <2>1, SubsetsCount
    <2>3. pool.gaveUp <= Cardinality(LostOf(worker)) /\ pool.gaveUp \in Nat
      BY TunnelParts DEF Losses, PoolRecords
    <2>4. CASE e = "gone"
      <3>1. LostOf(ws) = LostOf(worker)
        BY <1>0, <1>1, <2>1, <2>4 DEF LostOf
      <3> QED
        BY <2>3, <2>4, <3>1 DEF Losses
    <2>5. CASE e = "lost"
      <3>1. LostOf(ws) = LostOf(worker) \cup {w}
        BY <1>0, <1>1, <2>1, <2>5 DEF LostOf
      <3>2. Cardinality(LostOf(worker) \cup {w}) = Cardinality(LostOf(worker)) + 1
        BY <2>1, <2>2, FS_AddElement
      <3>3. PICK k \in Nat, g \in Nat : k = Cardinality(LostOf(worker)) /\ g = pool.gaveUp /\ g <= k
        BY <2>2, <2>3
      <3>4. p.gaveUp <= k + 1
        BY <3>3
      <3> QED
        BY <3>1, <3>2, <3>3, <3>4 DEF Losses
    <2> QED
      BY <2>4, <2>5
  <1>5. /\ pool' \in PoolRecords /\ Books(pool') /\ Filled(pool') /\ pool'.on = TRUE
        /\ worker' \in [WorkerIds -> WorkerRecords]
        /\ WorkersIn(pool', {}, worker') /\ Losses(pool', worker')
    BY <1>1, <1>2, <1>3, <1>4, TopUpKeeps
  <1>6. WorkersIn(pool', Queued', worker')
    BY <1>5, NoneQueued, Zenon
  <1>7. signals' \in Seq(WorkerIds)
    OBVIOUS
  <1> QED
    BY <1>5, <1>6, <1>7, TunnelParts, PoolStepKeeps

\* join_next, with the id of the worker and without.
LEMMA JoinsKeep ==
    ASSUME TunnelInv, NEW w \in WorkerIds, UNCHANGED agent, PoolJoins(w) \/ PoolJoinsPanicked(w)
    PROVE  TunnelInv'
  <1>0. pool.on = TRUE /\ pool \in PoolRecords /\ pool.handles \in SUBSET WorkerIds /\ pool.serving \in SUBSET WorkerIds
        /\ pool.gaveUp \in Nat /\ Queued \subseteq pool.handles /\ pool.serving \subseteq pool.handles
        /\ pool.probe # "leaving"
    BY TunnelParts DEF PoolJoins, PoolJoinsPanicked, PoolRecords, Selects
  <1>2. PICK sv \in SUBSET WorkerIds : sv = pool.serving \cup (Queued \cap pool.handles) /\ sv = pool.serving \cup Queued
    BY <1>0
  <1>3. Booked = [pool EXCEPT !.serving = sv]
    BY <1>2 DEF Booked
  <1>4. PICK b : b = [pool EXCEPT !.serving = sv]
    OBVIOUS
  <1>5. /\ b \in PoolRecords /\ b.serving = sv /\ b.handles = pool.handles /\ b.on = TRUE /\ b.next = pool.next
        /\ b.gaveUp = pool.gaveUp /\ b.probe = pool.probe
    BY <1>0, <1>4 DEF PoolRecords
  <1>6. CASE PoolJoins(w)
    <2>1. PICK g \in Nat : g = IF worker[w].st = "err" THEN b.gaveUp + 1 ELSE b.gaveUp
      BY <1>0, <1>5
    <2>2. PICK hs \in SUBSET WorkerIds : hs = b.handles \ {w}
      BY <1>0, <1>5
    <2>3. PICK s2 \in SUBSET WorkerIds : s2 = b.serving \ {w}
      BY <1>5
    <2>4. PICK p : p = [b EXCEPT !.handles = hs, !.serving = s2, !.gaveUp = g]
      OBVIOUS
    <2>5. /\ p \in PoolRecords /\ p.on = TRUE /\ p.handles = hs /\ p.serving = s2 /\ p.next = pool.next
          /\ p.probe = pool.probe /\ p.gaveUp = g
      BY <1>5, <2>4 DEF PoolRecords
    <2>6. PICK e \in {"gone", "lost"} : e = IF worker[w].st = "err" THEN "lost" ELSE "gone"
      OBVIOUS
    <2>7. PICK ws : ws = [worker EXCEPT ![w] = Done(e)]
      OBVIOUS
    <2>8. TopUp(p, ws)
      <3>1. TopUp([b EXCEPT !.handles = @ \ {w}, !.serving = @ \ {w},
                            !.gaveUp = IF worker[w].st = "err" THEN @ + 1 ELSE @],
                  [worker EXCEPT ![w] = Done(IF @.st = "err" THEN "lost" ELSE "gone")])
        BY <1>3, <1>4, <1>6, Zenon DEF PoolJoins
      <3>2. [b EXCEPT !.handles = @ \ {w}, !.serving = @ \ {w},
                      !.gaveUp = IF worker[w].st = "err" THEN @ + 1 ELSE @] = p
        BY <2>1, <2>2, <2>3, <2>4
      <3>3. [worker EXCEPT ![w] = Done(IF @.st = "err" THEN "lost" ELSE "gone")] = ws
        BY <2>6, <2>7
      <3> QED
        BY <3>1, <3>2, <3>3, Zenon
    <2>9. worker[w].st \in Over /\ ~worker[w].doomed /\ signals' = << >> /\ UNCHANGED <<refusedView, lateNo>>
      BY <1>6 DEF PoolJoins, Working, Over
    <2>10. /\ p.handles \subseteq pool.handles /\ w \notin p.handles
           /\ \A v \in pool.handles \ p.handles : worker[v].st \in Over
           /\ p.serving = (pool.serving \cup Queued) \cap p.handles
      BY <1>0, <1>2, <1>5, <2>2, <2>3, <2>5, <2>9
    <2>11. p.gaveUp = pool.gaveUp \/ (e = "lost" /\ p.gaveUp = pool.gaveUp + 1)
      BY <1>5, <2>1, <2>5, <2>6
    <2> QED
      BY <1>0, <2>5, <2>7, <2>8, <2>9, <2>10, <2>11, JoinKeeps
  <1>7. CASE PoolJoinsPanicked(w)
    <2>1. PICK g \in Nat : g = b.gaveUp + 1
      BY <1>0, <1>5
    <2>2. PICK hs \in SUBSET WorkerIds : hs = {v \in pool.handles : ~Working(v, {"ok", "err", "panic"})}
      BY <1>0
    <2>3. PICK s2 \in SUBSET WorkerIds : s2 = b.serving \cap hs
      BY <1>5
    <2>4. PICK p : p = [b EXCEPT !.handles = hs, !.serving = s2, !.gaveUp = g]
      OBVIOUS
    <2>5. /\ p \in PoolRecords /\ p.on = TRUE /\ p.handles = hs /\ p.serving = s2 /\ p.next = pool.next
          /\ p.probe = pool.probe /\ p.gaveUp = pool.gaveUp + 1
      BY <1>5, <2>1, <2>4 DEF PoolRecords
    <2>6. PICK ws : ws = [worker EXCEPT ![w] = Done("lost")]
      OBVIOUS
    <2>7. TopUp(p, ws)
      <3>1. TopUp([b EXCEPT !.handles = hs, !.serving = @ \cap hs, !.gaveUp = @ + 1], ws)
        BY <1>3, <1>4, <1>7, <2>2, <2>6, Zenon DEF PoolJoinsPanicked
      <3>2. [b EXCEPT !.handles = hs, !.serving = @ \cap hs, !.gaveUp = @ + 1] = p
        BY <2>1, <2>3, <2>4
      <3> QED
        BY <3>1, <3>2, Zenon
    <2>8. /\ worker[w].st \in Over /\ worker[w].st = "panic" /\ ~worker[w].doomed
          /\ signals' = << >> /\ UNCHANGED <<refusedView, lateNo>>
      BY <1>7 DEF PoolJoinsPanicked, Working, Over
    <2>9. /\ p.handles \subseteq pool.handles /\ w \notin p.handles
          /\ \A v \in pool.handles \ p.handles : worker[v].st \in Over
          /\ p.serving = (pool.serving \cup Queued) \cap p.handles
      BY <1>0, <1>2, <1>5, <2>2, <2>3, <2>5, <2>8 DEF Working, Over
    <2>10. PICK e \in {"gone", "lost"} : e = "lost"
      OBVIOUS
    <2>11. ws = [worker EXCEPT ![w] = Done(e)]
      BY <2>6, <2>10
    <2> QED
      BY <1>0, <2>5, <2>7, <2>8, <2>9, <2>10, <2>11, JoinKeeps
  <1> QED
    BY <1>6, <1>7

\* The pool hears of a Client and books its worker.
LEMMA HearKeeps ==
    ASSUME TunnelInv, UNCHANGED agent, PoolHears
    PROVE  TunnelInv'
  <1>0. /\ pool.on = TRUE /\ pool \in PoolRecords /\ pool.handles \in SUBSET WorkerIds /\ pool.serving \in SUBSET WorkerIds
        /\ Queued \subseteq pool.handles /\ pool.serving \subseteq pool.handles
        /\ signals \in Seq(WorkerIds) /\ signals # << >> /\ signals' = Tail(signals)
        /\ UNCHANGED <<refusedView, lateNo>> /\ pool.probe # "leaving"
    BY TunnelParts DEF PoolHears, PoolRecords, Selects
  <1>1. PICK h : h = Head(signals)
    OBVIOUS
  <1>2. h \in Queued /\ signals' \in Seq(WorkerIds) /\ Queued' \subseteq Queued /\ Queued \subseteq Queued' \cup {h}
    <2>1. /\ Len(signals) \in Nat /\ Len(signals) > 0 /\ DOMAIN signals = 1..Len(signals)
          /\ signals' \in Seq(WorkerIds) /\ DOMAIN signals' = 1..(Len(signals) - 1)
          /\ \A i \in 1..(Len(signals) - 1) : signals'[i] = signals[i + 1]
      BY <1>0
    <2>2. h = signals[1] /\ 1 \in DOMAIN signals
      BY <1>0, <1>1, <2>1
    <2>3. Queued' \subseteq Queued
      BY <2>1 DEF Queued
    <2>4. ASSUME NEW i \in DOMAIN signals PROVE signals[i] \in Queued' \cup {h}
      <3>1. CASE i = 1
        BY <2>2, <3>1
      <3>2. CASE i # 1
        <4>1. i - 1 \in DOMAIN signals' /\ signals'[i - 1] = signals[i]
          BY <2>1, <3>2
        <4> QED
          BY <4>1 DEF Queued
      <3> QED
        BY <3>1, <3>2
    <2> QED
      BY <2>1, <2>2, <2>3, <2>4, ZenonT(40) DEF Queued
  <1>3. PICK sv \in SUBSET WorkerIds : sv = pool.serving \cup ({h} \cap pool.handles) /\ sv = pool.serving \cup {h}
    BY <1>0, <1>2
  <1>4. PICK p : p = [pool EXCEPT !.serving = sv]
    OBVIOUS
  <1>5. /\ p \in PoolRecords /\ p.serving = sv /\ p.handles = pool.handles /\ p.on = TRUE /\ p.next = pool.next
        /\ p.probe = pool.probe /\ p.gaveUp = pool.gaveUp
    BY <1>0, <1>4 DEF PoolRecords
  <1>6. TopUp(p, worker)
    <2>1. p = [pool EXCEPT !.serving = @ \cup ({Head(signals)} \cap pool.handles)]
      BY <1>1, <1>3, <1>4
    <2> QED
      BY <2>1, Zenon DEF PoolHears
  <1>7. Books(p)
    BY <1>0, <1>2, <1>3, <1>5, TunnelParts DEF Books
  <1>8. WorkersIn(p, Queued', worker)
    <2>1. ASSUME NEW v \in WorkerIds PROVE WorkerIn(p, Queued', worker[v], v)
      <3>1. WorkerIn(pool, Queued, worker[v], v)
        BY TunnelParts
      <3>2. sv \cup Queued' = pool.serving \cup Queued
        BY <1>2, <1>3
      <3> QED
        BY <1>0, <1>5, <3>1, <3>2 DEF WorkerIn
    <2> QED
      BY <1>0, <1>2, <1>5, <2>1 DEF WorkersIn
  <1>9. Losses(p, worker)
    BY <1>0, <1>5, TunnelParts DEF Losses
  <1>10. /\ pool' \in PoolRecords /\ Books(pool') /\ Filled(pool') /\ pool'.on = TRUE
         /\ worker' \in [WorkerIds -> WorkerRecords]
         /\ WorkersIn(pool', Queued', worker') /\ Losses(pool', worker')
    BY <1>0, <1>5, <1>6, <1>7, <1>8, <1>9, TunnelParts, TopUpKeeps
  <1> QED
    BY <1>0, <1>2, <1>10, TunnelParts, PoolStepKeeps

\* The probe beside the pool.
LEMMA ProbeKeeps ==
    ASSUME TunnelInv, UNCHANGED agent, ProbeDue \/ ProbeRegisters \/ ProbeOver
    PROVE  TunnelInv'
  <1>0. /\ pool \in PoolRecords /\ pool.streak \in Nat /\ UNCHANGED <<worker, signals, refusedView, lateNo>>
        /\ pool.on = TRUE /\ pool.probe # "leaving"
    <2>1. pool.probe # "none" => pool.on = TRUE
      BY TunnelParts DEF Runs
    <2> QED
      BY <2>1, TunnelParts DEF ProbeDue, ProbeRegisters, ProbeOver, PoolRecords, Selects
  <1>1. PICK probe \in PoolProbes \ {"leaving"}, streak \in Nat : pool' = [pool EXCEPT !.probe = probe, !.streak = streak]
    <2>2. CASE ProbeDue
      <3>1. PICK probe \in PoolProbes \ {"leaving"} : probe = IF pool.streak + 1 >= pool.confirm THEN "register" ELSE "look"
        BY DEF PoolProbes
      <3>2. pool' = [pool EXCEPT !.probe = probe]
        BY <2>2, <3>1 DEF ProbeDue
      <3>3. pool' = [pool EXCEPT !.probe = probe, !.streak = pool.streak]
        BY <1>0, <3>2 DEF PoolRecords
      <3> QED
        BY <1>0, <3>3
    <2>3. CASE ProbeRegisters
      <3>1. pool' = [pool EXCEPT !.probe = "registered"]
        BY <2>3 DEF ProbeRegisters
      <3>2. pool' = [pool EXCEPT !.probe = "registered", !.streak = pool.streak]
        BY <1>0, <3>1 DEF PoolRecords
      <3>3. "registered" \in PoolProbes \ {"leaving"}
        BY DEF PoolProbes
      <3> QED
        BY <1>0, <3>2, <3>3
    <2>4. CASE ProbeOver
      <3>1. PICK streak \in {0, pool.streak + 1} : pool' = [pool EXCEPT !.probe = "none", !.streak = streak]
        BY <2>4 DEF ProbeOver
      <3>2. "none" \in PoolProbes \ {"leaving"} /\ streak \in Nat
        BY <1>0, <3>1 DEF PoolProbes
      <3> QED
        BY <3>1, <3>2
    <2> QED
      BY <2>2, <2>3, <2>4
  <1>2. /\ pool' \in PoolRecords /\ pool'.on = pool.on /\ pool'.handles = pool.handles /\ pool'.serving = pool.serving
        /\ pool'.next = pool.next /\ pool'.gaveUp = pool.gaveUp /\ pool'.probe # "leaving"
    BY <1>0, <1>1 DEF PoolRecords
  <1>3. Books(pool') /\ Filled(pool')
    <2>1. Books(pool) /\ Filled(pool)
      BY <1>0, TunnelParts DEF Runs
    <2> QED
      BY <1>2, <2>1 DEF Books, Filled, Target
  <1>4. Queued' = Queued /\ worker' = worker
    BY <1>0 DEF Queued
  <1>5. WorkersIn(pool', Queued, worker)
    <2>1. ASSUME NEW w \in WorkerIds PROVE WorkerIn(pool', Queued, worker[w], w)
      <3>1. WorkerIn(pool, Queued, worker[w], w)
        BY TunnelParts
      <3> QED
        BY <1>0, <1>2, <3>1 DEF WorkerIn
    <2> QED
      BY <1>0, <1>2, <2>1, TunnelParts DEF WorkersIn
  <1>6. Losses(pool', worker)
    BY <1>2, TunnelParts DEF Losses
  <1> QED
    BY <1>0, <1>2, <1>3, <1>4, <1>5, <1>6, TunnelParts, PoolStepKeeps

\* The hand-over hears what is queued, for the last time.
LEMMA LastLookKeeps ==
    ASSUME TunnelInv, UNCHANGED agent, HandOverHears
    PROVE  TunnelInv'
  <1>0. /\ pool.on = TRUE /\ pool \in PoolRecords /\ pool.handles \in SUBSET WorkerIds /\ pool.serving \in SUBSET WorkerIds
        /\ Queued \subseteq pool.handles /\ pool.serving \subseteq pool.handles
        /\ signals' = << >> /\ UNCHANGED <<worker, refusedView, lateNo>> /\ "leaving" \in PoolProbes
    BY TunnelParts DEF HandOverHears, PoolRecords, Selects, PoolProbes
  <1>1. PICK sv \in SUBSET WorkerIds : sv = pool.serving \cup (Queued \cap pool.handles) /\ sv = pool.serving \cup Queued
    BY <1>0
  <1>2. PICK b : b = [pool EXCEPT !.serving = sv]
    OBVIOUS
  <1>3. Booked = b
    BY <1>1, <1>2 DEF Booked
  <1>4. b \in PoolRecords /\ b.serving = sv /\ b.handles = pool.handles /\ b.on = TRUE /\ b.next = pool.next
        /\ b.gaveUp = pool.gaveUp
    BY <1>0, <1>2 DEF PoolRecords
  <1>5. pool' = [b EXCEPT !.probe = "leaving"]
    BY <1>3, Zenon DEF HandOverHears
  <1>6. /\ pool' \in PoolRecords /\ pool'.serving = sv /\ pool'.handles = pool.handles /\ pool'.on = TRUE
        /\ pool'.next = pool.next /\ pool'.gaveUp = pool.gaveUp /\ pool'.probe = "leaving"
    BY <1>0, <1>4, <1>5 DEF PoolRecords
  <1>7. Books(pool')
    BY <1>0, <1>1, <1>6, TunnelParts DEF Books
  <1>8. WorkersIn(pool', {}, worker')
    <2>1. ASSUME NEW w \in WorkerIds PROVE WorkerIn(pool', {}, worker[w], w)
      <3>1. WorkerIn(pool, Queued, worker[w], w)
        BY TunnelParts
      <3> QED
        BY <1>0, <1>1, <1>6, <3>1 DEF WorkerIn
    <2> QED
      BY <1>0, <2>1 DEF WorkersIn
  <1>9. WorkersIn(pool', Queued', worker')
    BY <1>0, <1>8, NoneQueued, Zenon
  <1>10. Losses(pool', worker')
    BY <1>0, <1>6, TunnelParts DEF Losses
  <1>11. signals' \in Seq(WorkerIds)
    BY <1>0
  <1> QED
    BY <1>0, <1>6, <1>7, <1>9, <1>10, <1>11, TunnelParts, PoolStepKeeps

\* The loop's own steps, while no pool runs.
LEMMA PoolAgentKeeps ==
    ASSUME TunnelInv, UNCHANGED <<pool, worker, signals>>, agent' \in AgentRecords,
           agent.st # "fallback", agent'.st # "fallback", refusedView' \in BOOLEAN, lateNo' \in BOOLEAN,
           agent'.st = "serve" => (refusedView' => lateNo')
    PROVE  TunnelInv'
  <1>1. PoolTyped' /\ Books(pool') /\ Queued' = Queued
    BY TunnelParts DEF PoolTyped, Queued
  <1>2. Runs' /\ Losses(pool', worker')
    BY TunnelParts DEF Runs
  <1>3. ViewTrue'
    BY DEF ViewTrue
  <1>4. WorkersIn(pool', Queued', worker')
    BY <1>1, TunnelParts
  <1> QED
    BY <1>1, <1>2, <1>3, <1>4 DEF TunnelInv

\* after_failure.
LEMMA AfterFailureIs ==
    ASSUME NEW a \in AgentRecords
    PROVE  AfterFailure(a) \in AgentRecords /\ AfterFailure(a).st \in {"backoff", "gaveup"}
  <1>1. CASE a.tries >= Attempts
    BY <1>1 DEF AfterFailure, AgentRecords
  <1>2. CASE ~(a.tries >= Attempts)
    <2>1. PICK t \in Nat : t = a.tries + 1
      BY DEF AgentRecords
    <2>2. PICK n : n = [a EXCEPT !.st = "backoff", !.tries = t]
      OBVIOUS
    <2>3. n \in AgentRecords /\ n.st = "backoff"
      BY <2>2 DEF AgentRecords
    <2>4. AfterFailure(a) = n
      BY <1>2, <2>1, <2>2 DEF AfterFailure
    <2> QED
      BY <2>3, <2>4
  <1> QED
    BY <1>1, <1>2

\* Dialling, registering and serving.
LEMMA LoopKeepsTunnel ==
    ASSUME TunnelInv,
           \/ BackoffOver \/ DialsQuic \/ DialsMasque \/ Registers
           \/ \E no \in BOOLEAN : RegisterFails(no)
           \/ \E ok \in BOOLEAN : BindsHost(ok)
           \/ \E stable \in BOOLEAN : Disconnects(stable)
    PROVE  TunnelInv'
  <1>0. /\ agent \in AgentRecords /\ refusedView \in BOOLEAN /\ lateNo \in BOOLEAN
        /\ agent.st = "serve" => (refusedView => lateNo)
    BY TunnelParts DEF ViewTrue
  <1>1. CASE BackoffOver
    <2>1. agent' \in AgentRecords /\ agent'.st = "dial"
      BY <1>0, <1>1 DEF BackoffOver, AgentRecords
    <2> QED
      BY <1>0, <1>1, <2>1, PoolAgentKeeps DEF BackoffOver, poolVars
  <1>2. CASE DialsQuic
    <2>1. agent' \in AgentRecords /\ agent'.st = "register"
      BY <1>0, <1>2 DEF DialsQuic, AgentRecords
    <2> QED
      BY <1>0, <1>2, <2>1, PoolAgentKeeps DEF DialsQuic, poolVars
  <1>3. CASE DialsMasque
    <2>1. agent' \in AgentRecords /\ agent'.st = "register"
      BY <1>0, <1>3 DEF DialsMasque, AgentRecords
    <2> QED
      BY <1>0, <1>3, <2>1, PoolAgentKeeps DEF DialsMasque, poolVars
  <1>4. CASE Registers
    <2>1. agent' \in AgentRecords /\ agent'.st = "serve"
      BY <1>0, <1>4 DEF Registers, AgentRecords
    <2> QED
      BY <1>0, <1>4, <2>1, PoolAgentKeeps DEF Registers
  <1>5. ASSUME NEW no \in BOOLEAN, RegisterFails(no) PROVE TunnelInv'
    <2>1. agent' \in AgentRecords /\ agent'.st \in {"backoff", "gaveup"}
      BY <1>0, <1>5, AfterFailureIs DEF RegisterFails
    <2> QED
      BY <1>0, <1>5, <2>1, PoolAgentKeeps DEF RegisterFails
  <1>6. ASSUME NEW ok \in BOOLEAN, BindsHost(ok) PROVE TunnelInv'
    BY <1>0, <1>6, PoolAgentKeeps DEF BindsHost, Connected, poolVars
  <1>7. ASSUME NEW stable \in BOOLEAN, Disconnects(stable) PROVE TunnelInv'
    <2>1. PICK f \in Nat : f = NextQuicFlaps(agent.flaps, stable)
      BY <1>0, AgentAssumption DEF NextQuicFlaps, Fewest, AgentRecords
    <2>2. PICK a : a = [agent EXCEPT !.flaps = f]
      OBVIOUS
    <2>3. a \in AgentRecords
      BY <1>0, <2>2 DEF AgentRecords
    <2>4. agent' = AfterFailure(a)
      BY <1>7, <2>1, <2>2, Zenon DEF Disconnects
    <2>5. agent' \in AgentRecords /\ agent'.st \in {"backoff", "gaveup"}
      BY <2>3, <2>4, AfterFailureIs
    <2> QED
      BY <1>0, <1>7, <2>5, PoolAgentKeeps DEF Disconnects, Connected
  <1> QED
    BY <1>1, <1>2, <1>3, <1>4, <1>5, <1>6, <1>7

\* The plane revokes the token: the edge drops what is parked.
LEMMA RevokeKeeps ==
    ASSUME TunnelInv, PlaneRevokes PROVE TunnelInv'
  <1>0. UNCHANGED <<pool, signals, refusedView, lateNo, agent>>
    BY DEF PlaneRevokes, agentVars
  <1>1. ASSUME NEW w \in WorkerIds
        PROVE  /\ worker'[w] \in WorkerRecords
               /\ \/ worker'[w] = worker[w]
                  \/ /\ worker[w].st \in Live /\ ~worker[w].doomed
                     /\ ~worker'[w].doomed /\ worker'[w].st \in {"try", "wait", "err"}
    <2>1. worker[w] \in WorkerRecords
      BY TunnelParts
    <2>2. worker'[w] = IF Working(w, {"park", "plain"}) THEN ParkEnded(worker[w], TRUE) ELSE worker[w]
      BY DEF PlaneRevokes
    <2>3. CASE Working(w, {"park", "plain"})
      <3>1. worker[w].st \in Live /\ ~worker[w].doomed
        BY <2>3, NamesAre DEF Working
      <3> QED
        BY <2>1, <2>2, <2>3, <3>1, ParkEndedIs
    <2>4. CASE ~Working(w, {"park", "plain"})
      BY <2>1, <2>2, <2>4
    <2> QED
      BY <2>3, <2>4
  <1>2. worker' \in [WorkerIds -> WorkerRecords]
    BY <1>1 DEF PlaneRevokes
  <1>3. Queued' = Queued
    BY <1>0 DEF Queued
  <1>4. ASSUME NEW w \in WorkerIds
        PROVE  WorkerIn(pool, Queued, worker'[w], w) /\ (w \in LostOf(worker') <=> w \in LostOf(worker))
    <2>1. CASE worker'[w] = worker[w]
      BY <2>1, TunnelParts DEF LostOf
    <2>2. CASE /\ worker[w].st \in Live /\ ~worker[w].doomed
               /\ ~worker'[w].doomed /\ worker'[w].st \in {"try", "wait", "err"}
      <3>1. w \in pool.handles /\ w \notin pool.serving \cup Queued /\ w < pool.next /\ pool.on = TRUE
        BY <2>2, LivesIn
      <3>2. worker'[w].st \notin Left
        BY <2>2 DEF Left
      <3>3. worker[w].st # "lost" /\ worker'[w].st # "lost"
        BY <2>2, StatesAre
      <3> QED
        BY <2>2, <3>1, <3>2, <3>3 DEF WorkerIn, LostOf
    <2> QED
      BY <1>1, <2>1, <2>2
  <1>5. WorkersIn(pool', Queued', worker')
    BY <1>0, <1>3, <1>4, TunnelParts DEF WorkersIn
  <1>6. Losses(pool', worker')
    <2>1. LostOf(worker') = LostOf(worker)
      BY <1>4 DEF LostOf
    <2> QED
      BY <1>0, <2>1, TunnelParts DEF Losses
  <1> QED
    BY <1>0, <1>2, <1>5, <1>6, TunnelParts, PoolStepKeeps DEF Runs

\* No pool, and what it holds.
LEMMA NoPoolIs ==
    /\ NoPool \in PoolRecords /\ NoPool.on = FALSE /\ NoPool.handles = {} /\ NoPool.serving = {} /\ NoPool.probe = "none"
    /\ NoPool.gaveUp = 0
  BY DEF NoPool, PoolRecords, PoolProbes

\* The fallback starts a pool.
LEMMA StartKeeps ==
    ASSUME TunnelInv, FallsBack PROVE TunnelInv'
  <1>0. /\ agent \in AgentRecords /\ agent.st = "dial" /\ pool.on = FALSE /\ pool.handles = {} /\ pool.on \in BOOLEAN
        /\ UNCHANGED <<refusedView, lateNo>> /\ signals' = << >> /\ agent.flaps \in Nat
    BY TunnelParts DEF FallsBack, PoolStarts, Runs, AgentRecords
  <1>1. agent' \in AgentRecords /\ agent'.st = "fallback"
    BY <1>0 DEF FallsBack, AgentRecords
  <1>2. PICK c \in Nat : c = IF agent.only THEN 0 ELSE Confirmations(agent.flaps)
    BY DEF Confirmations
  <1>3. PICK ws : ws = [w \in WorkerIds |-> IF Outlives(w) THEN worker[w] ELSE Unused]
    OBVIOUS
  <1>4. PICK free \in 1..(Ids + 1) : TopUp([NoPool EXCEPT !.on = TRUE, !.next = free, !.confirm = c], ws)
    <2>1. PoolStarts(c)
      BY <1>2, Zenon DEF FallsBack
    <2> QED
      BY <1>3, <2>1, Zenon DEF PoolStarts
  <1>5. PICK p : p = [NoPool EXCEPT !.on = TRUE, !.next = free, !.confirm = c]
    OBVIOUS
  <1>6. free \in Nat \ {0}
    BY PoolNumbers
  <1>7. p \in PoolRecords /\ p.on = TRUE /\ p.handles = {} /\ p.serving = {} /\ p.probe = "none" /\ p.gaveUp = 0
    <2>1. PICK none \in PoolRecords : /\ none = NoPool /\ none.handles = {} /\ none.serving = {}
                                      /\ none.probe = "none" /\ none.gaveUp = 0
      BY NoPoolIs
    <2>2. p = [none EXCEPT !.on = TRUE, !.next = free, !.confirm = c]
      BY <1>5, <2>1, Zenon
    <2> QED
      BY <1>6, <2>1, <2>2 DEF PoolRecords
  <1>8. ASSUME NEW w \in WorkerIds
        PROVE  /\ ws[w] \in WorkerRecords /\ (ws[w].doomed \/ ws[w].st \in Left)
               /\ ~ws[w].doomed => ws[w].st \in {"unused", "detached"}
               /\ ws[w].doomed => ws[w].st # "relay"
    <2>1. worker[w] \in WorkerRecords /\ WorkerIn(pool, Queued, worker[w], w)
      BY TunnelParts
    <2>2. ws[w] = IF Outlives(w) THEN worker[w] ELSE Unused
      BY <1>3
    <2>3. worker[w].doomed => worker[w].st # "relay"
      BY <2>1 DEF WorkerIn
    <2>4. CASE Outlives(w)
      BY <2>1, <2>2, <2>3, <2>4, NamesAre DEF Outlives
    <2>5. CASE ~Outlives(w)
      BY <2>2, <2>5, FreshIs, NamesAre
    <2> QED
      BY <2>4, <2>5
  <1>9. ws \in [WorkerIds -> WorkerRecords]
    BY <1>3, <1>8
  <1>10. Books(p)
    BY <1>7, FS_EmptySet, PoolNumbers DEF Books
  <1>11. WorkersIn(p, {}, ws)
    <2>1. ASSUME NEW w \in WorkerIds PROVE WorkerIn(p, {}, ws[w], w)
      <3>1. ~ws[w].doomed => ws[w].st \notin Over \cup {"lost"}
        BY <1>8 DEF Over
      <3> QED
        BY <1>7, <1>8, <3>1 DEF WorkerIn
    <2> QED
      BY <1>7, <2>1 DEF WorkersIn
  <1>12. TopUp(p, ws)
    BY <1>4, <1>5, Zenon
  <1>13. Losses(p, ws)
    <2>1. LostOf(ws) \in SUBSET WorkerIds
      BY DEF LostOf
    <2>2. Cardinality(LostOf(ws)) \in Nat
      BY <2>1, SubsetsCount
    <2> QED
      BY <1>7, <2>2 DEF Losses
  <1>14. /\ pool' \in PoolRecords /\ Books(pool') /\ Filled(pool') /\ pool'.on = TRUE
         /\ worker' \in [WorkerIds -> WorkerRecords]
         /\ WorkersIn(pool', {}, worker') /\ Losses(pool', worker')
    <2>1. p.probe # "leaving"
      BY <1>7
    <2> QED
      BY <1>7, <1>9, <1>10, <1>11, <1>12, <1>13, <2>1, TopUpKeeps
  <1>15. WorkersIn(pool', Queued', worker')
    BY <1>0, <1>14, NoneQueued, Zenon
  <1>16. PoolTyped'
    BY <1>0, <1>14, TunnelParts DEF PoolTyped
  <1>17. Runs' /\ ViewTrue'
    BY <1>1, <1>14 DEF Runs, ViewTrue
  <1> QED
    BY <1>1, <1>14, <1>15, <1>16, <1>17 DEF TunnelInv

\* A pool that is over leaves nothing that registers.
LEMMA ClosedKeeps ==
    ASSUME TunnelInv, pool' = NoPool, signals' = << >>, worker' \in [WorkerIds -> WorkerRecords],
           \A w \in WorkerIds : /\ worker'[w].doomed \/ worker'[w].st \in Left
                                /\ worker'[w].doomed => worker'[w].st # "relay",
           agent' \in AgentRecords, agent'.st # "fallback", refusedView' \in BOOLEAN, lateNo' \in BOOLEAN,
           agent'.st = "serve" => ~refusedView'
    PROVE  TunnelInv'
  <1>1. /\ pool' \in PoolRecords /\ pool'.on = FALSE /\ pool'.handles = {} /\ pool'.serving = {} /\ pool'.probe = "none"
    BY NoPoolIs
  <1>2. WorkersIn(pool', {}, worker')
    <2>1. ASSUME NEW w \in WorkerIds PROVE WorkerIn(pool', {}, worker'[w], w)
      BY <1>1 DEF WorkerIn
    <2> QED
      BY <1>1, <2>1 DEF WorkersIn
  <1>3. WorkersIn(pool', Queued', worker')
    BY <1>2, NoneQueued, Zenon
  <1>4. PoolTyped' /\ Runs' /\ ViewTrue' /\ Losses(pool', worker')
    BY <1>1 DEF PoolTyped, Runs, ViewTrue, Losses
  <1>5. Books(pool')
    BY <1>1, FS_EmptySet, PoolNumbers DEF Books
  <1> QED
    BY <1>3, <1>4, <1>5 DEF TunnelInv

\* QUIC is back: what does not relay is aborted, and what relays is left to its Client.
LEMMA HandOverKeeps ==
    ASSUME TunnelInv, Recovered PROVE TunnelInv'
  <1>0. /\ pool.on = TRUE /\ agent \in AgentRecords /\ pool \in PoolRecords /\ pool' = NoPool /\ signals' = signals
        /\ refusedView' = FALSE /\ lateNo' = FALSE /\ HandsOver /\ pool.on \in BOOLEAN /\ pool.probe = "leaving"
    BY TunnelParts DEF Recovered, HandsOver
  <1>1. agent' \in AgentRecords /\ agent'.st = "serve"
    BY <1>0 DEF Recovered, AgentRecords
  <1>2. Queued = {} /\ signals' = << >>
    <2>1. Queued = {} /\ signals \in Seq(WorkerIds)
      BY <1>0, TunnelParts DEF WorkersIn
    <2>2. CASE signals # << >>
      <3>1. 1 \in DOMAIN signals
        BY <2>1, <2>2
      <3> QED
        BY <2>1, <3>1 DEF Queued
    <2> QED
      BY <1>0, <2>1, <2>2
  <1>3. worker' = [w \in WorkerIds |-> LeftBy(w)]
    BY <1>0, Zenon DEF HandsOver
  <1>4. ASSUME NEW w \in WorkerIds
        PROVE  /\ LeftBy(w) \in WorkerRecords
               /\ LeftBy(w).doomed \/ LeftBy(w).st \in Left
               /\ LeftBy(w).doomed => LeftBy(w).st # "relay"
    <2>0. PICK old \in WorkerRecords : old = worker[w]
      BY TunnelParts
    <2>1. WorkerIn(pool, {}, old, w)
      BY <1>2, <2>0, TunnelParts
    <2>2. CASE Working(w, {"ok", "err", "panic"})
      <3>1. LeftBy(w) = Done("gone")
        BY <2>2 DEF LeftBy
      <3>2. "gone" \in WorkerStates /\ "gone" \in Left
        BY StatesAre, NamesAre
      <3> QED
        BY <3>1, <3>2, DoneIs
    <2>3. CASE ~Working(w, {"ok", "err", "panic"}) /\ w \in pool.handles \ pool.serving
      <3>1. LeftBy(w) = Aborted(old)
        BY <2>0, <2>3 DEF LeftBy
      <3>2. PICK s \in WorkerStates : s = old.st /\ s # "relay"
        BY <2>1, <2>3 DEF WorkerIn, WorkerRecords
      <3>3. PICK d \in WorkerRecords : d = Done(s) /\ d.st = s
        BY DoneIs
      <3>4. PICK n \in Nat : n = old.noes
        BY DEF WorkerRecords
      <3>5. PICK r : r = [d EXCEPT !.noes = n, !.doomed = TRUE]
        OBVIOUS
      <3>6. r \in WorkerRecords /\ r.doomed = TRUE /\ r.st = s
        BY <3>3, <3>5 DEF WorkerRecords
      <3>7. Aborted(old) = r
        BY <3>2, <3>3, <3>4, <3>5 DEF Aborted
      <3> QED
        BY <3>1, <3>2, <3>6, <3>7
    <2>4. CASE ~Working(w, {"ok", "err", "panic"}) /\ w \notin pool.handles \ pool.serving /\ Working(w, {"relay"})
      <3>1. LeftBy(w) = [old EXCEPT !.st = "detached"]
        BY <2>0, <2>4 DEF LeftBy
      <3>2. PICK r : r = [old EXCEPT !.st = "detached"]
        OBVIOUS
      <3>3. "detached" \in WorkerStates /\ "detached" \in Left
        BY StatesAre, NamesAre
      <3>4. r \in WorkerRecords /\ r.st = "detached" /\ r.doomed = old.doomed
        BY <3>2, <3>3 DEF WorkerRecords
      <3> QED
        BY <3>1, <3>2, <3>3, <3>4
    <2>5. CASE ~Working(w, {"ok", "err", "panic"}) /\ w \notin pool.handles \ pool.serving /\ ~Working(w, {"relay"})
      <3>1. LeftBy(w) = old
        BY <2>0, <2>5 DEF LeftBy
      <3>2. old.doomed \/ (old.st \notin Over /\ old.st # "relay")
        BY <2>0, <2>5 DEF Working, Over
      <3>3. old.doomed => old.st # "relay"
        BY <2>1 DEF WorkerIn
      <3>4. CASE w \in pool.handles
        BY <2>1, <2>5, <3>2, <3>4, NamesAre DEF WorkerIn
      <3>5. CASE w \notin pool.handles
        BY <2>1, <3>1, <3>2, <3>3, <3>5 DEF WorkerIn
      <3> QED
        BY <3>4, <3>5
    <2> QED
      BY <2>2, <2>3, <2>4, <2>5
  <1>5. worker' \in [WorkerIds -> WorkerRecords] /\ \A w \in WorkerIds : worker'[w] = LeftBy(w)
    BY <1>3, <1>4
  <1>6. ASSUME NEW w \in WorkerIds
        PROVE  /\ worker'[w].doomed \/ worker'[w].st \in Left
               /\ worker'[w].doomed => worker'[w].st # "relay"
    BY <1>4, <1>5
  <1> QED
    BY <1>0, <1>1, <1>2, <1>5, <1>6, ClosedKeeps

\* The last worker is gone.
LEMMA WorkerEndKeeps ==
    ASSUME TunnelInv, Exhausted PROVE TunnelInv'
  <1>0. /\ pool.on = TRUE /\ agent \in AgentRecords /\ pool' = NoPool /\ signals' = << >> /\ pool.handles = {}
        /\ UNCHANGED <<refusedView, lateNo>> /\ pool.on \in BOOLEAN
    BY TunnelParts DEF Exhausted, PoolEnds
  <1>1. agent' \in AgentRecords /\ agent'.st \in {"backoff", "gaveup"}
    BY <1>0, AfterFailureIs DEF Exhausted
  <1>2. ASSUME NEW w \in WorkerIds
        PROVE  /\ worker'[w] \in WorkerRecords /\ (worker'[w].doomed \/ worker'[w].st \in Left)
               /\ worker'[w].doomed => worker'[w].st # "relay"
    <2>1. worker'[w] = IF Working(w, {"ok", "err", "panic"}) THEN Done("gone") ELSE worker[w]
      BY DEF Exhausted, PoolEnds
    <2>2. worker[w] \in WorkerRecords /\ WorkerIn(pool, Queued, worker[w], w)
      BY TunnelParts
    <2>3. CASE Working(w, {"ok", "err", "panic"})
      <3>1. "gone" \in WorkerStates /\ "gone" \in Left
        BY StatesAre, NamesAre
      <3> QED
        BY <2>1, <2>3, <3>1, DoneIs
    <2>4. CASE ~Working(w, {"ok", "err", "panic"})
      <3>1. worker[w].doomed \/ worker[w].st \notin Over
        BY <2>4 DEF Working, Over
      <3> QED
        BY <1>0, <2>1, <2>2, <2>4, <3>1 DEF WorkerIn
    <2> QED
      BY <2>3, <2>4
  <1>3. worker' \in [WorkerIds -> WorkerRecords]
    BY <1>2 DEF Exhausted, PoolEnds
  <1> QED
    BY <1>0, <1>1, <1>2, <1>3, TunnelParts, ClosedKeeps

\* Nothing has begun.
LEMMA TunnelStarts == TunnelInit => TunnelInv
  <1> SUFFICES ASSUME TunnelInit PROVE TunnelInv
    OBVIOUS
  <1>1. /\ pool = NoPool /\ worker = [w \in WorkerIds |-> Unused] /\ signals = << >>
        /\ refusedView = FALSE /\ lateNo = FALSE
    BY DEF TunnelInit, PoolInit
  <1>2. agent \in AgentRecords /\ agent.st = "dial"
    BY DEF TunnelInit, AgentRecords
  <1>3. PoolTyped
    <2>0. refusedView \in BOOLEAN /\ lateNo \in BOOLEAN
      BY <1>1
    <2>1. signals \in Seq(WorkerIds)
      <3>1. << >> \in Seq(WorkerIds)
        OBVIOUS
      <3> QED
        BY <1>1, <3>1, Zenon
    <2>2. worker \in [WorkerIds -> WorkerRecords]
      BY <1>1, FreshIs
    <2>3. pool \in PoolRecords
      BY <1>1, NoPoolIs
    <2> QED
      BY <2>0, <2>1, <2>2, <2>3 DEF PoolTyped
  <1>4. Books(pool)
    BY <1>1, NoPoolIs, FS_EmptySet, PoolNumbers DEF Books
  <1>5. Queued = {}
    BY <1>1 DEF Queued
  <1>6. WorkersIn(pool, {}, worker)
    <2>1. ASSUME NEW w \in WorkerIds PROVE WorkerIn(pool, {}, worker[w], w)
      <3>1. worker[w] = Unused
        BY <1>1
      <3> QED
        BY <1>1, <3>1, NoPoolIs, FreshIs, NamesAre DEF WorkerIn
    <2> QED
      BY <1>1, <2>1, NoPoolIs DEF WorkersIn
  <1>7. Runs /\ ViewTrue /\ Losses(pool, worker)
    BY <1>1, <1>2, NoPoolIs DEF Runs, ViewTrue, Losses
  <1>8. WorkersIn(pool, Queued, worker)
    BY <1>5, <1>6, Zenon
  <1> QED
    BY <1>2, <1>3, <1>4, <1>7, <1>8 DEF TunnelInv

\* Every step keeps the invariant.
LEMMA TunnelKeeps == TunnelInv /\ [TunnelNext]_tunnelVars => TunnelInv'
  <1> SUFFICES ASSUME TunnelInv, [TunnelNext]_tunnelVars PROVE TunnelInv'
    OBVIOUS
  <1>1. CASE PoolSteps
    <2>0. UNCHANGED agent /\ PoolNext
      BY <1>1 DEF PoolSteps
    <2>1. ASSUME NEW w \in WorkerIds, EdgeDelivers(w) \/ WorkerServed(w) \/ WorkerPanics(w) PROVE TunnelInv'
      <3>1. worker[w].st \in Live \cup {"relay", "detached"}
        BY <2>1 DEF EdgeDelivers, WorkerServed, WorkerPanics, Working, Live
      <3>2. worker[w].st \in {"relay", "detached"} => ~EdgeDelivers(w)
        BY DEF EdgeDelivers, Working
      <3> QED
        BY <2>0, <2>1, <3>1, <3>2, DeliverKeeps, RelayEndKeeps
    <2> QED
      BY <2>0, <2>1, WorkerLiveKeeps, FireKeeps, JoinsKeep, AbortKeeps, HearKeeps, ProbeKeeps, LastLookKeeps
      DEF PoolNext, WorkerNext
  <1>2. CASE UNCHANGED <<pool, worker, signals, refusedView, lateNo, agent>>
    <2>1. Queued' = Queued
      BY <1>2 DEF Queued
    <2>2. WorkersIn(pool', Queued', worker')
      BY <1>2, <2>1, TunnelParts
    <2> QED
      BY <1>2, <2>2, TunnelParts, PoolStepKeeps DEF Runs
  <1>3. UdpChanges \/ UNCHANGED tunnelVars => UNCHANGED <<pool, worker, signals, refusedView, lateNo, agent>>
    BY DEF UdpChanges, tunnelVars, poolVars, agentVars
  <1> QED
    BY <1>1, <1>2, <1>3, LoopKeepsTunnel, StartKeeps, HandOverKeeps, WorkerEndKeeps, RevokeKeeps DEF TunnelNext

\* What the workers really do, from what the pool has in its books.
LEMMA BooksAreTrue ==
    ASSUME TunnelInv PROVE ParkedKeptUp
  <1> DEFINE busy == {"try", "wait", "park", "plain", "plainrelay", "stop", "late", "relay"}
  <1>0. /\ pool.handles \in SUBSET WorkerIds /\ pool.serving \in SUBSET WorkerIds /\ pool.gaveUp \in Nat
        /\ pool.serving \subseteq pool.handles /\ Cardinality(pool.handles) <= PoolSize + MaxServing
    BY TunnelParts DEF Books, PoolRecords
  <1>1. ASSUME NEW w \in WorkerIds PROVE WorkerIn(pool, Queued, worker[w], w) /\ worker[w].st \in WorkerStates
    BY TunnelParts DEF WorkerRecords
  <1>2. Cardinality(Doing(busy)) <= PoolSize + MaxServing
    <2>1. \A s \in busy : s \notin Over \cup Left
      BY DEF Over, Left
    <2>2. ASSUME NEW w \in Doing(busy) PROVE w \in pool.handles
      <3>1. w \in WorkerIds /\ worker[w].st \in busy /\ ~worker[w].doomed
        BY <2>2 DEF Doing, Working
      <3> QED
        BY <1>1, <2>1, <3>1 DEF WorkerIn
    <2>3. PICK D : D = Doing(busy) /\ D \in SUBSET pool.handles
      BY <2>2
    <2>4. IsFiniteSet(pool.handles) /\ Cardinality(pool.handles) \in Nat /\ Cardinality(D) \in Nat
      <3>1. D \in SUBSET WorkerIds
        BY <1>0, <2>3
      <3> QED
        BY <1>0, <3>1, SubsetsCount
    <2>5. Cardinality(D) <= Cardinality(pool.handles)
      BY <2>3, <2>4, FS_Subset
    <2>6. Cardinality(D) <= PoolSize + MaxServing
      BY <1>0, <2>4, <2>5, PoolNumbers
    <2> QED
      BY <2>3, <2>6, Zenon
  <1>3. ASSUME Settled
        PROVE  \/ Cardinality(Parking \cup PlainRelays) >= PoolSize - Cardinality(Lost)
               \/ Cardinality(Relaying) > MaxServing
    <2>0. pool.on /\ pool.probe # "leaving" /\ Queued = {} /\ Filled(pool)
      BY <1>3, TunnelParts DEF Settled, Queued, Runs
    <2>1. ASSUME NEW w \in pool.handles
          PROVE  (w \in pool.serving /\ w \in Relaying) \/ (w \notin pool.serving /\ w \in Parking \cup PlainRelays)
      <3>0. w \in WorkerIds /\ WorkerIn(pool, {}, worker[w], w) /\ worker[w].st \in WorkerStates
        BY <1>0, <1>1, <2>0
      <3>1. ~worker[w].doomed /\ worker[w].st \notin Left /\ worker[w].st # "late"
        BY <2>0, <3>0 DEF WorkerIn
      <3>2. worker[w].st \notin {"stop", "ok", "err", "panic"}
        BY <1>3, <3>0, <3>1 DEF Settled, Doing, Working
      <3>3. worker[w].st \in {"try", "wait", "park", "plain", "plainrelay", "relay"}
        BY <3>0, <3>1, <3>2 DEF WorkerStates, Live, Over
      <3>4. worker[w].st = "relay" <=> w \in pool.serving
        BY <3>0, <3>2 DEF WorkerIn
      <3> QED
        BY <3>0, <3>1, <3>3, <3>4 DEF Parking, PlainRelays, Relaying, Doing, Working
    <2>2. PICK A \in SUBSET WorkerIds : A = pool.handles \ pool.serving
      BY <1>0
    <2>3. PICK S \in SUBSET WorkerIds : S = pool.serving
      BY <1>0
    <2>4. /\ IsFiniteSet(A) /\ Cardinality(A) \in Nat /\ IsFiniteSet(S) /\ Cardinality(S) \in Nat
          /\ Cardinality(pool.handles) = Cardinality(A) + Cardinality(S)
      <3>1. A \cap S = {} /\ pool.handles = A \cup S
        BY <1>0, <2>2, <2>3
      <3> QED
        BY <3>1, SubsetsCount, ApartCount
    <2>5. PICK P \in SUBSET WorkerIds : P = Parking \cup PlainRelays
      BY DEF Parking, PlainRelays, Doing
    <2>6. PICK R \in SUBSET WorkerIds : R = Relaying
      BY DEF Relaying, Doing
    <2>7. A \subseteq P /\ S \subseteq R
      BY <1>0, <2>1, <2>2, <2>3, <2>5, <2>6
    <2>8. /\ Cardinality(P) \in Nat /\ Cardinality(R) \in Nat
          /\ Cardinality(A) <= Cardinality(P) /\ Cardinality(S) <= Cardinality(R)
      BY <2>7, SubsetsCount, FS_Subset
    <2>9. PICK l \in Nat : l = Cardinality(Lost) /\ pool.gaveUp <= l
      <3>1. Lost = LostOf(worker) /\ LostOf(worker) \in SUBSET WorkerIds
        BY DEF Lost, LostOf, Doing, Working
      <3>2. pool.gaveUp <= Cardinality(LostOf(worker))
        BY <2>0, TunnelParts DEF Losses
      <3>3. Cardinality(LostOf(worker)) \in Nat
        BY <3>1, SubsetsCount
      <3> QED
        BY <3>1, <3>2, <3>3
    <2>10. PICK t \in Nat : t = Target(pool) /\ t >= PoolSize - pool.gaveUp
      BY <1>0, PoolNumbers DEF Target, Most
    <2>11. Cardinality(A) >= t \/ Cardinality(pool.handles) >= t + MaxServing
      BY <2>0, <2>2, <2>10, Zenon DEF Filled
    <2>12. Cardinality(P) >= PoolSize - l \/ Cardinality(R) > MaxServing
      <3>1. CASE Cardinality(A) >= t
        BY <1>0, <2>4, <2>8, <2>9, <2>10, <3>1, PoolNumbers
      <3>2. CASE Cardinality(A) < t /\ Cardinality(pool.handles) >= t + MaxServing
        BY <2>4, <2>8, <3>2, PoolNumbers
      <3> QED
        BY <2>4, <2>11, <3>1, <3>2
    <2> QED
      BY <2>5, <2>6, <2>9, <2>12, Zenon
  <1> QED
    BY <1>2, <1>3 DEF ParkedKeptUp

\* For any sizes of the pool, however the workers, the pool and the edge take turns: the workers that
\* register, are parked or relay are never more than the cap; and as soon as nothing is on its way to
\* the pool, those that register or are parked (or serve a plain registration) are as many as PoolSize
\* without the ones lost, or more than MaxServing relay a Client (run_tcp_fallback_pool_on).
THEOREM ParkedAlwaysKeptUp == TunnelSpec => []ParkedKeptUp
  <1>1. TunnelInv => ParkedKeptUp
    BY BooksAreTrue
  <1> QED
    BY <1>1, TunnelStarts, TunnelKeeps, PTL DEF TunnelSpec

\* And the return to QUIC aborts no worker that told the pool of its Client before its last look,
\* leaves no registration of the fallback beside the new one, and no verdict that would refuse the
\* direct path, but for one heard in the poll in which a worker was aborted (detach_all,
\* RevocationTracker).
THEOREM HandOverAlwaysClean == TunnelSpec => []HandOverClean
  <1>1. ASSUME TunnelInv PROVE HandOverClean
    <2>1. ASSUME NEW w \in WorkerIds
          PROVE  /\ worker[w].doomed => worker[w].st # "relay"
                 /\ ~pool.on => worker[w].doomed \/ worker[w].st \in {"unused", "gone", "lost", "detached"}
      <3>1. WorkerIn(pool, Queued, worker[w], w)
        BY <1>1, TunnelParts
      <3> QED
        BY <3>1 DEF WorkerIn, Left
    <2>2. agent.st = "serve" => ~pool.on /\ (refusedView => lateNo)
      BY <1>1, TunnelParts DEF Runs, ViewTrue
    <2> QED
      BY <2>1, <2>2 DEF HandOverClean, ToldNeverCut, ServingMeansLive
  <1> QED
    BY <1>1, TunnelStarts, TunnelKeeps, PTL DEF TunnelSpec

-----------------------------------------------------------------------------
(* The framed relay (FramedRelay).  The chunks the agent has read from the Origin and not yet put on  *)
(* the wire are counted wherever they are: in the Origin reader's hand, in the queue, in the writer's. *)

InItems == {<<k>> : k \in {"data", "empty", "ka", "fin", "eof"}} \cup ({"ack"} \X Nat \X Nat)
UpEvents == {<<k>> : k \in {"ack", "peerfin"}} \cup ({"acked"} \X Nat)
QueueItems == UpEvents \cup {<<k>> : k \in {"data", "fin"}}
WriterOps == {<<k>> : k \in {"none", "ack", "data", "fin", "ka", "idlefin"}}
RelayRecords == [now : Nat, end : {"run", "error", "dead", "ok"}, finAt : Nat, putAt : Nat, put : Nat,
                 fin : {"none", "fin", "idlefin"}]
UpRecords == [st : {"read", "dial", "write", "send", "last", "done"}, ev : UpEvents \cup {NoOp}, at : Nat,
              dialable : BOOLEAN]
PeerRecords == [sent : Nat, over : BOOLEAN, eof : BOOLEAN, owes : SUBSET Nat]
OriginRecords == [st : {"none", "open"}, wrote : Nat, read : Nat, eof : BOOLEAN]
WriterRecords(out) == [mode : {"select", "drain"}, op : WriterOps, counter : Nat, out : {out}, peerFin : BOOLEAN,
                       finSent : BOOLEAN, lastWrite : Nat, lastData : Nat]

RelayTyped ==
    /\ relay \in RelayRecords
    /\ peer \in PeerRecords
    /\ inp \in Seq(InItems)
    /\ up \in UpRecords /\ (up.st \in {"send", "last"} => up.ev \in UpEvents)
    /\ down \in {"dial", "read", "data", "fin", "done"}
    /\ orig \in OriginRecords
    /\ queue \in Seq(QueueItems)
    /\ wr \in WriterRecords(wr.out)

DataIn(q) == Cardinality({i \in 1..Len(q) : q[i][1] = "data"})
One(b) == IF b THEN 1 ELSE 0

\* The Origin has said all it will say, and the agent has read it.
SaidAll == orig.read = orig.wrote /\ (orig.eof \/ (orig.st = "none" /\ ~up.dialable))

\* The chunks, from the Origin to the wire ...
Chunks ==
    /\ orig.read <= orig.wrote
    /\ ~wr.finSent => relay.put + DataIn(queue) + One(wr.op[1] = "data") + One(down = "data") = orig.read
    /\ orig.st = "none" => orig.wrote = 0 /\ orig.read = 0 /\ ~orig.eof /\ down \notin {"read", "data"}
    /\ down = "dial" => orig.st = "none"
    /\ down \in {"fin", "done"} => SaidAll

\* ... and the dial that lets them come: after the peer's FIN there is none.
Dialling ==
    /\ up.st = "dial" => orig.st = "none" /\ up.dialable
    /\ ~up.dialable => peer.over /\ \A i \in 1..Len(inp) : inp[i][1] # "data"
    /\ \A i \in 1..Len(inp) : inp[i][1] \in {"fin", "eof"} =>
         peer.over /\ \A j \in 1..Len(inp) : j > i => inp[j][1] # "data"

\* The FIN over the Origin's EOF: once, after all data, and never lost.
FinQueued ==
    /\ \A i \in 1..Len(queue) : queue[i][1] = "fin" =>
         down = "done" /\ \A j \in 1..Len(queue) : j > i => queue[j][1] # "data"
    /\ wr.op[1] = "fin" => down = "done" /\ \A j \in 1..Len(queue) : queue[j][1] # "data"
    /\ down = "done" => wr.finSent \/ wr.op[1] = "fin" \/ \E i \in 1..Len(queue) : queue[i][1] = "fin"

FinSaid ==
    /\ relay.fin = "fin" => down = "done" /\ relay.put = orig.wrote
    /\ wr.finSent <=> relay.fin # "none"
    /\ wr.op[1] = "idlefin" => wr.peerFin
    /\ relay.fin = "idlefin" => wr.peerFin
    /\ relay.end = "ok" => relay.fin # "none"

\* The clock of the data is the one the idle bound is meant for.
DataClock ==
    /\ relay.putAt <= relay.now /\ relay.finAt <= relay.now
    /\ ~wr.finSent => wr.lastData = IF wr.peerFin THEN Latest(relay.finAt, relay.putAt) ELSE relay.putAt

\* Frames wait for the edge reader within a tick only, unless it is held up.
Unread ==
    /\ up.st = "read" /\ up.at # relay.now => \A i \in 1..Len(inp) : inp[i][1] = "ack" => inp[i][3] = relay.now
    /\ relay.end = "dead" => queue = << >>

RelayInv == RelayTyped /\ Chunks /\ Dialling /\ FinQueued /\ FinSaid /\ DataClock /\ Unread

\* What the items are.
LEMMA InItemsAre ==
    /\ \A x \in InItems : x[1] \in {"data", "empty", "ka", "fin", "eof", "ack"} /\ (x[1] = "ack" => x[2] \in Nat)
    /\ \A k \in {"data", "empty", "ka", "fin", "eof"} : <<k>> \in InItems /\ <<k>>[1] = k
    /\ \A c, t \in Nat : <<"ack", c, t>> \in InItems /\ <<"ack", c, t>>[1] = "ack" /\ <<"ack", c, t>>[3] = t
  BY DEF InItems

\* What the queue holds ...
LEMMA QueueItemsAre ==
    /\ \A x \in QueueItems : x[1] \in {"ack", "peerfin", "acked", "data", "fin"}
    /\ \A x \in UpEvents : x \in QueueItems /\ x[1] \notin {"data", "fin"}
    /\ \A k \in {"data", "fin"} : <<k>> \in QueueItems /\ <<k>>[1] = k
    /\ \A k \in {"ack", "peerfin"} : <<k>> \in UpEvents
    /\ \A c \in Nat : <<"acked", c>> \in UpEvents
  BY DEF QueueItems, UpEvents

\* ... and what the writer does with it.
LEMMA WriterOpsAre ==
    /\ \A x \in WriterOps : x[1] \in {"none", "ack", "data", "fin", "ka", "idlefin"} /\ (x = NoOp <=> x[1] = "none")
    /\ \A k \in {"none", "ack", "data", "fin", "ka", "idlefin"} : <<k>> \in WriterOps /\ <<k>>[1] = k
    /\ NoOp \in WriterOps /\ NoOp[1] = "none"
    /\ \A x \in QueueItems : x[1] \notin {"acked", "peerfin"} => x \in WriterOps
  <1>1. \A x \in WriterOps : x[1] \in {"none", "ack", "data", "fin", "ka", "idlefin"} /\ x = <<x[1]>>
    BY DEF WriterOps
  <1>2. \A k \in {"none", "ack", "data", "fin", "ka", "idlefin"} : <<k>> \in WriterOps /\ <<k>>[1] = k
    BY DEF WriterOps
  <1>3. NoOp \in WriterOps /\ NoOp[1] = "none"
    BY <1>2 DEF NoOp
  <1>4. \A x \in WriterOps : x = NoOp <=> x[1] = "none"
    BY <1>1 DEF NoOp
  <1>5. \A x \in QueueItems : x[1] \notin {"acked", "peerfin"} => x \in WriterOps
    BY DEF QueueItems, UpEvents, WriterOps
  <1> QED
    BY <1>1, <1>2, <1>3, <1>4, <1>5

-----------------------------------------------------------------------------
(* Counting. *)

DataAt(q) == {i \in 1..Len(q) : q[i][1] = "data"}

\* The count is a number.
LEMMA DataCounts ==
    ASSUME NEW S, NEW q \in Seq(S)
    PROVE  IsFiniteSet(DataAt(q)) /\ DataIn(q) = Cardinality(DataAt(q)) /\ DataIn(q) \in Nat
  <1>1. Len(q) \in Nat /\ 1 \in Int
    OBVIOUS
  <1>2. IsFiniteSet(1..Len(q))
    BY <1>1, FS_Interval
  <1>3. DataAt(q) \subseteq 1..Len(q)
    BY DEF DataAt
  <1>4. IsFiniteSet(DataAt(q))
    BY <1>2, <1>3, FS_Subset
  <1>5. DataIn(q) = Cardinality(DataAt(q))
    BY DEF DataIn, DataAt
  <1> QED
    BY <1>4, <1>5, FS_CardinalityType

\* Nothing is counted where there is no data.
LEMMA NoData ==
    ASSUME NEW S, NEW q \in Seq(S), \A i \in 1..Len(q) : q[i][1] # "data" PROVE DataIn(q) = 0
  <1>1. DataAt(q) = {}
    BY DEF DataAt
  <1> QED
    BY <1>1, DataCounts, FS_EmptySet

\* One more at the end ...
LEMMA DataAppend ==
    ASSUME NEW S, NEW q \in Seq(S), NEW x \in S
    PROVE  DataIn(Append(q, x)) = DataIn(q) + One(x[1] = "data")
  <1>1. PICK a \in Seq(S) : a = Append(q, x)
    <2>1. Append(q, x) \in Seq(S)
      OBVIOUS
    <2> QED
      BY <2>1
  <1>2. Len(a) = Len(q) + 1 /\ a[Len(q) + 1] = x /\ (\A i \in 1..Len(q) : a[i] = q[i]) /\ Len(q) \in Nat
    BY <1>1
  <1>3. IsFiniteSet(DataAt(q)) /\ DataIn(q) = Cardinality(DataAt(q)) /\ DataIn(q) \in Nat
    BY DataCounts
  <1>4. DataIn(a) = Cardinality(DataAt(a))
    BY DataCounts
  <1>5. CASE x[1] = "data"
    <2>1. DataAt(a) = DataAt(q) \cup {Len(q) + 1} /\ Len(q) + 1 \notin DataAt(q)
      BY <1>2, <1>5 DEF DataAt
    <2>2. Cardinality(DataAt(q) \cup {Len(q) + 1}) = Cardinality(DataAt(q)) + 1
      BY <1>3, <2>1, FS_AddElement
    <2>3. DataIn(a) = DataIn(q) + 1
      BY <1>3, <1>4, <2>1, <2>2
    <2> QED
      BY <1>1, <1>5, <2>3 DEF One
  <1>6. CASE x[1] # "data"
    <2>1. DataAt(a) = DataAt(q)
      BY <1>2, <1>6 DEF DataAt
    <2>2. DataIn(a) = DataIn(q) + 0
      BY <1>3, <1>4, <2>1
    <2> QED
      BY <1>1, <1>6, <2>2 DEF One
  <1> QED
    BY <1>5, <1>6

\* ... and one less at the head.
LEMMA DataTail ==
    ASSUME NEW S, NEW q \in Seq(S), q # << >>
    PROVE  DataIn(q) = DataIn(Tail(q)) + One(Head(q)[1] = "data")
  <1>1. PICK a \in Seq(S) : a = Tail(q)
    <2>1. Tail(q) \in Seq(S)
      OBVIOUS
    <2> QED
      BY <2>1
  <1>2. Len(a) = Len(q) - 1 /\ (\A i \in 1..Len(a) : a[i] = q[i + 1]) /\ Len(q) \in Nat \ {0} /\ Head(q) = q[1]
    BY <1>1
  <1>3. IsFiniteSet(DataAt(q)) /\ DataIn(q) = Cardinality(DataAt(q)) /\ DataIn(q) \in Nat
    BY DataCounts
  <1>4. IsFiniteSet(DataAt(a)) /\ DataIn(a) = Cardinality(DataAt(a)) /\ DataIn(a) \in Nat
    BY DataCounts
  <1>5. PICK R : R = DataAt(q) \ {1}
    OBVIOUS
  <1>6. DataIn(a) = Cardinality(R) /\ IsFiniteSet(R)
    <2>1. PICK f : f = [i \in DataAt(a) |-> i + 1]
      OBVIOUS
    <2>2. \A i \in DataAt(a) : f[i] = i + 1 /\ i \in Nat /\ i + 1 \in R
      BY <1>2, <1>5, <2>1 DEF DataAt
    <2>3. f \in [DataAt(a) -> R]
      BY <2>1, <2>2
    <2>4. \A i, j \in DataAt(a) : f[i] = f[j] => i = j
      BY <2>2
    <2>5. ASSUME NEW r \in R PROVE \E i \in DataAt(a) : f[i] = r
      <3>1. r \in 2..Len(q) /\ q[r][1] = "data"
        BY <1>2, <1>5 DEF DataAt
      <3>2. r - 1 \in 1..Len(a) /\ (r - 1) + 1 = r
        BY <1>2, <3>1
      <3>3. a[r - 1] = q[r]
        BY <1>2, <3>2
      <3>4. r - 1 \in DataAt(a)
        BY <3>1, <3>2, <3>3 DEF DataAt
      <3> QED
        BY <2>2, <3>2, <3>4
    <2>6. f \in Bijection(DataAt(a), R)
      <3>1. DOMAIN f = DataAt(a)
        BY <2>3
      <3>2. IsInjective(f)
        BY <2>4, <3>1, Zenon DEF IsInjective
      <3> QED
        BY <2>3, <2>5, <3>2, Zenon DEF Bijection, Injection, Surjection
    <2>7. ExistsBijection(DataAt(a), R)
      BY <2>6, Zenon DEF ExistsBijection
    <2> QED
      BY <1>4, <2>7, FS_Bijection
  <1>7. CASE Head(q)[1] = "data"
    <2>1. 1 \in DataAt(q) /\ DataAt(q) = R \cup {1} /\ 1 \notin R
      BY <1>2, <1>5, <1>7 DEF DataAt
    <2>2. Cardinality(R \cup {1}) = Cardinality(R) + 1
      BY <1>6, <2>1, FS_AddElement
    <2>3. DataIn(q) = DataIn(a) + 1
      BY <1>3, <1>6, <2>1, <2>2
    <2> QED
      BY <1>1, <1>7, <2>3 DEF One
  <1>8. CASE Head(q)[1] # "data"
    <2>1. DataAt(q) = R
      BY <1>2, <1>5, <1>8 DEF DataAt
    <2>2. DataIn(q) = DataIn(a) + 0
      BY <1>3, <1>4, <1>6, <2>1
    <2> QED
      BY <1>1, <1>8, <2>2 DEF One
  <1> QED
    BY <1>7, <1>8

-----------------------------------------------------------------------------
(* The steps. *)

\* A queue without its head ...
LEMMA TailOf ==
    ASSUME NEW S, NEW q \in Seq(S), q # << >>
    PROVE  /\ Tail(q) \in Seq(S) /\ Head(q) \in S /\ Head(q) = q[1] /\ 1 \in 1..Len(q)
           /\ Len(q) \in Nat /\ Len(Tail(q)) = Len(q) - 1
           /\ \A i \in 1..Len(Tail(q)) : Tail(q)[i] = q[i + 1] /\ i + 1 \in 1..Len(q)
  <1>1. PICK a : a = Tail(q)
    OBVIOUS
  <1>2. a \in Seq(S) /\ Len(q) \in Nat \ {0} /\ Len(a) = Len(q) - 1
    BY <1>1
  <1>3. Head(q) \in S /\ Head(q) = q[1]
    OBVIOUS
  <1>4. \A i \in 1..Len(a) : a[i] = q[i + 1] /\ i + 1 \in 1..Len(q)
    BY <1>1, <1>2
  <1>5. 1 \in 1..Len(q)
    BY <1>2
  <1> QED
    BY <1>1, <1>2, <1>3, <1>4, <1>5

\* ... and with one more.
LEMMA AppendOf ==
    ASSUME NEW S, NEW q \in Seq(S), NEW x \in S
    PROVE  /\ Append(q, x) \in Seq(S) /\ Len(q) \in Nat /\ Len(Append(q, x)) = Len(q) + 1
           /\ \A i \in 1..Len(Append(q, x)) :
                (i \in 1..Len(q) /\ Append(q, x)[i] = q[i]) \/ (i = Len(q) + 1 /\ Append(q, x)[i] = x)
           /\ \A i \in 1..Len(q) : i \in 1..Len(Append(q, x)) /\ Append(q, x)[i] = q[i]
           /\ Len(q) + 1 \in 1..Len(Append(q, x)) /\ Append(q, x)[Len(q) + 1] = x
  <1>1. PICK a : a = Append(q, x)
    OBVIOUS
  <1>2. a \in Seq(S) /\ Len(q) \in Nat /\ Len(a) = Len(q) + 1 /\ a[Len(q) + 1] = x
    BY <1>1
  <1>3. \A i \in 1..Len(q) : a[i] = q[i]
    BY <1>1
  <1>4. \A i \in 1..Len(a) : (i \in 1..Len(q) /\ a[i] = q[i]) \/ (i = Len(q) + 1 /\ a[i] = x)
    BY <1>2, <1>3
  <1>5. \A i \in 1..Len(q) : i \in 1..Len(a) /\ a[i] = q[i]
    BY <1>2, <1>3
  <1>6. Len(q) + 1 \in 1..Len(a)
    BY <1>2
  <1> QED
    BY <1>1, <1>2, <1>4, <1>5, <1>6

\* The parts of the invariant.
LEMMA RelayKnown ==
    ASSUME RelayInv
    PROVE  /\ relay \in RelayRecords /\ peer \in PeerRecords /\ inp \in Seq(InItems)
           /\ up \in UpRecords /\ (up.st \in {"send", "last"} => up.ev \in UpEvents)
           /\ down \in {"dial", "read", "data", "fin", "done"} /\ orig \in OriginRecords
           /\ queue \in Seq(QueueItems) /\ wr \in WriterRecords(wr.out)
           /\ Chunks /\ Dialling /\ FinQueued /\ FinSaid /\ DataClock /\ Unread
  BY DEF RelayInv, RelayTyped

\* Its numbers.
LEMMA RelayNumbers ==
    ASSUME RelayInv
    PROVE  /\ relay.now \in Nat /\ relay.finAt \in Nat /\ relay.putAt \in Nat /\ relay.put \in Nat
           /\ relay.end \in {"run", "error", "dead", "ok"} /\ relay.fin \in {"none", "fin", "idlefin"}
           /\ orig.wrote \in Nat /\ orig.read \in Nat /\ orig.eof \in BOOLEAN /\ orig.st \in {"none", "open"}
           /\ wr.op \in WriterOps /\ wr.lastData \in Nat /\ wr.counter \in Nat
           /\ wr.peerFin \in BOOLEAN /\ wr.finSent \in BOOLEAN
           /\ up.dialable \in BOOLEAN /\ up.at \in Nat /\ peer.over \in BOOLEAN /\ peer.owes \subseteq Nat
           /\ DataIn(queue) \in Nat
  <1>1. /\ relay \in RelayRecords /\ peer \in PeerRecords /\ up \in UpRecords /\ orig \in OriginRecords
        /\ queue \in Seq(QueueItems) /\ wr \in WriterRecords(wr.out)
    BY RelayKnown
  <1>2. /\ relay.now \in Nat /\ relay.finAt \in Nat /\ relay.putAt \in Nat /\ relay.put \in Nat
        /\ relay.end \in {"run", "error", "dead", "ok"} /\ relay.fin \in {"none", "fin", "idlefin"}
    BY <1>1 DEF RelayRecords
  <1>3. orig.wrote \in Nat /\ orig.read \in Nat /\ orig.eof \in BOOLEAN /\ orig.st \in {"none", "open"}
    BY <1>1 DEF OriginRecords
  <1>4. /\ wr.op \in WriterOps /\ wr.lastData \in Nat /\ wr.counter \in Nat
        /\ wr.peerFin \in BOOLEAN /\ wr.finSent \in BOOLEAN
    BY <1>1 DEF WriterRecords
  <1>5. up.dialable \in BOOLEAN /\ up.at \in Nat /\ peer.over \in BOOLEAN /\ peer.owes \subseteq Nat
    BY <1>1 DEF UpRecords, PeerRecords
  <1>6. DataIn(queue) \in Nat
    BY <1>1, DataCounts
  <1> QED
    BY <1>2, <1>3, <1>4, <1>5, <1>6

\* The edge reader takes a frame and stands somewhere else.
LEMMA UpTakesKeeps ==
    ASSUME RelayInv, inp # << >>, inp' = Tail(inp), up' \in UpRecords, up'.st \in {"send", "last"} => up'.ev \in UpEvents,
           up'.dialable = up.dialable \/ (up'.dialable = FALSE /\ Head(inp)[1] \in {"fin", "eof"}),
           up'.st = "dial" => orig.st = "none" /\ Head(inp)[1] = "data" /\ up'.dialable = up.dialable,
           up'.st = "read" => up' = up,
           UNCHANGED <<relay, peer, down, orig, queue, wr>>
    PROVE  RelayInv'
  <1>0. PICK t \in Seq(InItems) : t = Tail(inp) /\ \A i \in 1..Len(t) : t[i] = inp[i + 1] /\ i + 1 \in 1..Len(inp)
    BY RelayKnown, TailOf
  <1>1. inp' = t
    BY <1>0
  <1>h. Head(inp) = inp[1] /\ 1 \in 1..Len(inp) /\ Len(inp) \in Nat
    BY RelayKnown, TailOf
  <1>l. \A i \in 1..Len(t) : i \in Nat /\ i + 1 > 1
    BY <1>0
  <1>2. RelayTyped'
    BY <1>0, <1>1, RelayKnown DEF RelayTyped, PeerRecords, OriginRecords, WriterRecords
  <1>3. Chunks'
    BY RelayKnown, RelayNumbers DEF Chunks, SaidAll
  <1>4. Dialling'
    <2>1. up'.st = "dial" => orig'.st = "none" /\ up'.dialable
      BY <1>h, RelayKnown, RelayNumbers DEF Dialling
    <2>2. ~up'.dialable => peer.over
      BY <1>h, RelayKnown, RelayNumbers DEF Dialling
    <2>3. ASSUME ~up'.dialable, NEW i \in 1..Len(t) PROVE t[i][1] # "data"
      <3>1. t[i] = inp[i + 1] /\ i + 1 \in 1..Len(inp) /\ i + 1 > 1
        BY <1>0, <1>l
      <3>2. CASE ~up.dialable
        BY <3>1, <3>2, RelayKnown DEF Dialling
      <3>3. CASE up.dialable
        <4>1. inp[1][1] \in {"fin", "eof"}
          BY <1>h, <2>3, <3>3
        <4> QED
          BY <1>h, <3>1, <4>1, RelayKnown DEF Dialling
      <3> QED
        BY <3>2, <3>3
    <2>4. ASSUME NEW i \in 1..Len(t), t[i][1] \in {"fin", "eof"}
          PROVE  peer.over /\ \A j \in 1..Len(t) : j > i => t[j][1] # "data"
      <3>1. t[i] = inp[i + 1] /\ i + 1 \in 1..Len(inp)
        BY <1>0
      <3>2. peer.over /\ \A j \in 1..Len(inp) : j > i + 1 => inp[j][1] # "data"
        BY <2>4, <3>1, RelayKnown DEF Dialling
      <3>3. ASSUME NEW j \in 1..Len(t), j > i PROVE t[j][1] # "data"
        <4>1. t[j] = inp[j + 1] /\ j + 1 \in 1..Len(inp) /\ j + 1 > i + 1
          BY <1>0, <3>3
        <4> QED
          BY <3>2, <4>1
      <3> QED
        BY <3>2, <3>3
    <2> QED
      BY <1>1, <2>1, <2>2, <2>3, <2>4 DEF Dialling
  <1>5. FinQueued' /\ FinSaid' /\ DataClock'
    BY RelayKnown DEF FinQueued, FinSaid, DataClock
  <1>6. Unread'
    <2>1. ASSUME up.st = "read", up.at # relay.now, NEW i \in 1..Len(t), t[i][1] = "ack" PROVE t[i][3] = relay.now
      <3>1. t[i] = inp[i + 1] /\ i + 1 \in 1..Len(inp)
        BY <1>0
      <3> QED
        BY <2>1, <3>1, RelayKnown DEF Unread
    <2> QED
      BY <1>1, <2>1, RelayKnown DEF Unread
  <1> QED
    BY <1>2, <1>3, <1>4, <1>5, <1>6 DEF RelayInv

\* One frame.
LEMMA UpReadsKeeps == ASSUME RelayInv, UpReads PROVE RelayInv'
  <1>0. inp # << >> /\ inp' = Tail(inp) /\ UNCHANGED <<relay, peer, down, orig, queue, wr>> /\ up \in UpRecords /\ up.st = "read"
    BY RelayKnown DEF UpReads
  <1>1. PICK f \in InItems : f = Head(inp)
    BY <1>0, RelayKnown, TailOf
  <1>2. PICK k : k = f[1]
    OBVIOUS
  <1>3. k \in {"data", "empty", "ka", "fin", "eof", "ack"}
    BY <1>2, InItemsAre
  <1>4. Head(inp)[1] = k
    BY <1>1, <1>2
  <1>5. CASE k = "empty"
    <2>1. up' = up
      BY <1>4, <1>5 DEF UpReads
    <2> QED
      BY <1>0, <2>1, UpTakesKeeps
  <1>6. CASE k = "data"
    <2>1. \/ up' = [up EXCEPT !.st = "dial", !.at = relay.now] /\ orig.st = "none"
          \/ up' = [up EXCEPT !.st = "write"]
      BY <1>4, <1>6 DEF UpReads
    <2>2. up' \in UpRecords /\ up'.dialable = up.dialable /\ up'.st \in {"dial", "write"} /\ (up'.st = "dial" => orig.st = "none")
      BY <1>0, <2>1, RelayNumbers DEF UpRecords
    <2> QED
      BY <1>0, <1>4, <1>6, <2>2, UpTakesKeeps
  <1>7. CASE k \in {"ka", "ack"}
    <2>1. PICK ev \in UpEvents : up' = [up EXCEPT !.st = "send", !.ev = ev]
      <3>1. CASE k = "ka"
        <4>1. up' = [up EXCEPT !.st = "send", !.ev = <<"ack">>]
          BY <1>4, <3>1 DEF UpReads, UpSends
        <4> QED
          BY <4>1, QueueItemsAre
      <3>2. CASE k = "ack"
        <4>1. f[2] \in Nat
          BY <1>2, <3>2, InItemsAre
        <4>2. up' = [up EXCEPT !.st = "send", !.ev = <<"acked", f[2]>>]
          BY <1>1, <1>4, <3>2 DEF UpReads, UpSends
        <4> QED
          BY <4>1, <4>2, QueueItemsAre
      <3> QED
        BY <1>7, <3>1, <3>2
    <2>2. up' \in UpRecords /\ up'.dialable = up.dialable /\ up'.st = "send" /\ up'.ev \in UpEvents
      BY <1>0, <2>1 DEF UpRecords
    <2> QED
      BY <1>0, <2>2, UpTakesKeeps
  <1>8. CASE k \in {"fin", "eof"}
    <2>1. PICK ev \in UpEvents : ev = <<"peerfin">>
      BY QueueItemsAre
    <2>2. \/ up' = [up EXCEPT !.st = "send", !.ev = ev, !.dialable = FALSE]
          \/ up' = [up EXCEPT !.st = "last", !.ev = ev, !.dialable = FALSE]
      BY <1>4, <1>8, <2>1 DEF UpReads
    <2>3. up' \in UpRecords /\ up'.dialable = FALSE /\ up'.st \in {"send", "last"} /\ up'.ev \in UpEvents
      BY <1>0, <2>2 DEF UpRecords
    <2> QED
      BY <1>0, <1>4, <1>8, <2>3, UpTakesKeeps
  <1> QED
    BY <1>3, <1>5, <1>6, <1>7, <1>8

\* The dial answers, or ends the relay.
LEMMA UpDialsKeeps == ASSUME RelayInv, NEW ok \in BOOLEAN, UpDials(ok) PROVE RelayInv'
  <1>0. Running /\ up.st = "dial" /\ UNCHANGED <<peer, inp, queue, wr>>
    BY DEF UpDials
  <1>1. CASE ok
    <2>1. orig' = [orig EXCEPT !.st = "open"] /\ up' = [up EXCEPT !.st = "write"] /\ down' = "read" /\ UNCHANGED relay
      BY <1>1 DEF UpDials
    <2>2. orig' \in OriginRecords /\ orig'.st = "open" /\ orig'.wrote = orig.wrote /\ orig'.read = orig.read /\ orig'.eof = orig.eof
      BY <2>1, RelayKnown DEF OriginRecords
    <2>3. up' \in UpRecords /\ up'.st = "write" /\ up'.dialable = up.dialable
      BY <2>1, RelayKnown DEF UpRecords
    <2>4. orig.st = "none" /\ up.dialable = TRUE /\ orig.eof = FALSE
      BY <1>0, RelayKnown, RelayNumbers DEF Dialling, Chunks
    <2>5. down = "dial"
      BY <2>4, RelayKnown DEF Chunks, SaidAll
    <2>6. RelayTyped'
      BY <1>0, <2>1, <2>2, <2>3, RelayKnown DEF RelayTyped
    <2>7. Chunks'
      BY <1>0, <2>1, <2>2, <2>4, <2>5, RelayKnown DEF Chunks, One
    <2>8. Dialling'
      BY <1>0, <2>3, RelayKnown DEF Dialling
    <2>9. FinQueued' /\ FinSaid'
      BY <1>0, <2>1, <2>2, <2>5, RelayKnown DEF FinQueued, FinSaid
    <2>10. DataClock' /\ Unread'
      BY <1>0, <2>1, <2>3, RelayKnown DEF DataClock, Unread
    <2> QED
      BY <2>6, <2>7, <2>8, <2>9, <2>10 DEF RelayInv
  <1>2. CASE ~ok
    <2>1. relay' = [relay EXCEPT !.end = "error"] /\ UNCHANGED <<up, down, orig>>
      BY <1>2 DEF UpDials
    <2>2. /\ relay' \in RelayRecords /\ relay'.end = "error" /\ relay'.now = relay.now /\ relay'.finAt = relay.finAt
          /\ relay'.putAt = relay.putAt /\ relay'.put = relay.put /\ relay'.fin = relay.fin
      BY <2>1, RelayKnown DEF RelayRecords
    <2>3. RelayTyped'
      BY <1>0, <2>1, <2>2, RelayKnown DEF RelayTyped
    <2>4. Chunks' /\ Dialling'
      BY <1>0, <2>1, <2>2, RelayKnown DEF Chunks, SaidAll, Dialling
    <2>5. FinQueued' /\ FinSaid'
      BY <1>0, <2>1, <2>2, RelayKnown DEF FinQueued, FinSaid
    <2>6. DataClock' /\ Unread'
      BY <1>0, <2>1, <2>2, RelayKnown DEF DataClock, Unread
    <2> QED
      BY <2>3, <2>4, <2>5, <2>6 DEF RelayInv
  <1> QED
    BY <1>1, <1>2

\* The Origin takes the bytes.
LEMMA UpWritesKeeps == ASSUME RelayInv, UpWrites PROVE RelayInv'
  <1>0. UNCHANGED <<relay, peer, inp, down, orig, queue, wr>> /\ up' = [up EXCEPT !.st = "read", !.at = relay.now]
    BY DEF UpWrites
  <1>1. up' \in UpRecords /\ up'.st = "read" /\ up'.at = relay.now /\ up'.dialable = up.dialable
    BY <1>0, RelayKnown, RelayNumbers DEF UpRecords
  <1>2. RelayTyped'
    BY <1>0, <1>1, RelayKnown DEF RelayTyped
  <1>3. Chunks' /\ Dialling'
    BY <1>0, <1>1, RelayKnown DEF Chunks, SaidAll, Dialling
  <1>4. FinQueued' /\ FinSaid'
    BY <1>0, RelayKnown DEF FinQueued, FinSaid
  <1>5. DataClock' /\ Unread'
    BY <1>0, <1>1, RelayKnown DEF DataClock, Unread
  <1> QED
    BY <1>2, <1>3, <1>4, <1>5 DEF RelayInv

\* The edge reader's event goes into the queue.
LEMMA UpEnqueuesKeeps == ASSUME RelayInv, UpEnqueues PROVE RelayInv'
  <1>0. up.st \in {"send", "last"} /\ UNCHANGED <<relay, peer, inp, down, orig, wr>> /\ queue' = Append(queue, up.ev) /\ Running
    BY DEF UpEnqueues
  <1>1. PICK x \in UpEvents : x = up.ev
    BY <1>0, RelayKnown
  <1>2. x \in QueueItems /\ x[1] \notin {"data", "fin"}
    BY QueueItemsAre
  <1>3. PICK q \in Seq(QueueItems) : q = Append(queue, x)
    BY <1>2, RelayKnown, AppendOf
  <1>4. /\ \A i \in 1..Len(q) : (i \in 1..Len(queue) /\ q[i] = queue[i]) \/ q[i] = x
        /\ \A i \in 1..Len(queue) : i \in 1..Len(q) /\ q[i] = queue[i]
    BY <1>2, <1>3, RelayKnown, AppendOf
  <1>5. queue' = q
    BY <1>0, <1>1, <1>3
  <1>6. DataIn(q) = DataIn(queue)
    <2>1. DataIn(q) = DataIn(queue) + One(x[1] = "data")
      BY <1>2, <1>3, RelayKnown, DataAppend
    <2> QED
      BY <1>2, <2>1, RelayNumbers DEF One
  <1>7. up' \in UpRecords /\ up'.st \in {"read", "done"} /\ up'.at = relay.now /\ up'.dialable = up.dialable
    BY <1>0, RelayKnown, RelayNumbers DEF UpEnqueues, UpRecords
  <1>8. RelayTyped'
    BY <1>0, <1>5, <1>7, RelayKnown DEF RelayTyped
  <1>9. Chunks' /\ Dialling'
    BY <1>0, <1>5, <1>6, <1>7, RelayKnown DEF Chunks, SaidAll, Dialling
  <1>10. FinQueued'
    <2>1. ASSUME NEW i \in 1..Len(q), q[i][1] = "fin"
          PROVE  down = "done" /\ \A j \in 1..Len(q) : j > i => q[j][1] # "data"
      BY <1>2, <1>4, <2>1, RelayKnown DEF FinQueued
    <2>2. wr.op[1] = "fin" => down = "done" /\ \A j \in 1..Len(q) : q[j][1] # "data"
      BY <1>2, <1>4, RelayKnown DEF FinQueued
    <2>3. down = "done" => wr.finSent \/ wr.op[1] = "fin" \/ \E i \in 1..Len(q) : q[i][1] = "fin"
      BY <1>4, RelayKnown DEF FinQueued
    <2> QED
      BY <1>0, <1>5, <2>1, <2>2, <2>3 DEF FinQueued
  <1>11. FinSaid' /\ DataClock'
    BY <1>0, RelayKnown DEF FinSaid, DataClock
  <1>12. Unread'
    BY <1>0, <1>7, RelayKnown DEF Unread, Running
  <1> QED
    BY <1>8, <1>9, <1>10, <1>11, <1>12 DEF RelayInv

\* No dial will come.
LEMMA NoDialKeeps == ASSUME RelayInv, DownLearnsNoDial PROVE RelayInv'
  <1>0. down = "dial" /\ ~up.dialable /\ orig.st = "none" /\ down' = "fin" /\ UNCHANGED <<relay, peer, inp, up, orig, queue, wr>>
    BY DEF DownLearnsNoDial
  <1>1. RelayTyped'
    BY <1>0, RelayKnown DEF RelayTyped
  <1>2. Chunks'
    BY <1>0, RelayKnown DEF Chunks, SaidAll, One
  <1>3. FinQueued' /\ FinSaid'
    BY <1>0, RelayKnown DEF FinQueued, FinSaid
  <1>4. Dialling' /\ DataClock' /\ Unread'
    BY <1>0, RelayKnown DEF Dialling, DataClock, Unread
  <1> QED
    BY <1>1, <1>2, <1>3, <1>4 DEF RelayInv

\* The Origin reader takes a chunk, or the end.
LEMMA DownReadsKeeps == ASSUME RelayInv, DownReads PROVE RelayInv'
  <1>0. down = "read" /\ UNCHANGED <<relay, peer, inp, up, queue, wr>>
    BY DEF DownReads
  <1>1. CASE orig.read < orig.wrote /\ orig' = [orig EXCEPT !.read = @ + 1] /\ down' = "data"
    <2>1. PICK n \in Nat : n = orig.read + 1
      BY RelayNumbers
    <2>2. orig' = [orig EXCEPT !.read = n]
      BY <1>1, <2>1
    <2>3. orig' \in OriginRecords /\ orig'.read = n /\ orig'.wrote = orig.wrote /\ orig'.eof = orig.eof /\ orig'.st = orig.st
      BY <2>2, RelayKnown DEF OriginRecords
    <2>4. RelayTyped'
      BY <1>0, <1>1, <2>3, RelayKnown DEF RelayTyped
    <2>5. orig'.read <= orig'.wrote
      BY <1>1, <2>1, <2>3, RelayNumbers
    <2>6. ~wr.finSent => relay.put + DataIn(queue) + One(wr.op[1] = "data") + 1 = n
      <3>1. One(down = "data") = 0 /\ One(wr.op[1] = "data") \in Nat
        BY <1>0 DEF One
      <3>2. ~wr.finSent => relay.put + DataIn(queue) + One(wr.op[1] = "data") + One(down = "data") = orig.read
        BY RelayKnown DEF Chunks
      <3> QED
        BY <2>1, <3>1, <3>2, RelayNumbers
    <2>7. Chunks'
      <3>1. One(down' = "data") = 1
        BY <1>1 DEF One
      <3>2. orig.st # "none"
        BY <1>0, RelayKnown DEF Chunks
      <3> QED
        BY <1>0, <1>1, <2>3, <2>5, <2>6, <3>1, <3>2 DEF Chunks
    <2>8. FinQueued' /\ FinSaid'
      BY <1>0, <1>1, <2>3, RelayKnown DEF FinQueued, FinSaid
    <2>9. Dialling' /\ DataClock' /\ Unread'
      BY <1>0, <2>3, RelayKnown DEF Dialling, DataClock, Unread
    <2> QED
      BY <2>4, <2>7, <2>8, <2>9 DEF RelayInv
  <1>2. CASE orig.read = orig.wrote /\ orig.eof /\ down' = "fin" /\ UNCHANGED orig
    <2>1. RelayTyped'
      BY <1>0, <1>2, RelayKnown DEF RelayTyped
    <2>2. Chunks'
      BY <1>0, <1>2, RelayKnown DEF Chunks, SaidAll, One
    <2>3. FinQueued' /\ FinSaid'
      BY <1>0, <1>2, RelayKnown DEF FinQueued, FinSaid
    <2>4. Dialling' /\ DataClock' /\ Unread'
      BY <1>0, <1>2, RelayKnown DEF Dialling, DataClock, Unread
    <2> QED
      BY <2>1, <2>2, <2>3, <2>4 DEF RelayInv
  <1> QED
    BY <1>1, <1>2 DEF DownReads

\* The chunk, or the FIN, goes into the queue.
LEMMA DownEnqueuesKeeps == ASSUME RelayInv, DownEnqueues PROVE RelayInv'
  <1>0. /\ Running /\ down \in {"data", "fin"} /\ UNCHANGED <<relay, peer, inp, up, orig, wr>>
        /\ queue' = Append(queue, <<down>>) /\ down' = IF down = "fin" THEN "done" ELSE "read"
    BY DEF DownEnqueues
  <1>1. PICK x \in QueueItems : x = <<down>> /\ x[1] = down
    BY <1>0, QueueItemsAre
  <1>2. PICK q \in Seq(QueueItems) : q = Append(queue, x)
    BY RelayKnown, AppendOf
  <1>3. /\ \A i \in 1..Len(q) : (i \in 1..Len(queue) /\ q[i] = queue[i]) \/ (i = Len(queue) + 1 /\ q[i] = x)
        /\ Len(q) = Len(queue) + 1 /\ Len(queue) \in Nat /\ Len(queue) + 1 \in 1..Len(q) /\ q[Len(queue) + 1] = x
    BY <1>2, RelayKnown, AppendOf
  <1>4. queue' = q
    BY <1>0, <1>1, <1>2
  <1>5. DataIn(q) = DataIn(queue) + One(down = "data")
    <2>1. DataIn(q) = DataIn(queue) + One(x[1] = "data")
      BY <1>2, RelayKnown, DataAppend
    <2> QED
      BY <1>1, <2>1
  <1>6. down # "done" /\ (\A i \in 1..Len(queue) : queue[i][1] # "fin") /\ wr.op[1] # "fin"
    BY <1>0, RelayKnown DEF FinQueued
  <1>7. RelayTyped'
    BY <1>0, <1>4, RelayKnown DEF RelayTyped
  <1>8. Chunks'
    <2>1. One(down' = "data") = 0 /\ One(wr.op[1] = "data") \in Nat /\ One(down = "data") \in Nat
      BY <1>0 DEF One
    <2>2. ~wr.finSent => relay.put + DataIn(queue) + One(wr.op[1] = "data") + One(down = "data") = orig.read
      BY RelayKnown DEF Chunks
    <2>3. ~wr.finSent => relay.put + DataIn(q) + One(wr.op[1] = "data") + 0 = orig.read
      BY <1>5, <2>1, <2>2, RelayNumbers
    <2>4. down = "fin" => SaidAll
      BY RelayKnown DEF Chunks
    <2>5. down = "data" => orig.st # "none"
      BY RelayKnown DEF Chunks
    <2> QED
      BY <1>0, <1>4, <2>1, <2>3, <2>4, <2>5, RelayKnown DEF Chunks, SaidAll
  <1>9. FinQueued'
    <2>1. CASE down = "fin"
      <3>1. ASSUME NEW i \in 1..Len(q), q[i][1] = "fin"
            PROVE  \A j \in 1..Len(q) : j > i => q[j][1] # "data"
        <4>1. i = Len(queue) + 1
          BY <1>3, <1>6, <3>1
        <4> QED
          BY <1>3, <4>1
      <3>2. \E i \in 1..Len(q) : q[i][1] = "fin"
        BY <1>1, <1>3, <2>1
      <3> QED
        BY <1>0, <1>4, <1>6, <2>1, <3>1, <3>2 DEF FinQueued
    <2>2. CASE down = "data"
      <3>1. \A i \in 1..Len(q) : q[i][1] # "fin"
        BY <1>1, <1>3, <1>6, <2>2
      <3> QED
        BY <1>0, <1>4, <1>6, <2>2, <3>1 DEF FinQueued
    <2> QED
      BY <1>0, <2>1, <2>2
  <1>10. FinSaid'
    BY <1>0, <1>6, RelayKnown DEF FinSaid
  <1>11. Dialling' /\ DataClock' /\ Unread'
    BY <1>0, RelayKnown DEF Dialling, DataClock, Unread, Running
  <1> QED
    BY <1>7, <1>8, <1>9, <1>10, <1>11 DEF RelayInv

DatalessQueue(q) == \A j \in 1..Len(q) : q[j][1] # "data"
FinsAfterData(q) ==
    \A i \in 1..Len(q) : q[i][1] = "fin" => down = "done" /\ \A j \in 1..Len(q) : j > i => q[j][1] # "data"

\* The queue without its head: what is said of the FIN in it.
LEMMA FinInTail ==
    ASSUME RelayInv, queue # << >>, NEW t, t = Tail(queue)
    PROVE  /\ t \in Seq(QueueItems) /\ Head(queue) \in QueueItems
           /\ DataIn(queue) = DataIn(t) + One(Head(queue)[1] = "data")
           /\ FinsAfterData(t)
           /\ wr.op[1] = "fin" => down = "done" /\ DatalessQueue(t)
           /\ Head(queue)[1] = "fin" => down = "done" /\ DatalessQueue(t)
           /\ down = "done" => \/ wr.finSent \/ wr.op[1] = "fin" \/ Head(queue)[1] = "fin"
                               \/ \E i \in 1..Len(t) : t[i][1] = "fin"
  <1>0. queue \in Seq(QueueItems) /\ FinQueued
    BY RelayKnown
  <1>1. PICK h : h = Head(queue)
    OBVIOUS
  <1>2. /\ t \in Seq(QueueItems) /\ h \in QueueItems /\ h = queue[1] /\ 1 \in 1..Len(queue)
        /\ Len(queue) \in Nat /\ Len(t) = Len(queue) - 1
        /\ \A i \in 1..Len(t) : t[i] = queue[i + 1] /\ i + 1 \in 1..Len(queue)
    BY <1>0, <1>1, TailOf
  <1>3. DataIn(queue) = DataIn(t) + One(Head(queue)[1] = "data")
    BY <1>0, DataTail
  <1>4. ASSUME NEW i \in 1..Len(t), t[i][1] = "fin"
        PROVE  down = "done" /\ \A j \in 1..Len(t) : j > i => t[j][1] # "data"
    <2>1. t[i] = queue[i + 1] /\ i + 1 \in 1..Len(queue)
      BY <1>2
    <2>2. down = "done" /\ \A j \in 1..Len(queue) : j > i + 1 => queue[j][1] # "data"
      BY <1>0, <1>4, <2>1 DEF FinQueued
    <2>3. ASSUME NEW j \in 1..Len(t), j > i PROVE t[j][1] # "data"
      <3>1. t[j] = queue[j + 1] /\ j + 1 \in 1..Len(queue) /\ j + 1 > i + 1
        BY <1>2, <2>3
      <3> QED
        BY <2>2, <3>1
    <2> QED
      BY <2>2, <2>3
  <1>5. wr.op[1] = "fin" => down = "done" /\ DatalessQueue(t)
    BY <1>0, <1>2 DEF FinQueued, DatalessQueue
  <1>6. ASSUME h[1] = "fin" PROVE down = "done" /\ \A j \in 1..Len(t) : t[j][1] # "data"
    <2>1. down = "done" /\ \A j \in 1..Len(queue) : j > 1 => queue[j][1] # "data"
      BY <1>0, <1>2, <1>6 DEF FinQueued
    <2>2. ASSUME NEW j \in 1..Len(t) PROVE t[j][1] # "data"
      <3>1. t[j] = queue[j + 1] /\ j + 1 \in 1..Len(queue) /\ j + 1 > 1
        BY <1>2
      <3> QED
        BY <2>1, <3>1
    <2> QED
      BY <2>1, <2>2
  <1>7. ASSUME down = "done"
        PROVE  wr.finSent \/ wr.op[1] = "fin" \/ h[1] = "fin" \/ \E i \in 1..Len(t) : t[i][1] = "fin"
    <2>1. CASE \E i \in 1..Len(queue) : queue[i][1] = "fin"
      <3>1. PICK i \in 1..Len(queue) : queue[i][1] = "fin"
        BY <2>1
      <3>2. CASE i = 1
        BY <1>2, <3>1, <3>2
      <3>3. CASE i # 1
        <4>1. i - 1 \in 1..Len(t) /\ (i - 1) + 1 = i
          BY <1>2, <3>3
        <4>2. t[i - 1] = queue[i]
          BY <1>2, <4>1
        <4> QED
          BY <3>1, <4>1, <4>2
      <3> QED
        BY <3>2, <3>3
    <2> QED
      BY <1>0, <1>7, <2>1 DEF FinQueued
  <1>8. FinsAfterData(t)
    BY <1>4, Zenon DEF FinsAfterData
  <1>9. h[1] = "fin" => down = "done" /\ DatalessQueue(t)
    BY <1>6 DEF DatalessQueue
  <1> QED
    BY <1>1, <1>2, <1>3, <1>5, <1>7, <1>8, <1>9

\* An event that puts nothing on the wire ...
LEMMA BookkeepingKeeps ==
    ASSUME RelayInv, Running, wr.op = NoOp, queue # << >>, queue' = Tail(queue), Head(queue)[1] \in {"acked", "peerfin"},
           ApplyBookkeeping(Head(queue)), UNCHANGED <<peer, inp, up, down, orig>>
    PROVE  RelayInv'
  <1>0. PICK t : t = Tail(queue)
    OBVIOUS
  <1>1. queue' = t
    BY <1>0
  <1>2. PICK h : h = Head(queue)
    OBVIOUS
  <1>3. h[1] \notin {"data", "fin"} /\ h[1] \in {"acked", "peerfin"}
    BY <1>2
  <1>4. One(h[1] = "data") = 0
    BY <1>3 DEF One
  <1>5. DataIn(queue) = DataIn(t)
    <2>1. DataIn(queue) = DataIn(t) + One(Head(queue)[1] = "data") /\ t \in Seq(QueueItems)
      BY <1>0, FinInTail
    <2>2. DataIn(t) \in Nat
      BY <2>1, DataCounts
    <2> QED
      BY <1>2, <1>4, <2>1, <2>2
  <1>7. /\ wr' \in WriterRecords(wr'.out) /\ wr'.op = wr.op /\ wr'.finSent = wr.finSent
        /\ relay' \in RelayRecords /\ relay'.now = relay.now /\ relay'.end = relay.end /\ relay'.putAt = relay.putAt
        /\ relay'.put = relay.put /\ relay'.fin = relay.fin
        /\ \/ relay'.finAt = relay.finAt /\ wr'.peerFin = wr.peerFin /\ wr'.lastData = wr.lastData
           \/ wr.peerFin = FALSE /\ wr'.peerFin = TRUE /\ wr'.lastData = relay.now /\ relay'.finAt = relay.now
    <2>1. CASE h[1] = "acked"
      <3>1. PICK s : s = Settle(wr.out, h[2])
        OBVIOUS
      <3>2. wr' = [wr EXCEPT !.out = s] /\ relay' = relay
        BY <1>2, <2>1, <3>1 DEF ApplyBookkeeping
      <3>3. wr' \in WriterRecords(wr'.out) /\ wr'.op = wr.op /\ wr'.finSent = wr.finSent /\ wr'.peerFin = wr.peerFin /\ wr'.lastData = wr.lastData
        BY <3>2, RelayKnown DEF WriterRecords
      <3> QED
        BY <3>2, <3>3, RelayKnown
    <2>2. CASE h[1] = "peerfin"
      <3>1. CASE wr.peerFin
        <4>1. wr' = [wr EXCEPT !.peerFin = TRUE, !.out = << >>, !.lastData = wr.lastData] /\ relay' = relay
          BY <1>2, <2>2, <3>1 DEF ApplyBookkeeping
        <4>2. wr' \in WriterRecords(wr'.out) /\ wr'.op = wr.op /\ wr'.finSent = wr.finSent /\ wr'.peerFin = TRUE /\ wr'.lastData = wr.lastData
          BY <4>1, RelayKnown DEF WriterRecords
        <4> QED
          BY <3>1, <4>1, <4>2, RelayKnown, RelayNumbers
      <3>2. CASE ~wr.peerFin
        <4>1. wr' = [wr EXCEPT !.peerFin = TRUE, !.out = << >>, !.lastData = relay.now] /\ relay' = [relay EXCEPT !.finAt = relay.now]
          BY <1>2, <2>2, <3>2 DEF ApplyBookkeeping
        <4>2. wr' \in WriterRecords(wr'.out) /\ wr'.op = wr.op /\ wr'.finSent = wr.finSent /\ wr'.peerFin = TRUE /\ wr'.lastData = relay.now
          BY <4>1, RelayKnown, RelayNumbers DEF WriterRecords
        <4>3. /\ relay' \in RelayRecords /\ relay'.now = relay.now /\ relay'.end = relay.end /\ relay'.putAt = relay.putAt
              /\ relay'.put = relay.put /\ relay'.fin = relay.fin /\ relay'.finAt = relay.now
          BY <4>1, RelayKnown, RelayNumbers DEF RelayRecords
        <4> QED
          BY <3>2, <4>2, <4>3, RelayNumbers
      <3> QED
        BY <3>1, <3>2
    <2> QED
      BY <1>3, <2>1, <2>2
  <1>8. RelayTyped'
    BY <1>0, <1>1, <1>7, FinInTail, RelayKnown DEF RelayTyped
  <1>9. Chunks'
    BY <1>1, <1>5, <1>7, RelayKnown, ZenonT(40) DEF Chunks, SaidAll
  <1>d. Dialling'
    BY RelayKnown DEF Dialling
  <1>10. FinQueued'
    <2>1. FinsAfterData(t) /\ (wr.op[1] = "fin" => down = "done" /\ DatalessQueue(t))
      BY <1>0, FinInTail
    <2>2. down = "done" => wr.finSent \/ wr.op[1] = "fin" \/ \E i \in 1..Len(t) : t[i][1] = "fin"
      BY <1>0, <1>2, <1>3, FinInTail
    <2> QED
      BY <1>1, <1>7, <2>1, <2>2, ZenonT(40) DEF FinQueued, FinsAfterData, DatalessQueue
  <1>11. FinSaid'
    BY <1>7, RelayKnown DEF FinSaid
  <1>12. DataClock'
    <2>1. relay.putAt <= relay.now /\ relay.finAt <= relay.now
      BY RelayKnown DEF DataClock
    <2>2. Latest(relay.now, relay.putAt) = relay.now /\ relay.now <= relay.now
      BY <2>1, RelayNumbers, SMTT(30) DEF Latest
    <2>3. CASE relay'.finAt = relay.finAt /\ wr'.peerFin = wr.peerFin /\ wr'.lastData = wr.lastData
      BY <1>7, <2>3, RelayKnown DEF DataClock
    <2>4. CASE wr'.peerFin = TRUE /\ wr'.lastData = relay.now /\ relay'.finAt = relay.now
      BY <1>7, <2>1, <2>2, <2>4 DEF DataClock
    <2> QED
      BY <1>7, <2>3, <2>4
  <1>13. Unread'
    <2>1. relay'.end # "dead"
      BY <1>7 DEF Running
    <2> QED
      BY <1>7, <2>1, RelayKnown DEF Unread
  <1> QED
    BY <1>8, <1>9, <1>d, <1>10, <1>11, <1>12, <1>13 DEF RelayInv

\* ... and one that is to be written.
LEMMA WriterTakesKeeps == ASSUME RelayInv, WriterTakes PROVE RelayInv'
  <1>0. Running /\ wr.op = NoOp /\ queue # << >> /\ queue' = Tail(queue) /\ UNCHANGED <<peer, inp, up, down, orig>>
    BY DEF WriterTakes
  <1>1. CASE Head(queue)[1] \in {"acked", "peerfin"}
    <2>1. ApplyBookkeeping(Head(queue))
      BY <1>1 DEF WriterTakes
    <2> QED
      BY <1>0, <1>1, <2>1, BookkeepingKeeps
  <1>2. CASE Head(queue)[1] \notin {"acked", "peerfin"}
    <2>1. PICK h \in QueueItems : h = Head(queue)
      BY <1>0, FinInTail
    <2>2. wr' = [wr EXCEPT !.op = h] /\ UNCHANGED relay
      BY <1>2, <2>1 DEF WriterTakes
    <2>3. h \in WriterOps /\ h[1] # "idlefin"
      BY <1>2, <2>1, WriterOpsAre, QueueItemsAre
    <2>4. /\ wr' \in WriterRecords(wr'.out) /\ wr'.op = h /\ wr'.finSent = wr.finSent /\ wr'.peerFin = wr.peerFin
          /\ wr'.lastData = wr.lastData
      BY <2>2, <2>3, RelayKnown DEF WriterRecords
    <2>5. PICK t : t = Tail(queue)
      OBVIOUS
    <2>6. queue' = t
      BY <1>0, <2>5
    <2>7. wr.op[1] = "none"
      BY <1>0, WriterOpsAre
    <2>8. RelayTyped'
      BY <1>0, <2>2, <2>4, <2>5, <2>6, FinInTail, RelayKnown DEF RelayTyped
    <2>9. Chunks'
      <3>1. DataIn(queue) = DataIn(t) + One(h[1] = "data") /\ t \in Seq(QueueItems)
        BY <1>0, <2>1, <2>5, FinInTail
      <3>2. One(wr.op[1] = "data") = 0 /\ One(h[1] = "data") \in Nat /\ One(down = "data") \in Nat
        BY <2>7 DEF One
      <3>3. DataIn(t) \in Nat
        BY <3>1, DataCounts
      <3>4. ~wr.finSent => relay.put + DataIn(queue) + One(wr.op[1] = "data") + One(down = "data") = orig.read
        BY RelayKnown DEF Chunks
      <3>5. ~wr.finSent => relay.put + DataIn(t) + One(h[1] = "data") + One(down = "data") = orig.read
        BY <3>1, <3>2, <3>3, <3>4, RelayNumbers
      <3> QED
        BY <1>0, <2>2, <2>4, <2>6, <3>5, RelayKnown DEF Chunks, SaidAll
    <2>10. FinQueued'
      <3>1. FinsAfterData(t) /\ (h[1] = "fin" => down = "done" /\ DatalessQueue(t))
        BY <1>0, <2>1, <2>5, FinInTail
      <3>2. down = "done" => wr.finSent \/ h[1] = "fin" \/ \E i \in 1..Len(t) : t[i][1] = "fin"
        BY <1>0, <2>1, <2>5, <2>7, FinInTail
      <3> QED
        BY <1>0, <2>4, <2>6, <3>1, <3>2 DEF FinQueued, FinsAfterData, DatalessQueue
    <2>11. FinSaid'
      BY <1>0, <2>2, <2>3, <2>4, RelayKnown DEF FinSaid
    <2>12. Dialling' /\ DataClock'
      BY <1>0, <2>2, <2>4, RelayKnown DEF Dialling, DataClock
    <2>13. Unread'
      BY <1>0, <2>2, RelayKnown DEF Unread, Running
    <2> QED
      BY <2>8, <2>9, <2>10, <2>11, <2>12, <2>13 DEF RelayInv
  <1> QED
    BY <1>1, <1>2

\* The writer turns to something of its own that carries no data.
LEMMA WriterTurnsKeeps ==
    ASSUME RelayInv, Running, wr.op = NoOp, wr' \in WriterRecords(wr'.out), wr'.op[1] \notin {"data", "fin"},
           wr'.op[1] = "idlefin" => wr.peerFin, wr'.finSent = wr.finSent, wr'.peerFin = wr.peerFin,
           wr'.lastData = wr.lastData, UNCHANGED <<relay, peer, inp, up, down, orig, queue>>
    PROVE  RelayInv'
  <1>0. wr.op[1] = "none"
    BY WriterOpsAre
  <1>1. RelayTyped'
    BY RelayKnown DEF RelayTyped
  <1>2. One(wr'.op[1] = "data") = 0 /\ One(wr.op[1] = "data") = 0
    BY <1>0 DEF One
  <1>3. Chunks'
    BY <1>2, RelayKnown DEF Chunks, SaidAll
  <1>4. FinQueued'
    BY <1>0, RelayKnown DEF FinQueued
  <1>5. FinSaid'
    BY RelayKnown DEF FinSaid
  <1>6. Dialling' /\ DataClock' /\ Unread'
    BY RelayKnown DEF Dialling, DataClock, Unread
  <1> QED
    BY <1>1, <1>3, <1>4, <1>5, <1>6 DEF RelayInv

\* A keepalive.
LEMMA WriterKeepaliveKeeps == ASSUME RelayInv, WriterKeepalive PROVE RelayInv'
  <1>0. PICK n \in Nat : n = wr.counter + 1
    BY RelayNumbers
  <1>1. PICK k \in WriterOps : k = <<"ka">> /\ k[1] = "ka"
    BY WriterOpsAre
  <1>2. wr' = [wr EXCEPT !.counter = n, !.op = k] /\ Running /\ wr.op = NoOp /\ UNCHANGED <<relay, peer, inp, up, down, orig, queue>>
    BY <1>0, <1>1 DEF WriterKeepalive, Selecting
  <1>3. /\ wr' \in WriterRecords(wr'.out) /\ wr'.op = k /\ wr'.finSent = wr.finSent /\ wr'.peerFin = wr.peerFin
        /\ wr'.lastData = wr.lastData
    BY <1>2, RelayKnown DEF WriterRecords
  <1> QED
    BY <1>1, <1>2, <1>3, WriterTurnsKeeps

\* The FIN of the idle bound.
LEMMA WriterIdleFinKeeps == ASSUME RelayInv, WriterIdleFin PROVE RelayInv'
  <1>1. PICK k \in WriterOps : k = <<"idlefin">> /\ k[1] = "idlefin"
    BY WriterOpsAre
  <1>2. wr' = [wr EXCEPT !.op = k] /\ Running /\ wr.op = NoOp /\ wr.peerFin /\ UNCHANGED <<relay, peer, inp, up, down, orig, queue>>
    BY <1>1 DEF WriterIdleFin, Selecting
  <1>3. /\ wr' \in WriterRecords(wr'.out) /\ wr'.op = k /\ wr'.finSent = wr.finSent /\ wr'.peerFin = wr.peerFin
        /\ wr'.lastData = wr.lastData
    BY <1>2, RelayKnown DEF WriterRecords
  <1> QED
    BY <1>1, <1>2, <1>3, WriterTurnsKeeps

\* The deadline of a dead peer, and the verdict it does not come to.
LEMMA WriterModeKeeps ==
    ASSUME RelayInv, Running, wr.op = NoOp, NEW m \in {"select", "drain"}, wr' = [wr EXCEPT !.mode = m],
           UNCHANGED <<relay, peer, inp, up, down, orig, queue>>
    PROVE  RelayInv'
  <1>1. /\ wr' \in WriterRecords(wr'.out) /\ wr'.op = wr.op /\ wr'.finSent = wr.finSent /\ wr'.peerFin = wr.peerFin
        /\ wr'.lastData = wr.lastData
    BY RelayKnown DEF WriterRecords
  <1>2. wr.op[1] = "none"
    BY WriterOpsAre
  <1> QED
    BY <1>1, <1>2, WriterTurnsKeeps

\* The relay ends.
LEMMA RelayClosesKeeps ==
    ASSUME RelayInv, NEW e \in {"dead", "ok"}, relay' = [relay EXCEPT !.end = e], e = "dead" => queue = << >>,
           e = "ok" => relay.fin # "none", UNCHANGED <<peer, inp, up, down, orig, queue, wr>>
    PROVE  RelayInv'
  <1>1. /\ relay' \in RelayRecords /\ relay'.end = e /\ relay'.now = relay.now /\ relay'.finAt = relay.finAt
        /\ relay'.putAt = relay.putAt /\ relay'.put = relay.put /\ relay'.fin = relay.fin
    BY RelayKnown DEF RelayRecords
  <1>2. RelayTyped'
    BY <1>1, RelayKnown DEF RelayTyped
  <1>3. Chunks' /\ Dialling'
    BY <1>1, RelayKnown DEF Chunks, SaidAll, Dialling
  <1>4. FinQueued' /\ FinSaid'
    BY <1>1, RelayKnown DEF FinQueued, FinSaid
  <1>5. DataClock' /\ Unread'
    BY <1>1, RelayKnown DEF DataClock, Unread
  <1> QED
    BY <1>2, <1>3, <1>4, <1>5 DEF RelayInv

\* The verdict.
LEMMA WriterJudgesKeeps == ASSUME RelayInv, WriterJudges PROVE RelayInv'
  <1>1. CASE Due
    <2>1. relay' = [relay EXCEPT !.end = "dead"] /\ queue = << >> /\ UNCHANGED <<peer, inp, up, down, orig, queue, wr>>
      BY <1>1 DEF WriterJudges
    <2> QED
      BY <2>1, RelayClosesKeeps
  <1>2. CASE ~Due
    <2>1. wr' = [wr EXCEPT !.mode = "select"] /\ Running /\ wr.op = NoOp /\ UNCHANGED <<relay, peer, inp, up, down, orig, queue>>
      BY <1>2 DEF WriterJudges
    <2> QED
      BY <2>1, WriterModeKeeps
  <1> QED
    BY <1>1, <1>2

\* The good end: a FIN of the agent's own has gone out.
LEMMA WriterEndsKeeps == ASSUME RelayInv, WriterEnds PROVE RelayInv'
  <1>0. wr.op[1] = "none"
    BY WriterOpsAre DEF WriterEnds
  <1>1. relay' = [relay EXCEPT !.end = "ok"] /\ UNCHANGED <<peer, inp, up, down, orig, queue, wr>>
    BY DEF WriterEnds
  <1>2. wr.finSent
    <2>1. CASE BothFins
      BY <2>1 DEF BothFins
    <2>2. CASE down = "done" /\ queue = << >>
      <3>1. 1..Len(queue) = {}
        BY <2>2
      <3> QED
        BY <1>0, <2>2, <3>1, RelayKnown DEF FinQueued
    <2> QED
      BY <2>1, <2>2 DEF WriterEnds
  <1>3. relay.fin # "none"
    BY <1>2, RelayKnown DEF FinSaid
  <1> QED
    BY <1>1, <1>3, RelayClosesKeeps

\* The edge took what the writer wrote: what does not depend on what it was.
LEMMA WroteKeeps ==
    ASSUME RelayInv, Running, wr' \in WriterRecords(wr'.out), wr'.op = NoOp, wr'.peerFin = wr.peerFin,
           wr.finSent \/ wr.op[1] = "fin" => wr'.finSent, peer' \in PeerRecords, peer'.over = peer.over,
           relay' \in RelayRecords, relay'.now = relay.now, relay'.end = relay.end,
           Chunks', FinSaid', DataClock', UNCHANGED <<inp, up, down, orig, queue>>
    PROVE  RelayInv'
  <1>0. wr'.op[1] = "none"
    BY WriterOpsAre
  <1>1. RelayTyped'
    BY RelayKnown DEF RelayTyped
  <1>2. Dialling'
    BY RelayKnown DEF Dialling
  <1>3. FinQueued'
    BY <1>0, RelayKnown DEF FinQueued
  <1>4. relay'.end # "dead"
    BY DEF Running
  <1>5. Unread'
    BY <1>4, RelayKnown DEF Unread
  <1> QED
    BY <1>1, <1>2, <1>3, <1>5 DEF RelayInv

\* A chunk.
LEMMA DataWrittenKeeps == ASSUME RelayInv, WriterWrites, wr.op[1] = "data" PROVE RelayInv'
  <1>0. Running /\ UNCHANGED <<inp, up, down, orig, queue>> /\ peer' = peer
    BY DEF WriterWrites
  <1>1. wr' = [wr EXCEPT !.op = NoOp, !.lastWrite = relay.now, !.lastData = relay.now, !.finSent = wr.finSent, !.out = wr.out]
    BY RelayNumbers DEF WriterWrites
  <1>2. /\ wr' \in WriterRecords(wr'.out) /\ wr'.op = NoOp /\ wr'.finSent = wr.finSent /\ wr'.peerFin = wr.peerFin
        /\ wr'.lastData = relay.now
    BY <1>1, RelayKnown, RelayNumbers, WriterOpsAre DEF WriterRecords
  <1>n. wr'.op[1] = "none"
    BY <1>2, WriterOpsAre
  <1>3. CASE wr.finSent
    <2>1. relay' = relay
      BY <1>3 DEF WriterWrites
    <2>2. Chunks'
      BY <1>0, <1>2, <1>3, RelayKnown DEF Chunks, SaidAll
    <2>3. FinSaid' /\ DataClock'
      BY <1>0, <1>2, <1>3, <1>n, <2>1, RelayKnown DEF FinSaid, DataClock
    <2> QED
      BY <1>0, <1>2, <1>3, <2>1, <2>2, <2>3, RelayKnown, WroteKeeps
  <1>4. CASE ~wr.finSent
    <2>1. PICK n \in Nat : n = relay.put + 1
      BY RelayNumbers
    <2>2. relay' = [relay EXCEPT !.put = n, !.putAt = relay.now]
      BY <1>4, <2>1 DEF WriterWrites
    <2>3. /\ relay' \in RelayRecords /\ relay'.now = relay.now /\ relay'.end = relay.end /\ relay'.finAt = relay.finAt
          /\ relay'.putAt = relay.now /\ relay'.put = n /\ relay'.fin = relay.fin
      BY <2>2, RelayKnown, RelayNumbers DEF RelayRecords
    <2>4. Chunks'
      <3>1. One(wr.op[1] = "data") = 1 /\ One(wr'.op[1] = "data") = 0 /\ One(down = "data") \in Nat
        BY <1>n DEF One
      <3>2. relay.put + DataIn(queue) + One(wr.op[1] = "data") + One(down = "data") = orig.read
        BY <1>4, RelayKnown DEF Chunks
      <3>3. n + DataIn(queue) + One(wr'.op[1] = "data") + One(down = "data") = orig.read
        BY <2>1, <3>1, <3>2, RelayNumbers
      <3> QED
        BY <1>0, <2>3, <3>3, RelayKnown DEF Chunks, SaidAll
    <2>5. relay.fin = "none"
      BY <1>4, RelayKnown DEF FinSaid
    <2>6. FinSaid'
      BY <1>0, <1>2, <1>4, <1>n, <2>3, <2>5, RelayKnown DEF FinSaid
    <2>7. DataClock'
      <3>1. relay.finAt <= relay.now
        BY RelayKnown DEF DataClock
      <3>2. Latest(relay.finAt, relay.now) = relay.now /\ relay.now <= relay.now
        BY <3>1, RelayNumbers DEF Latest
      <3> QED
        BY <1>2, <2>3, <3>1, <3>2 DEF DataClock
    <2> QED
      BY <1>0, <1>2, <1>4, <2>3, <2>4, <2>6, <2>7, RelayKnown, WroteKeeps
  <1> QED
    BY <1>3, <1>4

\* A FIN, over the Origin's EOF or over the idle bound.
LEMMA FinWrittenKeeps == ASSUME RelayInv, WriterWrites, wr.op[1] \in {"fin", "idlefin"} PROVE RelayInv'
  <1>0. Running /\ UNCHANGED <<inp, up, down, orig, queue>> /\ peer' = peer
    BY DEF WriterWrites
  <1>1. wr' = [wr EXCEPT !.op = NoOp, !.lastWrite = relay.now, !.lastData = wr.lastData, !.finSent = TRUE, !.out = wr.out]
    BY RelayNumbers DEF WriterWrites
  <1>2. wr' \in WriterRecords(wr'.out) /\ wr'.op = NoOp /\ wr'.finSent = TRUE /\ wr'.peerFin = wr.peerFin
    BY <1>1, RelayKnown, RelayNumbers, WriterOpsAre DEF WriterRecords
  <1>n. wr'.op[1] = "none"
    BY <1>2, WriterOpsAre
  <1>3. CASE wr.finSent
    <2>1. relay' = relay
      BY <1>3 DEF WriterWrites
    <2>2. Chunks'
      BY <1>0, <1>2, RelayKnown DEF Chunks, SaidAll
    <2>3. FinSaid' /\ DataClock'
      BY <1>0, <1>2, <1>3, <1>n, <2>1, RelayKnown DEF FinSaid, DataClock
    <2> QED
      BY <1>0, <1>2, <2>1, <2>2, <2>3, RelayKnown, WroteKeeps
  <1>4. CASE ~wr.finSent
    <2>1. PICK k \in {"fin", "idlefin"} : k = wr.op[1]
      OBVIOUS
    <2>2. relay' = [relay EXCEPT !.fin = k]
      BY <1>4, <2>1 DEF WriterWrites
    <2>3. /\ relay' \in RelayRecords /\ relay'.now = relay.now /\ relay'.end = relay.end /\ relay'.finAt = relay.finAt
          /\ relay'.putAt = relay.putAt /\ relay'.put = relay.put /\ relay'.fin = k
      BY <2>2, RelayKnown DEF RelayRecords
    <2>4. Chunks'
      BY <1>0, <1>2, RelayKnown DEF Chunks, SaidAll
    <2>5. ASSUME k = "fin" PROVE down = "done" /\ relay.put = orig.wrote
      <3>1. down = "done" /\ \A j \in 1..Len(queue) : queue[j][1] # "data"
        BY <2>1, <2>5, RelayKnown DEF FinQueued
      <3>2. DataIn(queue) = 0
        BY <3>1, RelayKnown, NoData
      <3>3. One(wr.op[1] = "data") = 0 /\ One(down = "data") = 0
        BY <2>1, <3>1 DEF One
      <3>4. relay.put + DataIn(queue) + One(wr.op[1] = "data") + One(down = "data") = orig.read /\ orig.read = orig.wrote
        BY <1>4, <3>1, RelayKnown DEF Chunks, SaidAll
      <3> QED
        BY <3>1, <3>2, <3>3, <3>4, RelayNumbers
    <2>6. k = "idlefin" => wr.peerFin
      BY <2>1, RelayKnown DEF FinSaid
    <2>7. FinSaid'
      BY <1>0, <1>2, <1>n, <2>3, <2>5, <2>6 DEF FinSaid
    <2>8. DataClock'
      BY <1>2, <2>3, RelayKnown DEF DataClock
    <2> QED
      BY <1>0, <1>2, <2>3, <2>4, <2>7, <2>8, RelayKnown, WroteKeeps
  <1> QED
    BY <1>3, <1>4

\* A keepalive, or the answer to one.
LEMMA ServiceWrittenKeeps == ASSUME RelayInv, WriterWrites, wr.op[1] \in {"ka", "ack"} PROVE RelayInv'
  <1>0. Running /\ UNCHANGED <<inp, up, down, orig, queue>> /\ relay' = relay
    BY DEF WriterWrites
  <1>1. PICK o : o = IF wr.op[1] = "ka" /\ ~wr.peerFin THEN Append(wr.out, <<wr.counter, relay.now>>) ELSE wr.out
    OBVIOUS
  <1>2. wr' = [wr EXCEPT !.op = NoOp, !.lastWrite = relay.now, !.lastData = wr.lastData, !.finSent = wr.finSent, !.out = o]
    BY <1>1, RelayNumbers DEF WriterWrites
  <1>3. /\ wr' \in WriterRecords(wr'.out) /\ wr'.op = NoOp /\ wr'.finSent = wr.finSent /\ wr'.peerFin = wr.peerFin
        /\ wr'.lastData = wr.lastData
    BY <1>2, RelayKnown, RelayNumbers, WriterOpsAre DEF WriterRecords
  <1>n. wr'.op[1] = "none"
    BY <1>3, WriterOpsAre
  <1>4. peer' \in PeerRecords /\ peer'.over = peer.over
    <2>1. CASE wr.op[1] = "ka"
      <3>1. PICK s \in SUBSET Nat : s = peer.owes \cup {wr.counter}
        BY RelayNumbers
      <3>2. peer' = [peer EXCEPT !.owes = s]
        BY <2>1, <3>1 DEF WriterWrites
      <3> QED
        BY <3>2, RelayKnown DEF PeerRecords
    <2>2. CASE wr.op[1] # "ka"
      BY <2>2, RelayKnown DEF WriterWrites
    <2> QED
      BY <2>1, <2>2
  <1>5. Chunks'
    <2>1. One(wr.op[1] = "data") = 0 /\ One(wr'.op[1] = "data") = 0
      BY <1>n DEF One
    <2> QED
      BY <1>0, <1>3, <2>1, RelayKnown DEF Chunks, SaidAll
  <1>6. FinSaid' /\ DataClock'
    BY <1>0, <1>3, <1>n, RelayKnown DEF FinSaid, DataClock
  <1> QED
    BY <1>0, <1>3, <1>4, <1>5, <1>6, RelayKnown, WroteKeeps

\* The write.
LEMMA WriterWritesKeeps == ASSUME RelayInv, WriterWrites PROVE RelayInv'
  <1>1. wr.op[1] \in {"ack", "data", "fin", "ka", "idlefin"}
    BY RelayNumbers, WriterOpsAre DEF WriterWrites
  <1> QED
    BY <1>1, DataWrittenKeeps, FinWrittenKeeps, ServiceWrittenKeeps

\* One more frame for the edge reader.
LEMMA FrameComesKeeps ==
    ASSUME RelayInv, Running, NEW x \in InItems, inp' = Append(inp, x), peer' \in PeerRecords,
           peer.over \/ x[1] \in {"fin", "eof"} => peer'.over, x[1] = "data" => ~peer.over,
           x[1] = "ack" => x[3] = relay.now, UNCHANGED <<relay, up, down, orig, queue, wr>>
    PROVE  RelayInv'
  <1>1. PICK a \in Seq(InItems) : a = Append(inp, x)
    BY RelayKnown, AppendOf
  <1>2. inp' = a
    BY <1>1
  <1>3. /\ \A i \in 1..Len(a) : (i \in 1..Len(inp) /\ a[i] = inp[i]) \/ (i = Len(inp) + 1 /\ a[i] = x)
        /\ Len(a) = Len(inp) + 1 /\ Len(inp) \in Nat
    BY <1>1, RelayKnown, AppendOf
  <1>4. RelayTyped'
    BY <1>2, RelayKnown DEF RelayTyped
  <1>5. Chunks'
    BY RelayKnown DEF Chunks, SaidAll
  <1>6. Dialling'
    <2>1. up.st = "dial" => orig.st = "none" /\ up.dialable
      BY RelayKnown DEF Dialling
    <2>2. ASSUME ~up.dialable PROVE peer'.over /\ \A i \in 1..Len(a) : a[i][1] # "data"
      <3>1. peer.over /\ \A i \in 1..Len(inp) : inp[i][1] # "data"
        BY <2>2, RelayKnown DEF Dialling
      <3> QED
        BY <1>3, <3>1
    <2>3. ASSUME NEW i \in 1..Len(a), a[i][1] \in {"fin", "eof"}
          PROVE  peer'.over /\ \A j \in 1..Len(a) : j > i => a[j][1] # "data"
      <3>1. CASE i \in 1..Len(inp) /\ a[i] = inp[i]
        <4>1. peer.over /\ \A j \in 1..Len(inp) : j > i => inp[j][1] # "data"
          BY <2>3, <3>1, RelayKnown DEF Dialling
        <4> QED
          BY <1>3, <4>1
      <3>2. CASE i = Len(inp) + 1 /\ a[i] = x
        BY <1>3, <2>3, <3>2
      <3> QED
        BY <1>3, <3>1, <3>2
    <2> QED
      BY <1>2, <2>1, <2>2, <2>3 DEF Dialling
  <1>7. FinQueued' /\ FinSaid' /\ DataClock'
    BY RelayKnown DEF FinQueued, FinSaid, DataClock
  <1>8. Unread'
    <2>1. ASSUME up.st = "read", up.at # relay.now, NEW i \in 1..Len(a), a[i][1] = "ack" PROVE a[i][3] = relay.now
      <3>1. \A j \in 1..Len(inp) : inp[j][1] = "ack" => inp[j][3] = relay.now
        BY <2>1, RelayKnown DEF Unread
      <3> QED
        BY <1>3, <2>1, <3>1
    <2> QED
      BY <1>2, <2>1, RelayKnown DEF Unread
  <1> QED
    BY <1>4, <1>5, <1>6, <1>7, <1>8 DEF RelayInv

\* The peer's own frames ...
LEMMA PeerSendsKeeps ==
    ASSUME RelayInv, NEW kind \in {"data", "empty", "ka", "fin", "eof"}, PeerSends(kind) PROVE RelayInv'
  <1>1. PICK x \in InItems : x = <<kind>> /\ x[1] = kind
    BY InItemsAre
  <1>2. Running /\ inp' = Append(inp, x) /\ (kind = "data" => ~peer.over) /\ UNCHANGED <<relay, up, down, orig, queue, wr>>
    BY <1>1 DEF PeerSends
  <1>3. peer.sent \in Nat
    BY RelayKnown DEF PeerRecords
  <1>4. PICK n \in Nat : n = peer.sent + 1
    BY <1>3
  <1>5. PICK b \in BOOLEAN : b = (peer.over \/ kind \in {"fin", "eof"})
    OBVIOUS
  <1>6. PICK e \in BOOLEAN : e = (kind = "eof")
    OBVIOUS
  <1>7. peer' = [peer EXCEPT !.sent = n, !.over = b, !.eof = e]
    <2>1. peer' = [peer EXCEPT !.sent = peer.sent + 1, !.over = peer.over \/ kind \in {"fin", "eof"}, !.eof = kind = "eof"]
      BY DEF PeerSends
    <2> QED
      BY <1>4, <1>5, <1>6, <2>1, Zenon
  <1>8. peer' \in PeerRecords /\ peer'.over = b
    BY <1>7, RelayKnown DEF PeerRecords
  <1> QED
    BY <1>1, <1>2, <1>5, <1>8, FrameComesKeeps

\* ... and its answers.
LEMMA PeerAnswersKeeps == ASSUME RelayInv, PeerAnswers PROVE RelayInv'
  <1>0. Running /\ UNCHANGED <<relay, up, down, orig, queue, wr>>
    BY DEF PeerAnswers
  <1>1. PICK c \in peer.owes : inp' = Append(inp, <<"ack", c, relay.now>>) /\ peer' = [peer EXCEPT !.owes = @ \ {c}]
    BY DEF PeerAnswers
  <1>2. c \in Nat
    BY RelayNumbers
  <1>n. PICK n \in Nat : n = relay.now
    BY RelayNumbers
  <1>x. <<"ack", c, n>> \in InItems /\ <<"ack", c, n>>[1] = "ack" /\ <<"ack", c, n>>[3] = n
    BY <1>2 DEF InItems
  <1>3. PICK x \in InItems : x = <<"ack", c, relay.now>> /\ x[1] = "ack" /\ x[3] = relay.now
    BY <1>n, <1>x
  <1>4. PICK s \in SUBSET Nat : s = peer.owes \ {c}
    BY RelayNumbers
  <1>5. peer' = [peer EXCEPT !.owes = s]
    BY <1>1, <1>4
  <1>6. peer' \in PeerRecords /\ peer'.over = peer.over
    BY <1>5, RelayKnown DEF PeerRecords
  <1> QED
    BY <1>0, <1>1, <1>3, <1>6, FrameComesKeeps

\* The Origin writes, or ends.
LEMMA OriginSendsKeeps == ASSUME RelayInv, OriginSends PROVE RelayInv'
  <1>0. orig.st = "open" /\ ~orig.eof /\ UNCHANGED <<relay, peer, inp, up, down, queue, wr>>
    BY DEF OriginSends
  <1>1. down \notin {"fin", "done", "dial"}
    BY <1>0, RelayKnown DEF Chunks, SaidAll
  <1>2. PICK n \in Nat : n = orig.wrote + 1
    BY RelayNumbers
  <1>3. orig' = [orig EXCEPT !.wrote = n] \/ orig' = [orig EXCEPT !.eof = TRUE]
    BY <1>2 DEF OriginSends
  <1>4. /\ orig' \in OriginRecords /\ orig'.st = "open" /\ orig'.read = orig.read
        /\ orig'.wrote = orig.wrote \/ orig'.wrote = orig.wrote + 1
    BY <1>0, <1>2, <1>3, RelayKnown DEF OriginRecords
  <1>5. RelayTyped'
    BY <1>0, <1>4, RelayKnown DEF RelayTyped
  <1>6. orig'.read <= orig'.wrote
    BY <1>4, RelayKnown, RelayNumbers DEF Chunks
  <1>7. Chunks'
    BY <1>0, <1>1, <1>4, <1>6, RelayKnown DEF Chunks
  <1>8. Dialling'
    <2>1. up.st # "dial"
      BY <1>0, RelayKnown DEF Dialling
    <2> QED
      BY <1>0, <2>1, RelayKnown DEF Dialling
  <1>9. FinQueued' /\ FinSaid'
    BY <1>0, <1>1, RelayKnown DEF FinQueued, FinSaid
  <1>10. DataClock' /\ Unread'
    BY <1>0, RelayKnown DEF DataClock, Unread
  <1> QED
    BY <1>5, <1>7, <1>8, <1>9, <1>10 DEF RelayInv

\* A tick: nothing the agent could do waits.
LEMMA RelayTickKeeps == ASSUME RelayInv, RelayTick PROVE RelayInv'
  <1>0. Running /\ ~RelayUrgent /\ UNCHANGED <<peer, inp, up, down, orig, queue, wr>>
    BY DEF RelayTick
  <1>1. PICK n \in Nat : n = relay.now + 1
    BY RelayNumbers
  <1>2. relay' = [relay EXCEPT !.now = n]
    BY <1>1 DEF RelayTick
  <1>3. /\ relay' \in RelayRecords /\ relay'.end = relay.end /\ relay'.now = n /\ relay'.finAt = relay.finAt
        /\ relay'.putAt = relay.putAt /\ relay'.put = relay.put /\ relay'.fin = relay.fin
    BY <1>2, RelayKnown DEF RelayRecords
  <1>4. RelayTyped'
    BY <1>0, <1>3, RelayKnown DEF RelayTyped
  <1>5. Chunks' /\ Dialling'
    BY <1>0, <1>3, RelayKnown DEF Chunks, SaidAll, Dialling
  <1>6. FinQueued' /\ FinSaid'
    BY <1>0, <1>3, RelayKnown DEF FinQueued, FinSaid
  <1>7. DataClock'
    <2>1. relay.putAt <= relay.now /\ relay.finAt <= relay.now
      BY RelayKnown DEF DataClock
    <2>2. relay.putAt <= n /\ relay.finAt <= n
      BY <1>1, <2>1, RelayNumbers
    <2> QED
      BY <1>0, <1>3, <2>2, RelayKnown DEF DataClock
  <1>8. Unread'
    <2>1. up.st = "read" => 1..Len(inp) = {}
      BY <1>0 DEF RelayUrgent
    <2>2. relay'.end # "dead"
      BY <1>0, <1>3 DEF Running
    <2> QED
      BY <1>0, <2>1, <2>2 DEF Unread
  <1> QED
    BY <1>4, <1>5, <1>6, <1>7, <1>8 DEF RelayInv

\* The deadline.
LEMMA WriterDeadlineKeeps == ASSUME RelayInv, WriterDeadline PROVE RelayInv'
  <1>1. wr' = [wr EXCEPT !.mode = "drain"] /\ Running /\ wr.op = NoOp /\ UNCHANGED <<relay, peer, inp, up, down, orig, queue>>
    BY DEF WriterDeadline, Selecting
  <1> QED
    BY <1>1, WriterModeKeeps

\* A relay as it begins.
LEMMA RelayStarts == RelayInit => RelayInv
  <1> SUFFICES ASSUME RelayInit PROVE RelayInv
    OBVIOUS
  <1>1. /\ relay \in RelayRecords /\ relay.now = 0 /\ relay.end = "run" /\ relay.finAt = 0 /\ relay.putAt = 0
        /\ relay.put = 0 /\ relay.fin = "none"
    BY DEF RelayInit, RelayRecords
  <1>2. peer \in PeerRecords
    BY DEF RelayInit, PeerRecords
  <1>3. inp = << >> /\ queue = << >> /\ down = "dial" /\ 1..Len(inp) = {} /\ 1..Len(queue) = {}
    BY DEF RelayInit
  <1>4. up \in UpRecords /\ up.st = "read" /\ up.dialable
    BY DEF RelayInit, UpRecords
  <1>5. orig \in OriginRecords /\ orig.st = "none" /\ orig.wrote = 0 /\ orig.read = 0 /\ orig.eof = FALSE
    BY DEF RelayInit, OriginRecords
  <1>6. /\ wr \in WriterRecords(wr.out) /\ wr.op = NoOp /\ wr.finSent = FALSE /\ wr.peerFin = FALSE /\ wr.lastData = 0
    BY WriterOpsAre DEF RelayInit, WriterRecords
  <1>7. wr.op[1] = "none"
    BY <1>6, WriterOpsAre
  <1>8. inp \in Seq(InItems) /\ queue \in Seq(QueueItems)
    BY <1>3
  <1>9. DataIn(queue) = 0
    BY <1>3, <1>8, NoData
  <1>10. RelayTyped
    BY <1>1, <1>2, <1>3, <1>4, <1>5, <1>6, <1>8 DEF RelayTyped
  <1>11. Chunks
    BY <1>1, <1>3, <1>5, <1>7, <1>9 DEF Chunks, One
  <1>12. Dialling /\ FinQueued
    BY <1>3, <1>4, <1>7 DEF Dialling, FinQueued
  <1>13. FinSaid /\ DataClock /\ Unread
    BY <1>1, <1>3, <1>6, <1>7 DEF FinSaid, DataClock, Unread
  <1> QED
    BY <1>10, <1>11, <1>12, <1>13 DEF RelayInv

\* Every step of a relay.
LEMMA RelayStepKeeps == RelayInv /\ [RelayNext]_relayVars => RelayInv'
  <1> SUFFICES ASSUME RelayInv, [RelayNext]_relayVars PROVE RelayInv'
    OBVIOUS
  <1>1. CASE UpReads \/ (\E ok \in BOOLEAN : UpDials(ok)) \/ UpWrites \/ UpEnqueues
    BY <1>1, UpReadsKeeps, UpDialsKeeps, UpWritesKeeps, UpEnqueuesKeeps
  <1>2. CASE DownLearnsNoDial \/ DownReads \/ DownEnqueues
    BY <1>2, NoDialKeeps, DownReadsKeeps, DownEnqueuesKeeps
  <1>3. CASE WriterTakes \/ WriterKeepalive \/ WriterIdleFin \/ WriterWrites \/ WriterDeadline \/ WriterJudges \/ WriterEnds
    BY <1>3, WriterTakesKeeps, WriterKeepaliveKeeps, WriterIdleFinKeeps, WriterWritesKeeps, WriterDeadlineKeeps,
       WriterJudgesKeeps, WriterEndsKeeps
  <1>4. CASE (\E kind \in {"data", "empty", "ka", "fin", "eof"} : PeerSends(kind)) \/ PeerAnswers \/ OriginSends \/ RelayTick
    BY <1>4, PeerSendsKeeps, PeerAnswersKeeps, OriginSendsKeeps, RelayTickKeeps
  <1>5. CASE UNCHANGED relayVars
    <2>1. UNCHANGED <<relay, peer, inp, up, down, orig, queue, wr>>
      BY <1>5 DEF relayVars
    <2>2. RelayTyped' /\ Chunks'
      BY <2>1, RelayKnown DEF RelayTyped, Chunks, SaidAll
    <2>3. Dialling' /\ FinQueued'
      BY <2>1, RelayKnown DEF Dialling, FinQueued
    <2>4. FinSaid' /\ DataClock' /\ Unread'
      BY <2>1, RelayKnown DEF FinSaid, DataClock, Unread
    <2> QED
      BY <2>2, <2>3, <2>4 DEF RelayInv
  <1> QED
    BY <1>1, <1>2, <1>3, <1>4, <1>5 DEF RelayNext

\* What the invariant says of the reply, of the idle bound and of the verdict.
LEMMA RelayInvIsSound == RelayInv => RelaySound
  <1> SUFFICES ASSUME RelayInv PROVE RelaySound
    OBVIOUS
  <1>1. ReplyWholeBeforeFin
    BY RelayKnown DEF FinSaid, ReplyWholeBeforeFin
  <1>2. HalfClosedEnds
    <2> SUFFICES ASSUME Running, wr.peerFin, ~RelayUrgent, relay.now >= Latest(relay.finAt, relay.putAt) + IdleBound,
                        wr.op = NoOp
                 PROVE  FALSE
      BY DEF HalfClosedEnds
    <2>1. ~wr.finSent
      BY DEF RelayUrgent, BothFins
    <2>2. wr.lastData = Latest(relay.finAt, relay.putAt)
      BY <2>1, RelayKnown DEF DataClock
    <2> QED
      BY <2>1, <2>2 DEF RelayUrgent
  <1>3. VerdictIsFair
    <2>1. relay.end = "dead" => queue = << >>
      BY RelayKnown DEF Unread
    <2>2. relay.end = "dead" => DOMAIN queue = {}
      BY <2>1
    <2>3. DOMAIN inp = 1..Len(inp)
      BY RelayKnown
    <2>4. up.st # "read" \/ up.at = relay.now \/ \A i \in DOMAIN inp : inp[i][1] = "ack" => inp[i][3] = relay.now
      BY <2>3, RelayKnown DEF Unread
    <2> QED
      BY <2>2, <2>4 DEF VerdictIsFair
  <1> QED
    BY <1>1, <1>2, <1>3 DEF RelaySound, PeerTreatedFairly

\* Both ends of a framed relay get what they are owed, for every queue length, interval and bound and for any number of
\* frames and replies: the FIN over the Origin's EOF leaves after every chunk the Origin wrote, a half-closed relay is
\* over when its data has been idle for the bound, and a peer is judged dead over its own silence only.
THEOREM RelayAlwaysSound == RelaySpec => []RelaySound
  <1>1. RelayInit => RelayInv
    BY RelayStarts
  <1>2. RelayInv /\ [RelayNext]_relayVars => RelayInv'
    BY RelayStepKeeps
  <1>3. RelayInv => RelaySound
    BY RelayInvIsSound
  <1> QED
    BY <1>1, <1>2, <1>3, PTL DEF RelaySpec

-----------------------------------------------------------------------------
(* The MASQUE tunnel (MasqueTunnel).  First the codec: what an integer, a capsule and a datagram    *)
(* decode to, from a buffer that may end anywhere.  Then the way out, where the stream is the       *)
(* frames of the datagrams the queue took, and the way in, where buffer and wire are a piece of     *)
(* what the proxy wrote that begins on a capsule's first byte: that is what each read must keep.    *)

\* A set of numbers has a least one: the provers can use the library's induction on sets only.
LEMMA LeastNumber ==
    ASSUME NEW T, T \subseteq Nat, T # {}
    PROVE  \E n \in T : \A m \in T : n <= m
  <1>1. IsWellFoundedOn(OpToRel(<, Nat), Nat)
    BY NatLessThanWellFounded, Zenon
  <1>2. PICK n \in T : \A m \in T : ~(<<m, n>> \in OpToRel(<, Nat))
    BY <1>1, WFMin, Zenon
  <1>3. \A m \in T : ~(m < n)
    BY <1>2 DEF OpToRel
  <1> QED
    BY <1>3

\* What holds of 0, and of n + 1 if it does of n, holds of every number.
LEMMA Induction ==
    ASSUME NEW T, 0 \in T, \A n \in Nat : n \in T => n + 1 \in T
    PROVE  \A n \in Nat : n \in T
  <1> SUFFICES ASSUME Nat \ T # {} PROVE FALSE
    OBVIOUS
  <1>1. PICK n \in Nat \ T : \A m \in Nat \ T : n <= m
    BY LeastNumber
  <1> QED
    BY <1>1

\* The number made of the first one, two or four bytes.
LEMMA BytesValueIs ==
    ASSUME NEW buf \in Seq(Nat)
    PROVE  /\ Len(buf) >= 1 => BytesValue(buf, 1) = buf[1] % 64
           /\ Len(buf) >= 2 => BytesValue(buf, 2) = 256 * (buf[1] % 64) + buf[2]
           /\ Len(buf) >= 4 =>
                BytesValue(buf, 4) = 256 * (256 * (256 * (buf[1] % 64) + buf[2]) + buf[3]) + buf[4]
  <1> DEFINE Step(n, g) == [i \in 1 .. n |-> IF i = 1 THEN buf[1] % 64 ELSE 256 * g[i - 1] + buf[i]]
             val(n) == CHOOSE g : g = Step(n, g)
  <1>1. \A n : BytesValue(buf, n) = val(n)[n]
    BY Zenon DEF BytesValue
  <1>2. ASSUME NEW n, NEW h, h = Step(n, h)
        PROVE  BytesValue(buf, n) = val(n)[n] /\ val(n) = Step(n, val(n))
    <2>1. val(n) = Step(n, val(n))
      <3> HIDE DEF Step
      <3> QED
        BY <1>2, Zenon
    <2> HIDE DEF Step, val
    <2> QED
      BY <1>1, <2>1, Zenon
  <1>3. ASSUME Len(buf) >= 1 PROVE BytesValue(buf, 1) = buf[1] % 64
    <2> DEFINE h == [i \in 1 .. 1 |-> buf[1] % 64]
    <2>1. h = Step(1, h)
      OBVIOUS
    <2>2. BytesValue(buf, 1) = val(1)[1] /\ val(1) = Step(1, val(1))
      <3> HIDE DEF h, Step, val
      <3> QED
        BY <1>2, <2>1, Zenon
    <2> HIDE DEF val
    <2>3. val(1)[1] = buf[1] % 64
      BY <2>2
    <2> QED
      BY <2>2, <2>3
  <1>4. ASSUME Len(buf) >= 2 PROVE BytesValue(buf, 2) = 256 * (buf[1] % 64) + buf[2]
    <2> DEFINE h == [i \in 1 .. 2 |-> IF i = 1 THEN buf[1] % 64 ELSE 256 * (buf[1] % 64) + buf[2]]
    <2>1. h = Step(2, h)
      BY <1>4
    <2>2. BytesValue(buf, 2) = val(2)[2] /\ val(2) = Step(2, val(2))
      <3> HIDE DEF h, Step, val
      <3> QED
        BY <1>2, <2>1, Zenon
    <2> HIDE DEF val
    <2>3. val(2)[1] = buf[1] % 64 /\ val(2)[2] = 256 * val(2)[1] + buf[2]
      BY <2>2
    <2> QED
      BY <2>2, <2>3
  <1>5. ASSUME Len(buf) >= 4
        PROVE  BytesValue(buf, 4) = 256 * (256 * (256 * (buf[1] % 64) + buf[2]) + buf[3]) + buf[4]
    <2> DEFINE a == buf[1] % 64
               b == 256 * a + buf[2]
               c == 256 * b + buf[3]
               d == 256 * c + buf[4]
               h == [i \in 1 .. 4 |-> IF i = 1 THEN a ELSE IF i = 2 THEN b ELSE IF i = 3 THEN c ELSE d]
    <2>0. 1 \in 1 .. 4 /\ 2 \in 1 .. 4 /\ 3 \in 1 .. 4 /\ 4 \in 1 .. 4
      OBVIOUS
    <2>1. h = Step(4, h)
      <3>1. ASSUME NEW i \in 1 .. 4 PROVE h[i] = IF i = 1 THEN a ELSE 256 * h[i - 1] + buf[i]
        <4>1. i = 1 \/ i = 2 \/ i = 3 \/ i = 4
          OBVIOUS
        <4>2. h[1] = a /\ h[2] = b /\ h[3] = c /\ h[4] = d
          BY <2>0
        <4>3. 2 - 1 = 1 /\ 3 - 1 = 2 /\ 4 - 1 = 3
          OBVIOUS
        <4> HIDE DEF h, a
        <4> QED
          BY <4>1, <4>2, <4>3, SMTT(30)
      <3>2. h = [i \in 1 .. 4 |-> h[i]]
        OBVIOUS
      <3> HIDE DEF h
      <3>3. Step(4, h) = [i \in 1 .. 4 |-> IF i = 1 THEN a ELSE 256 * h[i - 1] + buf[i]]
        OBVIOUS
      <3> HIDE DEF a, Step
      <3>4. [i \in 1 .. 4 |-> h[i]] = [i \in 1 .. 4 |-> IF i = 1 THEN a ELSE 256 * h[i - 1] + buf[i]]
        BY <3>1, SMT
      <3> QED
        BY <3>2, <3>3, <3>4, Zenon
    <2>2. BytesValue(buf, 4) = val(4)[4] /\ val(4) = Step(4, val(4))
      <3> HIDE DEF h, Step, val
      <3> QED
        BY <1>2, <2>1, Zenon
    <2> HIDE DEF val
    <2>3. \A i \in 1 .. 4 : val(4)[i] = IF i = 1 THEN buf[1] % 64 ELSE 256 * val(4)[i - 1] + buf[i]
      BY <2>2, Zenon
    <2>4. val(4)[1] = a /\ val(4)[2] = 256 * val(4)[1] + buf[2] /\ val(4)[3] = 256 * val(4)[2] + buf[3]
          /\ val(4)[4] = 256 * val(4)[3] + buf[4]
      <3>1. 2 - 1 = 1 /\ 3 - 1 = 2 /\ 4 - 1 = 3 /\ 2 # 1 /\ 3 # 1 /\ 4 # 1
        OBVIOUS
      <3> QED
        BY <2>0, <2>3, <3>1, SMT
    <2> QED
      BY <2>2, <2>4
  <1> QED
    BY <1>3, <1>4, <1>5

\* How many bytes the first one announces.
LEMMA LengthTag ==
    ASSUME NEW b \in Nat
    PROVE  /\ b < 64 => VarintLen(b) = 1 /\ b % 64 = b
           /\ 64 <= b /\ b < 128 => VarintLen(b) = 2 /\ b % 64 = b - 64
           /\ 128 <= b /\ b < 192 => VarintLen(b) = 4 /\ b % 64 = b - 128
  BY SMT DEF VarintLen

\* The number that two bytes, or four, are read as, by the tag of the first.
OfTwo(a, b) == 256 * (a - 64) + b
OfFour(a, b, c, d) == 256 * (256 * (256 * (a - 128) + b) + c) + d

\* What an integer at the front of a buffer is read as.
LEMMA IntegerRead ==
    ASSUME NEW buf \in Seq(Nat)
    PROVE  /\ Len(buf) = 0 => VarintDecode(buf) = NotYet
           /\ Len(buf) >= 1 /\ buf[1] < 64 => VarintDecode(buf) = [ok |-> TRUE, value |-> buf[1], len |-> 1]
           /\ Len(buf) >= 1 /\ 64 <= buf[1] /\ buf[1] < 128 =>
                VarintDecode(buf) = IF Len(buf) < 2 THEN NotYet
                                    ELSE [ok |-> TRUE, value |-> OfTwo(buf[1], buf[2]), len |-> 2]
           /\ Len(buf) >= 1 /\ 128 <= buf[1] /\ buf[1] < 192 =>
                VarintDecode(buf) = IF Len(buf) < 4 THEN NotYet
                                    ELSE [ok    |-> TRUE,
                                          value |-> OfFour(buf[1], buf[2], buf[3], buf[4]),
                                          len   |-> 4]
  <1>1. CASE Len(buf) = 0
    <2>1. buf = <<>>
      BY <1>1
    <2>2. VarintDecode(buf) = NotYet
      BY <2>1 DEF VarintDecode
    <2> QED
      BY <1>1, <2>2
  <1>2. CASE Len(buf) >= 1
    <2>1. buf # <<>> /\ buf[1] \in Nat
      BY <1>2
    <2>2. VarintDecode(buf) = IF Len(buf) < VarintLen(buf[1]) THEN NotYet
                              ELSE [ok |-> TRUE, value |-> BytesValue(buf, VarintLen(buf[1])), len |-> VarintLen(buf[1])]
      BY <2>1 DEF VarintDecode
    <2>3. ASSUME buf[1] < 64 PROVE VarintDecode(buf) = [ok |-> TRUE, value |-> buf[1], len |-> 1]
      <3>1. VarintLen(buf[1]) = 1 /\ BytesValue(buf, 1) = buf[1] /\ ~(Len(buf) < 1)
        BY <1>2, <2>1, <2>3, BytesValueIs, LengthTag
      <3> QED
        BY <2>2, <3>1
    <2>4. ASSUME 64 <= buf[1], buf[1] < 128
          PROVE  VarintDecode(buf) = IF Len(buf) < 2 THEN NotYet
                                     ELSE [ok |-> TRUE, value |-> OfTwo(buf[1], buf[2]), len |-> 2]
      <3>1. VarintLen(buf[1]) = 2 /\ buf[1] % 64 = buf[1] - 64
        BY <2>1, <2>4, LengthTag
      <3>2. ~(Len(buf) < 2) => BytesValue(buf, 2) = OfTwo(buf[1], buf[2])
        BY <3>1, BytesValueIs DEF OfTwo
      <3> QED
        BY <2>2, <3>1, <3>2
    <2>5. ASSUME 128 <= buf[1], buf[1] < 192
          PROVE  VarintDecode(buf) = IF Len(buf) < 4 THEN NotYet
                                     ELSE [ok    |-> TRUE,
                                           value |-> OfFour(buf[1], buf[2], buf[3], buf[4]),
                                           len   |-> 4]
      <3>1. VarintLen(buf[1]) = 4 /\ buf[1] % 64 = buf[1] - 128
        BY <2>1, <2>5, LengthTag
      <3>2. ~(Len(buf) < 4) =>
              BytesValue(buf, 4) = OfFour(buf[1], buf[2], buf[3], buf[4])
        BY <3>1, BytesValueIs DEF OfFour
      <3> QED
        BY <2>2, <3>1, <3>2
    <2>6. ~(Len(buf) = 0)
      BY <1>2
    <2> QED
      BY <2>3, <2>4, <2>5, <2>6
  <1> QED
    BY <1>1, <1>2

\* The same, one length at a time.
LEMMA IntegerAwaited ==
    ASSUME NEW buf \in Seq(Nat), Len(buf) = 0
    PROVE  VarintDecode(buf) = NotYet
  BY IntegerRead, Zenon

\* One byte ...
LEMMA IntegerOfOne ==
    ASSUME NEW buf \in Seq(Nat), Len(buf) >= 1, buf[1] < 64
    PROVE  VarintDecode(buf) = [ok |-> TRUE, value |-> buf[1], len |-> 1]
  BY IntegerRead, Zenon

\* ... two ...
LEMMA IntegerOfTwo ==
    ASSUME NEW buf \in Seq(Nat), Len(buf) >= 1, 64 <= buf[1], buf[1] < 128
    PROVE  VarintDecode(buf) = IF Len(buf) < 2 THEN NotYet
                               ELSE [ok |-> TRUE, value |-> OfTwo(buf[1], buf[2]), len |-> 2]
  BY IntegerRead, Zenon

\* ... or four.
LEMMA IntegerOfFour ==
    ASSUME NEW buf \in Seq(Nat), Len(buf) >= 1, 128 <= buf[1], buf[1] < 192
    PROVE  VarintDecode(buf) = IF Len(buf) < 4 THEN NotYet
                               ELSE [ok    |-> TRUE,
                                     value |-> OfFour(buf[1], buf[2], buf[3], buf[4]),
                                     len   |-> 4]
  BY IntegerRead, Zenon

\* What is left of a sequence without its first elements.
LEMMA RestOf ==
    ASSUME NEW S, NEW s \in Seq(S), NEW n \in Nat, n <= Len(s)
    PROVE  /\ SubSeq(s, n + 1, Len(s)) \in Seq(S) /\ Len(SubSeq(s, n + 1, Len(s))) = Len(s) - n
           /\ \A i \in 1 .. Len(s) - n : SubSeq(s, n + 1, Len(s))[i] = s[n + i]
  <1>1. \A i \in n + 1 .. Len(s) : s[i] \in S
    OBVIOUS
  <1>2. SubSeq(s, n + 1, Len(s)) \in Seq(S)
    BY <1>1, SubSeqProperties
  <1>3. Len(SubSeq(s, n + 1, Len(s))) = Len(s) - n
    BY SubSeqProperties
  <1>4. \A i \in 1 .. Len(s) - n : SubSeq(s, n + 1, Len(s))[i] = s[n + i]
    BY SubSeqProperties
  <1> QED
    BY <1>2, <1>3, <1>4

\* A capsule whose length is there: refused, awaited or taken.
LEMMA CapsuleRead ==
    ASSUME NEW buf \in Seq(Nat), Len(buf) >= 1, buf[1] < 64, NEW v \in Nat, NEW n \in Nat,
           VarintDecode(SubSeq(buf, 2, Len(buf))) = [ok |-> TRUE, value |-> v, len |-> n]
    PROVE  /\ v > MaxValueLen => DecodeCapsule(buf).result = "violation"
           /\ v <= MaxValueLen /\ Len(buf) < 1 + n + v => DecodeCapsule(buf).result = "pending"
           /\ v <= MaxValueLen /\ Len(buf) >= 1 + n + v =>
                DecodeCapsule(buf) = [result |-> "capsule", type |-> buf[1],
                                      value |-> SubSeq(buf, n + 2, 1 + n + v), consumed |-> 1 + n + v]
  <1>0. MaxValueLen \in Nat
    BY SMT DEF MaxValueLen, MaxUdp
  <1>1. VarintDecode(buf) = [ok |-> TRUE, value |-> buf[1], len |-> 1]
    BY IntegerRead
  <1>2. PICK type : type = VarintDecode(buf) /\ type.ok = TRUE /\ type.value = buf[1] /\ type.len = 1
    BY <1>1
  <1>3. PICK len : /\ len = VarintDecode(SubSeq(buf, type.len + 1, Len(buf)))
                   /\ len.ok = TRUE /\ len.value = v /\ len.len = n
    BY <1>2
  <1>4. PICK total \in Nat : total = type.len + len.len + len.value /\ total = 1 + n + v
    BY <1>2, <1>3
  <1>5. n + 2 = type.len + len.len + 1
    BY <1>2, <1>3
  <1>6. DecodeCapsule(buf) =
          CASE ~len.ok                               -> Pending
            [] len.ok /\ len.value > MaxValueLen     -> [Pending EXCEPT !.result = "violation"]
            [] len.ok /\ len.value <= MaxValueLen /\ Len(buf) < total -> Pending
            [] OTHER -> [result   |-> "capsule", type |-> type.value,
                         value    |-> SubSeq(buf, type.len + len.len + 1, total),
                         consumed |-> total]
    BY <1>2, <1>3, <1>4 DEF DecodeCapsule
  <1>7. ASSUME v > MaxValueLen PROVE DecodeCapsule(buf).result = "violation"
    BY <1>0, <1>3, <1>6, <1>7 DEF Pending
  <1>8. ASSUME v <= MaxValueLen, Len(buf) < 1 + n + v PROVE DecodeCapsule(buf).result = "pending"
    BY <1>0, <1>3, <1>4, <1>6, <1>8 DEF Pending
  <1>9. ASSUME v <= MaxValueLen, Len(buf) >= 1 + n + v
        PROVE  DecodeCapsule(buf) = [result |-> "capsule", type |-> buf[1],
                                     value |-> SubSeq(buf, n + 2, 1 + n + v), consumed |-> 1 + n + v]
    <2>1. ~(v > MaxValueLen) /\ ~(Len(buf) < total)
      BY <1>0, <1>4, <1>9
    <2>2. DecodeCapsule(buf) = [result   |-> "capsule", type |-> type.value,
                                value    |-> SubSeq(buf, type.len + len.len + 1, total),
                                consumed |-> total]
      BY <1>3, <1>6, <2>1
    <2> QED
      BY <1>2, <1>3, <1>4, <1>5, <2>2
  <1> QED
    BY <1>7, <1>8, <1>9

\* Without its length, it is awaited.
LEMMA CapsuleAwaited ==
    ASSUME NEW buf \in Seq(Nat),
           \/ Len(buf) = 0
           \/ Len(buf) >= 1 /\ buf[1] < 64 /\ VarintDecode(SubSeq(buf, 2, Len(buf))) = NotYet
    PROVE  DecodeCapsule(buf).result = "pending"
  <1>1. PICK type : type = VarintDecode(buf)
    OBVIOUS
  <1>2. PICK len : len = IF type.ok THEN VarintDecode(SubSeq(buf, type.len + 1, Len(buf))) ELSE NotYet
    OBVIOUS
  <1>3. len = NotYet
    <2>1. CASE Len(buf) = 0
      <3>1. type = NotYet
        BY <1>1, <2>1, IntegerAwaited, Zenon
      <3>2. ~type.ok
        BY <3>1 DEF NotYet
      <3> QED
        BY <1>2, <3>2
    <2>2. CASE Len(buf) >= 1 /\ buf[1] < 64 /\ VarintDecode(SubSeq(buf, 2, Len(buf))) = NotYet
      <3>1. type.ok = TRUE /\ type.len = 1
        BY <1>1, <2>2, IntegerRead
      <3> QED
        BY <1>2, <2>2, <3>1
    <2> QED
      BY <2>1, <2>2
  <1>4. ~len.ok
    BY <1>3 DEF NotYet
  <1>5. DecodeCapsule(buf) = Pending
    BY <1>1, <1>2, <1>4 DEF DecodeCapsule
  <1> QED
    BY <1>5 DEF Pending

\* The length of a capsule, behind a type of one byte.
LEMMA LengthRead ==
    ASSUME NEW buf \in Seq(Nat), Len(buf) >= 1,
           NEW len, len = VarintDecode(SubSeq(buf, 2, Len(buf)))
    PROVE  /\ Len(buf) = 1 => len = NotYet
           /\ Len(buf) >= 2 /\ buf[2] < 64 => len = [ok |-> TRUE, value |-> buf[2], len |-> 1]
           /\ Len(buf) >= 2 /\ 64 <= buf[2] /\ buf[2] < 128 =>
                len = IF Len(buf) < 3 THEN NotYet
                      ELSE [ok |-> TRUE, value |-> OfTwo(buf[2], buf[3]), len |-> 2]
           /\ Len(buf) >= 2 /\ 128 <= buf[2] /\ buf[2] < 192 =>
                len = IF Len(buf) < 5 THEN NotYet
                      ELSE [ok    |-> TRUE,
                            value |-> OfFour(buf[2], buf[3], buf[4], buf[5]),
                            len   |-> 4]
  <1>1. PICK t \in Seq(Nat) : /\ t = SubSeq(buf, 2, Len(buf)) /\ Len(t) = Len(buf) - 1
                              /\ \A i \in 1 .. Len(buf) - 1 : t[i] = buf[1 + i]
    <2>1. 1 \in Nat /\ 1 + 1 = 2
      OBVIOUS
    <2>2. /\ SubSeq(buf, 1 + 1, Len(buf)) \in Seq(Nat) /\ Len(SubSeq(buf, 1 + 1, Len(buf))) = Len(buf) - 1
          /\ \A i \in 1 .. Len(buf) - 1 : SubSeq(buf, 1 + 1, Len(buf))[i] = buf[1 + i]
      BY <2>1, RestOf
    <2> QED
      BY <2>1, <2>2
  <1>2. Len(t) = Len(buf) - 1
    BY <1>1
  <1>3. len = VarintDecode(t)
    BY <1>1
  <1>4. Len(t) >= 1 => t[1] = buf[2]
    BY <1>1
  <1>5. Len(t) >= 2 => t[2] = buf[3]
    BY <1>1
  <1>6. Len(t) >= 4 => t[3] = buf[4] /\ t[4] = buf[5]
    BY <1>1
  <1>0. PICK m \in Nat, l \in Nat : m = Len(buf) /\ l = Len(t) /\ l = m - 1
    <2>1. Len(buf) \in Nat /\ Len(t) \in Nat
      BY LenProperties
    <2> QED
      BY <1>2, <2>1, Zenon
  <1>7. ASSUME Len(buf) = 1 PROVE len = NotYet
    <2>1. Len(t) = 0
      BY <1>0, <1>7
    <2>2. VarintDecode(t) = NotYet
      BY <2>1, IntegerAwaited, Zenon
    <2> QED
      BY <1>3, <2>2, Zenon
  <1>8. ASSUME Len(buf) >= 2, buf[2] < 64 PROVE len = [ok |-> TRUE, value |-> buf[2], len |-> 1]
    <2>1. Len(t) >= 1
      BY <1>0, <1>8
    <2>2. t[1] = buf[2] /\ t[1] < 64
      BY <1>4, <1>8, <2>1, Zenon
    <2>3. VarintDecode(t) = [ok |-> TRUE, value |-> t[1], len |-> 1]
      BY <2>1, <2>2, IntegerOfOne, Zenon
    <2> QED
      BY <1>3, <2>2, <2>3, Zenon
  <1>9. ASSUME Len(buf) >= 2, 64 <= buf[2], buf[2] < 128
        PROVE  len = IF Len(buf) < 3 THEN NotYet
                     ELSE [ok |-> TRUE, value |-> OfTwo(buf[2], buf[3]), len |-> 2]
    <2>1. Len(t) >= 1 /\ (Len(t) < 2 <=> Len(buf) < 3) /\ (~(Len(t) < 2) => Len(t) >= 2)
      BY <1>0, <1>9
    <2>2. t[1] = buf[2] /\ 64 <= t[1] /\ t[1] < 128
      BY <1>4, <1>9, <2>1, Zenon
    <2>3. len = IF Len(t) < 2 THEN NotYet ELSE [ok |-> TRUE, value |-> OfTwo(t[1], t[2]), len |-> 2]
      BY <1>3, <2>1, <2>2, IntegerOfTwo, Zenon
    <2>4. CASE Len(t) < 2
      BY <2>1, <2>3, <2>4, Zenon
    <2>5. CASE ~(Len(t) < 2)
      <3>1. t[2] = buf[3] /\ ~(Len(buf) < 3)
        BY <1>5, <2>1, <2>5, Zenon
      <3> QED
        BY <2>2, <2>3, <2>5, <3>1, Zenon
    <2> QED
      BY <2>4, <2>5, Zenon
  <1>10. ASSUME Len(buf) >= 2, 128 <= buf[2], buf[2] < 192
         PROVE  len = IF Len(buf) < 5 THEN NotYet
                      ELSE [ok    |-> TRUE,
                            value |-> OfFour(buf[2], buf[3], buf[4], buf[5]),
                            len   |-> 4]
    <2>1. Len(t) >= 1 /\ (Len(t) < 4 <=> Len(buf) < 5) /\ (~(Len(t) < 4) => Len(t) >= 4 /\ Len(t) >= 2)
      BY <1>0, <1>10, SMTT(30)
    <2>2. t[1] = buf[2] /\ 128 <= t[1] /\ t[1] < 192
      BY <1>4, <1>10, <2>1, Zenon
    <2>3. len = IF Len(t) < 4 THEN NotYet
                ELSE [ok    |-> TRUE,
                      value |-> OfFour(t[1], t[2], t[3], t[4]),
                      len   |-> 4]
      BY <1>3, <2>1, <2>2, IntegerOfFour, Zenon
    <2>4. CASE Len(t) < 4
      BY <2>1, <2>3, <2>4, Zenon
    <2>5. CASE ~(Len(t) < 4)
      <3>1. t[2] = buf[3] /\ t[3] = buf[4] /\ t[4] = buf[5] /\ ~(Len(buf) < 5)
        BY <1>5, <1>6, <2>1, <2>5, Zenon
      <3> QED
        BY <2>2, <2>3, <2>5, <3>1, Zenon
    <2> QED
      BY <2>4, <2>5, Zenon
  <1> QED
    BY <1>7, <1>8, <1>9, <1>10

\* A capsule with a length of one byte.
LEMMA ShortRead ==
    ASSUME NEW buf \in Seq(Nat), NEW a \in Nat, a < 64, NEW l \in Nat, l < 64,
           Len(buf) >= 1 => buf[1] = a, Len(buf) >= 2 => buf[2] = l
    PROVE  /\ Len(buf) < 2 + l => DecodeCapsule(buf).result = "pending"
           /\ Len(buf) >= 2 + l => DecodeCapsule(buf) = [result |-> "capsule", type |-> a,
                                                         value |-> SubSeq(buf, 3, 2 + l), consumed |-> 2 + l]
  <1>0. MaxValueLen = 65535
    BY SMT DEF MaxValueLen, MaxUdp
  <1>1. l <= MaxValueLen /\ l \in Nat /\ a < 64 /\ l < 64 /\ Len(buf) \in Nat
    BY <1>0, SMT
  <1>2. CASE Len(buf) = 0
    <2>1. DecodeCapsule(buf).result = "pending"
      BY <1>2, CapsuleAwaited
    <2>2. Len(buf) < 2 + l /\ ~(Len(buf) >= 2 + l)
      <3>1. \A n, m \in Nat : n = 0 => n < 2 + m /\ ~(n >= 2 + m)
        OBVIOUS
      <3> QED
        BY <1>1, <1>2, <3>1, Zenon
    <2> QED
      BY <2>1, <2>2, Zenon
  <1>3. CASE Len(buf) = 1
    <2>2. Len(buf) >= 1 /\ buf[1] < 64
      BY <1>1, <1>3
    <2>1. VarintDecode(SubSeq(buf, 2, Len(buf))) = NotYet
      BY <1>3, <2>2, LengthRead
    <2>3. DecodeCapsule(buf).result = "pending"
      BY <2>1, <2>2, CapsuleAwaited
    <2>4. Len(buf) < 2 + l /\ ~(Len(buf) >= 2 + l)
      BY <1>1, <1>3
    <2> QED
      BY <2>3, <2>4
  <1>4. CASE Len(buf) >= 2
    <2>0. Len(buf) >= 1 /\ buf[1] < 64 /\ buf[1] = a /\ buf[2] = l
      BY <1>1, <1>4
    <2>1. VarintDecode(SubSeq(buf, 2, Len(buf))) = [ok |-> TRUE, value |-> l, len |-> 1]
      BY <1>1, <1>4, <2>0, LengthRead
    <2>2. 1 + 1 + l = 2 + l /\ 1 + 2 = 3 /\ 1 \in Nat
      BY <1>1
    <2>3. /\ Len(buf) < 1 + 1 + l => DecodeCapsule(buf).result = "pending"
          /\ Len(buf) >= 1 + 1 + l => DecodeCapsule(buf) = [result |-> "capsule", type |-> buf[1],
                                             value |-> SubSeq(buf, 1 + 2, 1 + 1 + l), consumed |-> 1 + 1 + l]
      BY <1>1, <2>0, <2>1, <2>2, CapsuleRead
    <2> QED
      BY <2>0, <2>2, <2>3
  <1>5. Len(buf) = 0 \/ Len(buf) = 1 \/ Len(buf) >= 2
    <2>1. \A n \in Nat : n = 0 \/ n = 1 \/ n >= 2
      OBVIOUS
    <2> QED
      BY <1>1, <2>1, Zenon
  <1> QED
    BY <1>2, <1>3, <1>4, <1>5

\* A part of a sequence.
LEMMA PartOf ==
    ASSUME NEW S, NEW s \in Seq(S), NEW m \in Nat, NEW n \in Nat, m <= n, n <= Len(s)
    PROVE  /\ SubSeq(s, m + 1, n) \in Seq(S) /\ Len(SubSeq(s, m + 1, n)) = n - m
           /\ \A i \in 1 .. n - m : SubSeq(s, m + 1, n)[i] = s[m + i]
  <1>1. \A i \in m + 1 .. n : s[i] \in S
    OBVIOUS
  <1>2. SubSeq(s, m + 1, n) \in Seq(S)
    BY <1>1, SubSeqProperties
  <1>3. Len(SubSeq(s, m + 1, n)) = n - m
    BY SubSeqProperties
  <1>4. \A i \in 1 .. n - m : SubSeq(s, m + 1, n)[i] = s[m + i]
    BY SubSeqProperties
  <1> QED
    BY <1>2, <1>3, <1>4

\* The payload of a value is what follows a context of one byte, when that is 0.
LEMMA PayloadRead ==
    ASSUME NEW value \in Seq(Nat)
    PROVE  /\ Len(value) = 0 => UdpPayload(value) = <<>>
           /\ Len(value) >= 1 /\ value[1] = 0 => UdpPayload(value) = <<SubSeq(value, 2, Len(value))>>
           /\ Len(value) >= 1 /\ value[1] = 1 => UdpPayload(value) = <<>>
  <1>1. PICK context : context = VarintDecode(value)
    OBVIOUS
  <1>2. UdpPayload(value) = IF context.ok /\ context.value = 0
                              THEN <<SubSeq(value, context.len + 1, Len(value))>> ELSE <<>>
    BY <1>1 DEF UdpPayload
  <1>3. ASSUME Len(value) = 0 PROVE UdpPayload(value) = <<>>
    <2>1. context = NotYet
      BY <1>1, <1>3, IntegerRead
    <2>2. ~context.ok
      BY <2>1 DEF NotYet
    <2> QED
      BY <1>2, <2>2
  <1>4. ASSUME Len(value) >= 1, value[1] = 0 PROVE UdpPayload(value) = <<SubSeq(value, 2, Len(value))>>
    <2>0. value[1] < 64
      BY <1>4
    <2>1. context = [ok |-> TRUE, value |-> 0, len |-> 1]
      BY <1>1, <1>4, <2>0, IntegerRead
    <2>2. context.ok /\ context.value = 0 /\ context.len + 1 = 2
      BY <2>1
    <2> QED
      BY <1>2, <2>2
  <1>5. ASSUME Len(value) >= 1, value[1] = 1 PROVE UdpPayload(value) = <<>>
    <2>0. value[1] < 64
      BY <1>5
    <2>1. context = [ok |-> TRUE, value |-> 1, len |-> 1]
      BY <1>1, <1>5, <2>0, IntegerRead
    <2>2. context.value # 0
      BY <2>1
    <2> QED
      BY <1>2, <2>2
  <1> QED
    BY <1>3, <1>4, <1>5

\* A value of two bytes: a context and one byte.
LEMMA TwoBytes ==
    ASSUME NEW buf \in Seq(Nat), NEW h \in Nat, Len(buf) >= h + 2, NEW k \in Nat, buf[h + 2] = k
    PROVE  /\ buf[h + 1] = 0 => UdpPayload(SubSeq(buf, h + 1, h + 2)) = <<<<k>>>>
           /\ buf[h + 1] = 1 => UdpPayload(SubSeq(buf, h + 1, h + 2)) = <<>>
  <1>1. PICK v \in Seq(Nat) : v = SubSeq(buf, h + 1, h + 2) /\ Len(v) = 2 /\ v[1] = buf[h + 1] /\ v[2] = k
    <2>1. h + 2 \in Nat /\ h <= h + 2 /\ (h + 2) - h = 2 /\ h + 2 <= Len(buf)
      OBVIOUS
    <2>2. /\ SubSeq(buf, h + 1, h + 2) \in Seq(Nat) /\ Len(SubSeq(buf, h + 1, h + 2)) = (h + 2) - h
          /\ \A i \in 1 .. (h + 2) - h : SubSeq(buf, h + 1, h + 2)[i] = buf[h + i]
      BY <2>1, PartOf
    <2>3. 1 \in 1 .. (h + 2) - h /\ 2 \in 1 .. (h + 2) - h
      BY <2>1
    <2> QED
      BY <2>1, <2>2, <2>3, Zenon
  <1>2. PICK p : p = SubSeq(v, 2, Len(v))
    OBVIOUS
  <1>3. p = <<k>>
    <2>1. /\ SubSeq(v, 1 + 1, Len(v)) \in Seq(Nat) /\ Len(SubSeq(v, 1 + 1, Len(v))) = Len(v) - 1
          /\ \A i \in 1 .. Len(v) - 1 : SubSeq(v, 1 + 1, Len(v))[i] = v[1 + i]
      BY <1>1, RestOf
    <2>2. 1 + 1 = 2 /\ Len(v) - 1 = 1
      BY <1>1
    <2>3. p \in Seq(Nat) /\ Len(p) = 1 /\ p[1] = k
      BY <1>1, <1>2, <2>1, <2>2
    <2> QED
      BY <2>3
  <1>4. Len(v) >= 1
    BY <1>1
  <1>5. ASSUME buf[h + 1] = 0 PROVE UdpPayload(v) = <<<<k>>>>
    <2>1. UdpPayload(v) = <<p>>
      BY <1>1, <1>2, <1>4, <1>5, PayloadRead
    <2> QED
      BY <1>3, <2>1
  <1>6. ASSUME buf[h + 1] = 1 PROVE UdpPayload(v) = <<>>
    BY <1>1, <1>4, <1>6, PayloadRead
  <1> QED
    BY <1>1, <1>5, <1>6

\* A buffer begins with a capsule, as far as it goes.
Begins(buf, cap) == \A i \in 1 .. Len(cap) : i <= Len(buf) => buf[i] = cap[i]

\* What the pump makes of the front of its buffer: awaited, or refused, or a capsule and the datagram in it.
FrontRead(buf, cap, found) ==
    /\ Len(buf) < Len(cap) => DecodeCapsule(buf).result = "pending"
    /\ Len(buf) >= Len(cap) =>
         \/ DecodeCapsule(buf).result = "violation"
         \/ /\ DecodeCapsule(buf).result = "capsule" /\ DecodeCapsule(buf).consumed = Len(cap)
            /\ (IF DecodeCapsule(buf).type = 0 THEN UdpPayload(DecodeCapsule(buf).value) ELSE <<>>) = found

\* A capsule with a value of two bytes and its length in one.
LEMMA FrontTwo ==
    ASSUME NEW buf \in Seq(Nat), NEW k \in Nat, NEW x \in Nat, NEW cap, cap = <<0, 2, x, k>>, Begins(buf, cap)
    PROVE  /\ x = 0 => FrontRead(buf, cap, <<<<k>>>>)
           /\ x = 1 => FrontRead(buf, cap, <<>>)
  <1>1. Len(cap) = 4 /\ cap[1] = 0 /\ cap[2] = 2 /\ cap[3] = x /\ cap[4] = k
    OBVIOUS
  <1>2. \A i \in 1 .. 4 : i <= Len(buf) => buf[i] = cap[i]
    BY <1>1 DEF Begins
  <1>3. /\ Len(buf) >= 1 => buf[1] = 0
        /\ Len(buf) >= 2 => buf[2] = 2
        /\ Len(buf) >= 4 => buf[3] = x /\ buf[4] = k
    <2>1. 1 \in 1 .. 4 /\ 2 \in 1 .. 4 /\ 3 \in 1 .. 4 /\ 4 \in 1 .. 4
      OBVIOUS
    <2> QED
      BY <1>1, <1>2, <2>1
  <1>4. /\ Len(buf) < 2 + 2 => DecodeCapsule(buf).result = "pending"
        /\ Len(buf) >= 2 + 2 => DecodeCapsule(buf) = [result |-> "capsule", type |-> 0,
                                                      value |-> SubSeq(buf, 3, 2 + 2), consumed |-> 2 + 2]
    <2>1. 0 \in Nat /\ 2 \in Nat /\ 0 < 64 /\ 2 < 64
      OBVIOUS
    <2> QED
      BY <1>3, <2>1, ShortRead
  <1>5. ASSUME Len(buf) >= 4, NEW f, UdpPayload(SubSeq(buf, 3, 4)) = f PROVE FrontRead(buf, cap, f)
    <2>1. DecodeCapsule(buf) = [result |-> "capsule", type |-> 0, value |-> SubSeq(buf, 3, 4), consumed |-> 4]
      BY <1>4, <1>5
    <2>2. /\ DecodeCapsule(buf).result = "capsule" /\ DecodeCapsule(buf).consumed = 4
          /\ DecodeCapsule(buf).type = 0 /\ UdpPayload(DecodeCapsule(buf).value) = f
      BY <1>5, <2>1
    <2>3. ~(Len(buf) < Len(cap))
      BY <1>1, <1>5
    <2> QED
      BY <1>1, <2>2, <2>3 DEF FrontRead
  <1>6. ASSUME ~(Len(buf) >= 4), NEW f PROVE FrontRead(buf, cap, f)
    <2>1. DecodeCapsule(buf).result = "pending" /\ ~(Len(buf) >= Len(cap))
      BY <1>1, <1>4, <1>6
    <2> QED
      BY <2>1 DEF FrontRead
  <1>7. ASSUME Len(buf) >= 4
        PROVE  /\ x = 0 => UdpPayload(SubSeq(buf, 3, 4)) = <<<<k>>>>
               /\ x = 1 => UdpPayload(SubSeq(buf, 3, 4)) = <<>>
    <2>1. buf[2 + 1] = x /\ buf[2 + 2] = k /\ Len(buf) >= 2 + 2 /\ 2 \in Nat /\ 2 + 1 = 3 /\ 2 + 2 = 4
      BY <1>3, <1>7
    <2>2. /\ buf[2 + 1] = 0 => UdpPayload(SubSeq(buf, 2 + 1, 2 + 2)) = <<<<k>>>>
          /\ buf[2 + 1] = 1 => UdpPayload(SubSeq(buf, 2 + 1, 2 + 2)) = <<>>
      BY <2>1, TwoBytes
    <2> QED
      BY <2>1, <2>2
  <1> QED
    BY <1>5, <1>6, <1>7

\* Any other capsule with its length in one byte, and at most one byte of value: none of them is a datagram.
LEMMA FrontShort ==
    ASSUME NEW buf \in Seq(Nat), NEW k \in Nat, NEW cap, cap = <<1, 1, k>> \/ cap = <<0, 0>>, Begins(buf, cap)
    PROVE  FrontRead(buf, cap, <<>>)
  <1>1. CASE cap = <<1, 1, k>>
    <2>1. Len(cap) = 3 /\ cap[1] = 1 /\ cap[2] = 1
      BY <1>1
    <2>2. /\ Len(buf) >= 1 => buf[1] = 1
          /\ Len(buf) >= 2 => buf[2] = 1
      <3>1. 1 \in 1 .. 3 /\ 2 \in 1 .. 3
        OBVIOUS
      <3>2. \A i \in 1 .. 3 : i <= Len(buf) => buf[i] = cap[i]
        BY <2>1 DEF Begins
      <3> QED
        BY <2>1, <3>1, <3>2
    <2>3. /\ Len(buf) < 2 + 1 => DecodeCapsule(buf).result = "pending"
          /\ Len(buf) >= 2 + 1 => DecodeCapsule(buf) = [result |-> "capsule", type |-> 1,
                                                        value |-> SubSeq(buf, 3, 2 + 1), consumed |-> 2 + 1]
      <3>1. 1 \in Nat /\ 1 < 64
        OBVIOUS
      <3> QED
        BY <2>2, <3>1, ShortRead
    <2>4. CASE Len(buf) >= 3
      <3>1. DecodeCapsule(buf) = [result |-> "capsule", type |-> 1, value |-> SubSeq(buf, 3, 2 + 1), consumed |-> 3]
        BY <2>3, <2>4
      <3>2. DecodeCapsule(buf).result = "capsule" /\ DecodeCapsule(buf).consumed = 3 /\ DecodeCapsule(buf).type # 0
        BY <3>1
      <3>3. ~(Len(buf) < Len(cap))
        BY <2>1, <2>4
      <3> QED
        BY <2>1, <3>2, <3>3 DEF FrontRead
    <2>5. CASE ~(Len(buf) >= 3)
      <3>1. DecodeCapsule(buf).result = "pending" /\ ~(Len(buf) >= Len(cap))
        BY <2>1, <2>3, <2>5
      <3> QED
        BY <3>1 DEF FrontRead
    <2> QED
      BY <2>4, <2>5
  <1>2. CASE cap = <<0, 0>>
    <2>1. Len(cap) = 2 /\ cap[1] = 0 /\ cap[2] = 0
      BY <1>2
    <2>2. /\ Len(buf) >= 1 => buf[1] = 0
          /\ Len(buf) >= 2 => buf[2] = 0
      <3>1. 1 \in 1 .. 2 /\ 2 \in 1 .. 2
        OBVIOUS
      <3>2. \A i \in 1 .. 2 : i <= Len(buf) => buf[i] = cap[i]
        BY <2>1 DEF Begins
      <3> QED
        BY <2>1, <3>1, <3>2
    <2>3. /\ Len(buf) < 2 + 0 => DecodeCapsule(buf).result = "pending"
          /\ Len(buf) >= 2 + 0 => DecodeCapsule(buf) = [result |-> "capsule", type |-> 0,
                                                        value |-> SubSeq(buf, 3, 2 + 0), consumed |-> 2 + 0]
      <3>1. 0 \in Nat /\ 0 < 64
        OBVIOUS
      <3> QED
        BY <2>2, <3>1, ShortRead
    <2>4. CASE Len(buf) >= 2
      <3>1. PICK v : v = SubSeq(buf, 3, 2)
        OBVIOUS
      <3>2. DecodeCapsule(buf) = [result |-> "capsule", type |-> 0, value |-> v, consumed |-> 2]
        <4>1. 2 + 0 = 2
          OBVIOUS
        <4> QED
          BY <2>3, <2>4, <3>1, <4>1
      <3>3. UdpPayload(v) = <<>>
        <4>1. /\ SubSeq(buf, 2 + 1, 2) \in Seq(Nat) /\ Len(SubSeq(buf, 2 + 1, 2)) = 2 - 2
          BY <2>4, PartOf
        <4>2. v \in Seq(Nat) /\ Len(v) = 0
          BY <3>1, <4>1
        <4> QED
          BY <4>2, PayloadRead
      <3>4. /\ DecodeCapsule(buf).result = "capsule" /\ DecodeCapsule(buf).consumed = 2
            /\ DecodeCapsule(buf).type = 0 /\ DecodeCapsule(buf).value = v
        BY <3>2
      <3>5. ~(Len(buf) < Len(cap))
        BY <2>1, <2>4
      <3> QED
        BY <2>1, <3>3, <3>4, <3>5 DEF FrontRead
    <2>5. CASE ~(Len(buf) >= 2)
      <3>1. DecodeCapsule(buf).result = "pending" /\ ~(Len(buf) >= Len(cap))
        BY <2>1, <2>3, <2>5
      <3> QED
        BY <3>1 DEF FrontRead
    <2> QED
      BY <2>4, <2>5
  <1> QED
    BY <1>1, <1>2

\* A datagram with its length in two bytes.
LEMMA FrontLong ==
    ASSUME NEW buf \in Seq(Nat), NEW k \in Nat, NEW cap, cap = <<0, 64, 2, 0, k>>, Begins(buf, cap)
    PROVE  FrontRead(buf, cap, <<<<k>>>>)
  <1>0. Len(buf) \in Nat /\ 2 <= MaxValueLen
    BY SMT DEF MaxValueLen, MaxUdp
  <1>1. Len(cap) = 5 /\ cap[1] = 0 /\ cap[2] = 64 /\ cap[3] = 2 /\ cap[4] = 0 /\ cap[5] = k
    OBVIOUS
  <1>2. \A i \in 1 .. 5 : i <= Len(buf) => buf[i] = cap[i]
    BY <1>1 DEF Begins
  <1>3. 1 \in 1 .. 5 /\ 2 \in 1 .. 5 /\ 3 \in 1 .. 5 /\ 4 \in 1 .. 5 /\ 5 \in 1 .. 5
    OBVIOUS
  <1>4. /\ Len(buf) >= 1 => buf[1] = 0
        /\ Len(buf) >= 2 => buf[2] = 64
        /\ Len(buf) >= 3 => buf[3] = 2
        /\ Len(buf) >= 5 => buf[4] = 0 /\ buf[5] = k
    BY <1>1, <1>2, <1>3
  <1>5. ASSUME Len(buf) < 3 PROVE DecodeCapsule(buf).result = "pending"
    <2>1. CASE Len(buf) = 0
      BY <2>1, CapsuleAwaited
    <2>2. CASE Len(buf) = 1
      <3>1. Len(buf) >= 1 /\ buf[1] < 64
        BY <1>4, <2>2
      <3>2. VarintDecode(SubSeq(buf, 2, Len(buf))) = NotYet
        BY <2>2, <3>1, LengthRead
      <3> QED
        BY <3>1, <3>2, CapsuleAwaited
    <2>3. CASE Len(buf) = 2
      <3>1. Len(buf) >= 1 /\ buf[1] < 64 /\ Len(buf) >= 2 /\ 64 <= buf[2] /\ buf[2] < 128
        BY <1>4, <2>3
      <3>2. VarintDecode(SubSeq(buf, 2, Len(buf))) = NotYet
        BY <1>5, <3>1, LengthRead
      <3> QED
        BY <3>1, <3>2, CapsuleAwaited
    <2>4. \A n \in Nat : n < 3 => n = 0 \/ n = 1 \/ n = 2
      OBVIOUS
    <2> QED
      BY <1>0, <1>5, <2>1, <2>2, <2>3, <2>4, Zenon
  <1>6. ASSUME Len(buf) >= 3
        PROVE  /\ Len(buf) < 1 + 2 + 2 => DecodeCapsule(buf).result = "pending"
               /\ Len(buf) >= 1 + 2 + 2 =>
                    DecodeCapsule(buf) = [result |-> "capsule", type |-> buf[1],
                                          value |-> SubSeq(buf, 2 + 2, 1 + 2 + 2), consumed |-> 1 + 2 + 2]
    <2>1. Len(buf) >= 1 /\ buf[1] < 64 /\ Len(buf) >= 2 /\ 64 <= buf[2] /\ buf[2] < 128 /\ ~(Len(buf) < 3)
          /\ OfTwo(buf[2], buf[3]) = 2
      BY <1>4, <1>6, SMTT(30) DEF OfTwo
    <2>2. VarintDecode(SubSeq(buf, 2, Len(buf))) = [ok |-> TRUE, value |-> 2, len |-> 2]
      <3>1. VarintDecode(SubSeq(buf, 2, Len(buf))) = [ok |-> TRUE, value |-> OfTwo(buf[2], buf[3]), len |-> 2]
        <4>1. VarintDecode(SubSeq(buf, 2, Len(buf))) =
                IF Len(buf) < 3 THEN NotYet
                ELSE [ok |-> TRUE, value |-> OfTwo(buf[2], buf[3]), len |-> 2]
          BY <2>1, LengthRead, Zenon
        <4> QED
          BY <2>1, <4>1, Zenon
      <3> QED
        BY <2>1, <3>1
    <2>3. 2 \in Nat
      OBVIOUS
    <2> QED
      BY <1>0, <2>1, <2>2, <2>3, CapsuleRead
  <1>7. CASE Len(buf) >= 5
    <2>1. PICK v : v = SubSeq(buf, 4, 5)
      OBVIOUS
    <2>2. DecodeCapsule(buf) = [result |-> "capsule", type |-> 0, value |-> v, consumed |-> 5]
      <3>1. 1 + 2 + 2 = 5 /\ 2 + 2 = 4 /\ Len(buf) >= 3 /\ Len(buf) >= 1
        BY <1>7
      <3> QED
        BY <1>4, <1>6, <1>7, <2>1, <3>1
    <2>3. UdpPayload(v) = <<<<k>>>>
      <3>1. buf[3 + 1] = 0 /\ buf[3 + 2] = k /\ Len(buf) >= 3 + 2 /\ 3 \in Nat /\ 3 + 1 = 4 /\ 3 + 2 = 5
        BY <1>4, <1>7
      <3>2. UdpPayload(SubSeq(buf, 3 + 1, 3 + 2)) = <<<<k>>>>
        BY <3>1, TwoBytes
      <3> QED
        BY <2>1, <3>1, <3>2
    <2>4. /\ DecodeCapsule(buf).result = "capsule" /\ DecodeCapsule(buf).consumed = 5
          /\ DecodeCapsule(buf).type = 0 /\ DecodeCapsule(buf).value = v
      BY <2>2
    <2>5. ~(Len(buf) < Len(cap))
      BY <1>1, <1>7
    <2> QED
      BY <1>1, <2>3, <2>4, <2>5 DEF FrontRead
  <1>8. CASE ~(Len(buf) >= 5)
    <2>1. DecodeCapsule(buf).result = "pending" /\ ~(Len(buf) >= Len(cap))
      <3>1. ~(Len(buf) >= Len(cap)) /\ Len(buf) < 1 + 2 + 2
        BY <1>0, <1>1, <1>8
      <3>2. Len(buf) < 3 \/ Len(buf) >= 3
        BY <1>0
      <3> QED
        BY <1>5, <1>6, <3>1, <3>2
    <2> QED
      BY <2>1 DEF FrontRead
  <1> QED
    BY <1>7, <1>8

\* A length no datagram can have: awaited to its last byte, then refused.
LEMMA FrontTooLong ==
    ASSUME NEW buf \in Seq(Nat), NEW cap, cap = <<0, 128, 1, 0, 0>>, Begins(buf, cap)
    PROVE  FrontRead(buf, cap, <<>>)
  <1>0. Len(buf) \in Nat
    OBVIOUS
  <1>1. Len(cap) = 5 /\ cap[1] = 0 /\ cap[2] = 128 /\ cap[3] = 1 /\ cap[4] = 0 /\ cap[5] = 0
    OBVIOUS
  <1>2. \A i \in 1 .. 5 : i <= Len(buf) => buf[i] = cap[i]
    BY <1>1 DEF Begins
  <1>3. 1 \in 1 .. 5 /\ 2 \in 1 .. 5 /\ 3 \in 1 .. 5 /\ 4 \in 1 .. 5 /\ 5 \in 1 .. 5
    OBVIOUS
  <1>4. /\ Len(buf) >= 1 => buf[1] = 0
        /\ Len(buf) >= 2 => buf[2] = 128
        /\ Len(buf) >= 5 => buf[3] = 1 /\ buf[4] = 0 /\ buf[5] = 0
    BY <1>1, <1>2, <1>3
  <1>5. ASSUME Len(buf) < 5 PROVE DecodeCapsule(buf).result = "pending"
    <2>1. CASE Len(buf) = 0
      BY <2>1, CapsuleAwaited
    <2>2. CASE Len(buf) = 1
      <3>1. Len(buf) >= 1 /\ buf[1] < 64
        BY <1>4, <2>2
      <3>2. VarintDecode(SubSeq(buf, 2, Len(buf))) = NotYet
        BY <2>2, <3>1, LengthRead
      <3> QED
        BY <3>1, <3>2, CapsuleAwaited
    <2>3. CASE Len(buf) >= 2
      <3>1. Len(buf) >= 1 /\ buf[1] < 64 /\ Len(buf) >= 2 /\ 128 <= buf[2] /\ buf[2] < 192
        BY <1>4, <2>3
      <3>2. VarintDecode(SubSeq(buf, 2, Len(buf))) = NotYet
        BY <1>5, <3>1, LengthRead
      <3> QED
        BY <3>1, <3>2, CapsuleAwaited
    <2>4. \A n \in Nat : n = 0 \/ n = 1 \/ n >= 2
      OBVIOUS
    <2> QED
      BY <1>0, <2>1, <2>2, <2>3, <2>4, Zenon
  <1>6. CASE Len(buf) >= 5
    <2>1. Len(buf) >= 1 /\ buf[1] < 64 /\ Len(buf) >= 2 /\ 128 <= buf[2] /\ buf[2] < 192 /\ ~(Len(buf) < 5)
      BY <1>4, <1>6, SMTT(30)
    <2>2. PICK v \in Nat : v = OfFour(buf[2], buf[3], buf[4], buf[5]) /\ v > MaxValueLen
      <3>1. buf[2] = 128 /\ buf[3] = 1 /\ buf[4] = 0 /\ buf[5] = 0
        BY <1>4, <1>6, <2>1
      <3>2. OfFour(128, 1, 0, 0) > MaxValueLen
        BY SMT DEF MaxValueLen, MaxUdp, OfFour
      <3>3. OfFour(128, 1, 0, 0) \in Nat
        BY SMT DEF OfFour
      <3> QED
        BY <3>1, <3>2, <3>3, Zenon
    <2>3. VarintDecode(SubSeq(buf, 2, Len(buf))) = [ok |-> TRUE, value |-> v, len |-> 4]
      <3>1. VarintDecode(SubSeq(buf, 2, Len(buf))) =
              [ok    |-> TRUE,
               value |-> OfFour(buf[2], buf[3], buf[4], buf[5]),
               len   |-> 4]
        BY <2>1, LengthRead
      <3> QED
        BY <2>2, <3>1, Zenon
    <2>4. 4 \in Nat
      OBVIOUS
    <2>5. DecodeCapsule(buf).result = "violation"
      <3>1. v > MaxValueLen => DecodeCapsule(buf).result = "violation"
        BY <2>1, <2>3, <2>4, CapsuleRead
      <3> QED
        BY <2>2, <3>1, Zenon
    <2>6. ~(Len(buf) < Len(cap))
      BY <1>1, <1>6
    <2> QED
      BY <2>5, <2>6, Zenon DEF FrontRead
  <1>7. CASE ~(Len(buf) >= 5)
    <2>1. DecodeCapsule(buf).result = "pending" /\ ~(Len(buf) >= Len(cap))
      BY <1>0, <1>1, <1>5, <1>7
    <2> QED
      BY <2>1 DEF FrontRead
  <1> QED
    BY <1>6, <1>7

\* So every capsule of the proxy is read as what it is, and at its last byte.
LEMMA ProxyRead ==
    ASSUME NEW buf \in Seq(Nat), NEW k \in Nat, NEW cap \in ProxyCapsules(k), Begins(buf, cap)
    PROVE  FrontRead(buf, cap, IF IsDatagram(cap) THEN <<<<k>>>> ELSE <<>>)
  <1>1. CASE cap = <<0, 2, 0, k>>
    <2>1. IsDatagram(cap)
      BY <1>1 DEF IsDatagram
    <2>2. FrontRead(buf, cap, <<<<k>>>>)
      BY <1>1, FrontTwo
    <2> QED
      BY <2>1, <2>2, Zenon
  <1>2. CASE cap = <<0, 64, 2, 0, k>>
    <2>1. IsDatagram(cap)
      BY <1>2 DEF IsDatagram
    <2> QED
      BY <1>2, <2>1, FrontLong
  <1>3. CASE cap = <<0, 2, 1, k>>
    <2>1. Len(cap) = 4 /\ cap[3] = 1
      BY <1>3
    <2>2. cap[Len(cap) - 1] # 0
      BY <2>1
    <2>3. ~IsDatagram(cap)
      BY <2>2 DEF IsDatagram
    <2>4. FrontRead(buf, cap, <<>>)
      BY <1>3, FrontTwo
    <2> QED
      BY <2>3, <2>4, Zenon
  <1>4. CASE cap = <<1, 1, k>> \/ cap = <<0, 0>>
    <2>1. CASE cap = <<1, 1, k>>
      <3>1. cap[1] # 0
        BY <2>1
      <3>2. ~IsDatagram(cap)
        BY <3>1 DEF IsDatagram
      <3>3. FrontRead(buf, cap, <<>>)
        BY <2>1, FrontShort
      <3> QED
        BY <3>2, <3>3, Zenon
    <2>2. CASE cap = <<0, 0>>
      <3>1. cap[2] = 0
        BY <2>2
      <3>2. ~IsDatagram(cap)
        BY <3>1 DEF IsDatagram
      <3>3. FrontRead(buf, cap, <<>>)
        BY <2>2, FrontShort
      <3> QED
        BY <3>2, <3>3, Zenon
    <2> QED
      BY <1>4, <2>1, <2>2
  <1>5. CASE cap = <<0, 128, 1, 0, 0>>
    <2>1. ~IsDatagram(cap)
      BY <1>5 DEF IsDatagram
    <2> QED
      BY <1>5, <2>1, FrontTooLong
  <1> QED
    BY <1>1, <1>2, <1>3, <1>4, <1>5 DEF ProxyCapsules

\* The bytes of an integer that goes out.
LEMMA EncodedIs ==
    ASSUME NEW v \in Nat, v < 2^30
    PROVE  /\ v < 64 => VarintEncode(v) = <<v>>
           /\ 64 <= v /\ v < 2^14 => VarintEncode(v) = <<64 + (v \div 256), v % 256>>
           /\ 2^14 <= v => VarintEncode(v) = <<128 + (v \div 2^24), (v \div 2^16) % 256, (v \div 256) % 256, v % 256>>
  <1>1. ASSUME v < 64 PROVE VarintEncode(v) = <<v>>
    <2>1. VarintEncode(v) = Tagged(v, 1, 0)
      BY <1>1, SMT DEF VarintEncode
    <2>2. BigEndian(v, 1) = <<v>>
      BY SMT DEF BigEndian
    <2>3. Tagged(v, 1, 0) = [<<v>> EXCEPT ![1] = @ + 64 * 0]
      BY <2>2, SMT DEF Tagged
    <2> QED
      BY <2>1, <2>3, SMT
  <1>2. ASSUME 64 <= v, v < 2^14 PROVE VarintEncode(v) = <<64 + (v \div 256), v % 256>>
    <2>1. VarintEncode(v) = Tagged(v, 2, 1)
      BY <1>2, SMT DEF VarintEncode
    <2>2. BigEndian(v, 2) = <<v \div 256, v % 256>>
      BY SMT DEF BigEndian
    <2>3. PICK a \in Nat, b \in Nat : a = v \div 256 /\ b = v % 256
      BY SMT
    <2>4. Tagged(v, 2, 1) = [<<a, b>> EXCEPT ![1] = @ + 64 * 1]
      BY <2>2, <2>3, SMT DEF Tagged
    <2>5. [<<a, b>> EXCEPT ![1] = @ + 64 * 1] = <<64 + a, b>>
      BY SMT
    <2> QED
      BY <2>1, <2>3, <2>4, <2>5, SMT
  <1>3. ASSUME 2^14 <= v
        PROVE  VarintEncode(v) = <<128 + (v \div 2^24), (v \div 2^16) % 256, (v \div 256) % 256, v % 256>>
    <2>1. VarintEncode(v) = Tagged(v, 4, 2)
      BY <1>3, SMT DEF VarintEncode
    <2>2. BigEndian(v, 4) = <<v \div 2^24, (v \div 2^16) % 256, (v \div 256) % 256, v % 256>>
      BY SMT DEF BigEndian
    <2>3. PICK a \in Nat, b \in Nat, c \in Nat, d \in Nat :
             a = v \div 2^24 /\ b = (v \div 2^16) % 256 /\ c = (v \div 256) % 256 /\ d = v % 256
      BY SMT
    <2>4. Tagged(v, 4, 2) = [<<a, b, c, d>> EXCEPT ![1] = @ + 64 * 2]
      BY <2>2, <2>3, SMT DEF Tagged
    <2>5. [<<a, b, c, d>> EXCEPT ![1] = @ + 64 * 2] = <<128 + a, b, c, d>>
      BY SMT
    <2> QED
      BY <2>1, <2>3, <2>4, <2>5, SMT
  <1> QED
    BY <1>1, <1>2, <1>3, SMT

\* Every integer below 2^30 is read back from the bytes it was written as, whatever follows them, with the number
\* of these bytes (varint.rs: encode, decode).
THEOREM VarintRoundTrip ==
    ASSUME NEW v \in Nat, v < 2^30
    PROVE  /\ VarintEncode(v) \in Seq(Nat) /\ Len(VarintEncode(v)) \in {1, 2, 4}
           /\ \A buf \in Seq(Nat) : Begins(buf, VarintEncode(v)) /\ Len(buf) >= Len(VarintEncode(v)) =>
                VarintDecode(buf) = [ok |-> TRUE, value |-> v, len |-> Len(VarintEncode(v))]
  <1> DEFINE Back(e) == /\ e \in Seq(Nat) /\ Len(e) \in {1, 2, 4}
                        /\ \A buf \in Seq(Nat) : Begins(buf, e) /\ Len(buf) >= Len(e) =>
                             VarintDecode(buf) = [ok |-> TRUE, value |-> v, len |-> Len(e)]
  <1> SUFFICES Back(VarintEncode(v))
    BY Zenon
  <1>1. CASE v < 64
    <2>1. VarintEncode(v) = <<v>>
      BY <1>1, EncodedIs, SMT
    <2>2. PICK e : e = <<v>>
      OBVIOUS
    <2>3. e \in Seq(Nat) /\ Len(e) = 1 /\ e[1] = v
      BY <2>2
    <2>4. ASSUME NEW buf \in Seq(Nat), Begins(buf, e), Len(buf) >= Len(e)
          PROVE  VarintDecode(buf) = [ok |-> TRUE, value |-> v, len |-> Len(e)]
      <3>1. Len(buf) >= 1
        BY <2>3, <2>4
      <3>2. buf[1] = v /\ buf[1] < 64
        BY <1>1, <2>3, <2>4, <3>1 DEF Begins
      <3>3. VarintDecode(buf) = [ok |-> TRUE, value |-> buf[1], len |-> 1]
        BY <3>1, <3>2, IntegerRead
      <3> QED
        BY <2>3, <3>2, <3>3, Zenon
    <2>5. Len(e) \in {1, 2, 4}
      BY <2>3
    <2>6. Back(e)
      BY <2>3, <2>4, <2>5, Zenon
    <2> QED
      BY <2>1, <2>2, <2>6, Zenon
  <1>2. CASE 64 <= v /\ v < 2^14
    <2>0. PICK a \in Nat, b \in Nat : a = 64 + (v \div 256) /\ b = v % 256 /\ 64 <= a /\ a < 128 /\ OfTwo(a, b) = v
      BY <1>2, SMT DEF OfTwo
    <2>1. VarintEncode(v) = <<a, b>>
      BY <1>2, <2>0, EncodedIs, SMT
    <2>2. PICK e : e = <<a, b>>
      OBVIOUS
    <2>3. e \in Seq(Nat) /\ Len(e) = 2 /\ e[1] = a /\ e[2] = b
      BY <2>2
    <2>4. ASSUME NEW buf \in Seq(Nat), Begins(buf, e), Len(buf) >= Len(e)
          PROVE  VarintDecode(buf) = [ok |-> TRUE, value |-> v, len |-> Len(e)]
      <3>1. Len(buf) >= 2
        BY <2>3, <2>4
      <3>2. buf[1] = a /\ buf[2] = b
        BY <2>3, <2>4, <3>1 DEF Begins
      <3>3. Len(buf) >= 1 /\ 64 <= buf[1] /\ buf[1] < 128 /\ ~(Len(buf) < 2)
        BY <2>0, <3>1, <3>2
      <3>4. VarintDecode(buf) = [ok |-> TRUE, value |-> OfTwo(buf[1], buf[2]), len |-> 2]
        BY <3>3, IntegerRead
      <3> QED
        BY <2>0, <2>3, <3>2, <3>4, Zenon
    <2>5. Len(e) \in {1, 2, 4}
      BY <2>3
    <2>6. Back(e)
      BY <2>3, <2>4, <2>5, Zenon
    <2> QED
      BY <2>1, <2>2, <2>6, Zenon
  <1>3. CASE 2^14 <= v
    <2>0. PICK a \in Nat, b \in Nat, c \in Nat, d \in Nat :
            /\ a = 128 + (v \div 2^24) /\ b = (v \div 2^16) % 256 /\ c = (v \div 256) % 256 /\ d = v % 256
            /\ 128 <= a /\ a < 192 /\ OfFour(a, b, c, d) = v
      BY <1>3, SMT DEF OfFour
    <2>1. VarintEncode(v) = <<a, b, c, d>>
      <3>1. VarintEncode(v) = <<128 + (v \div 2^24), (v \div 2^16) % 256, (v \div 256) % 256, v % 256>>
        BY <1>3, EncodedIs, SMT
      <3> QED
        BY <2>0, <3>1, ZenonT(40)
    <2>2. PICK e : e = <<a, b, c, d>>
      OBVIOUS
    <2>3. e \in Seq(Nat) /\ Len(e) = 4 /\ e[1] = a /\ e[2] = b /\ e[3] = c /\ e[4] = d
      BY <2>2
    <2>4. ASSUME NEW buf \in Seq(Nat), Begins(buf, e), Len(buf) >= Len(e)
          PROVE  VarintDecode(buf) = [ok |-> TRUE, value |-> v, len |-> Len(e)]
      <3>1. Len(buf) >= 4
        BY <2>3, <2>4
      <3>2. buf[1] = a /\ buf[2] = b /\ buf[3] = c /\ buf[4] = d
        <4>1. \A i \in 1 .. 4 : i <= Len(buf) => buf[i] = e[i]
          BY <2>3, <2>4 DEF Begins
        <4> QED
          BY <2>3, <3>1, <4>1, SMTT(30)
      <3>3. Len(buf) >= 1 /\ 128 <= buf[1] /\ buf[1] < 192 /\ ~(Len(buf) < 4)
        BY <2>0, <3>1, <3>2, SMTT(30)
      <3>4. VarintDecode(buf) = [ok    |-> TRUE,
                                 value |-> OfFour(buf[1], buf[2], buf[3], buf[4]),
                                 len   |-> 4]
        BY <3>3, IntegerRead
      <3> QED
        BY <2>0, <2>3, <3>2, <3>4, Zenon
    <2>5. Len(e) \in {1, 2, 4}
      BY <2>3
    <2>6. Back(e)
      BY <2>3, <2>4, <2>5, Zenon
    <2> QED
      BY <2>1, <2>2, <2>6, Zenon
  <1> HIDE DEF Back
  <1> QED
    BY <1>1, <1>2, <1>3, SMT

\* Two sequences, one after the other.
LEMMA JoinOf ==
    ASSUME NEW S, NEW s \in Seq(S), NEW t \in Seq(S)
    PROVE  /\ s \o t \in Seq(S) /\ Len(s \o t) = Len(s) + Len(t)
           /\ \A i \in 1 .. Len(s) : (s \o t)[i] = s[i]
           /\ \A i \in 1 .. Len(t) : (s \o t)[Len(s) + i] = t[i]
  BY ConcatProperties

\* The bytes of a datagram that goes out: type, length, context and payload.
Frame(e, w, p) ==
    /\ e \in Seq(Nat) /\ Len(e) = Len(w) + 2 + Len(p)
    /\ e[1] = 0 /\ e[Len(w) + 2] = 0
    /\ \A i \in 1 .. Len(w) : e[1 + i] = w[i]
    /\ \A i \in 1 .. Len(p) : e[Len(w) + 2 + i] = p[i]

\* That is what is written.
LEMMA DatagramBytes ==
    ASSUME NEW p \in Seq(Nat), Len(p) <= MaxUdp,
           NEW w \in Seq(Nat), w = VarintEncode(Len(p) + 1),
           NEW e, e = EncodeDatagram(p)
    PROVE  Frame(e, w, p)
  <1>1. PICK z \in Seq(Nat) : z = VarintEncode(0) /\ Len(z) = 1 /\ z[1] = 0
    <2>1. VarintEncode(0) = <<0>>
      BY EncodedIs, SMT
    <2>2. <<0>> \in Seq(Nat) /\ Len(<<0>>) = 1 /\ <<0>>[1] = 0
      OBVIOUS
    <2> QED
      BY <2>1, <2>2, Zenon
  <1>2. PICK m \in Nat : m = Len(w)
    OBVIOUS
  <1>3. PICK x \in Seq(Nat) : /\ x = z \o w /\ Len(x) = 1 + m /\ x[1] = 0
                              /\ \A i \in 1 .. m : x[1 + i] = w[i]
    <2>1. /\ z \o w \in Seq(Nat) /\ Len(z \o w) = Len(z) + Len(w)
          /\ \A i \in 1 .. Len(z) : (z \o w)[i] = z[i]
          /\ \A i \in 1 .. Len(w) : (z \o w)[Len(z) + i] = w[i]
      BY JoinOf
    <2>2. 1 \in 1 .. Len(z)
      BY <1>1
    <2>3. (z \o w)[1] = 0 /\ Len(z \o w) = 1 + m
      BY <1>1, <1>2, <2>1, <2>2
    <2>4. \A i \in 1 .. m : (z \o w)[1 + i] = w[i]
      BY <1>1, <1>2, <2>1, Zenon
    <2> QED
      BY <2>1, <2>3, <2>4, Zenon
  <1>4. PICK y \in Seq(Nat) : /\ y = x \o z /\ Len(y) = m + 2 /\ y[m + 2] = 0
                              /\ \A i \in 1 .. 1 + m : y[i] = x[i]
    <2>1. /\ x \o z \in Seq(Nat) /\ Len(x \o z) = Len(x) + Len(z)
          /\ \A i \in 1 .. Len(x) : (x \o z)[i] = x[i]
          /\ \A i \in 1 .. Len(z) : (x \o z)[Len(x) + i] = z[i]
      BY JoinOf
    <2>2. 1 \in 1 .. Len(z) /\ Len(x) + 1 = m + 2
      BY <1>1, <1>3
    <2>3. (x \o z)[m + 2] = 0
      <3>1. (x \o z)[Len(x) + 1] = z[1]
        BY <2>1, <2>2, Zenon
      <3> QED
        BY <1>1, <2>2, <3>1, Zenon
    <2>4. Len(x \o z) = m + 2
      <3>1. Len(x \o z) = (1 + m) + 1
        BY <1>1, <1>3, <2>1, Zenon
      <3>2. (1 + m) + 1 = m + 2
        OBVIOUS
      <3> QED
        BY <3>1, <3>2, Zenon
    <2>5. \A i \in 1 .. 1 + m : (x \o z)[i] = x[i]
      BY <1>3, <2>1, Zenon
    <2> QED
      BY <2>1, <2>3, <2>4, <2>5, Zenon
  <1>5. e = y \o p
    BY <1>1, <1>3, <1>4 DEF EncodeDatagram
  <1>6. /\ e \in Seq(Nat) /\ Len(e) = Len(y) + Len(p)
        /\ \A i \in 1 .. Len(y) : e[i] = y[i]
        /\ \A i \in 1 .. Len(p) : e[Len(y) + i] = p[i]
    BY <1>5, JoinOf
  <1>7. e[1] = 0 /\ e[m + 2] = 0
    <2>1. 1 \in 1 .. Len(y) /\ m + 2 \in 1 .. Len(y) /\ 1 \in 1 .. 1 + m
      BY <1>4
    <2> QED
      BY <1>3, <1>4, <1>6, <2>1
  <1>8. ASSUME NEW i \in 1 .. m PROVE e[1 + i] = w[i]
    <2>1. 1 + i \in 1 .. Len(y) /\ 1 + i \in 1 .. 1 + m
      BY <1>4
    <2> QED
      BY <1>3, <1>4, <1>6, <2>1, ZenonT(40)
  <1> QED
    BY <1>2, <1>4, <1>6, <1>7, <1>8 DEF Frame

\* Whatever follows it, a datagram that went out is read back as one capsule, to its last byte, and its payload is
\* the one that was sent, at every length a UDP payload can have (capsule.rs: encode_datagram, decode, and
\* udp_datagram_payload).
THEOREM DatagramRoundTrip ==
    ASSUME NEW p \in Seq(Nat), Len(p) <= MaxUdp
    PROVE  /\ EncodeDatagram(p) \in Seq(Nat) /\ Len(EncodeDatagram(p)) > 0
           /\ \A buf \in Seq(Nat) : Begins(buf, EncodeDatagram(p)) /\ Len(buf) >= Len(EncodeDatagram(p)) =>
                /\ DecodeCapsule(buf).result = "capsule"
                /\ DecodeCapsule(buf).consumed = Len(EncodeDatagram(p))
                /\ UdpPayload(DecodeCapsule(buf).value) = <<p>>
  <1>1. PICK l \in Nat : l = Len(p) /\ l + 1 < 2^30 /\ l + 1 <= MaxValueLen /\ l + 1 \in Nat
    BY SMT DEF MaxUdp, MaxValueLen
  <1>2. PICK w \in Seq(Nat) : w = VarintEncode(l + 1)
    BY <1>1, VarintRoundTrip
  <1>3. PICK m \in Nat : m = Len(w) /\ m \in {1, 2, 4}
    BY <1>1, <1>2, VarintRoundTrip
  <1>4. PICK e : e = EncodeDatagram(p)
    OBVIOUS
  <1>5. /\ e \in Seq(Nat) /\ Len(e) = m + 2 + l
        /\ e[1] = 0 /\ e[m + 2] = 0
        /\ \A i \in 1 .. m : e[1 + i] = w[i]
        /\ \A i \in 1 .. l : e[m + 2 + i] = p[i]
    <2>1. w = VarintEncode(Len(p) + 1)
      BY <1>1, <1>2
    <2>2. Frame(e, w, p)
      BY <1>4, <2>1, DatagramBytes
    <2> QED
      BY <1>1, <1>3, <2>2, Zenon DEF Frame
  <1>6. Len(e) > 0
    BY <1>5
  <1>7. ASSUME NEW buf \in Seq(Nat), Begins(buf, e), Len(buf) >= Len(e)
        PROVE  /\ DecodeCapsule(buf).result = "capsule" /\ DecodeCapsule(buf).consumed = Len(e)
               /\ UdpPayload(DecodeCapsule(buf).value) = <<p>>
    <2>1. PICK b \in Nat : b = Len(buf) /\ b >= m + 2 + l
      BY <1>5, <1>7
    <2>2. \A i \in 1 .. m + 2 + l : buf[i] = e[i]
      BY <1>5, <1>7, <2>1 DEF Begins
    <2>3. buf[1] = 0 /\ buf[m + 2] = 0
      BY <1>5, <2>2
    <2>4. PICK t \in Seq(Nat) : /\ t = SubSeq(buf, 2, Len(buf)) /\ Len(t) = b - 1
                                /\ \A i \in 1 .. b - 1 : t[i] = buf[1 + i]
      <3>1. 1 \in Nat /\ 1 <= Len(buf) /\ 1 + 1 = 2
        BY <2>1
      <3>2. /\ SubSeq(buf, 1 + 1, Len(buf)) \in Seq(Nat) /\ Len(SubSeq(buf, 1 + 1, Len(buf))) = Len(buf) - 1
            /\ \A i \in 1 .. Len(buf) - 1 : SubSeq(buf, 1 + 1, Len(buf))[i] = buf[1 + i]
        BY <3>1, RestOf
      <3> QED
        BY <2>1, <3>1, <3>2, Zenon
    <2>5. Begins(t, w) /\ Len(t) >= Len(w)
      <3>1. ASSUME NEW i \in 1 .. m PROVE t[i] = w[i]
        <4>1. i \in 1 .. b - 1 /\ 1 + i \in 1 .. m + 2 + l
          BY <2>1
        <4> QED
          BY <1>5, <2>2, <2>4, <4>1
      <3>2. Len(t) >= Len(w)
        BY <1>3, <2>1, <2>4
      <3> QED
        BY <1>3, <3>1, <3>2 DEF Begins
    <2>6. VarintDecode(t) = [ok |-> TRUE, value |-> l + 1, len |-> m]
      BY <1>1, <1>2, <1>3, <2>5, VarintRoundTrip
    <2>7. Len(buf) >= 1 /\ buf[1] < 64 /\ Len(buf) >= 1 + m + (l + 1)
      BY <2>1, <2>3
    <2>8. DecodeCapsule(buf) = [result |-> "capsule", type |-> buf[1],
                                value |-> SubSeq(buf, m + 2, 1 + m + (l + 1)), consumed |-> 1 + m + (l + 1)]
      BY <1>1, <2>4, <2>6, <2>7, CapsuleRead
    <2>9. PICK n \in Nat, k \in Nat : n = m + 2 + l /\ n = 1 + m + (l + 1) /\ k = m + 1 /\ k + 1 = m + 2
      OBVIOUS
    <2>10. PICK v \in Seq(Nat) : /\ v = SubSeq(buf, m + 2, n) /\ Len(v) = l + 1
                                 /\ \A i \in 1 .. l + 1 : v[i] = buf[m + 1 + i]
      <3>1. k <= n /\ n <= Len(buf) /\ n - k = l + 1
        BY <2>1, <2>9
      <3>2. /\ SubSeq(buf, k + 1, n) \in Seq(Nat) /\ Len(SubSeq(buf, k + 1, n)) = n - k
            /\ \A i \in 1 .. n - k : SubSeq(buf, k + 1, n)[i] = buf[k + i]
        BY <3>1, PartOf
      <3> QED
        BY <2>9, <3>1, <3>2, ZenonT(40)
    <2>11. v[1] = 0 /\ Len(v) >= 1
      <3>1. 1 \in 1 .. l + 1 /\ m + 1 + 1 = m + 2
        OBVIOUS
      <3> QED
        BY <2>3, <2>10, <3>1
    <2>12. UdpPayload(v) = <<SubSeq(v, 2, Len(v))>>
      BY <2>11, PayloadRead
    <2>13. SubSeq(v, 2, Len(v)) = p
      <3>1. 1 \in Nat /\ 1 <= Len(v) /\ 1 + 1 = 2 /\ Len(v) - 1 = l
        BY <2>10
      <3>2. /\ SubSeq(v, 1 + 1, Len(v)) \in Seq(Nat) /\ Len(SubSeq(v, 1 + 1, Len(v))) = Len(v) - 1
            /\ \A i \in 1 .. Len(v) - 1 : SubSeq(v, 1 + 1, Len(v))[i] = v[1 + i]
        BY <3>1, RestOf, SMTT(30)
      <3>3. PICK q \in Seq(Nat) : q = SubSeq(v, 2, Len(v)) /\ Len(q) = l /\ \A i \in 1 .. l : q[i] = v[1 + i]
        BY <3>1, <3>2, Zenon
      <3>4. ASSUME NEW i \in 1 .. l PROVE q[i] = p[i]
        <4>1. 1 + i \in 1 .. l + 1 /\ m + 1 + (1 + i) = m + 2 + i /\ m + 2 + i \in 1 .. m + 2 + l
          OBVIOUS
        <4>2. v[1 + i] = buf[m + 2 + i]
          BY <2>10, <4>1
        <4> QED
          BY <1>5, <2>2, <3>3, <4>1, <4>2
      <3>5. q = p
        BY <1>1, <3>3, <3>4, SeqEqual
      <3> QED
        BY <3>3, <3>5
    <2>14. DecodeCapsule(buf) = [result |-> "capsule", type |-> buf[1], value |-> v, consumed |-> n]
      BY <2>8, <2>9, <2>10
    <2>15. /\ DecodeCapsule(buf).result = "capsule" /\ DecodeCapsule(buf).consumed = n
           /\ DecodeCapsule(buf).value = v
      BY <2>14
    <2> QED
      BY <1>5, <2>9, <2>12, <2>13, <2>15
  <1> QED
    BY <1>4, <1>5, <1>6, <1>7, Zenon

\* What quinn may send.
Sendable == {p \in Seq(Nat) : Len(p) <= MaxUdp}

\* The stream is the frames of the first w datagrams: the k-th one ends at c[k].
InFrames(c, w, stream, kept) ==
    /\ c \in [Nat -> Nat] /\ c[0] = 0 /\ c[w] = Len(stream)
    /\ \A k \in 1 .. w :
         /\ c[k] = c[k - 1] + Len(EncodeDatagram(kept[k])) /\ c[k] <= Len(stream)
         /\ \A i \in 1 .. Len(EncodeDatagram(kept[k])) : stream[c[k - 1] + i] = EncodeDatagram(kept[k])[i]

\* One frame taken off what is left.
TakeFrame(last) ==
    IF DecodeCapsule(last.rest).result # "capsule" THEN last
    ELSE [rest |-> SubSeq(last.rest, DecodeCapsule(last.rest).consumed + 1, Len(last.rest)),
          out  |-> last.out \o UdpPayload(DecodeCapsule(last.rest).value)]

\* What is left of the stream, and what was found, after the k-th frame.
AfterFrame(c, stream, kept, k) ==
    [rest |-> SubSeq(stream, c[k] + 1, Len(stream)), out |-> SubSeq(kept, 1, k)]

\* The first elements of a sequence.
LEMMA FirstOf ==
    ASSUME NEW S, NEW s \in Seq(S), NEW k \in Nat, k <= Len(s)
    PROVE  /\ SubSeq(s, 1, k) \in Seq(S) /\ Len(SubSeq(s, 1, k)) = k
           /\ \A i \in 1 .. k : SubSeq(s, 1, k)[i] = s[i]
  <1>1. \A i \in 1 .. k : s[i] \in S
    OBVIOUS
  <1>2. SubSeq(s, 1, k) \in Seq(S)
    BY <1>1, SubSeqProperties
  <1>3. Len(SubSeq(s, 1, k)) = k
    BY SubSeqProperties
  <1>4. \A i \in 1 .. k : SubSeq(s, 1, k)[i] = s[i]
    BY SubSeqProperties
  <1> QED
    BY <1>2, <1>3, <1>4

\* The first elements, with the next one.
LEMMA OneMoreOf ==
    ASSUME NEW S, NEW s \in Seq(S), NEW k \in Nat, k + 1 <= Len(s)
    PROVE  SubSeq(s, 1, k) \o <<s[k + 1]>> = SubSeq(s, 1, k + 1)
  <1>1. PICK a \in Seq(S) : a = SubSeq(s, 1, k) /\ Len(a) = k /\ \A i \in 1 .. k : a[i] = s[i]
    <2>1. k <= Len(s)
      OBVIOUS
    <2>2. /\ SubSeq(s, 1, k) \in Seq(S) /\ Len(SubSeq(s, 1, k)) = k
          /\ \A i \in 1 .. k : SubSeq(s, 1, k)[i] = s[i]
      BY <2>1, FirstOf
    <2> QED
      BY <2>2, Zenon
  <1>2. PICK b \in Seq(S) : b = SubSeq(s, 1, k + 1) /\ Len(b) = k + 1 /\ \A i \in 1 .. k + 1 : b[i] = s[i]
    <2>1. k + 1 \in Nat
      OBVIOUS
    <2>2. /\ SubSeq(s, 1, k + 1) \in Seq(S) /\ Len(SubSeq(s, 1, k + 1)) = k + 1
          /\ \A i \in 1 .. k + 1 : SubSeq(s, 1, k + 1)[i] = s[i]
      BY <2>1, FirstOf
    <2> QED
      BY <2>2, Zenon
  <1>3. s[k + 1] \in S
    OBVIOUS
  <1>4. PICK x \in S : x = s[k + 1]
    BY <1>3
  <1>5. PICK d : d = a \o <<x>>
    OBVIOUS
  <1>6. <<x>> \in Seq(S) /\ Len(<<x>>) = 1 /\ <<x>>[1] = x
    OBVIOUS
  <1>7. /\ d \in Seq(S) /\ Len(d) = Len(a) + Len(<<x>>)
        /\ \A i \in 1 .. Len(a) : d[i] = a[i]
        /\ \A i \in 1 .. Len(<<x>>) : d[Len(a) + i] = <<x>>[i]
    BY <1>5, <1>6, JoinOf
  <1>8. Len(d) = k + 1 /\ d[k + 1] = x /\ \A i \in 1 .. k : d[i] = a[i]
    BY <1>1, <1>6, <1>7
  <1>9. ASSUME NEW i \in 1 .. k + 1 PROVE d[i] = b[i]
    <2>1. i \in 1 .. k \/ i = k + 1
      OBVIOUS
    <2> QED
      BY <1>1, <1>2, <1>4, <1>8, <2>1
  <1>10. d = b
    BY <1>2, <1>7, <1>8, <1>9, SeqEqual
  <1> QED
    BY <1>1, <1>2, <1>4, <1>5, <1>10

\* Frames come off one by one, until none is left.
LEMMA FrameTaken ==
    ASSUME NEW stream \in Seq(Nat), NEW kept \in Seq(Sendable), NEW w \in Nat, w <= Len(kept),
           NEW c, InFrames(c, w, stream, kept)
    PROVE  /\ \A k \in 1 .. w : TakeFrame(AfterFrame(c, stream, kept, k - 1)) = AfterFrame(c, stream, kept, k)
           /\ TakeFrame(AfterFrame(c, stream, kept, w)) = AfterFrame(c, stream, kept, w)
           /\ AfterFrame(c, stream, kept, w).rest = <<>>
  <1>0. PICK l \in Nat : l = Len(stream)
    OBVIOUS
  <1>1. ASSUME NEW k \in 1 .. w
        PROVE  TakeFrame(AfterFrame(c, stream, kept, k - 1)) = AfterFrame(c, stream, kept, k)
    <2>1. PICK j \in Nat : j = k - 1 /\ k = j + 1 /\ j + 1 <= Len(kept)
      OBVIOUS
    <2>2. PICK p \in Sendable : p = kept[k]
      OBVIOUS
    <2>3. p \in Seq(Nat) /\ Len(p) <= MaxUdp
      BY DEF Sendable
    <2>4. PICK e \in Seq(Nat) : e = EncodeDatagram(p) /\ Len(e) > 0
      BY <2>3, DatagramRoundTrip
    <2>5. PICK m \in Nat, n \in Nat, x \in Nat : m = Len(e) /\ x = c[j] /\ n = c[k]
      <3>1. Len(e) \in Nat
        OBVIOUS
      <3>2. c \in [Nat -> Nat]
        BY DEF InFrames
      <3>3. c[j] \in Nat /\ c[k] \in Nat
        <4>1. k \in Nat
          OBVIOUS
        <4> QED
          BY <3>2, <4>1, Zenon
      <3> QED
        BY <3>1, <3>3, Zenon
    <2>6. n = x + m /\ n <= l /\ \A i \in 1 .. m : stream[x + i] = e[i]
      BY <1>0, <2>1, <2>2, <2>4, <2>5 DEF InFrames
    <2>7. PICK r \in Seq(Nat) : r = SubSeq(stream, x + 1, Len(stream)) /\ Len(r) = l - x /\ \A i \in 1 .. l - x : r[i] = stream[x + i]
      <3>1. x <= Len(stream)
        BY <1>0, <2>6
      <3>2. /\ SubSeq(stream, x + 1, Len(stream)) \in Seq(Nat) /\ Len(SubSeq(stream, x + 1, Len(stream))) = Len(stream) - x
          /\ \A i \in 1 .. Len(stream) - x : SubSeq(stream, x + 1, Len(stream))[i] = stream[x + i]
        BY <3>1, RestOf
      <3> QED
        BY <1>0, <3>2, Zenon
    <2>8. Begins(r, e) /\ Len(r) >= Len(e)
      <3>1. Len(r) >= Len(e)
        <4>1. l - x >= m
          BY <2>6
        <4> QED
          BY <2>5, <2>7, <4>1, Zenon
      <3>2. ASSUME NEW i \in 1 .. m PROVE r[i] = e[i]
        <4>1. i \in 1 .. l - x
          BY <2>6
        <4> QED
          BY <2>6, <2>7, <4>1
      <3> QED
        BY <2>5, <3>1, <3>2 DEF Begins
    <2>9. DecodeCapsule(r).result = "capsule" /\ DecodeCapsule(r).consumed = m /\ UdpPayload(DecodeCapsule(r).value) = <<p>>
      BY <2>3, <2>4, <2>5, <2>8, DatagramRoundTrip
    <2>10. SubSeq(r, m + 1, Len(r)) = SubSeq(stream, n + 1, Len(stream))
      <3>1. PICK a \in Seq(Nat) : a = SubSeq(r, m + 1, Len(r)) /\ Len(a) = (l - x) - m /\ \A i \in 1 .. (l - x) - m : a[i] = r[m + i]
        <4>1. m <= Len(r) /\ Len(r) = l - x
          BY <2>6, <2>7
        <4>2. /\ SubSeq(r, m + 1, Len(r)) \in Seq(Nat) /\ Len(SubSeq(r, m + 1, Len(r))) = Len(r) - m
              /\ \A i \in 1 .. Len(r) - m : SubSeq(r, m + 1, Len(r))[i] = r[m + i]
          BY <4>1, RestOf
        <4> QED
          BY <4>1, <4>2, Zenon
      <3>2. PICK b \in Seq(Nat) : b = SubSeq(stream, n + 1, Len(stream)) /\ Len(b) = l - n /\ \A i \in 1 .. l - n : b[i] = stream[n + i]
        <4>1. n <= Len(stream)
          BY <1>0, <2>6
        <4>2. /\ SubSeq(stream, n + 1, Len(stream)) \in Seq(Nat) /\ Len(SubSeq(stream, n + 1, Len(stream))) = Len(stream) - n
            /\ \A i \in 1 .. Len(stream) - n : SubSeq(stream, n + 1, Len(stream))[i] = stream[n + i]
          BY <4>1, RestOf
        <4> QED
          BY <1>0, <4>2, Zenon
      <3>3. (l - x) - m = l - n
        BY <2>6
      <3>4. ASSUME NEW i \in 1 .. l - n PROVE a[i] = b[i]
        <4>1. m + i \in 1 .. l - x /\ x + (m + i) = n + i
          BY <2>6
        <4> QED
          BY <2>7, <3>1, <3>2, <3>3, <4>1
      <3>5. a = b
        BY <3>1, <3>2, <3>3, <3>4, SeqEqual
      <3> QED
        BY <3>1, <3>2, <3>5
    <2>11. SubSeq(kept, 1, j) \o <<p>> = SubSeq(kept, 1, k)
      BY <2>1, <2>2, OneMoreOf
    <2>12. PICK o : o = SubSeq(kept, 1, j)
      OBVIOUS
    <2>13. AfterFrame(c, stream, kept, j) = [rest |-> r, out |-> o]
      BY <2>5, <2>7, <2>12 DEF AfterFrame
    <2>14. TakeFrame([rest |-> r, out |-> o]) = [rest |-> SubSeq(r, m + 1, Len(r)), out |-> o \o <<p>>]
      BY <2>9 DEF TakeFrame
    <2>15. AfterFrame(c, stream, kept, k) = [rest |-> SubSeq(stream, n + 1, Len(stream)), out |-> SubSeq(kept, 1, k)]
      BY <2>5 DEF AfterFrame
    <2> QED
      BY <2>1, <2>10, <2>11, <2>12, <2>13, <2>14, <2>15
  <1>2. PICK r : r = AfterFrame(c, stream, kept, w).rest
    OBVIOUS
  <1>3. r = SubSeq(stream, l + 1, Len(stream))
    BY <1>0, <1>2 DEF AfterFrame, InFrames
  <1>4. r \in Seq(Nat) /\ Len(r) = 0
    <2>1. /\ SubSeq(stream, l + 1, Len(stream)) \in Seq(Nat)
          /\ Len(SubSeq(stream, l + 1, Len(stream))) = Len(stream) - l
      BY <1>0, RestOf
    <2>2. Len(stream) - l = 0
      BY <1>0
    <2> QED
      BY <1>3, <2>1, <2>2, Zenon
  <1>5. r = <<>>
    BY <1>4
  <1>6. DecodeCapsule(r).result = "pending"
    BY <1>4, CapsuleAwaited
  <1>7. TakeFrame(AfterFrame(c, stream, kept, w)) = AfterFrame(c, stream, kept, w)
    BY <1>2, <1>6 DEF TakeFrame
  <1> QED
    BY <1>1, <1>2, <1>5, <1>7

\* So deframing finds exactly what was framed.
LEMMA DeframedIs ==
    ASSUME NEW stream \in Seq(Nat), NEW kept \in Seq(Sendable), NEW w \in Nat, w <= Len(kept), w <= Len(Outgoing),
           NEW c, InFrames(c, w, stream, kept)
    PROVE  Deframed(stream) = [rest |-> <<>>, out |-> SubSeq(kept, 1, w)]
  <1>0. PICK n \in Nat : n = Len(Outgoing) /\ w <= n
    BY MasqueAssumption
  <1> DEFINE Step(g) == [i \in 0 .. n |-> IF i = 0 THEN [rest |-> stream, out |-> <<>>] ELSE TakeFrame(g[i - 1])]
             taken == CHOOSE g : g = Step(g)
             h == [i \in 0 .. n |-> AfterFrame(c, stream, kept, IF i <= w THEN i ELSE w)]
  <1>1. AfterFrame(c, stream, kept, 0) = [rest |-> stream, out |-> <<>>]
    <2>1. c[0] = 0
      BY DEF InFrames
    <2>2. SubSeq(stream, 0 + 1, Len(stream)) = stream
      <3>1. /\ SubSeq(stream, 0 + 1, Len(stream)) \in Seq(Nat) /\ Len(SubSeq(stream, 0 + 1, Len(stream))) = Len(stream) - 0
            /\ \A i \in 1 .. Len(stream) - 0 : SubSeq(stream, 0 + 1, Len(stream))[i] = stream[0 + i]
        BY RestOf
      <3>2. Len(stream) - 0 = Len(stream) /\ \A i \in 1 .. Len(stream) : 0 + i = i
        OBVIOUS
      <3>3. PICK a \in Seq(Nat) : /\ a = SubSeq(stream, 0 + 1, Len(stream)) /\ Len(a) = Len(stream)
                                  /\ \A i \in 1 .. Len(stream) : a[i] = stream[i]
        BY <3>1, <3>2
      <3>4. a = stream
        BY <3>3, SeqEqual
      <3> QED
        BY <3>3, <3>4
    <2>3. SubSeq(kept, 1, 0) = <<>>
      OBVIOUS
    <2> QED
      BY <2>1, <2>2, <2>3 DEF AfterFrame
  <1>2. h = Step(h)
    <2>1. h = [i \in 0 .. n |-> h[i]]
      OBVIOUS
    <2>2. ASSUME NEW i \in 0 .. n
          PROVE  h[i] = IF i = 0 THEN [rest |-> stream, out |-> <<>>] ELSE TakeFrame(h[i - 1])
      <3>1. CASE i = 0
        BY <1>0, <1>1, <3>1
      <3>2. CASE i \in 1 .. w
        <4>1. h[i] = AfterFrame(c, stream, kept, i) /\ h[i - 1] = AfterFrame(c, stream, kept, i - 1) /\ i # 0
          BY <1>0, <3>2
        <4>2. TakeFrame(AfterFrame(c, stream, kept, i - 1)) = AfterFrame(c, stream, kept, i)
          BY <3>2, FrameTaken
        <4> QED
          BY <4>1, <4>2, Zenon
      <3>3. CASE i > w
        <4>1. h[i] = AfterFrame(c, stream, kept, w) /\ h[i - 1] = AfterFrame(c, stream, kept, w) /\ i # 0
          BY <1>0, <3>3
        <4>2. TakeFrame(AfterFrame(c, stream, kept, w)) = AfterFrame(c, stream, kept, w)
          BY FrameTaken
        <4> QED
          BY <4>1, <4>2, Zenon
      <3> QED
        BY <1>0, <3>1, <3>2, <3>3
    <2> HIDE DEF h
    <2> QED
      BY <2>1, <2>2, Zenon
  <1>3. taken = Step(taken)
    <2> HIDE DEF h, Step
    <2> QED
      BY <1>2
  <1>4. Deframed(stream) = taken[n]
    BY <1>0, Zenon DEF Deframed, TakeFrame
  <1>5. h[n] = AfterFrame(c, stream, kept, w)
    BY <1>0
  <1> HIDE DEF taken, h
  <1>6. \A i \in 0 .. n : taken[i] = h[i]
    <2> DEFINE T == {i \in Nat : i <= n => taken[i] = h[i]}
    <2>1. 0 \in T
      BY <1>2, <1>3
    <2>2. ASSUME NEW i \in Nat, i \in T PROVE i + 1 \in T
      <3> SUFFICES ASSUME i + 1 <= n PROVE taken[i + 1] = h[i + 1]
        OBVIOUS
      <3>1. i + 1 \in 0 .. n /\ i + 1 # 0 /\ (i + 1) - 1 = i /\ taken[i] = h[i]
        BY <2>2
      <3>2. taken[i + 1] = TakeFrame(taken[i]) /\ h[i + 1] = TakeFrame(h[i])
        BY <1>2, <1>3, <3>1, Zenon
      <3> QED
        BY <3>1, <3>2
    <2> HIDE DEF T
    <2>3. \A i \in Nat : i \in T
      BY <2>1, <2>2, Induction
    <2> QED
      BY <2>3 DEF T
  <1>7. Deframed(stream) = AfterFrame(c, stream, kept, w)
    BY <1>0, <1>4, <1>5, <1>6, SMTT(30)
  <1>8. AfterFrame(c, stream, kept, w).rest = <<>>
    BY FrameTaken
  <1>9. AfterFrame(c, stream, kept, w) = [rest |-> <<>>, out |-> SubSeq(kept, 1, w)]
    BY <1>8 DEF AfterFrame
  <1> QED
    BY <1>7, <1>9

\* The way out: the stream is the frames of the first w datagrams that the queue took, the others are in the queue,
\* and what it did not take is counted.
OutSound(queued, stream, kept, dropped, sent) ==
    /\ Len(kept) + dropped = sent
    /\ \E c : \E w \in Nat :
         /\ Len(kept) = w + Len(queued)
         /\ \A i \in 1 .. Len(queued) : queued[i] = kept[w + i]
         /\ InFrames(c, w, stream, kept)

\* A pump that starts has written nothing.
LEMMA OutStarts == OutSound(<<>>, <<>>, <<>>, 0, 0)
  <1> DEFINE c == [n \in Nat |-> 0]
  <1>1. InFrames(c, 0, <<>>, <<>>)
    <2>1. c \in [Nat -> Nat] /\ c[0] = 0 /\ Len(<<>>) = 0
      OBVIOUS
    <2> HIDE DEF c
    <2>2. 1 .. 0 = {}
      OBVIOUS
    <2> QED
      BY <2>1, <2>2 DEF InFrames
  <1> HIDE DEF c
  <1>2. Len(<<>>) = 0 + Len(<<>>) /\ 0 \in Nat /\ Len(<<>>) + 0 = 0 /\ 1 .. Len(<<>>) = {}
    OBVIOUS
  <1> QED
    BY <1>1, <1>2, Zenon DEF OutSound

\* A datagram is queued and kept ...
LEMMA OutQueues ==
    ASSUME NEW queued \in Seq(Sendable), NEW stream \in Seq(Nat), NEW kept \in Seq(Sendable), NEW dropped \in Nat,
           NEW sent \in Nat, OutSound(queued, stream, kept, dropped, sent), NEW p \in Sendable
    PROVE  OutSound(Append(queued, p), stream, Append(kept, p), dropped, sent + 1)
  <1>1. PICK c : \E w \in Nat :
          /\ Len(kept) = w + Len(queued)
          /\ \A i \in 1 .. Len(queued) : queued[i] = kept[w + i]
          /\ InFrames(c, w, stream, kept)
    BY Zenon DEF OutSound
  <1>2. PICK w \in Nat : /\ Len(kept) = w + Len(queued)
                         /\ \A i \in 1 .. Len(queued) : queued[i] = kept[w + i]
                         /\ InFrames(c, w, stream, kept)
    BY <1>1, Zenon
  <1>3. PICK q \in Seq(Sendable), k \in Seq(Sendable) : q = Append(queued, p) /\ k = Append(kept, p)
    BY AppendProperties
  <1>4. PICK m \in Nat, n \in Nat : m = Len(queued) /\ n = Len(kept) /\ n = w + m
    BY <1>2
  <1>5. /\ Len(q) = m + 1 /\ q[m + 1] = p /\ \A i \in 1 .. m : q[i] = queued[i]
        /\ Len(k) = n + 1 /\ k[n + 1] = p /\ \A i \in 1 .. n : k[i] = kept[i]
    <2>1. /\ Len(Append(queued, p)) = Len(queued) + 1 /\ Append(queued, p)[Len(queued) + 1] = p
          /\ \A i \in 1 .. Len(queued) : Append(queued, p)[i] = queued[i]
      BY AppendProperties
    <2>2. /\ Len(Append(kept, p)) = Len(kept) + 1 /\ Append(kept, p)[Len(kept) + 1] = p
          /\ \A i \in 1 .. Len(kept) : Append(kept, p)[i] = kept[i]
      BY AppendProperties
    <2> QED
      BY <1>3, <1>4, <2>1, <2>2, Zenon
  <1>6. ASSUME NEW i \in 1 .. m + 1 PROVE q[i] = k[w + i]
    <2>1. CASE i \in 1 .. m
      <3>1. w + i \in 1 .. n
        BY <1>4, <2>1
      <3> QED
        BY <1>2, <1>4, <1>5, <2>1, <3>1
    <2>2. CASE i = m + 1
      BY <1>4, <1>5, <2>2, SMTT(30)
    <2> QED
      BY <2>1, <2>2
  <1>7. InFrames(c, w, stream, k)
    <2>1. ASSUME NEW x \in 1 .. w
          PROVE  /\ c[x] = c[x - 1] + Len(EncodeDatagram(k[x])) /\ c[x] <= Len(stream)
                 /\ \A i \in 1 .. Len(EncodeDatagram(k[x])) : stream[c[x - 1] + i] = EncodeDatagram(k[x])[i]
      <3>1. x \in 1 .. n
        BY <1>4
      <3>2. k[x] = kept[x]
        BY <1>5, <3>1, Zenon
      <3>3. /\ c[x] = c[x - 1] + Len(EncodeDatagram(kept[x])) /\ c[x] <= Len(stream)
            /\ \A i \in 1 .. Len(EncodeDatagram(kept[x])) : stream[c[x - 1] + i] = EncodeDatagram(kept[x])[i]
        BY <1>2, Zenon DEF InFrames
      <3> QED
        BY <3>2, <3>3, Zenon
    <2>2. c \in [Nat -> Nat] /\ c[0] = 0 /\ c[w] = Len(stream)
      BY <1>2, Zenon DEF InFrames
    <2> QED
      BY <2>1, <2>2, Zenon DEF InFrames
  <1>8. Len(k) = w + Len(q) /\ Len(k) + dropped = sent + 1
    <2>1. n + dropped = sent
      BY <1>4 DEF OutSound
    <2> QED
      BY <1>4, <1>5, <2>1
  <1>9. \A i \in 1 .. Len(q) : q[i] = k[w + i]
    BY <1>5, <1>6
  <1>10. OutSound(q, stream, k, dropped, sent + 1)
    BY <1>7, <1>8, <1>9, Zenon DEF OutSound
  <1> QED
    BY <1>3, <1>10

\* ... or dropped and counted.
LEMMA OutDrops ==
    ASSUME NEW queued \in Seq(Sendable), NEW stream \in Seq(Nat), NEW kept \in Seq(Sendable), NEW dropped \in Nat,
           NEW sent \in Nat, OutSound(queued, stream, kept, dropped, sent)
    PROVE  OutSound(queued, stream, kept, dropped + 1, sent + 1)
  <1>1. Len(kept) + (dropped + 1) = sent + 1
    <2>1. Len(kept) + dropped = sent
      BY DEF OutSound
    <2> QED
      BY <2>1
  <1> QED
    BY <1>1, Zenon DEF OutSound

\* The pump writes the frame of the next one.
LEMMA OutWrites ==
    ASSUME NEW queued \in Seq(Sendable), NEW stream \in Seq(Nat), NEW kept \in Seq(Sendable), NEW dropped \in Nat,
           NEW sent \in Nat, OutSound(queued, stream, kept, dropped, sent), queued # <<>>
    PROVE  OutSound(Tail(queued), stream \o EncodeDatagram(Head(queued)), kept, dropped, sent)
  <1>1. PICK c : \E w \in Nat :
          /\ Len(kept) = w + Len(queued)
          /\ \A i \in 1 .. Len(queued) : queued[i] = kept[w + i]
          /\ InFrames(c, w, stream, kept)
    BY Zenon DEF OutSound
  <1>2. PICK w \in Nat : /\ Len(kept) = w + Len(queued)
                         /\ \A i \in 1 .. Len(queued) : queued[i] = kept[w + i]
                         /\ InFrames(c, w, stream, kept)
    BY <1>1, Zenon
  <1>3. PICK m \in Nat, n \in Nat, l \in Nat : m = Len(queued) /\ n = Len(kept) /\ n = w + m /\ m > 0 /\ l = Len(stream)
    BY <1>2
  <1>4. PICK p \in Sendable : p = Head(queued) /\ p = kept[w + 1]
    <2>1. Head(queued) = queued[1] /\ queued[1] \in Sendable /\ 1 \in 1 .. m
      BY <1>3
    <2> QED
      BY <1>2, <1>3, <2>1
  <1>5. PICK e \in Seq(Nat) : e = EncodeDatagram(p) /\ Len(e) > 0
    <2>1. p \in Seq(Nat) /\ Len(p) <= MaxUdp
      BY DEF Sendable
    <2> QED
      BY <2>1, DatagramRoundTrip
  <1>6. PICK t \in Seq(Sendable) : t = Tail(queued) /\ Len(t) = m - 1 /\ \A i \in 1 .. m - 1 : t[i] = queued[i + 1]
    <2>1. /\ Tail(queued) \in Seq(Sendable) /\ Len(Tail(queued)) = Len(queued) - 1
          /\ \A i \in 1 .. Len(Tail(queued)) : Tail(queued)[i] = queued[i + 1]
      BY HeadTailProperties
    <2> QED
      BY <1>3, <2>1, Zenon
  <1>7. PICK s \in Seq(Nat) : s = stream \o e
    BY JoinOf
  <1>8. PICK x \in Nat : /\ x = Len(e) /\ Len(s) = l + x /\ \A i \in 1 .. l : s[i] = stream[i]
                         /\ \A i \in 1 .. x : s[l + i] = e[i]
    <2>1. /\ s \in Seq(Nat) /\ Len(s) = Len(stream) + Len(e)
          /\ \A i \in 1 .. Len(stream) : s[i] = stream[i]
          /\ \A i \in 1 .. Len(e) : s[Len(stream) + i] = e[i]
      BY <1>7, JoinOf
    <2>2. Len(e) \in Nat
      OBVIOUS
    <2> QED
      BY <1>3, <2>1, <2>2, Zenon
  <1> DEFINE d == [k \in Nat |-> IF k = w + 1 THEN l + x ELSE c[k]]
  <1>9. c \in [Nat -> Nat] /\ c[0] = 0 /\ c[w] = l
    BY <1>2, <1>3 DEF InFrames
  <1>10. d \in [Nat -> Nat] /\ d[w + 1] = l + x /\ (\A k \in 0 .. w : d[k] = c[k])
    <2>1. w + 1 \in Nat /\ l + x \in Nat /\ \A k \in 0 .. w : k \in Nat /\ k # w + 1
      OBVIOUS
    <2>2. \A k \in Nat : c[k] \in Nat
      BY <1>9, Zenon
    <2> QED
      BY <2>1, <2>2
  <1> HIDE DEF d
  <1>11. ASSUME NEW k \in 1 .. w + 1
         PROVE  /\ d[k] = d[k - 1] + Len(EncodeDatagram(kept[k])) /\ d[k] <= l + x
                /\ \A i \in 1 .. Len(EncodeDatagram(kept[k])) : s[d[k - 1] + i] = EncodeDatagram(kept[k])[i]
    <2>1. CASE k \in 1 .. w
      <3>1. PICK f : f = EncodeDatagram(kept[k])
        OBVIOUS
      <3>2. /\ c[k] = c[k - 1] + Len(f) /\ c[k] <= l
            /\ \A i \in 1 .. Len(f) : stream[c[k - 1] + i] = f[i]
        BY <1>2, <1>3, <2>1, <3>1 DEF InFrames
      <3>3. d[k] = c[k] /\ d[k - 1] = c[k - 1]
        <4>1. k \in 0 .. w /\ k - 1 \in 0 .. w
          BY <2>1
        <4> QED
          BY <1>10, <4>1, Zenon
      <3>4. PICK a \in Nat, b \in Nat : a = c[k - 1] /\ b = c[k]
        <4>1. k \in Nat /\ k - 1 \in Nat
          BY <2>1
        <4>2. c[k] \in Nat /\ c[k - 1] \in Nat
          BY <1>9, <4>1, Zenon
        <4> QED
          BY <4>2, Zenon
      <3>5. Len(f) \in Nat
        <4>1. kept[k] \in Sendable
          <5>1. k \in 1 .. Len(kept)
            BY <1>3, <2>1
          <5> QED
            BY <5>1, ElementOfSeq
        <4>2. kept[k] \in Seq(Nat) /\ Len(kept[k]) <= MaxUdp
          BY <4>1 DEF Sendable
        <4>3. f \in Seq(Nat)
          BY <3>1, <4>2, DatagramRoundTrip
        <4> QED
          BY <4>3
      <3>6. ASSUME NEW i \in 1 .. Len(f) PROVE s[a + i] = f[i]
        <4>1. a + i \in 1 .. l
          <5>1. PICK z \in Nat : z = Len(f)
            BY <3>5
          <5>2. b = a + z /\ b <= l /\ i \in 1 .. z
            BY <3>2, <3>4, <5>1
          <5> QED
            BY <5>2
        <4> QED
          BY <1>8, <3>2, <3>4, <4>1
      <3>7. d[k] = d[k - 1] + Len(f) /\ d[k] <= l + x
        <4>1. b <= l
          BY <3>2, <3>4, Zenon
        <4>2. b <= l + x
          BY <4>1
        <4> QED
          BY <3>2, <3>3, <3>4, <4>2, Zenon
      <3> QED
        BY <3>1, <3>3, <3>4, <3>6, <3>7
    <2>2. CASE k = w + 1
      <3>1. d[k] = l + x /\ d[k - 1] = l /\ EncodeDatagram(kept[k]) = e
        <4>1. k - 1 = w /\ w \in 0 .. w
          BY <2>2
        <4> QED
          BY <1>4, <1>5, <1>9, <1>10, <2>2, <4>1
      <3> QED
        BY <1>8, <3>1
    <2> QED
      BY <2>1, <2>2
  <1>12. InFrames(d, w + 1, s, kept)
    <2>1. d[0] = 0 /\ d[w + 1] = Len(s)
      BY <1>8, <1>9, <1>10
    <2>2. \A k \in 1 .. w + 1 :
            /\ d[k] = d[k - 1] + Len(EncodeDatagram(kept[k])) /\ d[k] <= Len(s)
            /\ \A i \in 1 .. Len(EncodeDatagram(kept[k])) : s[d[k - 1] + i] = EncodeDatagram(kept[k])[i]
      BY <1>8, <1>11, Zenon
    <2> QED
      BY <1>10, <2>1, <2>2, Zenon DEF InFrames
  <1>13. Len(kept) = (w + 1) + Len(t) /\ w + 1 \in Nat
    BY <1>3, <1>6
  <1>14. ASSUME NEW i \in 1 .. Len(t) PROVE t[i] = kept[(w + 1) + i]
    <2>1. i \in 1 .. m - 1 /\ i + 1 \in 1 .. m /\ w + (i + 1) = (w + 1) + i
      BY <1>3, <1>6
    <2> QED
      BY <1>2, <1>3, <1>6, <2>1
  <1>15. OutSound(t, s, kept, dropped, sent)
    BY <1>12, <1>13, <1>14, Zenon DEF OutSound
  <1> QED
    BY <1>4, <1>5, <1>6, <1>7, <1>15

\* The property, of a pump that goes on.
LEMMA OutHolds ==
    ASSUME NEW queued \in Seq(Sendable), NEW stream \in Seq(Nat), NEW kept \in Seq(Sendable), NEW dropped \in Nat,
           NEW sent \in Nat, sent <= Len(Outgoing), OutSound(queued, stream, kept, dropped, sent)
    PROVE  Deframed(stream).rest = <<>> /\ Deframed(stream).out \o queued = kept
  <1>1. PICK c : \E w \in Nat :
          /\ Len(kept) = w + Len(queued)
          /\ \A i \in 1 .. Len(queued) : queued[i] = kept[w + i]
          /\ InFrames(c, w, stream, kept)
    BY Zenon DEF OutSound
  <1>2. PICK w \in Nat : /\ Len(kept) = w + Len(queued)
                         /\ \A i \in 1 .. Len(queued) : queued[i] = kept[w + i]
                         /\ InFrames(c, w, stream, kept)
    BY <1>1, Zenon
  <1>3. w <= Len(kept) /\ w <= Len(Outgoing)
    <2>1. Len(kept) + dropped = sent /\ Len(kept) \in Nat /\ Len(queued) \in Nat /\ Len(Outgoing) \in Nat
      BY MasqueAssumption DEF OutSound
    <2> QED
      BY <1>2, <2>1
  <1>4. Deframed(stream) = [rest |-> <<>>, out |-> SubSeq(kept, 1, w)]
    BY <1>2, <1>3, DeframedIs
  <1>5. PICK a \in Seq(Sendable) : a = SubSeq(kept, 1, w) /\ Len(a) = w /\ \A i \in 1 .. w : a[i] = kept[i]
    <2>1. /\ SubSeq(kept, 1, w) \in Seq(Sendable) /\ Len(SubSeq(kept, 1, w)) = w
          /\ \A i \in 1 .. w : SubSeq(kept, 1, w)[i] = kept[i]
      BY <1>3, FirstOf
    <2> QED
      BY <2>1, Zenon
  <1>6. PICK b : b = a \o queued
    OBVIOUS
  <1>7. /\ b \in Seq(Sendable) /\ Len(b) = Len(a) + Len(queued)
        /\ \A i \in 1 .. Len(a) : b[i] = a[i]
        /\ \A i \in 1 .. Len(queued) : b[Len(a) + i] = queued[i]
    BY <1>6, JoinOf, SMTT(30)
  <1>8. PICK m \in Nat : m = Len(queued)
    OBVIOUS
  <1>9. ASSUME NEW i \in 1 .. w + m PROVE b[i] = kept[i]
    <2>1. CASE i \in 1 .. w
      BY <1>5, <1>7, <2>1
    <2>2. CASE i > w
      <3>1. PICK j \in 1 .. m : i = w + j
        <4>1. i - w \in 1 .. m /\ i = w + (i - w)
          BY <2>2
        <4> QED
          BY <4>1
      <3> QED
        BY <1>2, <1>5, <1>7, <1>8, <3>1
    <2> QED
      BY <2>1, <2>2
  <1>10. Len(b) = w + m /\ Len(kept) = w + m
    BY <1>2, <1>5, <1>7, <1>8
  <1>11. b = kept
    BY <1>7, <1>9, <1>10, SeqEqual
  <1> QED
    BY <1>4, <1>5, <1>6, <1>11

\* What the proxy wrote: capsule k is the bytes up to c[k], and d[k] of the first k capsules are datagrams.
Script(caps, bytes, c, d, n) ==
    /\ c \in [Nat -> Nat] /\ d \in [Nat -> Nat] /\ bytes \in [Nat -> Nat]
    /\ c[0] = 0 /\ d[0] = 0
    /\ \A k \in 1 .. n :
         /\ caps[k] \in ProxyCapsules(k) /\ c[k] = c[k - 1] + Len(caps[k]) /\ c[k] <= c[n]
         /\ d[k] = d[k - 1] + (IF IsDatagram(caps[k]) THEN 1 ELSE 0)
         /\ \A i \in 1 .. Len(caps[k]) : bytes[c[k - 1] + i] = caps[k][i]

\* The buffer and the wire hold the bytes from p on, to the last one while the connection is up.
OnTheWay(bytes, p, last, buf, unread, task) ==
    /\ \A i \in 1 .. Len(buf) : buf[i] = bytes[p + i]
    /\ \A i \in 1 .. Len(unread) : unread[i] = bytes[(p + Len(buf)) + i]
    /\ p + Len(buf) + Len(unread) <= last
    /\ task => p + Len(buf) + Len(unread) = last

\* Of the datagrams among the first j capsules, those that were not dropped are there, in order.
Shown(caps, d, j, all, dropped) ==
    /\ Len(all) + dropped = d[j]
    /\ \A i \in 1 .. Len(all) : \E k \in 1 .. j : IsDatagram(caps[k]) /\ all[i] = <<k>>
    /\ Rising(all)

\* The record of what was sent has every datagram.
Recorded(caps, d, n, sent) ==
    /\ Len(sent) = d[n]
    /\ \A k \in 1 .. n : IsDatagram(caps[k]) => \E i \in 1 .. Len(sent) : sent[i] = <<k>>

\* The way in, with j capsules read.
ReadTo(caps, bytes, c, d, j, buf, unread, all, sent, n, dropped, at, task) ==
    /\ Script(caps, bytes, c, d, n)
    /\ OnTheWay(bytes, c[j], c[n], buf, unread, task)
    /\ Shown(caps, d, j, all, dropped)
    /\ Recorded(caps, d, n, sent)
    /\ at = "chunk" /\ j < n => Len(buf) < Len(caps[j + 1])

InSound(buf, unread, all, sent, n, dropped, at, task) ==
    \E caps, bytes, c, d : \E j \in 0 .. n :
       ReadTo(caps, bytes, c, d, j, buf, unread, all, sent, n, dropped, at, task)

\* Its places and its counts are numbers.
LEMMA ReadNumbers ==
    ASSUME NEW caps, NEW bytes, NEW c, NEW d, NEW n \in Nat, NEW j \in 0 .. n, NEW buf, NEW unread, NEW all, NEW sent,
           NEW dropped, NEW at, NEW task,
           ReadTo(caps, bytes, c, d, j, buf, unread, all, sent, n, dropped, at, task)
    PROVE  /\ c \in [Nat -> Nat] /\ d \in [Nat -> Nat] /\ bytes \in [Nat -> Nat]
           /\ j \in Nat /\ j <= n /\ c[j] \in Nat /\ c[n] \in Nat /\ d[j] \in Nat /\ d[n] \in Nat
  <1>1. c \in [Nat -> Nat] /\ d \in [Nat -> Nat] /\ bytes \in [Nat -> Nat]
    BY Zenon DEF ReadTo, Script
  <1>2. j \in Nat /\ j <= n
    OBVIOUS
  <1> QED
    BY <1>1, <1>2, Zenon

\* Before the proxy has written anything.
LEMMA InStarts ==
    ASSUME NEW at, NEW task
    PROVE  InSound(<<>>, <<>>, <<>>, <<>>, 0, 0, at, task)
  <1> DEFINE z == [n \in Nat |-> 0]
  <1>1. z \in [Nat -> Nat] /\ z[0] = 0
    OBVIOUS
  <1> HIDE DEF z
  <1>2. Len(<<>>) = 0 /\ 1 .. 0 = {} /\ 0 \in 0 .. 0 /\ ~(0 < 0) /\ 0 + 0 = 0 /\ 0 + 0 + 0 = 0 /\ 0 <= 0
    OBVIOUS
  <1>3. Script(<<>>, z, z, z, 0) /\ Recorded(<<>>, z, 0, <<>>)
    BY <1>1, <1>2, Zenon DEF Script, Recorded
  <1>4. Shown(<<>>, z, 0, <<>>, 0)
    BY <1>1, <1>2, Zenon DEF Shown, Rising
  <1>5. OnTheWay(z, z[0], z[0], <<>>, <<>>, task)
    BY <1>1, <1>2, Zenon DEF OnTheWay
  <1>6. ReadTo(<<>>, z, z, z, 0, <<>>, <<>>, <<>>, <<>>, 0, 0, at, task)
    BY <1>2, <1>3, <1>4, <1>5, Zenon DEF ReadTo
  <1> QED
    BY <1>2, <1>6, Zenon DEF InSound

\* The pump ends, or its connection does.
LEMMA InEnds ==
    ASSUME NEW buf \in Seq(Nat), NEW unread \in Seq(Nat), NEW all, NEW sent, NEW n \in Nat, NEW dropped,
           NEW at, NEW task, InSound(buf, unread, all, sent, n, dropped, at, task),
           NEW to, to = at \/ to # "chunk"
    PROVE  /\ InSound(buf, unread, all, sent, n, dropped, to, task)
           /\ InSound(buf, unread, all, sent, n, dropped, to, FALSE)
           /\ InSound(buf, <<>>, all, sent, n, dropped, to, FALSE)
  <1>1. PICK caps, bytes, c, d : \E j \in 0 .. n :
          ReadTo(caps, bytes, c, d, j, buf, unread, all, sent, n, dropped, at, task)
    BY Zenon DEF InSound
  <1>2. PICK j \in 0 .. n : ReadTo(caps, bytes, c, d, j, buf, unread, all, sent, n, dropped, at, task)
    BY <1>1, Zenon
  <1>3. OnTheWay(bytes, c[j], c[n], buf, unread, task)
    BY <1>2, Zenon DEF ReadTo
  <1>4. OnTheWay(bytes, c[j], c[n], buf, unread, FALSE)
    BY <1>3, Zenon DEF OnTheWay
  <1>5. OnTheWay(bytes, c[j], c[n], buf, <<>>, FALSE)
    <2>1. Len(<<>>) = 0 /\ 1 .. 0 = {}
      OBVIOUS
    <2>2. c[j] \in Nat /\ c[n] \in Nat
      BY <1>2, ReadNumbers, Zenon
    <2>3. c[j] + Len(buf) + 0 <= c[n]
      <3>1. c[j] + Len(buf) + Len(unread) <= c[n] /\ Len(buf) \in Nat /\ Len(unread) \in Nat
        BY <1>3, LenProperties DEF OnTheWay
      <3> QED
        BY <2>2, <3>1
    <2> QED
      BY <1>3, <2>1, <2>3, Zenon DEF OnTheWay
  <1>6. /\ ReadTo(caps, bytes, c, d, j, buf, unread, all, sent, n, dropped, to, task)
        /\ ReadTo(caps, bytes, c, d, j, buf, unread, all, sent, n, dropped, to, FALSE)
        /\ ReadTo(caps, bytes, c, d, j, buf, <<>>, all, sent, n, dropped, to, FALSE)
    BY <1>2, <1>3, <1>4, <1>5, Zenon DEF ReadTo
  <1> QED
    BY <1>6, Zenon DEF InSound

\* Bytes go from the wire to the buffer.
LEMMA InReads ==
    ASSUME NEW buf \in Seq(Nat), NEW unread \in Seq(Nat), NEW all, NEW sent, NEW n \in Nat, NEW dropped,
           NEW at, NEW task, InSound(buf, unread, all, sent, n, dropped, at, task), NEW m \in 1 .. Len(unread)
    PROVE  InSound(buf \o SubSeq(unread, 1, m), SubSeq(unread, m + 1, Len(unread)), all, sent, n, dropped, "decode", task)
  <1>1. PICK caps, bytes, c, d : \E j \in 0 .. n :
          ReadTo(caps, bytes, c, d, j, buf, unread, all, sent, n, dropped, at, task)
    BY Zenon DEF InSound
  <1>2. PICK j \in 0 .. n : ReadTo(caps, bytes, c, d, j, buf, unread, all, sent, n, dropped, at, task)
    BY <1>1, Zenon
  <1>3. PICK p \in Nat, e \in Nat : p = c[j] /\ e = c[n]
    BY <1>2, ReadNumbers, Zenon
  <1>4. OnTheWay(bytes, p, e, buf, unread, task)
    BY <1>2, <1>3, Zenon DEF ReadTo
  <1>5. PICK x \in Nat, y \in Nat : x = Len(buf) /\ y = Len(unread) /\ m \in Nat /\ m >= 1 /\ m <= y
    BY LenProperties
  <1>6. PICK a \in Seq(Nat) : a = SubSeq(unread, 1, m) /\ Len(a) = m /\ \A i \in 1 .. m : a[i] = unread[i]
    <2>1. /\ SubSeq(unread, 1, m) \in Seq(Nat) /\ Len(SubSeq(unread, 1, m)) = m
          /\ \A i \in 1 .. m : SubSeq(unread, 1, m)[i] = unread[i]
      BY <1>5, FirstOf
    <2> QED
      BY <2>1, Zenon
  <1>7. PICK r \in Seq(Nat) : /\ r = SubSeq(unread, m + 1, Len(unread)) /\ Len(r) = y - m
                              /\ \A i \in 1 .. y - m : r[i] = unread[m + i]
    <2>1. /\ SubSeq(unread, m + 1, Len(unread)) \in Seq(Nat) /\ Len(SubSeq(unread, m + 1, Len(unread))) = Len(unread) - m
          /\ \A i \in 1 .. Len(unread) - m : SubSeq(unread, m + 1, Len(unread))[i] = unread[m + i]
      BY <1>5, RestOf
    <2> QED
      BY <1>5, <2>1, Zenon
  <1>8. PICK b \in Seq(Nat) : /\ b = buf \o a /\ Len(b) = x + m /\ \A i \in 1 .. x : b[i] = buf[i]
                              /\ \A i \in 1 .. m : b[x + i] = a[i]
    <2>1. /\ buf \o a \in Seq(Nat) /\ Len(buf \o a) = Len(buf) + Len(a)
          /\ \A i \in 1 .. Len(buf) : (buf \o a)[i] = buf[i]
          /\ \A i \in 1 .. Len(a) : (buf \o a)[Len(buf) + i] = a[i]
      BY JoinOf
    <2>2. /\ buf \o a \in Seq(Nat) /\ Len(buf \o a) = x + m
          /\ \A i \in 1 .. x : (buf \o a)[i] = buf[i]
          /\ \A i \in 1 .. m : (buf \o a)[x + i] = a[i]
      <3>1. Len(buf) = x /\ Len(a) = m
        BY <1>5, <1>6, Zenon
      <3> QED
        BY <2>1, <3>1, Zenon
    <2> QED
      BY <2>2, Zenon
  <1>9. /\ \A i \in 1 .. x : buf[i] = bytes[p + i]
        /\ \A i \in 1 .. y : unread[i] = bytes[(p + x) + i]
        /\ (p + x) + y <= e /\ (task => (p + x) + y = e)
    BY <1>4, <1>5, Zenon DEF OnTheWay
  <1>10. ASSUME NEW i \in 1 .. x + m PROVE b[i] = bytes[p + i]
    <2>1. CASE i <= x
      <3>1. i \in 1 .. x
        BY <2>1
      <3> QED
        BY <1>8, <1>9, <3>1, Zenon
    <2>2. CASE i > x
      <3>1. PICK h \in 1 .. m : i = x + h
        <4>1. i - x \in 1 .. m /\ i = x + (i - x)
          BY <2>2
        <4> QED
          BY <4>1
      <3>2. h \in 1 .. y /\ (p + x) + h = p + i
        BY <1>5, <3>1
      <3>3. b[x + h] = a[h] /\ a[h] = unread[h] /\ unread[h] = bytes[(p + x) + h]
        BY <1>6, <1>8, <1>9, <3>2, Zenon
      <3> QED
        BY <3>1, <3>2, <3>3, Zenon
    <2> QED
      BY <2>1, <2>2
  <1>11. ASSUME NEW i \in 1 .. y - m PROVE r[i] = bytes[(p + (x + m)) + i]
    <2>1. m + i \in 1 .. y /\ (p + x) + (m + i) = (p + (x + m)) + i
      BY <1>5
    <2> QED
      BY <1>7, <1>9, <2>1, Zenon
  <1>12. p + (x + m) + (y - m) = p + x + y
    BY <1>5
  <1>13. OnTheWay(bytes, p, e, b, r, task)
    BY <1>7, <1>8, <1>9, <1>10, <1>11, <1>12, Zenon DEF OnTheWay
  <1>14. ReadTo(caps, bytes, c, d, j, b, r, all, sent, n, dropped, "decode", task)
    <2>1. "decode" # "chunk"
      OBVIOUS
    <2> QED
      BY <1>2, <1>3, <1>13, <2>1, Zenon DEF ReadTo
  <1>15. InSound(b, r, all, sent, n, dropped, "decode", task)
    BY <1>14, Zenon DEF InSound
  <1> QED
    BY <1>6, <1>7, <1>8, <1>15, Zenon

\* A place within a capsule is no further than its end ...
LEMMA PlaceWithin ==
    ASSUME NEW f \in Nat, NEW z \in Nat, NEW e \in Nat, f + z <= e, NEW i \in 1 .. z
    PROVE  f + i \in Nat /\ f + i <= e
  OBVIOUS

\* ... and one after what was on the wire lies as far into what was added.
LEMMA PlaceAfter ==
    ASSUME NEW p \in Nat, NEW f \in Nat, NEW w \in Nat, NEW e \in Nat, p + f + w = e, NEW h \in Nat
    PROVE  (p + f) + (w + h) = e + h
  OBVIOUS

\* A capsule is a few bytes.
LEMMA CapsuleBytes ==
    ASSUME NEW k \in Nat, NEW cap \in ProxyCapsules(k)
    PROVE  /\ cap \in Seq(Nat) /\ Len(cap) > 0 /\ Len(cap) \in Nat
           /\ k <= 255 => cap \in Seq(Bytes)
  <1> USE DEF Bytes
  <1>1. CASE cap = <<0, 2, 0, k>>
    BY <1>1
  <1>2. CASE cap = <<0, 64, 2, 0, k>>
    BY <1>2
  <1>3. CASE cap = <<1, 1, k>>
    BY <1>3
  <1>4. CASE cap = <<0, 2, 1, k>>
    BY <1>4
  <1>5. CASE cap = <<0, 0>>
    BY <1>5
  <1>6. CASE cap = <<0, 128, 1, 0, 0>>
    BY <1>6
  <1> QED
    BY <1>1, <1>2, <1>3, <1>4, <1>5, <1>6, Zenon DEF ProxyCapsules

\* The script with one more capsule.
MoreCaps(caps, n, cap) == [k \in 1 .. n + 1 |-> IF k = n + 1 THEN cap ELSE caps[k]]
MoreBytes(bytes, e, x, cap) == [i \in Nat |-> IF i > e /\ i <= e + x THEN cap[i - e] ELSE bytes[i]]
MoreEnds(c, n, e, x) == [k \in Nat |-> IF k = n + 1 THEN e + x ELSE c[k]]
MoreCounts(d, n, cap) == [k \in Nat |-> IF k = n + 1 THEN d[n] + (IF IsDatagram(cap) THEN 1 ELSE 0) ELSE d[k]]

\* It is a script again.
LEMMA ScriptGrows ==
    ASSUME NEW caps, NEW bytes, NEW c, NEW d, NEW n \in Nat, Script(caps, bytes, c, d, n),
           NEW cap \in ProxyCapsules(n + 1), NEW e \in Nat, e = c[n], NEW x \in Nat, x = Len(cap), x > 0
    PROVE  Script(MoreCaps(caps, n, cap), MoreBytes(bytes, e, x, cap), MoreEnds(c, n, e, x), MoreCounts(d, n, cap), n + 1)
  <1>0. PICK more, b, ends, counts :
          /\ more = MoreCaps(caps, n, cap) /\ b = MoreBytes(bytes, e, x, cap)
          /\ ends = MoreEnds(c, n, e, x) /\ counts = MoreCounts(d, n, cap)
    OBVIOUS
  <1>00. /\ more = [k \in 1 .. n + 1 |-> IF k = n + 1 THEN cap ELSE caps[k]]
         /\ b = [i \in Nat |-> IF i > e /\ i <= e + x THEN cap[i - e] ELSE bytes[i]]
         /\ ends = [k \in Nat |-> IF k = n + 1 THEN e + x ELSE c[k]]
         /\ counts = [k \in Nat |-> IF k = n + 1 THEN d[n] + (IF IsDatagram(cap) THEN 1 ELSE 0) ELSE d[k]]
    BY <1>0, Zenon DEF MoreCaps, MoreBytes, MoreEnds, MoreCounts
  <1>1. c \in [Nat -> Nat] /\ d \in [Nat -> Nat] /\ bytes \in [Nat -> Nat] /\ c[0] = 0 /\ d[0] = 0
    BY Zenon DEF Script
  <1>2. cap \in Seq(Nat)
    <2>1. n + 1 \in Nat
      OBVIOUS
    <2> QED
      BY <2>1, CapsuleBytes
  <1>3. /\ n + 1 \in Nat /\ n \in Nat /\ n # n + 1 /\ 0 # n + 1 /\ e + x \in Nat /\ n + 1 \in 1 .. n + 1
        /\ (n + 1) - 1 = n
    OBVIOUS
  <1>4. PICK t \in Nat : t = IF IsDatagram(cap) THEN 1 ELSE 0
    OBVIOUS
  <1>5. \A k \in Nat : c[k] \in Nat /\ d[k] \in Nat /\ bytes[k] \in Nat
    BY <1>1, Zenon
  <1>6. d[n] + t \in Nat
    BY <1>5
  <1>7. ends \in [Nat -> Nat] /\ ends[n + 1] = e + x /\ \A k \in Nat : k # n + 1 => ends[k] = c[k]
    BY <1>00, <1>3, <1>5, Zenon
  <1>8. counts \in [Nat -> Nat] /\ counts[n + 1] = d[n] + t /\ \A k \in Nat : k # n + 1 => counts[k] = d[k]
    BY <1>00, <1>3, <1>4, <1>5, <1>6, Zenon
  <1>9. more[n + 1] = cap /\ \A k \in 1 .. n : more[k] = caps[k]
    <2>1. \A k \in 1 .. n : k \in 1 .. n + 1 /\ k # n + 1
      OBVIOUS
    <2> QED
      BY <1>00, <1>3, <2>1, Zenon
  <1>10. b \in [Nat -> Nat]
    <2>1. ASSUME NEW i \in Nat PROVE (IF i > e /\ i <= e + x THEN cap[i - e] ELSE bytes[i]) \in Nat
      <3>1. CASE i > e /\ i <= e + x
        <4>1. i - e \in 1 .. x
          BY <3>1
        <4>2. cap[i - e] \in Nat
          BY <1>2, <4>1, ElementOfSeq
        <4> QED
          BY <3>1, <4>2, Zenon
      <3>2. CASE ~(i > e /\ i <= e + x)
        BY <1>5, <3>2, Zenon
      <3> QED
        BY <3>1, <3>2, Zenon
    <2> QED
      BY <1>00, <2>1, Zenon
  <1>11. /\ \A i \in Nat : i <= e => b[i] = bytes[i]
         /\ \A i \in 1 .. x : b[e + i] = cap[i]
    <2>1. \A i \in Nat : i <= e => ~(i > e /\ i <= e + x)
      OBVIOUS
    <2>2. \A i \in 1 .. x : e + i \in Nat /\ e + i > e /\ e + i <= e + x /\ (e + i) - e = i
      OBVIOUS
    <2> QED
      BY <1>00, <2>1, <2>2, Zenon
  <1>12. ASSUME NEW k \in 1 .. n + 1
         PROVE  /\ more[k] \in ProxyCapsules(k) /\ ends[k] = ends[k - 1] + Len(more[k]) /\ ends[k] <= ends[n + 1]
                /\ counts[k] = counts[k - 1] + (IF IsDatagram(more[k]) THEN 1 ELSE 0)
                /\ \A i \in 1 .. Len(more[k]) : b[ends[k - 1] + i] = more[k][i]
    <2>1. CASE k = n + 1
      <3>1. ends[k] = e + x /\ ends[k - 1] = e /\ counts[k] = d[n] + t /\ counts[k - 1] = d[n] /\ more[k] = cap
        BY <1>3, <1>7, <1>8, <1>9, <2>1, Zenon
      <3>2. e + x <= e + x
        OBVIOUS
      <3> QED
        <4>1. more[k] \in ProxyCapsules(k)
          BY <2>1, <3>1, Zenon
        <4>2. ends[k] = ends[k - 1] + Len(more[k]) /\ ends[k] <= ends[n + 1]
          BY <1>7, <3>1, <3>2, Zenon
        <4>3. counts[k] = counts[k - 1] + (IF IsDatagram(more[k]) THEN 1 ELSE 0)
          BY <1>4, <3>1, Zenon
        <4>4. \A i \in 1 .. Len(more[k]) : b[ends[k - 1] + i] = more[k][i]
          BY <1>11, <3>1, Zenon
        <4> QED
          BY <4>1, <4>2, <4>3, <4>4, Zenon
    <2>2. CASE k \in 1 .. n
      <3>1. k \in Nat /\ k - 1 \in Nat /\ k # n + 1 /\ k - 1 # n + 1
        BY <2>2
      <3>2. /\ caps[k] \in ProxyCapsules(k) /\ c[k] = c[k - 1] + Len(caps[k]) /\ c[k] <= e
            /\ d[k] = d[k - 1] + (IF IsDatagram(caps[k]) THEN 1 ELSE 0)
            /\ \A i \in 1 .. Len(caps[k]) : bytes[c[k - 1] + i] = caps[k][i]
        BY <2>2, Zenon DEF Script
      <3>3. ends[k] = c[k] /\ ends[k - 1] = c[k - 1] /\ counts[k] = d[k] /\ counts[k - 1] = d[k - 1] /\ more[k] = caps[k]
        BY <1>7, <1>8, <1>9, <2>2, <3>1, Zenon
      <3>4. PICK f \in Nat, g \in Nat, z \in Nat : f = c[k - 1] /\ g = c[k] /\ z = Len(caps[k]) /\ g = f + z /\ g <= e
        <4>1. Len(caps[k]) \in Nat
          BY <3>1, <3>2, CapsuleBytes
        <4> QED
          BY <1>5, <3>1, <3>2, <4>1, Zenon
      <3>5. g <= e + x
        BY <3>4
      <3>6. ASSUME NEW i \in 1 .. z PROVE b[f + i] = caps[k][i]
        <4>0. f + z <= e
          BY <3>4, Zenon
        <4>1. f + i \in Nat /\ f + i <= e
          BY <4>0, PlaceWithin, Zenon
        <4> QED
          BY <1>11, <3>2, <3>4, <4>1, Zenon
      <3> QED
        <4>1. more[k] \in ProxyCapsules(k) /\ counts[k] = counts[k - 1] + (IF IsDatagram(more[k]) THEN 1 ELSE 0)
          BY <3>2, <3>3, Zenon
        <4>2. ends[k] = ends[k - 1] + Len(more[k]) /\ ends[k] <= ends[n + 1]
          BY <1>7, <3>3, <3>4, <3>5, Zenon
        <4>3. \A i \in 1 .. Len(more[k]) : b[ends[k - 1] + i] = more[k][i]
          BY <3>3, <3>4, <3>6, Zenon
        <4> QED
          BY <4>1, <4>2, <4>3, Zenon
    <2>3. k = n + 1 \/ k \in 1 .. n
      OBVIOUS
    <2> QED
      BY <2>1, <2>2, <2>3, Zenon
  <1>13. ends[0] = 0 /\ counts[0] = 0
    <2>1. 0 \in Nat
      OBVIOUS
    <2> QED
      BY <1>1, <1>3, <1>7, <1>8, <2>1, Zenon
  <1> QED
    <2>1. Script(more, b, ends, counts, n + 1)
      BY <1>7, <1>8, <1>10, <1>12, <1>13, Zenon DEF Script
    <2> QED
      BY <1>0, <2>1, Zenon

\* The proxy writes one more capsule.
LEMMA InWrites ==
    ASSUME NEW buf \in Seq(Nat), NEW unread \in Seq(Nat), NEW all \in Seq(Seq(Nat)), NEW sent \in Seq(Seq(Nat)),
           NEW n \in Nat, NEW dropped \in Nat, NEW at, NEW task, task = TRUE,
           InSound(buf, unread, all, sent, n, dropped, at, task), NEW cap \in ProxyCapsules(n + 1)
    PROVE  InSound(buf, unread \o cap, all, IF IsDatagram(cap) THEN Append(sent, <<n + 1>>) ELSE sent,
                   n + 1, dropped, at, task)
  <1>1. PICK caps, bytes, c, d : \E j \in 0 .. n :
          ReadTo(caps, bytes, c, d, j, buf, unread, all, sent, n, dropped, at, task)
    BY Zenon DEF InSound
  <1>2. PICK j \in 0 .. n : ReadTo(caps, bytes, c, d, j, buf, unread, all, sent, n, dropped, at, task)
    BY <1>1, Zenon
  <1>3. PICK p \in Nat, e \in Nat : p = c[j] /\ e = c[n] /\ j \in Nat /\ j <= n /\ d[j] \in Nat /\ d[n] \in Nat
    BY <1>2, ReadNumbers, Zenon
  <1>4. PICK x \in Nat : x = Len(cap) /\ x > 0 /\ cap \in Seq(Nat)
    <2>1. n + 1 \in Nat
      OBVIOUS
    <2> QED
      BY <2>1, CapsuleBytes
  <1> DEFINE more == MoreCaps(caps, n, cap)
             b == MoreBytes(bytes, e, x, cap)
             ends == MoreEnds(c, n, e, x)
             counts == MoreCounts(d, n, cap)
  <1>5. Script(more, b, ends, counts, n + 1)
    <2>1. Script(caps, bytes, c, d, n)
      BY <1>2, Zenon DEF ReadTo
    <2> QED
      BY <1>3, <1>4, <2>1, ScriptGrows, Zenon
  <1>6. /\ \A k \in 0 .. n : ends[k] = c[k] /\ counts[k] = d[k]
        /\ \A k \in 1 .. n : more[k] = caps[k]
        /\ ends[n + 1] = e + x /\ more[n + 1] = cap
        /\ counts[n + 1] = d[n] + (IF IsDatagram(cap) THEN 1 ELSE 0)
    <2>1. \A k \in 0 .. n : k \in Nat /\ k # n + 1
      OBVIOUS
    <2>2. \A k \in 1 .. n : k \in 1 .. n + 1 /\ k # n + 1
      OBVIOUS
    <2>3. n + 1 \in Nat /\ n + 1 \in 1 .. n + 1
      OBVIOUS
    <2> QED
      BY <2>1, <2>2, <2>3, Zenon DEF MoreCaps, MoreEnds, MoreCounts
  <1>7. /\ \A i \in Nat : i <= e => b[i] = bytes[i]
        /\ \A i \in 1 .. x : b[e + i] = cap[i]
    <2>1. \A i \in Nat : i <= e => ~(i > e /\ i <= e + x)
      OBVIOUS
    <2>2. \A i \in 1 .. x : e + i \in Nat /\ e + i > e /\ e + i <= e + x /\ (e + i) - e = i
      OBVIOUS
    <2> QED
      BY <2>1, <2>2, Zenon DEF MoreBytes
  <1> HIDE DEF more, b, ends, counts
  <1>8. PICK s \in Seq(Nat), f \in Nat, w \in Nat :
          /\ s = unread \o cap /\ f = Len(buf) /\ w = Len(unread) /\ Len(s) = w + x
          /\ \A i \in 1 .. w : s[i] = unread[i]
          /\ \A i \in 1 .. x : s[w + i] = cap[i]
    <2>1. /\ unread \o cap \in Seq(Nat) /\ Len(unread \o cap) = Len(unread) + Len(cap)
          /\ \A i \in 1 .. Len(unread) : (unread \o cap)[i] = unread[i]
          /\ \A i \in 1 .. Len(cap) : (unread \o cap)[Len(unread) + i] = cap[i]
      BY <1>4, JoinOf
    <2>2. PICK f \in Nat, w \in Nat : f = Len(buf) /\ w = Len(unread)
      BY LenProperties
    <2>3. /\ unread \o cap \in Seq(Nat) /\ Len(unread \o cap) = w + x
          /\ \A i \in 1 .. w : (unread \o cap)[i] = unread[i]
          /\ \A i \in 1 .. x : (unread \o cap)[w + i] = cap[i]
      <3>1. Len(unread) = w /\ Len(cap) = x
        BY <1>4, <2>2, Zenon
      <3> QED
        BY <2>1, <3>1, Zenon
    <2> QED
      BY <2>2, <2>3, ZenonT(40)
  <1>9. /\ \A i \in 1 .. f : buf[i] = bytes[p + i]
        /\ \A i \in 1 .. w : unread[i] = bytes[(p + f) + i]
        /\ p + f + w = e
    BY <1>2, <1>3, <1>8, Zenon DEF ReadTo, OnTheWay
  <1>10. OnTheWay(b, p, e + x, buf, s, task)
    <2>0. p + f + w = e
      BY <1>9
    <2>1. ASSUME NEW i \in 1 .. f PROVE buf[i] = b[p + i]
      <3>1. p + i \in Nat /\ p + i <= e
        BY <1>9
      <3> QED
        BY <1>7, <1>9, <3>1, Zenon
    <2>2. ASSUME NEW i \in 1 .. w + x PROVE s[i] = b[(p + f) + i]
      <3>1. CASE i <= w
        <4>1. i \in 1 .. w /\ (p + f) + i \in Nat /\ (p + f) + i <= e
          BY <1>9, <3>1
        <4> QED
          BY <1>7, <1>8, <1>9, <4>1, Zenon
      <3>2. CASE i > w
        <4>1. PICK h \in 1 .. x : i = w + h
          <5>1. i - w \in 1 .. x /\ i = w + (i - w)
            BY <3>2
          <5> QED
            BY <5>1
        <4>2. (p + f) + i = e + h
          <5>1. h \in Nat
            OBVIOUS
          <5>2. (p + f) + (w + h) = e + h
            BY <2>0, <5>1, PlaceAfter
          <5> QED
            BY <4>1, <5>2, Zenon
        <4> QED
          BY <1>7, <1>8, <4>1, <4>2, Zenon
      <3> QED
        BY <3>1, <3>2
    <2>3. p + f + (w + x) = e + x /\ e + x <= e + x
      BY <1>9
    <2> QED
      BY <1>8, <2>1, <2>2, <2>3, Zenon DEF OnTheWay
  <1>11. Shown(more, counts, j, all, dropped)
    <2>1. j \in 0 .. n /\ \A k \in 1 .. j : k \in 1 .. n
      BY <1>3
    <2>2. Shown(caps, d, j, all, dropped)
      BY <1>2, Zenon DEF ReadTo
    <2> QED
      BY <1>6, <2>1, <2>2, Zenon DEF Shown
  <1>12. PICK told \in Seq(Seq(Nat)) : told = IF IsDatagram(cap) THEN Append(sent, <<n + 1>>) ELSE sent
    <2>1. <<n + 1>> \in Seq(Nat)
      OBVIOUS
    <2>2. Append(sent, <<n + 1>>) \in Seq(Seq(Nat))
      BY <2>1, AppendProperties
    <2> QED
      BY <2>2, Zenon
  <1>13. Recorded(more, counts, n + 1, told)
    <2>1. Len(sent) = d[n] /\ \A k \in 1 .. n : IsDatagram(caps[k]) => \E i \in 1 .. Len(sent) : sent[i] = <<k>>
      BY <1>2, Zenon DEF ReadTo, Recorded
    <2>2. CASE ~IsDatagram(cap)
      <3>1. told = sent /\ counts[n + 1] = d[n] + 0 /\ d[n] + 0 = d[n]
        BY <1>3, <1>6, <1>12, <2>2
      <3>2. \A k \in 1 .. n + 1 : k \in 1 .. n \/ k = n + 1
        OBVIOUS
      <3> QED
        BY <1>6, <2>1, <2>2, <3>1, <3>2, Zenon DEF Recorded
    <2>3. CASE IsDatagram(cap)
      <3>1. told = Append(sent, <<n + 1>>) /\ counts[n + 1] = d[n] + 1
        BY <1>6, <1>12, <2>3, Zenon
      <3>2. PICK m \in Nat : m = Len(sent)
        BY LenProperties
      <3>3. Len(told) = m + 1 /\ told[m + 1] = <<n + 1>> /\ \A i \in 1 .. m : told[i] = sent[i]
        <4>1. <<n + 1>> \in Seq(Nat)
          OBVIOUS
        <4>2. /\ Len(Append(sent, <<n + 1>>)) = Len(sent) + 1 /\ Append(sent, <<n + 1>>)[Len(sent) + 1] = <<n + 1>>
              /\ \A i \in 1 .. Len(sent) : Append(sent, <<n + 1>>)[i] = sent[i]
          BY <4>1, AppendProperties
        <4> QED
          BY <3>1, <3>2, <4>2, Zenon
      <3>4. m + 1 \in 1 .. m + 1 /\ \A i \in 1 .. m : i \in 1 .. m + 1
        OBVIOUS
      <3>5. ASSUME NEW k \in 1 .. n + 1, IsDatagram(more[k]) PROVE \E i \in 1 .. m + 1 : told[i] = <<k>>
        <4>1. CASE k \in 1 .. n
          <5>1. PICK i \in 1 .. m : sent[i] = <<k>>
            BY <1>6, <2>1, <3>2, <3>5, <4>1, Zenon
          <5> QED
            BY <3>3, <3>4, <5>1, Zenon
        <4>2. CASE k = n + 1
          BY <3>3, <3>4, <4>2, Zenon
        <4> QED
          BY <4>1, <4>2
      <3>6. Len(told) = counts[n + 1]
        BY <2>1, <3>1, <3>2, <3>3, Zenon
      <3> QED
        BY <3>3, <3>5, <3>6, Zenon DEF Recorded
    <2> QED
      BY <2>2, <2>3, Zenon
  <1>14. at = "chunk" /\ j < n + 1 => Len(buf) < Len(more[j + 1])
    <2> SUFFICES ASSUME at = "chunk" PROVE Len(buf) < Len(more[j + 1])
      OBVIOUS
    <2>1. CASE j < n
      <3>1. j + 1 \in 1 .. n
        BY <1>3, <2>1
      <3>2. Len(buf) < Len(caps[j + 1])
        BY <1>2, <2>1, Zenon DEF ReadTo
      <3> QED
        BY <1>6, <3>1, <3>2, Zenon
    <2>2. CASE j = n
      <3>1. more[j + 1] = cap /\ p = e
        BY <1>3, <1>6, <2>2, Zenon
      <3>2. f = 0
        BY <1>9, <3>1
      <3>3. 0 < x
        BY <1>4
      <3> QED
        BY <1>4, <1>8, <3>1, <3>2, <3>3, Zenon
    <2> QED
      BY <1>3, <2>1, <2>2
  <1>15. n + 1 \in 0 .. n + 1 /\ j \in 0 .. n + 1 /\ n + 1 \in Nat
    BY <1>3
  <1>16. ReadTo(more, b, ends, counts, j, buf, s, all, told, n + 1, dropped, at, task)
    <2>1. ends[j] = p /\ ends[n + 1] = e + x
      BY <1>3, <1>6, Zenon
    <2> QED
      BY <1>5, <1>10, <1>11, <1>13, <1>14, <2>1, Zenon DEF ReadTo
  <1>17. InSound(buf, s, all, told, n + 1, dropped, at, task)
    BY <1>15, <1>16, Zenon DEF InSound
  <1> QED
    BY <1>8, <1>12, <1>17, Zenon

\* What is at the front of the buffer, when the pump looks at it.
LEMMA FrontIs ==
    ASSUME NEW caps, NEW bytes, NEW c, NEW d, NEW n \in Nat, NEW j \in 0 .. n, NEW buf \in Seq(Nat), NEW unread \in Seq(Nat),
           NEW all, NEW sent, NEW dropped, NEW at, NEW task,
           ReadTo(caps, bytes, c, d, j, buf, unread, all, sent, n, dropped, at, task)
    PROVE  /\ j = n => Len(buf) = 0
           /\ j < n => /\ caps[j + 1] \in ProxyCapsules(j + 1) /\ j + 1 \in 1 .. n
                       /\ FrontRead(buf, caps[j + 1], IF IsDatagram(caps[j + 1]) THEN <<<<j + 1>>>> ELSE <<>>)
  <1>1. PICK p \in Nat, e \in Nat : p = c[j] /\ e = c[n] /\ j \in Nat /\ j <= n
    BY ReadNumbers, Zenon
  <1>2. PICK x \in Nat, y \in Nat : x = Len(buf) /\ y = Len(unread)
    BY LenProperties
  <1>3. (\A i \in 1 .. x : buf[i] = bytes[p + i]) /\ p + x + y <= e
    BY <1>1, <1>2, Zenon DEF ReadTo, OnTheWay
  <1>4. ASSUME j = n PROVE x = 0
    <2>1. p = e
      BY <1>1, <1>4, Zenon
    <2> QED
      BY <1>3, <2>1
  <1>5. ASSUME j < n
        PROVE  /\ caps[j + 1] \in ProxyCapsules(j + 1) /\ j + 1 \in 1 .. n
               /\ FrontRead(buf, caps[j + 1], IF IsDatagram(caps[j + 1]) THEN <<<<j + 1>>>> ELSE <<>>)
    <2>1. j + 1 \in 1 .. n /\ j + 1 \in Nat /\ (j + 1) - 1 = j
      BY <1>1, <1>5
    <2>2. PICK cap : cap = caps[j + 1]
      OBVIOUS
    <2>3. cap \in ProxyCapsules(j + 1) /\ \A i \in 1 .. Len(cap) : bytes[p + i] = cap[i]
      BY <1>1, <2>1, <2>2, ZenonT(40) DEF ReadTo, Script
    <2>4. ASSUME NEW i \in 1 .. Len(cap), i <= x PROVE buf[i] = cap[i]
      <3>1. i \in 1 .. x
        BY <2>4
      <3> QED
        BY <1>3, <2>3, <3>1, Zenon
    <2>5. Begins(buf, cap)
      BY <1>2, <2>4, Zenon DEF Begins
    <2>6. FrontRead(buf, cap, IF IsDatagram(cap) THEN <<<<j + 1>>>> ELSE <<>>)
      BY <2>1, <2>3, <2>5, ProxyRead
    <2> QED
      BY <2>1, <2>2, <2>3, <2>6, Zenon
  <1> QED
    BY <1>2, <1>4, <1>5, Zenon

\* The capsule at the front is not whole: the pump reads on.
LEMMA InWaits ==
    ASSUME NEW buf \in Seq(Nat), NEW unread \in Seq(Nat), NEW all, NEW sent, NEW n \in Nat, NEW dropped,
           NEW at, NEW task, InSound(buf, unread, all, sent, n, dropped, at, task), DecodeCapsule(buf).result = "pending"
    PROVE  InSound(buf, unread, all, sent, n, dropped, "chunk", task)
  <1>1. PICK caps, bytes, c, d : \E j \in 0 .. n :
          ReadTo(caps, bytes, c, d, j, buf, unread, all, sent, n, dropped, at, task)
    BY Zenon DEF InSound
  <1>2. PICK j \in 0 .. n : ReadTo(caps, bytes, c, d, j, buf, unread, all, sent, n, dropped, at, task)
    BY <1>1, Zenon
  <1>3. ASSUME j < n PROVE Len(buf) < Len(caps[j + 1])
    <2>1. PICK cap : cap = caps[j + 1]
      OBVIOUS
    <2>2. cap \in ProxyCapsules(j + 1) /\ FrontRead(buf, cap, IF IsDatagram(cap) THEN <<<<j + 1>>>> ELSE <<>>)
      BY <1>2, <1>3, <2>1, FrontIs, Zenon
    <2>3. ~(Len(buf) >= Len(cap))
      <3>1. "pending" # "violation" /\ "pending" # "capsule"
        OBVIOUS
      <3> QED
        BY <2>2, <3>1, Zenon DEF FrontRead
    <2>4. Len(buf) \in Nat /\ Len(cap) \in Nat
      <3>1. j + 1 \in Nat
        OBVIOUS
      <3> QED
        BY <2>2, <3>1, CapsuleBytes, LenProperties
    <2>5. Len(buf) < Len(cap)
      BY <2>3, <2>4
    <2> QED
      BY <2>1, <2>5, Zenon
  <1>4. ReadTo(caps, bytes, c, d, j, buf, unread, all, sent, n, dropped, "chunk", task)
    BY <1>2, <1>3, Zenon DEF ReadTo
  <1> QED
    BY <1>4, Zenon DEF InSound

\* Nothing is left over, and nothing is unaccounted for.
AllIn(buf, all, sent, dropped) == Len(buf) = 0 /\ Len(all) + dropped = Len(sent)

\* What comes through was sent, and is in order.
AllInOrder(all, sent) == Rising(all) /\ \A i \in 1 .. Len(all) : \E h \in 1 .. Len(sent) : all[i] = sent[h]

\* With every byte in and the pump waiting for more, nothing is left over.
LEMMA InHolds ==
    ASSUME NEW buf \in Seq(Nat), NEW all, NEW sent, NEW n \in Nat, NEW dropped,
           InSound(buf, <<>>, all, sent, n, dropped, "chunk", TRUE)
    PROVE  AllIn(buf, all, sent, dropped)
  <1>1. PICK caps, bytes, c, d : \E j \in 0 .. n :
          ReadTo(caps, bytes, c, d, j, buf, <<>>, all, sent, n, dropped, "chunk", TRUE)
    BY Zenon DEF InSound
  <1>2. PICK j \in 0 .. n : ReadTo(caps, bytes, c, d, j, buf, <<>>, all, sent, n, dropped, "chunk", TRUE)
    BY <1>1, Zenon
  <1>3. PICK p \in Nat, e \in Nat : p = c[j] /\ e = c[n] /\ j \in Nat /\ j <= n
    BY <1>2, ReadNumbers, Zenon
  <1>4. PICK x \in Nat : x = Len(buf) /\ p + x = e
    <2>1. Len(<<>>) = 0
      OBVIOUS
    <2>2. p + Len(buf) + 0 = e
      BY <1>2, <1>3, <2>1, Zenon DEF ReadTo, OnTheWay
    <2>3. Len(buf) \in Nat
      BY LenProperties
    <2> QED
      BY <2>2, <2>3
  <1>5. ASSUME j < n PROVE FALSE
    <2>1. j + 1 \in 1 .. n /\ (j + 1) - 1 = j /\ j + 1 \in Nat
      BY <1>3, <1>5
    <2>2. caps[j + 1] \in ProxyCapsules(j + 1) /\ c[j + 1] = p + Len(caps[j + 1]) /\ c[j + 1] <= e
      BY <1>2, <1>3, <2>1, Zenon DEF ReadTo, Script
    <2>3. x < Len(caps[j + 1])
      BY <1>2, <1>4, <1>5, Zenon DEF ReadTo
    <2>4. PICK y \in Nat : y = Len(caps[j + 1])
      BY <2>1, <2>2, CapsuleBytes
    <2>5. p + y <= e /\ x < y
      BY <2>2, <2>3, <2>4, Zenon
    <2> QED
      BY <1>4, <2>5
  <1>6. j = n
    BY <1>3, <1>5
  <1>7. x = 0
    <2>1. p = e
      BY <1>3, <1>6, Zenon
    <2> QED
      BY <1>4, <2>1
  <1>8. Len(all) + dropped = d[n] /\ Len(sent) = d[n]
    BY <1>2, <1>6, Zenon DEF ReadTo, Shown, Recorded
  <1> QED
    BY <1>4, <1>7, <1>8, Zenon DEF AllIn

\* What quinn gets, or will, was sent, and is in order.
LEMMA InOrder ==
    ASSUME NEW buf, NEW unread, NEW all, NEW sent, NEW n \in Nat, NEW dropped, NEW at, NEW task,
           InSound(buf, unread, all, sent, n, dropped, at, task)
    PROVE  AllInOrder(all, sent)
  <1>1. PICK caps, bytes, c, d : \E j \in 0 .. n :
          ReadTo(caps, bytes, c, d, j, buf, unread, all, sent, n, dropped, at, task)
    BY Zenon DEF InSound
  <1>2. PICK j \in 0 .. n : ReadTo(caps, bytes, c, d, j, buf, unread, all, sent, n, dropped, at, task)
    BY <1>1, Zenon
  <1>3. \A k \in 1 .. j : k \in 1 .. n
    OBVIOUS
  <1>4. \A i \in 1 .. Len(all) : \E k \in 1 .. j : IsDatagram(caps[k]) /\ all[i] = <<k>>
    BY <1>2, Zenon DEF ReadTo, Shown
  <1>5. \A k \in 1 .. n : IsDatagram(caps[k]) => \E i \in 1 .. Len(sent) : sent[i] = <<k>>
    BY <1>2, Zenon DEF ReadTo, Recorded
  <1>6. Rising(all)
    BY <1>2, Zenon DEF ReadTo, Shown
  <1>7. ASSUME NEW i \in 1 .. Len(all) PROVE \E h \in 1 .. Len(sent) : all[i] = sent[h]
    <2>1. PICK k \in 1 .. j : IsDatagram(caps[k]) /\ all[i] = <<k>>
      BY <1>4, Zenon
    <2>2. PICK h \in 1 .. Len(sent) : sent[h] = <<k>>
      BY <1>3, <1>5, <2>1, Zenon
    <2> QED
      BY <2>1, <2>2, Zenon
  <1> QED
    BY <1>6, <1>7, Zenon DEF AllInOrder

\* The datagram in the capsule at the front, if it is one.
FoundIn(next) == IF next.type = 0 THEN UdpPayload(next.value) ELSE <<>>

\* A datagram after those that are there is in order.
LEMMA ShowsNext ==
    ASSUME NEW caps, NEW d \in [Nat -> Nat], NEW j \in Nat, NEW all \in Seq(Seq(Nat)), NEW dropped \in Nat,
           Shown(caps, d, j, all, dropped), d[j + 1] = d[j] + (IF IsDatagram(caps[j + 1]) THEN 1 ELSE 0)
    PROVE  /\ ~IsDatagram(caps[j + 1]) => Shown(caps, d, j + 1, all, dropped)
           /\ IsDatagram(caps[j + 1]) => /\ Shown(caps, d, j + 1, Append(all, <<j + 1>>), dropped)
                                         /\ Shown(caps, d, j + 1, all, dropped + 1)
  <1>1. PICK t \in Nat, m \in Nat : t = d[j] /\ m = Len(all) /\ m + dropped = t
    <2>1. d[j] \in Nat /\ Len(all) \in Nat
      BY LenProperties
    <2> QED
      BY <2>1, Zenon DEF Shown
  <1>2. (\A k \in 1 .. j : k \in 1 .. j + 1) /\ j + 1 \in 1 .. j + 1
    OBVIOUS
  <1>3. (\A i \in 1 .. m : \E k \in 1 .. j : IsDatagram(caps[k]) /\ all[i] = <<k>>) /\ Rising(all)
    BY <1>1, Zenon DEF Shown
  <1>4. \A i \in 1 .. m : \E k \in 1 .. j + 1 : IsDatagram(caps[k]) /\ all[i] = <<k>>
    BY <1>2, <1>3, Zenon
  <1>5. ASSUME ~IsDatagram(caps[j + 1]) PROVE Shown(caps, d, j + 1, all, dropped)
    <2>1. t + 0 = t /\ d[j + 1] = t + 0
      BY <1>1, <1>5
    <2> QED
      BY <1>1, <1>3, <1>4, <2>1, Zenon DEF Shown
  <1>6. ASSUME IsDatagram(caps[j + 1]) PROVE Shown(caps, d, j + 1, all, dropped + 1)
    <2>1. m + (dropped + 1) = t + 1
      BY <1>1
    <2>2. d[j + 1] = t + 1
      BY <1>1, <1>6, Zenon
    <2> QED
      BY <1>1, <1>3, <1>4, <2>1, <2>2, Zenon DEF Shown
  <1>7. ASSUME IsDatagram(caps[j + 1]) PROVE Shown(caps, d, j + 1, Append(all, <<j + 1>>), dropped)
    <2>1. PICK q : q = Append(all, <<j + 1>>)
      OBVIOUS
    <2>2. Len(q) = m + 1 /\ q[m + 1] = <<j + 1>> /\ \A i \in 1 .. m : q[i] = all[i]
      <3>1. <<j + 1>> \in Seq(Nat)
        OBVIOUS
      <3>2. /\ Len(Append(all, <<j + 1>>)) = Len(all) + 1 /\ Append(all, <<j + 1>>)[Len(all) + 1] = <<j + 1>>
            /\ \A i \in 1 .. Len(all) : Append(all, <<j + 1>>)[i] = all[i]
        <4>1. PICK v \in Seq(Nat) : v = <<j + 1>>
          BY <3>1, Zenon
        <4>2. /\ Len(Append(all, v)) = Len(all) + 1 /\ Append(all, v)[Len(all) + 1] = v
              /\ \A i \in 1 .. Len(all) : Append(all, v)[i] = all[i]
          BY AppendProperties
        <4> QED
          BY <4>1, <4>2, Zenon
      <3> QED
        BY <1>1, <2>1, <3>2, Zenon
    <2>3. \A i \in 1 .. m + 1 : i \in 1 .. m \/ i = m + 1
      OBVIOUS
    <2>4. \A i \in 1 .. m + 1 : \E k \in 1 .. j + 1 : IsDatagram(caps[k]) /\ q[i] = <<k>>
      BY <1>2, <1>4, <1>7, <2>2, <2>3, Zenon
    <2>5. ASSUME NEW g \in 1 .. m + 1, NEW h \in 1 .. m + 1, g < h PROVE q[g][1] < q[h][1]
      <3>1. g \in 1 .. m
        BY <2>5
      <3>2. CASE h \in 1 .. m
        <4>1. all[g][1] < all[h][1]
          BY <1>1, <1>3, <2>5, <3>1, <3>2, Zenon DEF Rising
        <4> QED
          BY <2>2, <3>1, <3>2, <4>1, Zenon
      <3>3. CASE h = m + 1
        <4>1. PICK k \in 1 .. j : all[g] = <<k>>
          BY <1>3, <3>1, Zenon
        <4>2. <<k>>[1] = k /\ <<j + 1>>[1] = j + 1 /\ k < j + 1
          OBVIOUS
        <4> QED
          BY <2>2, <3>1, <3>3, <4>1, <4>2, Zenon
      <3> QED
        BY <2>3, <3>2, <3>3, Zenon
    <2>6. Rising(q)
      BY <2>2, <2>5, Zenon DEF Rising
    <2>7. (m + 1) + dropped = t + 1
      BY <1>1
    <2>8. d[j + 1] = t + 1
      BY <1>1, <1>7, Zenon
    <2>9. Shown(caps, d, j + 1, q, dropped)
      BY <2>2, <2>4, <2>6, <2>7, <2>8, Zenon DEF Shown
    <2> QED
      BY <2>1, <2>9, Zenon
  <1> QED
    BY <1>5, <1>6, <1>7, Zenon

\* The bytes behind the capsule at the front, once it is taken.
LEMMA WayAfter ==
    ASSUME NEW bytes, NEW p \in Nat, NEW e \in Nat, NEW buf \in Seq(Nat), NEW unread \in Seq(Nat), NEW task,
           OnTheWay(bytes, p, e, buf, unread, task), NEW x \in Nat, x <= Len(buf)
    PROVE  OnTheWay(bytes, p + x, e, SubSeq(buf, x + 1, Len(buf)), unread, task)
  <1>1. PICK m \in Nat, w \in Nat : m = Len(buf) /\ w = Len(unread) /\ x <= m
    BY LenProperties
  <1>2. PICK r \in Seq(Nat) : /\ r = SubSeq(buf, x + 1, Len(buf)) /\ Len(r) = m - x
                              /\ \A i \in 1 .. m - x : r[i] = buf[x + i]
    <2>1. /\ SubSeq(buf, x + 1, Len(buf)) \in Seq(Nat) /\ Len(SubSeq(buf, x + 1, Len(buf))) = Len(buf) - x
          /\ \A i \in 1 .. Len(buf) - x : SubSeq(buf, x + 1, Len(buf))[i] = buf[x + i]
      BY RestOf
    <2> QED
      BY <1>1, <2>1, Zenon
  <1>3. /\ \A i \in 1 .. m : buf[i] = bytes[p + i]
        /\ \A i \in 1 .. w : unread[i] = bytes[(p + m) + i]
        /\ p + m + w <= e /\ (task => p + m + w = e)
    BY <1>1, Zenon DEF OnTheWay
  <1>4. /\ (p + x) + (m - x) = p + m /\ m - x \in Nat
        /\ \A i \in 1 .. m - x : x + i \in 1 .. m /\ p + (x + i) = (p + x) + i
    BY <1>1
  <1>5. \A i \in 1 .. m - x : r[i] = bytes[(p + x) + i]
    BY <1>2, <1>3, <1>4, Zenon
  <1>6. OnTheWay(bytes, p + x, e, r, unread, task)
    <2>1. (p + x) + Len(r) = p + m
      BY <1>2, <1>4, Zenon
    <2>2. \A i \in 1 .. Len(unread) : unread[i] = bytes[((p + x) + Len(r)) + i]
      BY <1>1, <1>3, <2>1, Zenon
    <2>3. (p + x) + Len(r) + Len(unread) <= e /\ (task => (p + x) + Len(r) + Len(unread) = e)
      BY <1>1, <1>3, <2>1, Zenon
    <2>4. \A i \in 1 .. Len(r) : r[i] = bytes[(p + x) + i]
      BY <1>2, <1>5, Zenon
    <2> QED
      BY <2>2, <2>3, <2>4, Zenon DEF OnTheWay
  <1> QED
    BY <1>2, <1>6, Zenon

\* The capsule at the front is off the buffer: its datagram, if it is one, is queued or counted.
Takes(next, rest, buf, unread, all, sent, n, dropped, task) ==
    /\ next.consumed \in Nat /\ next.consumed <= Len(buf)
    /\ FoundIn(next) = <<>> => InSound(rest, unread, all, sent, n, dropped, "decode", task)
    /\ FoundIn(next) # <<>> => /\ FoundIn(next)[1] \in Seq(Nat)
                               /\ InSound(rest, unread, Append(all, FoundIn(next)[1]), sent, n, dropped, "decode", task)
                               /\ InSound(rest, unread, all, sent, n, dropped + 1, "decode", task)

\* The pump takes a capsule.
LEMMA InTakes ==
    ASSUME NEW buf \in Seq(Nat), NEW unread \in Seq(Nat), NEW all \in Seq(Seq(Nat)), NEW sent, NEW n \in Nat, NEW dropped \in Nat,
           NEW at, NEW task, InSound(buf, unread, all, sent, n, dropped, at, task), DecodeCapsule(buf).result = "capsule"
    PROVE  Takes(DecodeCapsule(buf), SubSeq(buf, DecodeCapsule(buf).consumed + 1, Len(buf)),
                 buf, unread, all, sent, n, dropped, task)
  <1>0. PICK next, rest : next = DecodeCapsule(buf) /\ rest = SubSeq(buf, next.consumed + 1, Len(buf))
    OBVIOUS
  <1>1. PICK caps, bytes, c, d : \E j \in 0 .. n :
          ReadTo(caps, bytes, c, d, j, buf, unread, all, sent, n, dropped, at, task)
    BY Zenon DEF InSound
  <1>2. PICK j \in 0 .. n : ReadTo(caps, bytes, c, d, j, buf, unread, all, sent, n, dropped, at, task)
    BY <1>1, Zenon
  <1>3. PICK p \in Nat, e \in Nat : p = c[j] /\ e = c[n] /\ j \in Nat /\ j <= n /\ d \in [Nat -> Nat]
    BY <1>2, ReadNumbers, ZenonT(40)
  <1>4. "capsule" # "pending" /\ "capsule" # "violation" /\ "decode" # "chunk"
    OBVIOUS
  <1>5. j < n
    <2> SUFFICES ASSUME j = n PROVE FALSE
      BY <1>3
    <2>1. Len(buf) = 0
      BY <1>2, FrontIs, Zenon
    <2>2. DecodeCapsule(buf).result = "pending"
      BY <2>1, CapsuleAwaited, Zenon
    <2> QED
      BY <1>4, <2>2, Zenon
  <1>6. PICK cap : cap = caps[j + 1]
    OBVIOUS
  <1>7. /\ cap \in ProxyCapsules(j + 1) /\ j + 1 \in 1 .. n
        /\ FrontRead(buf, cap, IF IsDatagram(cap) THEN <<<<j + 1>>>> ELSE <<>>)
    BY <1>2, <1>5, <1>6, FrontIs, Zenon
  <1>8. j + 1 \in Nat /\ (j + 1) - 1 = j /\ j + 1 \in 0 .. n
    BY <1>3, <1>5
  <1>9. PICK x \in Nat : x = Len(cap)
    BY <1>7, <1>8, CapsuleBytes
  <1>10. x <= Len(buf)
    <2>1. ~(Len(buf) < x)
      BY <1>4, <1>7, <1>9, Zenon DEF FrontRead
    <2>2. Len(buf) \in Nat
      BY LenProperties
    <2> QED
      BY <2>1, <2>2
  <1>11. next.consumed = x /\ FoundIn(next) = IF IsDatagram(cap) THEN <<<<j + 1>>>> ELSE <<>>
    <2>1. Len(buf) >= x
      <3>1. Len(buf) \in Nat
        BY LenProperties
      <3> QED
        BY <1>10, <3>1
    <2> QED
      BY <1>0, <1>4, <1>7, <1>9, <2>1, Zenon DEF FrontRead, FoundIn
  <1>12. c[j + 1] = p + x /\ d[j + 1] = d[j] + (IF IsDatagram(caps[j + 1]) THEN 1 ELSE 0)
    BY <1>2, <1>3, <1>6, <1>7, <1>8, <1>9, Zenon DEF ReadTo, Script
  <1>13. OnTheWay(bytes, c[j + 1], c[n], rest, unread, task)
    <2>1. OnTheWay(bytes, p, e, buf, unread, task)
      BY <1>2, <1>3, Zenon DEF ReadTo
    <2>2. OnTheWay(bytes, p + x, e, SubSeq(buf, x + 1, Len(buf)), unread, task)
      BY <1>10, <2>1, WayAfter
    <2> QED
      BY <1>0, <1>3, <1>11, <1>12, <2>2, Zenon
  <1>14. /\ ~IsDatagram(cap) => Shown(caps, d, j + 1, all, dropped)
         /\ IsDatagram(cap) => /\ Shown(caps, d, j + 1, Append(all, <<j + 1>>), dropped)
                               /\ Shown(caps, d, j + 1, all, dropped + 1)
    <2>1. Shown(caps, d, j, all, dropped)
      BY <1>2, Zenon DEF ReadTo
    <2> QED
      BY <1>3, <1>6, <1>12, <2>1, ShowsNext, Zenon
  <1>15. Script(caps, bytes, c, d, n) /\ Recorded(caps, d, n, sent)
    BY <1>2, Zenon DEF ReadTo
  <1>16. CASE ~IsDatagram(cap)
    <2>1. FoundIn(next) = <<>>
      BY <1>11, <1>16, Zenon
    <2>2. ReadTo(caps, bytes, c, d, j + 1, rest, unread, all, sent, n, dropped, "decode", task)
      BY <1>4, <1>13, <1>14, <1>15, <1>16, Zenon DEF ReadTo
    <2>3. InSound(rest, unread, all, sent, n, dropped, "decode", task)
      BY <1>8, <2>2, Zenon DEF InSound
    <2> QED
      <3>1. Takes(next, rest, buf, unread, all, sent, n, dropped, task)
        BY <1>10, <1>11, <2>1, <2>3, Zenon DEF Takes
      <3> QED
        BY <1>0, <3>1, Zenon
  <1>17. CASE IsDatagram(cap)
    <2>1. FoundIn(next) = <<<<j + 1>>>>
      BY <1>11, <1>17, Zenon
    <2>2. <<<<j + 1>>>> # <<>> /\ <<<<j + 1>>>>[1] = <<j + 1>> /\ <<j + 1>> \in Seq(Nat)
      OBVIOUS
    <2>3. /\ ReadTo(caps, bytes, c, d, j + 1, rest, unread, Append(all, <<j + 1>>), sent, n, dropped, "decode", task)
          /\ ReadTo(caps, bytes, c, d, j + 1, rest, unread, all, sent, n, dropped + 1, "decode", task)
      BY <1>4, <1>13, <1>14, <1>15, <1>17, Zenon DEF ReadTo
    <2>4. /\ InSound(rest, unread, Append(all, <<j + 1>>), sent, n, dropped, "decode", task)
          /\ InSound(rest, unread, all, sent, n, dropped + 1, "decode", task)
      BY <1>8, <2>3, Zenon DEF InSound
    <2> QED
      <3>1. Takes(next, rest, buf, unread, all, sent, n, dropped, task)
        BY <1>10, <1>11, <2>1, <2>2, <2>4, Zenon DEF Takes
      <3> QED
        BY <1>0, <3>1, Zenon
  <1> QED
    BY <1>16, <1>17, Zenon

\* What the two pumps keep, and that before the proxy has answered they are not there.
InState ==
    [at : {"none", "chunk", "decode", "gone"}, wire : Seq(Bytes), buf : Seq(Bytes), queue : Seq(Seq(Nat)),
     got : Seq(Seq(Nat)), sent : Seq(Seq(Nat)), written : Nat, dropped : Nat]

OutState ==
    [at : {"none", "pump", "gone"}, queue : Seq(Sendable), stream : Seq(Nat), sent : Nat, dropped : Nat,
     kept : Seq(Sendable)]

InOK(b, task) ==
    /\ b \in InState
    /\ Len(b.queue) <= PumpCapacity /\ b.written <= Capsules
    /\ InSound(b.buf, b.wire, b.got \o b.queue, b.sent, b.written, b.dropped, b.at, task)

OutOK(o, task) ==
    /\ o \in OutState
    /\ Len(o.queue) <= PumpCapacity /\ o.sent <= Len(Outgoing)
    /\ o.at = "pump" /\ task => OutSound(o.queue, o.stream, o.kept, o.dropped, o.sent)

TunnelOK(t) == t \in [at : DialSteps, polls : 0 .. PollAttempts, task : BOOLEAN, enabled : BOOLEAN]

Unanswered(t, b, o) == t.at \in {"tcp", "tls", "http", "settings", "request"} => b = Idle /\ o = Quiet

MasqueInv ==
    /\ TunnelOK(tunnel)
    /\ InOK(inbound, tunnel.task)
    /\ OutOK(outbound, tunnel.task)
    /\ Unanswered(tunnel, inbound, outbound)

\* Bytes are numbers.
LEMMA BytesAreNumbers ==
    ASSUME NEW s \in Seq(Bytes)
    PROVE  s \in Seq(Nat)
  <1>1. \A i \in 1 .. Len(s) : s[i] \in Nat
    <2>1. \A i \in 1 .. Len(s) : s[i] \in Bytes
      BY ElementOfSeq
    <2>2. \A x \in Bytes : x \in Nat
      BY DEF Bytes
    <2> QED
      BY <2>1, <2>2, Zenon
  <1> QED
    BY <1>1

\* The fields of the pump towards quinn.
LEMMA InFields ==
    ASSUME NEW b \in InState
    PROVE  /\ b.at \in {"none", "chunk", "decode", "gone"} /\ b.wire \in Seq(Bytes) /\ b.buf \in Seq(Bytes)
           /\ b.queue \in Seq(Seq(Nat)) /\ b.got \in Seq(Seq(Nat)) /\ b.sent \in Seq(Seq(Nat))
           /\ b.written \in Nat /\ b.dropped \in Nat
           /\ b.wire \in Seq(Nat) /\ b.buf \in Seq(Nat) /\ b.got \o b.queue \in Seq(Seq(Nat))
  <1>1. /\ b.at \in {"none", "chunk", "decode", "gone"} /\ b.wire \in Seq(Bytes) /\ b.buf \in Seq(Bytes)
        /\ b.queue \in Seq(Seq(Nat)) /\ b.got \in Seq(Seq(Nat)) /\ b.sent \in Seq(Seq(Nat))
        /\ b.written \in Nat /\ b.dropped \in Nat
    BY Zenon DEF InState
  <1>2. b.wire \in Seq(Nat) /\ b.buf \in Seq(Nat)
    BY <1>1, BytesAreNumbers
  <1>3. b.got \o b.queue \in Seq(Seq(Nat))
    <2>1. PICK g \in Seq(Seq(Nat)), q \in Seq(Seq(Nat)) : g = b.got /\ q = b.queue
      BY <1>1, Zenon
    <2>2. g \o q \in Seq(Seq(Nat))
      BY JoinOf
    <2> QED
      BY <2>1, <2>2, Zenon
  <1> QED
    BY <1>1, <1>2, <1>3, Zenon

\* A pump that has not started is in order whatever becomes of the connection, and so is one that starts.
LEMMA IdleOK ==
    ASSUME NEW a \in {"none", "chunk", "decode", "gone"}, NEW task
    PROVE  InOK([Idle EXCEPT !.at = a], task) /\ InOK(Idle, task)
  <1>1. ASSUME NEW x \in {"none", "chunk", "decode", "gone"} PROVE InOK([Idle EXCEPT !.at = x], task)
    <2>1. PICK b : b = [Idle EXCEPT !.at = x]
      OBVIOUS
    <2>2. /\ b.at = x /\ b.wire = <<>> /\ b.buf = <<>> /\ b.queue = <<>> /\ b.got = <<>> /\ b.sent = <<>>
          /\ b.written = 0 /\ b.dropped = 0 /\ b \in InState
      <3>1. <<>> \in Seq(Bytes) /\ <<>> \in Seq(Seq(Nat)) /\ 0 \in Nat
        OBVIOUS
      <3>2. /\ b.at = x /\ b.wire = <<>> /\ b.buf = <<>> /\ b.queue = <<>> /\ b.got = <<>> /\ b.sent = <<>>
            /\ b.written = 0 /\ b.dropped = 0
        BY <2>1 DEF Idle
      <3>3. b = [at |-> x, wire |-> <<>>, buf |-> <<>>, queue |-> <<>>, got |-> <<>>, sent |-> <<>>,
                 written |-> 0, dropped |-> 0]
        BY <2>1 DEF Idle
      <3>4. b \in InState
        BY <3>1, <3>3, Zenon DEF InState
      <3> QED
        BY <3>2, <3>4, Zenon
    <2>3. <<>> \o <<>> = <<>> /\ Len(<<>>) = 0
      OBVIOUS
    <2>4. 0 <= PumpCapacity /\ 0 <= Capsules
      BY MasqueAssumption
    <2>5. InSound(<<>>, <<>>, <<>>, <<>>, 0, 0, x, task)
      BY InStarts
    <2>6. InOK(b, task)
      BY <2>2, <2>3, <2>4, <2>5, Zenon DEF InOK
    <2> QED
      BY <2>1, <2>6, Zenon
  <1>2. Idle = [Idle EXCEPT !.at = "none"]
    BY DEF Idle
  <1>3. InOK([Idle EXCEPT !.at = "none"], task)
    BY <1>1
  <1> QED
    BY <1>1, <1>2, <1>3, Zenon

\* The same of the other pump.
LEMMA QuietOK ==
    ASSUME NEW task
    PROVE  OutOK(Quiet, task) /\ OutOK([Quiet EXCEPT !.at = "pump"], task)
  <1>1. ASSUME NEW x \in {"none", "pump"} PROVE OutOK([Quiet EXCEPT !.at = x], task)
    <2>1. PICK o : o = [Quiet EXCEPT !.at = x]
      OBVIOUS
    <2>2. /\ o.at = x /\ o.queue = <<>> /\ o.stream = <<>> /\ o.kept = <<>> /\ o.dropped = 0 /\ o.sent = 0
          /\ o \in OutState
      <3>1. <<>> \in Seq(Sendable) /\ <<>> \in Seq(Nat) /\ 0 \in Nat /\ x \in {"none", "pump", "gone"}
        OBVIOUS
      <3>2. /\ o.at = x /\ o.queue = <<>> /\ o.stream = <<>> /\ o.kept = <<>> /\ o.dropped = 0 /\ o.sent = 0
        BY <2>1 DEF Quiet
      <3>3. o = [at |-> x, queue |-> <<>>, stream |-> <<>>, sent |-> 0, dropped |-> 0, kept |-> <<>>]
        BY <2>1 DEF Quiet
      <3>4. o \in OutState
        BY <3>1, <3>3, Zenon DEF OutState
      <3> QED
        BY <3>2, <3>4, Zenon
    <2>3. Len(<<>>) = 0
      OBVIOUS
    <2>4. 0 <= PumpCapacity /\ 0 <= Len(Outgoing)
      BY MasqueAssumption
    <2>5. OutOK(o, task)
      BY <2>2, <2>3, <2>4, OutStarts, Zenon DEF OutOK
    <2> QED
      BY <2>1, <2>5, Zenon
  <1>2. Quiet = [Quiet EXCEPT !.at = "none"]
    BY DEF Quiet
  <1>3. OutOK([Quiet EXCEPT !.at = "none"], task) /\ OutOK([Quiet EXCEPT !.at = "pump"], task)
    BY <1>1
  <1> QED
    BY <1>2, <1>3, Zenon

\* The pump towards quinn ends, or its connection does.
LEMMA InOKEnds ==
    ASSUME NEW b, NEW task, InOK(b, task), NEW a \in {"none", "chunk", "decode", "gone"}, a = b.at \/ a # "chunk"
    PROVE  /\ InOK([b EXCEPT !.at = a], task) /\ InOK([b EXCEPT !.at = a], FALSE)
           /\ InOK([b EXCEPT !.wire = <<>>], FALSE) /\ InOK(b, FALSE)
  <1>1. b \in InState
    BY Zenon DEF InOK
  <1>2. /\ b.wire \in Seq(Nat) /\ b.buf \in Seq(Nat) /\ b.written \in Nat
    BY <1>1, InFields, Zenon
  <1>3. InSound(b.buf, b.wire, b.got \o b.queue, b.sent, b.written, b.dropped, b.at, task)
    BY Zenon DEF InOK
  <1>4. /\ InSound(b.buf, b.wire, b.got \o b.queue, b.sent, b.written, b.dropped, a, task)
        /\ InSound(b.buf, b.wire, b.got \o b.queue, b.sent, b.written, b.dropped, a, FALSE)
    BY <1>2, <1>3, InEnds, Zenon
  <1>5. /\ InSound(b.buf, b.wire, b.got \o b.queue, b.sent, b.written, b.dropped, b.at, FALSE)
        /\ InSound(b.buf, <<>>, b.got \o b.queue, b.sent, b.written, b.dropped, b.at, FALSE)
    BY <1>2, <1>3, InEnds, Zenon
  <1>6. PICK e, f : e = [b EXCEPT !.at = a] /\ f = [b EXCEPT !.wire = <<>>]
    OBVIOUS
  <1>7. /\ e \in InState /\ e.at = a /\ e.wire = b.wire /\ e.buf = b.buf /\ e.queue = b.queue /\ e.got = b.got
        /\ e.sent = b.sent /\ e.written = b.written /\ e.dropped = b.dropped
    BY <1>1, <1>6 DEF InState
  <1>8. /\ f \in InState /\ f.at = b.at /\ f.wire = <<>> /\ f.buf = b.buf /\ f.queue = b.queue /\ f.got = b.got
        /\ f.sent = b.sent /\ f.written = b.written /\ f.dropped = b.dropped
    <2>0. <<>> \in Seq(Bytes)
      OBVIOUS
    <2>1. PICK w \in Seq(Bytes) : w = <<>>
      BY <2>0, Zenon
    <2>2. /\ [b EXCEPT !.wire = w] \in InState /\ [b EXCEPT !.wire = w].wire = w
          /\ \A r : r = [b EXCEPT !.wire = w] =>
               /\ r.at = b.at /\ r.buf = b.buf /\ r.queue = b.queue /\ r.got = b.got
               /\ r.sent = b.sent /\ r.written = b.written /\ r.dropped = b.dropped
      BY <1>1 DEF InState
    <2> QED
      BY <1>6, <2>1, <2>2, Zenon
  <1>9. Len(b.queue) <= PumpCapacity /\ b.written <= Capsules
    BY Zenon DEF InOK
  <1>10. InOK(e, task) /\ InOK(e, FALSE)
    BY <1>4, <1>7, <1>9, Zenon DEF InOK
  <1>11. InOK(f, FALSE) /\ InOK(b, FALSE)
    BY <1>1, <1>5, <1>8, <1>9, Zenon DEF InOK
  <1> QED
    BY <1>6, <1>10, <1>11, Zenon

\* The same of the other pump.
LEMMA OutOKEnds ==
    ASSUME NEW o, NEW task, OutOK(o, task), NEW a \in {"none", "gone"}
    PROVE  OutOK([o EXCEPT !.at = a], task) /\ OutOK([o EXCEPT !.at = a], FALSE) /\ OutOK(o, FALSE)
  <1>1. o \in OutState
    BY Zenon DEF OutOK
  <1>2. PICK e : e = [o EXCEPT !.at = a]
    OBVIOUS
  <1>3. e \in OutState /\ e.at = a /\ a # "pump" /\ e.queue = o.queue /\ e.sent = o.sent
    BY <1>1, <1>2 DEF OutState
  <1>4. OutOK(e, task) /\ OutOK(e, FALSE) /\ OutOK(o, FALSE)
    BY <1>1, <1>3, Zenon DEF OutOK
  <1> QED
    BY <1>2, <1>4, Zenon

\* An attempt that fails.
LEMMA FailsSound ==
    ASSUME MasqueInv, Fails
    PROVE  MasqueInv'
  <1>1. PICK a, o : /\ a = (IF inbound.at = "none" THEN inbound.at ELSE "gone")
                    /\ o = (IF outbound.at = "none" THEN outbound.at ELSE "gone")
    OBVIOUS
  <1>2. inbound' = [inbound EXCEPT !.at = a] /\ outbound' = [outbound EXCEPT !.at = o]
    BY <1>1, Zenon DEF Fails
  <1>3. a \in {"none", "chunk", "decode", "gone"} /\ o \in {"none", "gone"} /\ a # "chunk"
    BY <1>1
  <1>4. TunnelOK(tunnel') /\ tunnel'.task = FALSE /\ tunnel'.at = "failed"
    BY DEF MasqueInv, TunnelOK, Fails, DialSteps
  <1>5. InOK(inbound', FALSE)
    BY <1>2, <1>3, InOKEnds, Zenon DEF MasqueInv
  <1>6. OutOK(outbound', FALSE)
    BY <1>2, <1>3, OutOKEnds, Zenon DEF MasqueInv
  <1>7. Unanswered(tunnel', inbound', outbound')
    BY <1>4 DEF Unanswered
  <1> QED
    BY <1>4, <1>5, <1>6, <1>7, Zenon DEF MasqueInv

\* The steps of the dial.
LEMMA DialSound ==
    ASSUME MasqueInv, Reaches \/ ProxyEnables \/ PollsSetting \/ ProxyResponds \/ ProxyRefuses \/ QuicConnects \/ DialFails
    PROVE  MasqueInv'
  <1>1. /\ tunnel \in [at : DialSteps, polls : 0 .. PollAttempts, task : BOOLEAN, enabled : BOOLEAN]
        /\ InOK(inbound, tunnel.task) /\ OutOK(outbound, tunnel.task)
        /\ tunnel.at \in {"tcp", "tls", "http", "settings", "request"} => inbound = Idle /\ outbound = Quiet
    BY Zenon DEF MasqueInv, TunnelOK, Unanswered
  <1>2. \A task : InOK(Idle, task) /\ OutOK(Quiet, task)
    <2>1. "none" \in {"none", "chunk", "decode", "gone"}
      OBVIOUS
    <2> QED
      BY <2>1, IdleOK, QuietOK, Zenon
  <1>3. ASSUME tunnel.at \in {"tcp", "tls", "http", "settings", "request"}, TunnelOK(tunnel'),
               UNCHANGED <<inbound, outbound>>
        PROVE  MasqueInv'
    <2>1. inbound' = Idle /\ outbound' = Quiet
      BY <1>1, <1>3, Zenon
    <2> QED
      BY <1>2, <1>3, <2>1, Zenon DEF MasqueInv, Unanswered
  <1>4. CASE Reaches
    <2>1. tunnel.at \in {"tcp", "tls", "http", "settings", "request"} /\ UNCHANGED <<inbound, outbound>>
      BY <1>4 DEF Reaches
    <2>2. TunnelOK(tunnel')
      BY <1>1, <1>4 DEF Reaches, TunnelOK, DialSteps
    <2> QED
      BY <1>3, <2>1, <2>2, Zenon
  <1>5. CASE ProxyEnables
    <2>1. tunnel.at \in {"tcp", "tls", "http", "settings", "request"} /\ UNCHANGED <<inbound, outbound>>
      BY <1>5 DEF ProxyEnables
    <2>2. TunnelOK(tunnel')
      BY <1>1, <1>5 DEF ProxyEnables, TunnelOK
    <2> QED
      BY <1>3, <2>1, <2>2, Zenon
  <1>6. CASE PollsSetting
    <2>1. tunnel.at \in {"tcp", "tls", "http", "settings", "request"}
      BY <1>6 DEF PollsSetting
    <2>2. CASE Fails
      BY <2>2, FailsSound, Zenon
    <2>4. CASE tunnel.enabled
      <3>1. tunnel' = [tunnel EXCEPT !.at = "request"] /\ UNCHANGED <<inbound, outbound>>
        BY <1>6, <2>4, Zenon DEF PollsSetting
      <3>2. TunnelOK(tunnel')
        BY <1>1, <3>1 DEF TunnelOK, DialSteps
      <3> QED
        BY <1>3, <2>1, <3>1, <3>2, Zenon
    <2>5. CASE ~tunnel.enabled /\ tunnel.polls < PollAttempts
      <3>1. tunnel' = [tunnel EXCEPT !.polls = @ + 1] /\ UNCHANGED <<inbound, outbound>>
        BY <1>6, <2>5, Zenon DEF PollsSetting
      <3>2. TunnelOK(tunnel')
        BY <1>1, <2>5, <3>1, MasqueAssumption DEF TunnelOK
      <3> QED
        BY <1>3, <2>1, <3>1, <3>2, Zenon
    <2>6. CASE ~tunnel.enabled /\ ~(tunnel.polls < PollAttempts)
      <3>1. Fails
        BY <1>6, <2>6, Zenon DEF PollsSetting
      <3> QED
        BY <2>2, <3>1, Zenon
    <2> QED
      BY <2>4, <2>5, <2>6, Zenon
  <1>7. CASE ProxyResponds
    <2>1. /\ inbound' = [Idle EXCEPT !.at = "chunk"] /\ outbound' = [Quiet EXCEPT !.at = "pump"]
      BY <1>1, <1>7 DEF ProxyResponds
    <2>2. TunnelOK(tunnel') /\ tunnel'.at = "quic"
      BY <1>1, <1>7 DEF ProxyResponds, TunnelOK, DialSteps
    <2>3. "chunk" \in {"none", "chunk", "decode", "gone"}
      OBVIOUS
    <2>4. InOK(inbound', tunnel'.task) /\ OutOK(outbound', tunnel'.task)
      BY <2>1, <2>3, IdleOK, QuietOK, Zenon
    <2>5. Unanswered(tunnel', inbound', outbound')
      BY <2>2 DEF Unanswered
    <2> QED
      BY <2>2, <2>4, <2>5, Zenon DEF MasqueInv
  <1>8. CASE ProxyRefuses
    BY <1>8, FailsSound, Zenon DEF ProxyRefuses
  <1>9. CASE QuicConnects
    <2>1. TunnelOK(tunnel') /\ tunnel'.at = "up" /\ tunnel'.task = tunnel.task
      BY <1>1, <1>9 DEF QuicConnects, TunnelOK, DialSteps
    <2>2. inbound' = inbound /\ outbound' = outbound
      BY <1>9, Zenon DEF QuicConnects
    <2>3. Unanswered(tunnel', inbound', outbound')
      BY <2>1 DEF Unanswered
    <2> QED
      BY <1>1, <2>1, <2>2, <2>3, Zenon DEF MasqueInv
  <1>10. CASE DialFails
    BY <1>10, FailsSound, Zenon DEF DialFails
  <1> QED
    BY <1>4, <1>5, <1>6, <1>7, <1>8, <1>9, <1>10, Zenon

\* The tunnel ends.
LEMMA TunnelEndsSound ==
    ASSUME MasqueInv, SocketDropped \/ ConnectionBreaks \/ ReadEnds \/ RecvFails
    PROVE  MasqueInv'
  <1>1. /\ tunnel \in [at : DialSteps, polls : 0 .. PollAttempts, task : BOOLEAN, enabled : BOOLEAN]
        /\ InOK(inbound, tunnel.task) /\ OutOK(outbound, tunnel.task)
        /\ tunnel.at \in {"tcp", "tls", "http", "settings", "request"} => inbound = Idle /\ outbound = Quiet
    BY Zenon DEF MasqueInv, TunnelOK, Unanswered
  <1>2. "gone" \in {"none", "chunk", "decode", "gone"} /\ "gone" # "chunk" /\ "gone" \in {"none", "gone"}
    OBVIOUS
  <1>3. CASE SocketDropped
    <2>1. TunnelOK(tunnel') /\ tunnel'.task = FALSE /\ tunnel'.at = "closed"
      BY <1>1, <1>3 DEF SocketDropped, TunnelOK, DialSteps
    <2>2. InOK(inbound', FALSE)
      BY <1>1, <1>2, <1>3, InOKEnds, Zenon DEF SocketDropped
    <2>3. OutOK(outbound', FALSE)
      BY <1>1, <1>2, <1>3, OutOKEnds, Zenon DEF SocketDropped
    <2>4. Unanswered(tunnel', inbound', outbound')
      BY <2>1 DEF Unanswered
    <2> QED
      BY <2>1, <2>2, <2>3, <2>4, Zenon DEF MasqueInv
  <1>4. CASE ConnectionBreaks
    <2>1. TunnelOK(tunnel') /\ tunnel'.task = FALSE /\ tunnel'.at \in {"quic", "up"}
      BY <1>1, <1>4 DEF ConnectionBreaks, TunnelOK
    <2>2. InOK(inbound', FALSE)
      BY <1>1, <1>2, <1>4, InOKEnds, Zenon DEF ConnectionBreaks
    <2>3. OutOK(outbound', FALSE)
      BY <1>1, <1>2, <1>4, OutOKEnds, Zenon DEF ConnectionBreaks
    <2>4. Unanswered(tunnel', inbound', outbound')
      BY <2>1 DEF Unanswered
    <2> QED
      BY <2>1, <2>2, <2>3, <2>4, Zenon DEF MasqueInv
  <1>5. CASE ReadEnds
    <2>1. inbound.at = "chunk" /\ inbound' = [inbound EXCEPT !.at = "gone"] /\ tunnel' = tunnel /\ outbound' = outbound
      BY <1>5, Zenon DEF ReadEnds
    <2>2. InOK(inbound', tunnel.task)
      BY <1>1, <1>2, <2>1, InOKEnds, Zenon
    <2>3. tunnel.at \notin {"tcp", "tls", "http", "settings", "request"}
      BY <1>1, <2>1 DEF Idle
    <2>4. Unanswered(tunnel', inbound', outbound')
      BY <2>1, <2>3, Zenon DEF Unanswered
    <2> QED
      BY <1>1, <2>1, <2>2, <2>4, Zenon DEF MasqueInv, TunnelOK
  <1>6. CASE RecvFails
    <2>1. CASE Fails
      BY <2>1, FailsSound, Zenon
    <2>2. CASE /\ tunnel' = [tunnel EXCEPT !.at = "closed", !.task = FALSE]
               /\ outbound' = [outbound EXCEPT !.at = "gone"] /\ inbound' = inbound
      <3>1. TunnelOK(tunnel') /\ tunnel'.task = FALSE /\ tunnel'.at = "closed"
        BY <1>1, <2>2 DEF TunnelOK, DialSteps
      <3>2. InOK(inbound', FALSE)
        BY <1>1, <1>2, <2>2, InOKEnds, Zenon
      <3>3. OutOK(outbound', FALSE)
        BY <1>1, <1>2, <2>2, OutOKEnds, Zenon
      <3>4. Unanswered(tunnel', inbound', outbound')
        BY <3>1 DEF Unanswered
      <3> QED
        BY <3>1, <3>2, <3>3, <3>4, Zenon DEF MasqueInv
    <2> QED
      BY <1>6, <2>1, <2>2, Zenon DEF RecvFails
  <1> QED
    BY <1>3, <1>4, <1>5, <1>6, Zenon

\* What moves from the queue to quinn stays where it was among all that came through.
LEMMA TakenOver ==
    ASSUME NEW S, NEW g \in Seq(S), NEW q \in Seq(S), q # <<>>
    PROVE  /\ Append(g, Head(q)) \in Seq(S) /\ Tail(q) \in Seq(S) /\ Len(Tail(q)) <= Len(q)
           /\ Append(g, Head(q)) \o Tail(q) = g \o q
  <1>1. Head(q) \in S /\ Head(q) = q[1] /\ Tail(q) \in Seq(S) /\ Len(Tail(q)) = Len(q) - 1
    BY HeadTailProperties
  <1>2. PICK h \in S, t \in Seq(S) : h = Head(q) /\ h = q[1] /\ t = Tail(q)
    BY <1>1, Zenon
  <1>3. PICK m \in Nat, n \in Nat : m = Len(g) /\ n = Len(q) /\ n > 0 /\ Len(t) = n - 1
    <2>1. Len(g) \in Nat /\ Len(q) \in Nat /\ Len(q) # 0
      BY LenProperties, EmptySeq
    <2>2. Len(q) > 0
      BY <2>1
    <2> QED
      BY <1>1, <1>2, <2>1, <2>2, Zenon
  <1>4. \A i \in 1 .. n - 1 : t[i] = q[i + 1]
    <2>1. \A i \in 1 .. Len(Tail(q)) : Tail(q)[i] = q[i + 1]
      BY HeadTailProperties
    <2> QED
      BY <1>2, <1>3, <2>1, Zenon
  <1>5. PICK a \in Seq(S) : a = Append(g, h) /\ Len(a) = m + 1 /\ a[m + 1] = h /\ \A i \in 1 .. m : a[i] = g[i]
    <2>1. /\ Append(g, h) \in Seq(S) /\ Len(Append(g, h)) = Len(g) + 1 /\ Append(g, h)[Len(g) + 1] = h
          /\ \A i \in 1 .. Len(g) : Append(g, h)[i] = g[i]
      BY AppendProperties
    <2> QED
      BY <1>3, <2>1, Zenon
  <1>6. PICK l \in Seq(S) : /\ l = a \o t /\ Len(l) = (m + 1) + (n - 1) /\ \A i \in 1 .. m + 1 : l[i] = a[i]
                            /\ \A i \in 1 .. n - 1 : l[(m + 1) + i] = t[i]
    <2>1. PICK l \in Seq(S) : l = a \o t
      BY JoinOf
    <2>2. /\ Len(l) = Len(a) + Len(t)
          /\ \A i \in 1 .. Len(a) : l[i] = a[i]
          /\ \A i \in 1 .. Len(t) : l[Len(a) + i] = t[i]
      BY <2>1, JoinOf
    <2>3. Len(a) = m + 1 /\ Len(t) = n - 1
      BY <1>3, <1>5, Zenon
    <2>4. /\ Len(l) = (m + 1) + (n - 1) /\ \A i \in 1 .. m + 1 : l[i] = a[i]
          /\ \A i \in 1 .. n - 1 : l[(m + 1) + i] = t[i]
      BY <2>2, <2>3, Zenon
    <2> QED
      BY <2>1, <2>4, Zenon
  <1>7. PICK r \in Seq(S) : /\ r = g \o q /\ Len(r) = m + n /\ \A i \in 1 .. m : r[i] = g[i]
                            /\ \A i \in 1 .. n : r[m + i] = q[i]
    <2>1. /\ g \o q \in Seq(S) /\ Len(g \o q) = Len(g) + Len(q)
          /\ \A i \in 1 .. Len(g) : (g \o q)[i] = g[i]
          /\ \A i \in 1 .. Len(q) : (g \o q)[Len(g) + i] = q[i]
      BY JoinOf
    <2> QED
      BY <1>3, <2>1, Zenon
  <1>8. ASSUME NEW i \in 1 .. m + n PROVE l[i] = r[i]
    <2>1. CASE i <= m
      <3>1. i \in 1 .. m /\ i \in 1 .. m + 1
        BY <1>3, <2>1
      <3> QED
        BY <1>5, <1>6, <1>7, <3>1, Zenon
    <2>2. CASE i = m + 1
      <3>1. i \in 1 .. m + 1 /\ 1 \in 1 .. n
        BY <1>3, <2>2
      <3> QED
        BY <1>2, <1>5, <1>6, <1>7, <2>2, <3>1, Zenon
    <2>3. CASE i > m + 1
      <3>1. PICK k \in 1 .. n - 1 : i = (m + 1) + k
        <4>1. i - (m + 1) \in 1 .. n - 1 /\ i = (m + 1) + (i - (m + 1))
          BY <1>3, <2>3
        <4> QED
          BY <4>1
      <3>2. k + 1 \in 1 .. n /\ i = m + (k + 1)
        BY <1>3, <3>1
      <3>3. l[i] = q[k + 1] /\ r[i] = q[k + 1]
        BY <1>4, <1>6, <1>7, <3>1, <3>2, ZenonT(40)
      <3> QED
        BY <3>3, Zenon
    <2>4. i <= m \/ i = m + 1 \/ i > m + 1
      OBVIOUS
    <2> QED
      BY <2>1, <2>2, <2>3, <2>4, Zenon
  <1>9. Len(l) = m + n /\ Len(r) = m + n
    BY <1>3, <1>6, <1>7
  <1>10. l = r
    BY <1>8, <1>9, SeqEqual
  <1>11. Len(t) <= n
    BY <1>3
  <1> QED
    BY <1>2, <1>3, <1>5, <1>6, <1>7, <1>10, <1>11, Zenon

\* What is queued comes last among all that came through.
LEMMA QueuedLast ==
    ASSUME NEW S, NEW g \in Seq(S), NEW q \in Seq(S), NEW v \in S
    PROVE  /\ Append(q, v) \in Seq(S) /\ Len(Append(q, v)) = Len(q) + 1
           /\ g \o Append(q, v) = Append(g \o q, v)
  <1>1. PICK m \in Nat, n \in Nat : m = Len(g) /\ n = Len(q)
    BY LenProperties
  <1>2. PICK a \in Seq(S) : a = Append(q, v) /\ Len(a) = n + 1 /\ a[n + 1] = v /\ \A i \in 1 .. n : a[i] = q[i]
    <2>1. /\ Append(q, v) \in Seq(S) /\ Len(Append(q, v)) = Len(q) + 1 /\ Append(q, v)[Len(q) + 1] = v
          /\ \A i \in 1 .. Len(q) : Append(q, v)[i] = q[i]
      BY AppendProperties
    <2> QED
      BY <1>1, <2>1, Zenon
  <1>3. PICK l \in Seq(S) : /\ l = g \o a /\ Len(l) = m + (n + 1) /\ \A i \in 1 .. m : l[i] = g[i]
                            /\ \A i \in 1 .. n + 1 : l[m + i] = a[i]
    <2>1. PICK l \in Seq(S) : l = g \o a
      BY JoinOf
    <2>2. /\ Len(l) = Len(g) + Len(a)
          /\ \A i \in 1 .. Len(g) : l[i] = g[i]
          /\ \A i \in 1 .. Len(a) : l[Len(g) + i] = a[i]
      BY <2>1, JoinOf
    <2>3. Len(a) = n + 1 /\ Len(g) = m
      BY <1>1, <1>2, Zenon
    <2>4. /\ Len(l) = m + (n + 1) /\ \A i \in 1 .. m : l[i] = g[i]
          /\ \A i \in 1 .. n + 1 : l[m + i] = a[i]
      BY <2>2, <2>3, Zenon
    <2> QED
      BY <2>1, <2>4, Zenon
  <1>4. PICK r \in Seq(S) : /\ r = g \o q /\ Len(r) = m + n /\ \A i \in 1 .. m : r[i] = g[i]
                            /\ \A i \in 1 .. n : r[m + i] = q[i]
    <2>1. /\ g \o q \in Seq(S) /\ Len(g \o q) = Len(g) + Len(q)
          /\ \A i \in 1 .. Len(g) : (g \o q)[i] = g[i]
          /\ \A i \in 1 .. Len(q) : (g \o q)[Len(g) + i] = q[i]
      BY JoinOf
    <2> QED
      BY <1>1, <2>1, Zenon
  <1>5. PICK s \in Seq(S) : /\ s = Append(r, v) /\ Len(s) = (m + n) + 1 /\ s[(m + n) + 1] = v
                            /\ \A i \in 1 .. m + n : s[i] = r[i]
    <2>1. /\ Append(r, v) \in Seq(S) /\ Len(Append(r, v)) = Len(r) + 1 /\ Append(r, v)[Len(r) + 1] = v
          /\ \A i \in 1 .. Len(r) : Append(r, v)[i] = r[i]
      BY AppendProperties
    <2> QED
      BY <1>4, <2>1, ZenonT(40)
  <1>6. ASSUME NEW i \in 1 .. (m + n) + 1 PROVE l[i] = s[i]
    <2>1. CASE i <= m
      <3>1. i \in 1 .. m /\ i \in 1 .. m + n
        BY <2>1
      <3> QED
        BY <1>3, <1>4, <1>5, <3>1, Zenon
    <2>2. CASE i > m /\ i <= m + n
      <3>1. PICK k \in 1 .. n : i = m + k
        <4>1. i - m \in 1 .. n /\ i = m + (i - m)
          BY <2>2
        <4> QED
          BY <4>1
      <3>2. k \in 1 .. n + 1 /\ m + k \in 1 .. m + n
        OBVIOUS
      <3> QED
        BY <1>2, <1>3, <1>4, <1>5, <3>1, <3>2, ZenonT(40)
    <2>3. CASE i = (m + n) + 1
      <3>1. i = m + (n + 1) /\ n + 1 \in 1 .. n + 1
        BY <2>3
      <3>2. l[i] = a[n + 1]
        BY <1>3, <3>1, Zenon
      <3> QED
        BY <1>2, <1>5, <2>3, <3>2, Zenon
    <2>4. i <= m \/ (i > m /\ i <= m + n) \/ i = (m + n) + 1
      OBVIOUS
    <2> QED
      BY <2>1, <2>2, <2>3, <2>4, Zenon
  <1>7. Len(l) = (m + n) + 1 /\ Len(s) = (m + n) + 1
    BY <1>3, <1>5
  <1>8. l = s
    BY <1>6, <1>7, SeqEqual
  <1> QED
    BY <1>1, <1>2, <1>3, <1>4, <1>5, <1>8, Zenon

\* A step of the pump towards quinn, or of what feeds it and what it feeds, leaves the rest alone.
LEMMA InStepSound ==
    ASSUME MasqueInv, tunnel' = tunnel, outbound' = outbound, InOK(inbound', tunnel.task),
           tunnel.at \notin {"tcp", "tls", "http", "settings", "request"}
    PROVE  MasqueInv'
  <1>1. TunnelOK(tunnel) /\ OutOK(outbound, tunnel.task)
    BY Zenon DEF MasqueInv
  <1>2. Unanswered(tunnel', inbound', outbound')
    BY Zenon DEF Unanswered
  <1> QED
    BY <1>1, <1>2, Zenon DEF MasqueInv

\* Whoever has a pump has an answer.
LEMMA Answered ==
    ASSUME MasqueInv
    PROVE  /\ inbound.at # "none" => tunnel.at \notin {"tcp", "tls", "http", "settings", "request"}
           /\ outbound.at # "none" => tunnel.at \notin {"tcp", "tls", "http", "settings", "request"}
           /\ Tunnelled => tunnel.at \notin {"tcp", "tls", "http", "settings", "request"}
  <1>1. Idle.at = "none" /\ Quiet.at = "none"
    BY DEF Idle, Quiet
  <1>2. tunnel.at \in {"tcp", "tls", "http", "settings", "request"} => inbound = Idle /\ outbound = Quiet
    BY Zenon DEF MasqueInv, Unanswered
  <1>3. Tunnelled => tunnel.at \notin {"tcp", "tls", "http", "settings", "request"}
    BY DEF Tunnelled
  <1> QED
    BY <1>1, <1>2, <1>3, Zenon

\* The proxy writes a capsule.
LEMMA ProxyWritesSound ==
    ASSUME MasqueInv, ProxyWrites
    PROVE  MasqueInv'
  <1>1. PICK cap \in ProxyCapsules(inbound.written + 1) :
          inbound' = [inbound EXCEPT !.wire = @ \o cap, !.written = @ + 1,
                                     !.sent = IF IsDatagram(cap) THEN Append(@, <<inbound.written + 1>>) ELSE @]
    BY Zenon DEF ProxyWrites
  <1>2. inbound \in InState /\ Len(inbound.queue) <= PumpCapacity
    BY Zenon DEF MasqueInv, InOK
  <1>3. /\ inbound.wire \in Seq(Bytes) /\ inbound.wire \in Seq(Nat) /\ inbound.buf \in Seq(Nat)
        /\ inbound.got \o inbound.queue \in Seq(Seq(Nat)) /\ inbound.sent \in Seq(Seq(Nat))
        /\ inbound.written \in Nat /\ inbound.dropped \in Nat
    BY <1>2, InFields, Zenon
  <1>4. PICK n \in Nat : n = inbound.written /\ n + 1 \in Nat /\ n + 1 <= Capsules
    <2>1. inbound.written < Capsules
      BY Zenon DEF ProxyWrites
    <2>2. PICK x \in Nat : x = inbound.written /\ x < Capsules
      BY <1>3, <2>1, Zenon
    <2>3. x + 1 \in Nat /\ x + 1 <= Capsules
      BY <2>2, MasqueAssumption
    <2> QED
      BY <2>2, <2>3, Zenon
  <1>5. n + 1 <= 255
    BY <1>4, MasqueAssumption
  <1>6. cap \in ProxyCapsules(n + 1)
    BY <1>1, <1>4, Zenon
  <1>7. cap \in Seq(Bytes)
    BY <1>4, <1>5, <1>6, CapsuleBytes, Zenon
  <1>8. PICK w \in Seq(Bytes) : w = inbound.wire \o cap
    <2>1. PICK x \in Seq(Bytes), y \in Seq(Bytes) : x = inbound.wire /\ y = cap
      BY <1>3, <1>7, Zenon
    <2>2. x \o y \in Seq(Bytes)
      BY JoinOf
    <2> QED
      BY <2>1, <2>2, Zenon
  <1>9. PICK s \in Seq(Seq(Nat)) : s = IF IsDatagram(cap) THEN Append(inbound.sent, <<n + 1>>) ELSE inbound.sent
    <2>1. PICK x \in Seq(Seq(Nat)), v \in Seq(Nat) : x = inbound.sent /\ v = <<n + 1>>
      <3>1. <<n + 1>> \in Seq(Nat)
        OBVIOUS
      <3> QED
        BY <1>3, <3>1, Zenon
    <2>2. Append(x, v) \in Seq(Seq(Nat))
      BY AppendProperties
    <2> QED
      BY <2>1, <2>2, Zenon
  <1>10. tunnel.task = TRUE
    <2>1. tunnel.task /\ tunnel.task \in BOOLEAN
      BY DEF ProxyWrites, MasqueInv, TunnelOK
    <2> QED
      BY <2>1
  <1>11. InSound(inbound.buf, w, inbound.got \o inbound.queue, s, n + 1, inbound.dropped, inbound.at, tunnel.task)
    <2>1. InSound(inbound.buf, inbound.wire, inbound.got \o inbound.queue, inbound.sent, n, inbound.dropped,
                  inbound.at, tunnel.task)
      BY <1>4, Zenon DEF MasqueInv, InOK
    <2>2. InSound(inbound.buf, inbound.wire \o cap, inbound.got \o inbound.queue,
                  IF IsDatagram(cap) THEN Append(inbound.sent, <<n + 1>>) ELSE inbound.sent,
                  n + 1, inbound.dropped, inbound.at, tunnel.task)
      BY <1>3, <1>6, <1>10, <2>1, InWrites, Zenon
    <2> QED
      BY <1>8, <1>9, <2>2, Zenon
  <1>12. PICK b : b = [inbound EXCEPT !.wire = w, !.written = n + 1, !.sent = s]
    OBVIOUS
  <1>13. inbound' = b
    BY <1>1, <1>4, <1>8, <1>9, <1>12, Zenon
  <1>14. /\ b \in InState /\ b.at = inbound.at /\ b.wire = w /\ b.buf = inbound.buf /\ b.queue = inbound.queue
         /\ b.got = inbound.got /\ b.sent = s /\ b.written = n + 1 /\ b.dropped = inbound.dropped
    BY <1>2, <1>4, <1>12 DEF InState
  <1>15. InOK(inbound', tunnel.task)
    BY <1>2, <1>4, <1>11, <1>13, <1>14, Zenon DEF InOK
  <1>16. tunnel' = tunnel /\ outbound' = outbound /\ Tunnelled
    BY Zenon DEF ProxyWrites
  <1>17. tunnel.at \notin {"tcp", "tls", "http", "settings", "request"}
    BY <1>16, Answered, Zenon
  <1> QED
    BY <1>15, <1>16, <1>17, InStepSound, Zenon

\* The pump reads a chunk.
LEMMA ReadsChunkSound ==
    ASSUME MasqueInv, ReadsChunk
    PROVE  MasqueInv'
  <1>1. PICK m \in 1 .. Len(inbound.wire) :
          inbound' = [inbound EXCEPT !.at = "decode", !.buf = @ \o SubSeq(inbound.wire, 1, m),
                                     !.wire = SubSeq(@, m + 1, Len(@))]
    BY Zenon DEF ReadsChunk
  <1>2. inbound \in InState /\ Len(inbound.queue) <= PumpCapacity /\ inbound.written <= Capsules
    BY Zenon DEF MasqueInv, InOK
  <1>3. /\ inbound.wire \in Seq(Bytes) /\ inbound.wire \in Seq(Nat) /\ inbound.buf \in Seq(Nat) /\ inbound.buf \in Seq(Bytes)
        /\ inbound.written \in Nat
    BY <1>2, InFields, Zenon
  <1>4. PICK w \in Seq(Bytes), f \in Seq(Bytes) : w = inbound.wire /\ f = inbound.buf
    BY <1>3, Zenon
  <1>5. m \in 1 .. Len(w)
    BY <1>1, <1>4, Zenon
  <1>6. PICK a \in Seq(Bytes) : a = SubSeq(w, 1, m)
    <2>1. m \in Nat /\ m <= Len(w)
      BY <1>5, LenProperties
    <2>2. SubSeq(w, 1, m) \in Seq(Bytes)
      BY <2>1, FirstOf
    <2> QED
      BY <2>2, Zenon
  <1>7. PICK r \in Seq(Bytes) : r = SubSeq(w, m + 1, Len(w))
    <2>1. m \in Nat /\ m <= Len(w)
      BY <1>5, LenProperties
    <2>2. SubSeq(w, m + 1, Len(w)) \in Seq(Bytes)
      BY <2>1, RestOf
    <2> QED
      BY <2>2, Zenon
  <1>8. PICK g \in Seq(Bytes) : g = f \o a
    BY JoinOf
  <1>9. InSound(g, r, inbound.got \o inbound.queue, inbound.sent, inbound.written, inbound.dropped, "decode", tunnel.task)
    <2>1. InSound(f, w, inbound.got \o inbound.queue, inbound.sent, inbound.written, inbound.dropped, inbound.at, tunnel.task)
      BY <1>4, Zenon DEF MasqueInv, InOK
    <2>2. f \in Seq(Nat) /\ w \in Seq(Nat)
      BY <1>3, <1>4, Zenon
    <2>3. InSound(f \o SubSeq(w, 1, m), SubSeq(w, m + 1, Len(w)), inbound.got \o inbound.queue, inbound.sent,
                  inbound.written, inbound.dropped, "decode", tunnel.task)
      BY <1>3, <1>5, <2>1, <2>2, InReads, Zenon
    <2> QED
      BY <1>6, <1>7, <1>8, <2>3, Zenon
  <1>10. PICK b : b = [inbound EXCEPT !.at = "decode", !.buf = g, !.wire = r]
    OBVIOUS
  <1>11. inbound' = b
    BY <1>1, <1>4, <1>6, <1>7, <1>8, <1>10, Zenon
  <1>12. /\ b \in InState /\ b.at = "decode" /\ b.wire = r /\ b.buf = g /\ b.queue = inbound.queue
         /\ b.got = inbound.got /\ b.sent = inbound.sent /\ b.written = inbound.written /\ b.dropped = inbound.dropped
    BY <1>2, <1>10 DEF InState
  <1>13. InOK(inbound', tunnel.task)
    BY <1>2, <1>9, <1>11, <1>12, Zenon DEF InOK
  <1>14. tunnel' = tunnel /\ outbound' = outbound /\ inbound.at = "chunk"
    BY Zenon DEF ReadsChunk
  <1>15. tunnel.at \notin {"tcp", "tls", "http", "settings", "request"}
    <2>1. "chunk" # "none"
      OBVIOUS
    <2> QED
      BY <1>14, <2>1, Answered, Zenon
  <1> QED
    BY <1>13, <1>14, <1>15, InStepSound, Zenon

\* quinn takes a datagram.
LEMMA PollRecvSound ==
    ASSUME MasqueInv, PollRecv
    PROVE  MasqueInv'
  <1>1. inbound' = [inbound EXCEPT !.got = Append(@, Head(inbound.queue)), !.queue = Tail(@)] /\ inbound.queue # <<>>
    BY Zenon DEF PollRecv
  <1>2. inbound \in InState /\ Len(inbound.queue) <= PumpCapacity /\ inbound.written <= Capsules
    BY Zenon DEF MasqueInv, InOK
  <1>3. PICK g \in Seq(Seq(Nat)), q \in Seq(Seq(Nat)) : g = inbound.got /\ q = inbound.queue /\ q # <<>>
    BY <1>1, <1>2, InFields, Zenon
  <1>4. /\ Append(g, Head(q)) \in Seq(Seq(Nat)) /\ Tail(q) \in Seq(Seq(Nat)) /\ Len(Tail(q)) <= Len(q)
        /\ Append(g, Head(q)) \o Tail(q) = g \o q
    <2> DEFINE S == Seq(Nat)
    <2>1. g \in Seq(S) /\ q \in Seq(S) /\ q # <<>>
      BY <1>3, Zenon
    <2> HIDE DEF S
    <2>2. /\ Append(g, Head(q)) \in Seq(S) /\ Tail(q) \in Seq(S) /\ Len(Tail(q)) <= Len(q)
          /\ Append(g, Head(q)) \o Tail(q) = g \o q
      BY <2>1, TakenOver, ZenonT(40)
    <2> QED
      BY <2>2, Zenon DEF S
  <1>5. PICK a \in Seq(Seq(Nat)), t \in Seq(Seq(Nat)) :
          a = Append(g, Head(q)) /\ t = Tail(q) /\ Len(t) <= Len(q) /\ a \o t = g \o q
    BY <1>4, Zenon
  <1>6. Len(t) <= PumpCapacity
    <2>1. Len(t) \in Nat /\ Len(q) \in Nat /\ Len(q) <= PumpCapacity /\ PumpCapacity \in Nat
      BY <1>2, <1>3, MasqueAssumption, LenProperties
    <2> QED
      BY <1>5, <2>1
  <1>7. PICK b : b = [inbound EXCEPT !.got = a, !.queue = t]
    OBVIOUS
  <1>8. inbound' = b
    BY <1>1, <1>3, <1>5, <1>7, Zenon
  <1>9. /\ b \in InState /\ b.at = inbound.at /\ b.wire = inbound.wire /\ b.buf = inbound.buf /\ b.queue = t
        /\ b.got = a /\ b.sent = inbound.sent /\ b.written = inbound.written /\ b.dropped = inbound.dropped
    BY <1>2, <1>7 DEF InState
  <1>10. b.got \o b.queue = inbound.got \o inbound.queue
    BY <1>3, <1>5, <1>9, Zenon
  <1>11. InOK(inbound', tunnel.task)
    <2>1. InSound(inbound.buf, inbound.wire, inbound.got \o inbound.queue, inbound.sent, inbound.written,
                  inbound.dropped, inbound.at, tunnel.task)
      BY Zenon DEF MasqueInv, InOK
    <2> QED
      BY <1>2, <1>6, <1>8, <1>9, <1>10, <2>1, Zenon DEF InOK
  <1>12. tunnel' = tunnel /\ outbound' = outbound /\ Tunnelled
    BY Zenon DEF PollRecv
  <1> QED
    BY <1>11, <1>12, Answered, InStepSound, Zenon

\* A pump that offers a datagram queues it or counts it.
LEMMA Offered ==
    ASSUME NEW pump, NEW p
    PROVE  /\ Len(pump.queue) < PumpCapacity => OfferDatagram(pump, p) = [pump EXCEPT !.queue = Append(pump.queue, p)]
           /\ ~(Len(pump.queue) < PumpCapacity) => OfferDatagram(pump, p) = [pump EXCEPT !.dropped = pump.dropped + 1]
  BY Zenon DEF OfferDatagram

\* The pump looks at the front of its buffer.
LEMMA DecodesNextSound ==
    ASSUME MasqueInv, DecodesNext
    PROVE  MasqueInv'
  <1>1. inbound \in InState /\ Len(inbound.queue) <= PumpCapacity /\ inbound.written <= Capsules /\ InOK(inbound, tunnel.task)
    BY Zenon DEF MasqueInv, InOK
  <1>2. /\ inbound.wire \in Seq(Nat) /\ inbound.buf \in Seq(Nat) /\ inbound.buf \in Seq(Bytes)
        /\ inbound.written \in Nat /\ inbound.dropped \in Nat
        /\ inbound.got \in Seq(Seq(Nat)) /\ inbound.queue \in Seq(Seq(Nat)) /\ inbound.got \o inbound.queue \in Seq(Seq(Nat))
    BY <1>1, InFields, Zenon
  <1>3. InSound(inbound.buf, inbound.wire, inbound.got \o inbound.queue, inbound.sent, inbound.written,
                inbound.dropped, inbound.at, tunnel.task)
    BY <1>1, Zenon DEF InOK
  <1>4. tunnel' = tunnel /\ outbound' = outbound /\ inbound.at = "decode"
    BY Zenon DEF DecodesNext
  <1>5. tunnel.at \notin {"tcp", "tls", "http", "settings", "request"}
    <2>1. "decode" # "none"
      OBVIOUS
    <2> QED
      BY <1>4, <2>1, Answered, Zenon
  <1>6. PICK next, rest : /\ next = DecodeCapsule(inbound.buf)
                          /\ rest = SubSeq(inbound.buf, next.consumed + 1, Len(inbound.buf))
    OBVIOUS
  <1>7. inbound' = CASE next.result = "pending"   -> [inbound EXCEPT !.at = "chunk"]
                     [] next.result = "violation" -> [inbound EXCEPT !.at = "gone"]
                     [] next.result = "capsule" /\ FoundIn(next) = <<>> -> [inbound EXCEPT !.buf = rest]
                     [] next.result = "capsule" /\ FoundIn(next) # <<>> ->
                          OfferDatagram([inbound EXCEPT !.buf = rest], FoundIn(next)[1])
    BY <1>6, Zenon DEF DecodesNext, FoundIn
  <1>8. InOK(inbound', tunnel.task)
    <2>1. CASE next.result = "pending"
      <3>1. inbound' = [inbound EXCEPT !.at = "chunk"]
        BY <1>7, <2>1
      <3>2. InSound(inbound.buf, inbound.wire, inbound.got \o inbound.queue, inbound.sent, inbound.written,
                    inbound.dropped, "chunk", tunnel.task)
        BY <1>2, <1>3, <1>6, <2>1, InWaits, Zenon
      <3>3. PICK b : b = [inbound EXCEPT !.at = "chunk"]
        OBVIOUS
      <3>4. /\ b \in InState /\ b.at = "chunk" /\ b.wire = inbound.wire /\ b.buf = inbound.buf /\ b.queue = inbound.queue
            /\ b.got = inbound.got /\ b.sent = inbound.sent /\ b.written = inbound.written /\ b.dropped = inbound.dropped
        BY <1>1, <3>3 DEF InState
      <3>5. InOK(b, tunnel.task)
        BY <1>1, <3>2, <3>4, Zenon DEF InOK
      <3> QED
        BY <3>1, <3>3, <3>5, Zenon
    <2>2. CASE next.result = "violation"
      <3>1. inbound' = [inbound EXCEPT !.at = "gone"]
        BY <1>7, <2>2
      <3>2. "gone" \in {"none", "chunk", "decode", "gone"} /\ "gone" # "chunk"
        OBVIOUS
      <3> QED
        BY <1>1, <3>1, <3>2, InOKEnds, Zenon
    <2>3. CASE next.result = "capsule"
      <3>1. /\ next.consumed \in Nat /\ next.consumed <= Len(inbound.buf)
            /\ FoundIn(next) = <<>> => InSound(rest, inbound.wire, inbound.got \o inbound.queue, inbound.sent,
                                               inbound.written, inbound.dropped, "decode", tunnel.task)
            /\ FoundIn(next) # <<>> =>
                 /\ FoundIn(next)[1] \in Seq(Nat)
                 /\ InSound(rest, inbound.wire, Append(inbound.got \o inbound.queue, FoundIn(next)[1]), inbound.sent,
                            inbound.written, inbound.dropped, "decode", tunnel.task)
                 /\ InSound(rest, inbound.wire, inbound.got \o inbound.queue, inbound.sent,
                            inbound.written, inbound.dropped + 1, "decode", tunnel.task)
        <4>1. Takes(next, rest, inbound.buf, inbound.wire, inbound.got \o inbound.queue, inbound.sent, inbound.written,
                    inbound.dropped, tunnel.task)
          BY <1>2, <1>3, <1>6, <2>3, InTakes, Zenon
        <4> QED
          BY <4>1, Zenon DEF Takes
      <3>2. rest \in Seq(Bytes)
        <4>1. PICK f \in Seq(Bytes), x \in Nat : f = inbound.buf /\ x = next.consumed /\ x <= Len(f)
          BY <1>2, <3>1, Zenon
        <4>2. SubSeq(f, x + 1, Len(f)) \in Seq(Bytes)
          BY <4>1, RestOf
        <4> QED
          BY <1>6, <4>1, <4>2, Zenon
      <3>3. PICK b : b = [inbound EXCEPT !.buf = rest]
        OBVIOUS
      <3>4. /\ b \in InState /\ b.at = "decode" /\ b.wire = inbound.wire /\ b.buf = rest /\ b.queue = inbound.queue
            /\ b.got = inbound.got /\ b.sent = inbound.sent /\ b.written = inbound.written /\ b.dropped = inbound.dropped
        BY <1>1, <1>4, <3>2, <3>3 DEF InState
      <3>5. CASE FoundIn(next) = <<>>
        <4>1. inbound' = b
          <5>1. inbound' = [inbound EXCEPT !.buf = rest]
            BY <1>7, <2>3, <3>5
          <5> QED
            BY <3>3, <5>1, Zenon
        <4>2. InOK(b, tunnel.task)
          BY <1>1, <3>1, <3>4, <3>5, Zenon DEF InOK
        <4> QED
          BY <4>1, <4>2, Zenon
      <3>6. CASE FoundIn(next) # <<>>
        <4>1. PICK p \in Seq(Nat) : p = FoundIn(next)[1]
          BY <3>1, <3>6, Zenon
        <4>2. inbound' = OfferDatagram(b, p)
          <5>1. inbound' = OfferDatagram([inbound EXCEPT !.buf = rest], FoundIn(next)[1])
            BY <1>7, <2>3, <3>6
          <5> QED
            BY <3>3, <4>1, <5>1, Zenon
        <4>3. /\ InSound(rest, inbound.wire, Append(inbound.got \o inbound.queue, p), inbound.sent,
                         inbound.written, inbound.dropped, "decode", tunnel.task)
              /\ InSound(rest, inbound.wire, inbound.got \o inbound.queue, inbound.sent,
                         inbound.written, inbound.dropped + 1, "decode", tunnel.task)
          BY <3>1, <3>6, <4>1, Zenon
        <4>4. CASE Len(b.queue) < PumpCapacity
          <5>1. PICK g \in Seq(Seq(Nat)), q \in Seq(Seq(Nat)) : g = inbound.got /\ q = inbound.queue
            BY <1>2, Zenon
          <5>2. /\ Append(q, p) \in Seq(Seq(Nat)) /\ Len(Append(q, p)) = Len(q) + 1
                /\ g \o Append(q, p) = Append(g \o q, p)
            BY QueuedLast
          <5>3. PICK r \in Seq(Seq(Nat)) : r = Append(q, p) /\ Len(r) = Len(q) + 1 /\ g \o r = Append(g \o q, p)
            BY <5>2, Zenon
          <5>4. Len(r) <= PumpCapacity
            <6>1. Len(q) \in Nat /\ Len(q) < PumpCapacity /\ PumpCapacity \in Nat
              BY <3>4, <4>4, <5>1, MasqueAssumption, LenProperties
            <6> QED
              BY <5>3, <6>1
          <5>5. PICK e : e = [b EXCEPT !.queue = r]
            OBVIOUS
          <5>6. inbound' = e
            <6>1. OfferDatagram(b, p) = [b EXCEPT !.queue = Append(b.queue, p)]
              BY <4>4, Offered, Zenon
            <6>2. Append(b.queue, p) = r
              BY <3>4, <5>1, <5>3, Zenon
            <6> QED
              BY <4>2, <5>5, <6>1, <6>2, Zenon
          <5>7. /\ e \in InState /\ e.at = b.at /\ e.wire = b.wire /\ e.buf = b.buf /\ e.queue = r
                /\ e.got = b.got /\ e.sent = b.sent /\ e.written = b.written /\ e.dropped = b.dropped
            BY <3>4, <5>5 DEF InState
          <5>8. e.got \o e.queue = Append(inbound.got \o inbound.queue, p)
            BY <3>4, <5>1, <5>3, <5>7, Zenon
          <5> QED
            BY <1>1, <3>4, <4>3, <5>4, <5>6, <5>7, <5>8, Zenon DEF InOK
        <4>5. CASE ~(Len(b.queue) < PumpCapacity)
          <5>1. PICK k \in Nat : k = inbound.dropped + 1
            BY <1>2
          <5>2. PICK e : e = [b EXCEPT !.dropped = k]
            OBVIOUS
          <5>3. inbound' = e
            <6>1. OfferDatagram(b, p) = [b EXCEPT !.dropped = b.dropped + 1]
              BY <4>5, Offered, Zenon
            <6>2. b.dropped + 1 = k
              BY <3>4, <5>1, Zenon
            <6> QED
              BY <4>2, <5>2, <6>1, <6>2, Zenon
          <5>4. /\ e \in InState /\ e.at = b.at /\ e.wire = b.wire /\ e.buf = b.buf /\ e.queue = b.queue
                /\ e.got = b.got /\ e.sent = b.sent /\ e.written = b.written /\ e.dropped = k
            BY <3>4, <5>2, Zenon DEF InState
          <5> QED
            BY <1>1, <3>4, <4>3, <5>1, <5>3, <5>4, Zenon DEF InOK
        <4> QED
          BY <4>4, <4>5, Zenon
      <3> QED
        BY <3>5, <3>6, Zenon
    <2>4. next.result \in {"pending", "violation", "capsule"}
      BY <1>6, Zenon DEF DecodeCapsule, Pending
    <2> QED
      BY <2>1, <2>2, <2>3, <2>4
  <1> QED
    BY <1>4, <1>5, <1>8, InStepSound, Zenon

\* What quinn sends can be sent.
LEMMA PayloadSent ==
    ASSUME NEW n \in 1 .. Len(Outgoing)
    PROVE  [i \in 1 .. Outgoing[n] |-> n] \in Sendable
  <1>1. Outgoing[n] \in 0 .. MaxUdp
    BY MasqueAssumption, ElementOfSeq
  <1>2. PICK k \in Nat : k = Outgoing[n] /\ k <= MaxUdp
    BY <1>1
  <1>3. n \in Nat
    OBVIOUS
  <1>4. [i \in 1 .. k |-> n] \in Seq(Nat) /\ Len([i \in 1 .. k |-> n]) = k
    BY <1>3
  <1>5. [i \in 1 .. k |-> n] \in Sendable
    BY <1>2, <1>4, Zenon DEF Sendable
  <1> QED
    BY <1>2, <1>5, Zenon

\* A step of the other pump leaves the rest alone.
LEMMA OutStepSound ==
    ASSUME MasqueInv, tunnel' = tunnel, inbound' = inbound, OutOK(outbound', tunnel.task),
           tunnel.at \notin {"tcp", "tls", "http", "settings", "request"}
    PROVE  MasqueInv'
  <1>1. TunnelOK(tunnel) /\ InOK(inbound, tunnel.task)
    BY Zenon DEF MasqueInv
  <1>2. Unanswered(tunnel', inbound', outbound')
    BY Zenon DEF Unanswered
  <1> QED
    BY <1>1, <1>2, Zenon DEF MasqueInv

\* quinn sends a datagram.
LEMMA TrySendSound ==
    ASSUME MasqueInv, TrySend
    PROVE  MasqueInv'
  <1>1. outbound \in OutState /\ Len(outbound.queue) <= PumpCapacity
    BY Zenon DEF MasqueInv, OutOK
  <1>2. outbound.at = "pump" /\ tunnel.task =>
          OutSound(outbound.queue, outbound.stream, outbound.kept, outbound.dropped, outbound.sent)
    BY Zenon DEF MasqueInv, OutOK
  <1>3. /\ outbound.queue \in Seq(Sendable) /\ outbound.stream \in Seq(Nat) /\ outbound.kept \in Seq(Sendable)
        /\ outbound.dropped \in Nat /\ outbound.sent \in Nat
    BY <1>1, Zenon DEF OutState
  <1>4. PICK n \in Nat : n = outbound.sent + 1 /\ n \in 1 .. Len(Outgoing) /\ n <= Len(Outgoing)
    <2>1. PICK x \in Nat, l \in Nat : x = outbound.sent /\ l = Len(Outgoing) /\ x < l
      <3>1. Len(Outgoing) \in Nat
        BY MasqueAssumption, LenProperties
      <3>2. outbound.sent < Len(Outgoing)
        BY Zenon DEF TrySend
      <3> QED
        BY <1>3, <3>1, <3>2, Zenon
    <2>2. x + 1 \in Nat /\ x + 1 \in 1 .. l /\ x + 1 <= l
      BY <2>1
    <2> QED
      BY <2>1, <2>2, Zenon
  <1>5. PICK p \in Sendable : p = [i \in 1 .. Outgoing[n] |-> n]
    BY <1>4, PayloadSent, Zenon
  <1>6. PICK after : after = OfferDatagram(outbound, p)
    OBVIOUS
  <1>7. outbound' = IF outbound.at = "gone" THEN [outbound EXCEPT !.sent = n]
                    ELSE [after EXCEPT !.sent = n,
                            !.kept = IF after.queue # outbound.queue THEN Append(after.kept, p) ELSE after.kept]
    BY <1>4, <1>5, <1>6, Zenon DEF TrySend
  <1>8. OutOK(outbound', tunnel.task)
    <2>1. CASE outbound.at = "gone"
      <3>1. outbound' = [outbound EXCEPT !.sent = n]
        BY <1>7, <2>1, Zenon
      <3>2. outbound' \in OutState /\ outbound'.at = "gone" /\ outbound'.queue = outbound.queue /\ outbound'.sent = n
        BY <1>1, <2>1, <3>1 DEF OutState
      <3>3. "gone" # "pump"
        OBVIOUS
      <3> QED
        BY <1>1, <1>4, <3>2, <3>3, Zenon DEF OutOK
    <2>2. CASE outbound.at # "gone" /\ Len(outbound.queue) < PumpCapacity
      <3>1. PICK q \in Seq(Sendable), k \in Seq(Sendable) : q = Append(outbound.queue, p) /\ k = Append(outbound.kept, p)
        <4>1. PICK x \in Seq(Sendable), y \in Seq(Sendable) : x = outbound.queue /\ y = outbound.kept
          BY <1>3, Zenon
        <4>2. Append(x, p) \in Seq(Sendable) /\ Append(y, p) \in Seq(Sendable)
          BY AppendProperties
        <4> QED
          BY <4>1, <4>2, Zenon
      <3>2. Len(q) = Len(outbound.queue) + 1 /\ Len(outbound.queue) \in Nat
        <4>1. PICK x \in Seq(Sendable) : x = outbound.queue
          BY <1>3, Zenon
        <4>2. Len(Append(x, p)) = Len(x) + 1 /\ Len(x) \in Nat
          BY AppendProperties, LenProperties
        <4> QED
          BY <3>1, <4>1, <4>2, Zenon
      <3>3. Len(q) <= PumpCapacity /\ q # outbound.queue
        <4>1. PICK l \in Nat : l = Len(outbound.queue) /\ l < PumpCapacity /\ PumpCapacity \in Nat
          BY <2>2, <3>2, MasqueAssumption
        <4>2. l + 1 <= PumpCapacity /\ l + 1 # l
          BY <4>1
        <4> QED
          BY <3>2, <4>1, <4>2, Zenon
      <3>4. after = [outbound EXCEPT !.queue = q]
        BY <1>6, <2>2, <3>1, Offered, Zenon
      <3>5. after \in OutState /\ after.queue = q /\ after.kept = outbound.kept
        BY <1>1, <3>4 DEF OutState
      <3>6. PICK o : o = [after EXCEPT !.sent = n, !.kept = k]
        OBVIOUS
      <3>7. outbound' = o
        <4>1. outbound' = [after EXCEPT !.sent = n,
                            !.kept = IF after.queue # outbound.queue THEN Append(after.kept, p) ELSE after.kept]
          BY <1>7, <2>2, Zenon
        <4>2. (IF after.queue # outbound.queue THEN Append(after.kept, p) ELSE after.kept) = k
          BY <3>1, <3>3, <3>5, Zenon
        <4> QED
          BY <3>6, <4>1, <4>2, Zenon
      <3>8. /\ o \in OutState /\ o.at = outbound.at /\ o.queue = q /\ o.stream = outbound.stream /\ o.kept = k
            /\ o.dropped = outbound.dropped /\ o.sent = n
        BY <1>1, <3>4, <3>5, <3>6 DEF OutState
      <3>9. outbound.at = "pump" /\ tunnel.task => OutSound(q, outbound.stream, k, outbound.dropped, n)
        <4> SUFFICES ASSUME OutSound(outbound.queue, outbound.stream, outbound.kept, outbound.dropped, outbound.sent)
                     PROVE  OutSound(q, outbound.stream, k, outbound.dropped, n)
          BY <1>2, Zenon
        <4>1. OutSound(Append(outbound.queue, p), outbound.stream, Append(outbound.kept, p), outbound.dropped,
                       outbound.sent + 1)
          BY <1>3, OutQueues, Zenon
        <4> QED
          BY <1>4, <3>1, <4>1, Zenon
      <3> QED
        BY <1>4, <3>3, <3>7, <3>8, <3>9, Zenon DEF OutOK
    <2>3. CASE outbound.at # "gone" /\ ~(Len(outbound.queue) < PumpCapacity)
      <3>1. PICK d \in Nat : d = outbound.dropped + 1
        BY <1>3
      <3>2. after = [outbound EXCEPT !.dropped = d]
        BY <1>6, <2>3, <3>1, Offered, Zenon
      <3>3. after \in OutState /\ after.queue = outbound.queue /\ after.kept = outbound.kept
        BY <1>1, <3>2 DEF OutState
      <3>4. PICK o : o = [after EXCEPT !.sent = n, !.kept = after.kept]
        OBVIOUS
      <3>5. outbound' = o
        <4>1. outbound' = [after EXCEPT !.sent = n,
                            !.kept = IF after.queue # outbound.queue THEN Append(after.kept, p) ELSE after.kept]
          BY <1>7, <2>3, Zenon
        <4>2. (IF after.queue # outbound.queue THEN Append(after.kept, p) ELSE after.kept) = after.kept
          BY <3>3, Zenon
        <4> QED
          BY <3>4, <4>1, <4>2, Zenon
      <3>6. /\ o \in OutState /\ o.at = outbound.at /\ o.queue = outbound.queue /\ o.stream = outbound.stream
            /\ o.kept = outbound.kept /\ o.dropped = d /\ o.sent = n
        BY <1>1, <3>2, <3>3, <3>4 DEF OutState
      <3>7. outbound.at = "pump" /\ tunnel.task => OutSound(outbound.queue, outbound.stream, outbound.kept, d, n)
        <4> SUFFICES ASSUME OutSound(outbound.queue, outbound.stream, outbound.kept, outbound.dropped, outbound.sent)
                     PROVE  OutSound(outbound.queue, outbound.stream, outbound.kept, d, n)
          BY <1>2, Zenon
        <4>1. OutSound(outbound.queue, outbound.stream, outbound.kept, outbound.dropped + 1, outbound.sent + 1)
          BY <1>3, OutDrops, Zenon
        <4> QED
          BY <1>4, <3>1, <4>1, Zenon
      <3> QED
        BY <1>1, <1>4, <3>5, <3>6, <3>7, Zenon DEF OutOK
    <2> QED
      BY <2>1, <2>2, <2>3, Zenon
  <1>9. tunnel' = tunnel /\ inbound' = inbound /\ Tunnelled
    BY Zenon DEF TrySend
  <1> QED
    BY <1>8, <1>9, Answered, OutStepSound, Zenon

\* The pump towards the proxy writes a datagram, or finds the stream broken.
LEMMA PumpsOutSound ==
    ASSUME MasqueInv, PumpsOut
    PROVE  MasqueInv'
  <1>1. outbound \in OutState /\ Len(outbound.queue) <= PumpCapacity /\ outbound.sent <= Len(Outgoing)
    BY Zenon DEF MasqueInv, OutOK
  <1>2. outbound.at = "pump" /\ tunnel.task =>
          OutSound(outbound.queue, outbound.stream, outbound.kept, outbound.dropped, outbound.sent)
    BY Zenon DEF MasqueInv, OutOK
  <1>3. /\ outbound.queue \in Seq(Sendable) /\ outbound.stream \in Seq(Nat) /\ outbound.kept \in Seq(Sendable)
        /\ outbound.dropped \in Nat /\ outbound.sent \in Nat
    BY <1>1, Zenon DEF OutState
  <1>4. outbound.at = "pump" /\ outbound.queue # <<>> /\ tunnel' = tunnel /\ inbound' = inbound
    BY Zenon DEF PumpsOut
  <1>5. PICK q \in Seq(Sendable) : q = outbound.queue /\ q # <<>>
    BY <1>3, <1>4, Zenon
  <1>6. PICK t \in Seq(Sendable) : t = Tail(q) /\ Len(t) <= PumpCapacity
    <2>1. Tail(q) \in Seq(Sendable) /\ Len(Tail(q)) = Len(q) - 1
      BY <1>5, HeadTailProperties
    <2>2. Len(q) \in Nat /\ Len(q) <= PumpCapacity /\ PumpCapacity \in Nat
      BY <1>1, <1>5, MasqueAssumption, LenProperties
    <2>3. Len(Tail(q)) <= PumpCapacity
      BY <2>1, <2>2
    <2> QED
      BY <2>1, <2>3, Zenon
  <1>7. PICK s \in Seq(Nat) : s = outbound.stream \o EncodeDatagram(Head(q))
    <2>1. Head(q) \in Sendable
      BY <1>5, HeadTailProperties
    <2>2. Head(q) \in Seq(Nat) /\ Len(Head(q)) <= MaxUdp
      BY <2>1, Zenon DEF Sendable
    <2>3. PICK x \in Seq(Nat), y \in Seq(Nat) : x = outbound.stream /\ y = EncodeDatagram(Head(q))
      BY <1>3, <2>2, DatagramRoundTrip, Zenon
    <2>4. x \o y \in Seq(Nat)
      BY JoinOf
    <2> QED
      BY <2>3, <2>4, Zenon
  <1>8. OutOK(outbound', tunnel.task)
    <2>1. CASE tunnel.task
      <3>1. PICK o : o = [outbound EXCEPT !.queue = t, !.stream = s]
        OBVIOUS
      <3>2. outbound' = o
        BY <1>5, <1>6, <1>7, <2>1, <3>1, Zenon DEF PumpsOut
      <3>3. /\ o \in OutState /\ o.at = outbound.at /\ o.queue = t /\ o.stream = s /\ o.kept = outbound.kept
            /\ o.dropped = outbound.dropped /\ o.sent = outbound.sent
        BY <1>1, <3>1 DEF OutState
      <3>4. OutSound(q, outbound.stream, outbound.kept, outbound.dropped, outbound.sent)
        BY <1>2, <1>4, <1>5, <2>1, Zenon
      <3>5. OutSound(Tail(q), outbound.stream \o EncodeDatagram(Head(q)), outbound.kept, outbound.dropped, outbound.sent)
        BY <1>3, <1>5, <3>4, OutWrites, Zenon
      <3>6. OutSound(t, s, outbound.kept, outbound.dropped, outbound.sent)
        BY <1>6, <1>7, <3>5, Zenon
      <3> QED
        BY <1>1, <1>6, <3>2, <3>3, <3>6, Zenon DEF OutOK
    <2>2. CASE ~tunnel.task
      <3>1. PICK o : o = [outbound EXCEPT !.queue = t, !.at = "gone"]
        OBVIOUS
      <3>2. outbound' = o
        BY <1>5, <1>6, <2>2, <3>1, Zenon DEF PumpsOut
      <3>3. o \in OutState /\ o.queue = t /\ o.sent = outbound.sent
        BY <1>1, <3>1 DEF OutState
      <3> QED
        BY <1>1, <1>6, <2>2, <3>2, <3>3, Zenon DEF OutOK
    <2> QED
      BY <2>1, <2>2, Zenon
  <1>9. tunnel.at \notin {"tcp", "tls", "http", "settings", "request"}
    <2>1. "pump" # "none"
      OBVIOUS
    <2> QED
      BY <1>4, <2>1, Answered, Zenon
  <1> QED
    BY <1>4, <1>8, <1>9, OutStepSound, Zenon

\* The property follows.
LEMMA MasqueInvHolds ==
    ASSUME MasqueInv
    PROVE  DatagramsAccounted
  <1>1. inbound \in InState /\ outbound \in OutState
    BY Zenon DEF MasqueInv, InOK, OutOK
  <1>2. /\ inbound.at \in {"none", "chunk", "decode", "gone"} /\ inbound.wire \in Seq(Bytes) /\ inbound.buf \in Seq(Bytes)
        /\ inbound.buf \in Seq(Nat) /\ inbound.written \in Nat /\ inbound.dropped \in Nat
        /\ inbound.got \in Seq(Seq(Nat)) /\ inbound.queue \in Seq(Seq(Nat))
    BY <1>1, InFields, Zenon
  <1>3. /\ outbound.at \in {"none", "pump", "gone"} /\ outbound.queue \in Seq(Sendable) /\ outbound.stream \in Seq(Nat)
        /\ outbound.kept \in Seq(Sendable) /\ outbound.dropped \in Nat /\ outbound.sent \in Nat
    BY <1>1, Zenon DEF OutState
  <1>4. MasqueTypeOK
    BY <1>2, <1>3, Zenon DEF MasqueInv, TunnelOK, InOK, OutOK, MasqueTypeOK
  <1>5. InSound(inbound.buf, inbound.wire, inbound.got \o inbound.queue, inbound.sent, inbound.written,
                inbound.dropped, inbound.at, tunnel.task)
    BY Zenon DEF MasqueInv, InOK
  <1>6. /\ Rising(inbound.got \o inbound.queue)
        /\ \A i \in 1 .. Len(inbound.got \o inbound.queue) :
             \E h \in 1 .. Len(inbound.sent) : (inbound.got \o inbound.queue)[i] = inbound.sent[h]
    <2>1. AllInOrder(inbound.got \o inbound.queue, inbound.sent)
      BY <1>2, <1>5, InOrder, Zenon
    <2> QED
      BY <2>1, Zenon DEF AllInOrder
  <1>7. ASSUME inbound.at = "chunk", inbound.wire = <<>>, tunnel.task
        PROVE  /\ inbound.buf = <<>>
               /\ Len(inbound.got) + Len(inbound.queue) + inbound.dropped = Len(inbound.sent)
    <2>1. tunnel.task = TRUE
      <3>1. tunnel.task \in BOOLEAN
        BY DEF MasqueInv, TunnelOK
      <3> QED
        BY <1>7, <3>1
    <2>2. InSound(inbound.buf, <<>>, inbound.got \o inbound.queue, inbound.sent, inbound.written,
                  inbound.dropped, "chunk", TRUE)
      BY <1>5, <1>7, <2>1, Zenon
    <2>3. Len(inbound.buf) = 0 /\ Len(inbound.got \o inbound.queue) + inbound.dropped = Len(inbound.sent)
      <3>1. AllIn(inbound.buf, inbound.got \o inbound.queue, inbound.sent, inbound.dropped)
        BY <1>2, <2>2, InHolds, Zenon
      <3> QED
        BY <3>1, Zenon DEF AllIn
    <2>4. inbound.buf = <<>>
      BY <1>2, <2>3, EmptySeq
    <2>5. Len(inbound.got \o inbound.queue) = Len(inbound.got) + Len(inbound.queue)
      <3>1. PICK g \in Seq(Seq(Nat)), q \in Seq(Seq(Nat)) : g = inbound.got /\ q = inbound.queue
        BY <1>2, Zenon
      <3>2. Len(g \o q) = Len(g) + Len(q)
        BY JoinOf
      <3> QED
        BY <3>1, <3>2, Zenon
    <2> QED
      BY <2>3, <2>4, <2>5, Zenon
  <1>8. ASSUME outbound.at = "pump", tunnel.task
        PROVE  /\ Deframed(outbound.stream).rest = <<>>
               /\ Deframed(outbound.stream).out \o outbound.queue = outbound.kept
               /\ Len(outbound.kept) + outbound.dropped = outbound.sent
    <2>1. /\ OutSound(outbound.queue, outbound.stream, outbound.kept, outbound.dropped, outbound.sent)
          /\ outbound.sent <= Len(Outgoing)
      BY <1>8, Zenon DEF MasqueInv, OutOK
    <2>2. Len(outbound.kept) + outbound.dropped = outbound.sent
      BY <2>1, Zenon DEF OutSound
    <2>3. Deframed(outbound.stream).rest = <<>> /\ Deframed(outbound.stream).out \o outbound.queue = outbound.kept
      BY <1>3, <2>1, OutHolds, Zenon
    <2> QED
      BY <2>2, <2>3, Zenon
  <1> QED
    BY <1>4, <1>6, <1>7, <1>8, Zenon DEF DatagramsAccounted

\* Through the MASQUE tunnel every datagram comes whole, once and in order, or is counted as dropped, however the
\* stream is cut and whatever the proxy writes between; what goes out decodes to exactly the datagrams the queue took.
THEOREM DatagramsAlwaysAccounted == MasqueSpec => []DatagramsAccounted
  <1>1. MasqueInit => MasqueInv
    <2> SUFFICES ASSUME MasqueInit PROVE MasqueInv
      OBVIOUS
    <2>1. inbound = Idle /\ outbound = Quiet
      BY Zenon DEF MasqueInit
    <2>2. TunnelOK(tunnel)
      BY MasqueAssumption DEF MasqueInit, TunnelOK, DialSteps
    <2>3. "none" \in {"none", "chunk", "decode", "gone"}
      OBVIOUS
    <2>4. InOK(inbound, tunnel.task) /\ OutOK(outbound, tunnel.task)
      BY <2>1, <2>3, IdleOK, QuietOK, Zenon
    <2> QED
      BY <2>1, <2>2, <2>4, Zenon DEF MasqueInv, Unanswered
  <1>2. MasqueInv /\ [MasqueNext]_masqueVars => MasqueInv'
    <2> SUFFICES ASSUME MasqueInv, [MasqueNext]_masqueVars PROVE MasqueInv'
      OBVIOUS
    <2>1. CASE Reaches \/ ProxyEnables \/ PollsSetting \/ ProxyResponds \/ ProxyRefuses \/ QuicConnects \/ DialFails
      BY <2>1, DialSound, Zenon
    <2>2. CASE SocketDropped \/ ConnectionBreaks \/ ReadEnds \/ RecvFails
      BY <2>2, TunnelEndsSound, Zenon
    <2>3. CASE ProxyWrites
      BY <2>3, ProxyWritesSound, Zenon
    <2>4. CASE ReadsChunk
      BY <2>4, ReadsChunkSound, Zenon
    <2>5. CASE DecodesNext
      BY <2>5, DecodesNextSound, Zenon
    <2>6. CASE PollRecv
      BY <2>6, PollRecvSound, Zenon
    <2>7. CASE TrySend
      BY <2>7, TrySendSound, Zenon
    <2>8. CASE PumpsOut
      BY <2>8, PumpsOutSound, Zenon
    <2>9. CASE UNCHANGED masqueVars
      BY <2>9, Zenon DEF masqueVars, MasqueInv
    <2> QED
      BY <2>1, <2>2, <2>3, <2>4, <2>5, <2>6, <2>7, <2>8, <2>9, Zenon DEF MasqueNext
  <1>3. MasqueInv => DatagramsAccounted
    BY MasqueInvHolds
  <1> QED
    BY <1>1, <1>2, <1>3, PTL DEF MasqueSpec
=============================================================================
