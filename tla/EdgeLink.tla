------------------------------- MODULE EdgeLink -------------------------------
(***************************************************************************)
(* The agent's TLS-TCP link to the edge (transport.rs): connections that   *)
(* share remembered TLS configurations (ClientConfigMemo), and on each one *)
(* the registration, the ping phase and the tunnel, one after the other on *)
(* the same bytes.                                                         *)
(***************************************************************************)
EXTENDS Naturals, Sequences, SequencesExt

CONSTANTS
    Lines,    \* connections opened side by side
    Anchors,  \* edge certificates
    MemoCap,  \* CLIENT_CONFIG_MEMO_CAP
    Pings,    \* PINGs of the edge on one connection
    Dials     \* connections opened in a run

ASSUME LineAssumption == MemoCap \in Nat \ {0} /\ {Pings, Dials} \subseteq Nat

VARIABLES
    memo,    \* ClientConfigMemo.entries, the most recent last: a key and the certificate trusted
    line,    \* per connection: where it is, the certificate asked for and the one trusted, the
             \* PING being answered
    inward,  \* per connection: what the edge sent and the agent has not read
    edgeEnd, \* per connection: the edge's phase and PINGs, and what it received
    dials    \* connections opened so far

edgeLinkVars == <<memo, line, inward, edgeEnd, dials>>

Byte(kind) == [kind |-> kind, n |-> 0]
Count(n) == [kind |-> "count", n |-> n]

\* What the edge relays of a Client at once: two bytes, told apart.
OfTunnel(n) == [kind |-> "tunnel", n |-> n]
Relayed == <<OfTunnel(1), OfTunnel(2)>>

ClosedLine == [at |-> "closed", asked |-> "none", trusts |-> "none", ping |-> 0]
NewEdgeEnd == [at |-> "register", pings |-> 0, got |-> <<>>]

EdgeLinkInit ==
    /\ memo = <<>> /\ dials = 0
    /\ line = [l \in Lines |-> ClosedLine]
    /\ inward = [l \in Lines |-> <<>>]
    /\ edgeEnd = [l \in Lines |-> NewEdgeEnd]

-----------------------------------------------------------------------------
(* ClientConfigMemo::get_or_build, under its mutex.  A configuration holds the trusted certificate *)
(* and the session tickets; rustls keeps those by server name, the same for every edge.            *)

\* TlsTcpConfigKey, QuicConfigKey: anchor_digest of the certificate.
MemoKey(a) == a

Hits(a) == {i \in DOMAIN memo : memo[i].key = MemoKey(a)}
Trusted(a) == IF Hits(a) = {} THEN a ELSE memo[CHOOSE i \in Hits(a) : TRUE].trusts

\* A hit becomes the most recent entry; a miss is built and inserted, and the oldest makes room.
GetOrBuild(a) ==
    LET kept == IF Hits(a) # {} THEN RemoveAt(memo, CHOOSE i \in Hits(a) : TRUE)
                ELSE IF Len(memo) >= MemoCap THEN Tail(memo) ELSE memo
    IN  Append(kept, [key |-> MemoKey(a), trusts |-> Trusted(a)])

\* tcp_tls_connect_with_alpns_sni within TCP_TLS_CONNECT_TIMEOUT, then the registration is written.
Connects(l, a) ==
    /\ line[l].at = "closed" /\ dials < Dials
    /\ dials' = dials + 1
    /\ memo' = GetOrBuild(a)
    /\ line' = [line EXCEPT ![l] = [ClosedLine EXCEPT !.at = "register", !.asked = a, !.trusts = Trusted(a)]]
    /\ inward' = [inward EXCEPT ![l] = <<>>]
    /\ edgeEnd' = [edgeEnd EXCEPT ![l] = [NewEdgeEnd EXCEPT !.got = <<Byte("register")>>]]

-----------------------------------------------------------------------------
(* The edge's end of the link. *)

EdgeSends(l, items, at) ==
    /\ inward' = [inward EXCEPT ![l] = @ \o items]
    /\ edgeEnd' = [edgeEnd EXCEPT ![l].at = at]
    /\ UNCHANGED <<memo, line, dials>>

EdgeAnswers(l) ==
    /\ line[l].at # "closed" /\ edgeEnd[l].at = "register"
    /\ \/ EdgeSends(l, <<Byte("OK")>>, "ping")
       \/ EdgeSends(l, <<Byte("NO")>>, "over")

\* A PING is a marker and a counter, and may arrive in two pieces.
EdgePings(l) ==
    /\ line[l].at # "closed" /\ edgeEnd[l].at = "ping" /\ edgeEnd[l].pings < Pings
    /\ inward' = [inward EXCEPT ![l] = @ \o <<Byte("PING"), Count(edgeEnd[l].pings + 1)>>]
    /\ edgeEnd' = [edgeEnd EXCEPT ![l].pings = @ + 1]
    /\ UNCHANGED <<memo, line, dials>>

\* A client is there: STOP, unless the edge does not know the phase, and the bytes of the tunnel.
EdgeStarts(l) ==
    /\ line[l].at # "closed" /\ edgeEnd[l].at = "ping"
    /\ \/ EdgeSends(l, <<Byte("STOP"), OfTunnel(1), OfTunnel(2)>>, "tunnel")
       \/ EdgeSends(l, Relayed, "tunnel")

-----------------------------------------------------------------------------
(* The agent: register_tunnel_stream_with_role, await_ping_phase_end.  Every read takes exactly    *)
(* what it is for, so nothing of the next phase is read ahead.                                     *)

Reads(l) == inward' = [inward EXCEPT ![l] = Tail(@)]
Closes(l) == line' = [line EXCEPT ![l] = ClosedLine]
Kind(l) == Head(inward[l]).kind
At(l, place) == line[l].at = place /\ inward[l] # <<>>

\* The ack; a NO is RegistrationRefused, and REGISTER_ACK_TIMEOUT bounds the wait.
Acked(l) ==
    /\ At(l, "register")
    /\ Reads(l)
    /\ IF Kind(l) = "OK" THEN line' = [line EXCEPT ![l].at = "phase"] ELSE Closes(l)
    /\ UNCHANGED <<memo, edgeEnd, dials>>

AckTimesOut(l) ==
    /\ line[l].at = "register" /\ inward[l] = <<>>
    /\ Closes(l)
    /\ UNCHANGED <<memo, inward, edgeEnd, dials>>

PingMarker(l) ==
    /\ At(l, "phase") /\ Kind(l) = "PING"
    /\ Reads(l)
    /\ line' = [line EXCEPT ![l].at = "counter"]
    /\ UNCHANGED <<memo, edgeEnd, dials>>

PingCounter(l) ==
    /\ At(l, "counter")
    /\ Reads(l)
    /\ line' = [line EXCEPT ![l].at = "pong", ![l].ping = Head(inward[l]).n]
    /\ UNCHANGED <<memo, edgeEnd, dials>>

\* The PONG echoes the counter, and note_keepalive.
Pongs(l) ==
    /\ line[l].at = "pong"
    /\ line' = [line EXCEPT ![l].at = "phase"]
    /\ edgeEnd' = [edgeEnd EXCEPT ![l].got = Append(@, Count(line[l].ping))]
    /\ UNCHANGED <<memo, inward, dials>>

\* Mutation: any byte that is no PING ends the phase, a first byte of the tunnel too.
PhaseEndsByAny(l) ==
    /\ At(l, "phase") /\ Kind(l) # "PING"
    /\ Reads(l)
    /\ line' = [line EXCEPT ![l].at = "tunnel"]
    /\ UNCHANGED <<memo, edgeEnd, dials>>

\* STOP ends the phase; any other byte is an error that closes the connection.
PhaseEnds(l) ==
    /\ At(l, "phase") /\ Kind(l) # "PING"
    /\ Reads(l)
    /\ IF Kind(l) = "STOP" THEN line' = [line EXCEPT ![l].at = "tunnel"] ELSE Closes(l)
    /\ UNCHANGED <<memo, edgeEnd, dials>>

\* The tunnel answers on the same connection, and ends.
TunnelAnswers(l) ==
    /\ line[l].at = "tunnel" /\ Last(edgeEnd[l].got).kind # "answer"
    /\ edgeEnd' = [edgeEnd EXCEPT ![l].got = Append(@, Byte("answer"))]
    /\ UNCHANGED <<memo, line, inward, dials>>

LineEnds(l) ==
    /\ line[l].at \notin {"closed", "register"}
    /\ Closes(l)
    /\ UNCHANGED <<memo, inward, edgeEnd, dials>>

EdgeLinkNext ==
    \E l \in Lines :
        \/ \E a \in Anchors : Connects(l, a)
        \/ EdgeAnswers(l) \/ EdgePings(l) \/ EdgeStarts(l)
        \/ Acked(l) \/ AckTimesOut(l) \/ PingMarker(l) \/ PingCounter(l) \/ Pongs(l)
        \/ PhaseEnds(l) \/ TunnelAnswers(l) \/ LineEnds(l)

EdgeLinkSpec == EdgeLinkInit /\ [][EdgeLinkNext]_edgeLinkVars

-----------------------------------------------------------------------------
(* Properties *)

\* The three conversations of a connection do not run into each other: the edge receives the
\* registration, then one PONG per PING in order, then the tunnel; and when the tunnel takes the
\* stream over, exactly the bytes the edge relays are still to be read (await_ping_phase_end reads
\* STOP and not one byte more, and takes no byte of the tunnel for the end of the phase).
PhasesKeptApart ==
    \A l \in Lines : line[l].at # "closed" =>
        /\ line[l].at = "tunnel" => inward[l] = Relayed
        /\ \A i \in DOMAIN edgeEnd[l].got :
              edgeEnd[l].got[i] = IF i = 1 THEN Byte("register")
                                  ELSE IF i - 1 <= edgeEnd[l].pings THEN Count(i - 1) ELSE Byte("answer")

\* A connection trusts the certificate it was opened for, whatever the memo holds from other edges.
TrustsWhatWasAsked == \A l \in Lines : line[l].trusts = line[l].asked

\* Connections opened at the same time share neither a phase nor a trusted certificate.
LinksKeptApart == PhasesKeptApart /\ TrustsWhatWasAsked
=============================================================================
