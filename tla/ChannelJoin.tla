----------------------------- MODULE ChannelJoin -----------------------------
(***************************************************************************)
(* How two members that the broker paired find a transport                 *)
(* (channel_run/mod.rs, connectivity.rs, serving.rs, dialing.rs,           *)
(* peer_pin.rs): the caller dials the acceptor's listener and falls back   *)
(* to the relay, the acceptor accepts, or races the accept against its     *)
(* relay leg, or goes straight to the relay.  The sessions of one acceptor *)
(* share its listener, and the relay splices a leg with the oldest waiting *)
(* leg of another holder, whoever the broker paired it with: what a leg    *)
(* ends at is checked by the Noise handshake only.                         *)
(*                                                                         *)
(* A leg that its end gives up is closed, and stays in the edge's queue    *)
(* until the edge notices: at once, at its next look, or never before the  *)
(* leg has won a pairing as a corpse.                                      *)
(***************************************************************************)
EXTENDS Naturals, Sequences, FiniteSets

CONSTANTS
    Callers,  \* the members that initiate
    JoinSlots, \* the sessions the acceptor may serve at once
    Pinned,   \* the callers its peer pin lets through
    Nobody,
    Joins     \* pairings of the broker in a run

ASSUME JoinAssumption ==
    /\ IsFiniteSet(Callers) /\ IsFiniteSet(JoinSlots)
    /\ Callers \cap JoinSlots = {} /\ Nobody \notin Callers \cup JoinSlots
    /\ Pinned \subseteq Callers /\ Joins \in Nat
    /\ \A word \in {"lost", "gone", "acceptor"} : word \notin Callers \cup JoinSlots \cup {Nobody}

VARIABLES
    setup,   \* the acceptor's configuration: its slots, and how it accepts
    ends,    \* per end: where its join is, whom the broker named, what its transport ends at
    backlog, \* dials that reached the shared listener and were not accepted
    queue,   \* relay legs waiting at the edge, oldest first: whose, and whether still open
    pairs,   \* pairings so far
    mishap   \* history: a dial was given up after it reached the listener, a leg was lost, or one
             \* was spliced with a corpse

joinVars == <<setup, ends, backlog, queue, pairs, mishap>>

Ends == Callers \cup JoinSlots

\* What a transport ends at once the other side closed it, and a dial its caller gave up.
Lost == "lost"
Gone == "gone"

Modes == {"relay", "serial", "race"}
Places == {"out", "parked", "admitted", "dial", "accept", "race", "direct", "relay", "shake", "session"}
Legs == [of : Ends, open : BOOLEAN]
OutEnd == [at |-> "out", with |-> Nobody, on |-> Nobody]

\* The state is of the kinds declared above.
JoinTypeOK ==
    /\ setup \in [slots : SUBSET JoinSlots, mode : Modes]
    /\ \A e \in Ends : /\ ends[e].at \in Places
                       /\ ends[e].with \in Ends \cup {Nobody}
                       /\ ends[e].on \in Ends \cup {Nobody, Lost}
    /\ backlog \in Seq(Callers \cup {Gone}) /\ queue \in Seq(Legs)
    /\ pairs \in 0..Joins /\ mishap \in BOOLEAN

JoinInit ==
    /\ setup \in [slots : SUBSET JoinSlots \ {{}}, mode : Modes]
    /\ ends = [e \in Ends |-> OutEnd]
    /\ backlog = <<>> /\ queue = <<>> /\ pairs = 0 /\ mishap = FALSE

Holder(e) == IF e \in Callers THEN e ELSE "acceptor"
At(e, place) == ends[e].at = place
Leg(e) == [of |-> e, open |-> TRUE]
Waits(e) == \E i \in DOMAIN queue : queue[i] = Leg(e)

\* check_peer_pin, on the member the admission names.
Refused(e) == e \in JoinSlots /\ ends[e].with \notin Pinned

\* End e is done: whoever its transport ended at finds it closed.
Left(e) ==
    [x \in Ends |-> IF x = e THEN OutEnd
                    ELSE IF ends[x].on = e THEN [ends[x] EXCEPT !.on = Lost] ELSE ends[x]]

Moves(e, place) == ends' = [ends EXCEPT ![e].at = place]

\* The queue without its k-th leg, and with the leg of end e closed.
Without(k) == [j \in 1 .. Len(queue) - 1 |-> queue[IF j < k THEN j ELSE j + 1]]
LegClosed(e) == [i \in DOMAIN queue |-> IF queue[i].of = e THEN [queue[i] EXCEPT !.open = FALSE] ELSE queue[i]]

GivenUp(c) == [i \in DOMAIN backlog |-> IF backlog[i] = c THEN Gone ELSE backlog[i]]

-----------------------------------------------------------------------------
(* The rendezvous. *)

\* present_channel_join_via_ladder: the member presents its join, on the first rung that gets
\* through, and is parked.
Presents(e) ==
    /\ At(e, "out")
    /\ Moves(e, "parked")
    /\ UNCHANGED <<setup, backlog, queue, pairs, mishap>>

\* admit_one_shot_with_retry: a caller, until it is paired or its window is over.
CallerParks(c) == Presents(c)

\* admit_one_peer: a serving slot.
AcceptorParks(s) == s \in setup.slots /\ Presents(s)

\* The edge pairs two parked members and names each to the other, with its attested key.
BrokerPairs(c, s) ==
    /\ At(c, "parked") /\ At(s, "parked")
    /\ pairs < Joins
    /\ pairs' = pairs + 1
    /\ ends' = [ends EXCEPT ![c] = [OutEnd EXCEPT !.at = "admitted", !.with = s],
                            ![s] = [OutEnd EXCEPT !.at = "admitted", !.with = c]]
    /\ UNCHANGED <<setup, backlog, queue, mishap>>

-----------------------------------------------------------------------------
(* The relay leg. *)

\* The edge: a leg is spliced with the oldest waiting leg of another holder, or it waits.
Others(e) == {i \in DOMAIN queue : Holder(queue[i].of) # Holder(e)}
Oldest(e) == {i \in Others(e) : \A j \in Others(e) : i <= j}

\* park_relay_leg, entered by end e, which then stands at place.  What it is spliced with may be
\* closed already.
PresentsLeg(e, place, bad) ==
    /\ \/ /\ Others(e) = {}
          /\ queue' = Append(queue, Leg(e))
          /\ Moves(e, place)
          /\ mishap' = (mishap \/ bad)
       \/ \E i \in Oldest(e) :
            /\ queue' = Without(i)
            /\ LET x == queue[i].of IN
               ends' = IF queue[i].open THEN [ends EXCEPT ![e].at = place, ![e].on = x, ![x].on = e]
                       ELSE [ends EXCEPT ![e].at = place, ![e].on = Lost]
            /\ mishap' = (mishap \/ bad \/ ~queue[i].open)
    /\ UNCHANGED <<setup, pairs>>

\* The edge notices that a waiting leg is closed: its park pump reads the close, or the lease is over.
EdgeNotices ==
    \E i \in DOMAIN queue :
        /\ ~queue[i].open
        /\ queue' = Without(i)
        /\ UNCHANGED <<setup, ends, backlog, pairs, mishap>>

\* join_via_relay: straight to the relay, with no other path left.
JoinViaRelay(e, bad) == PresentsLeg(e, "relay", bad)

\* park_relay_leg returns: the leg is spliced, and its session starts.  In the race the relay
\* goes first (biased).
LegPaired(e) ==
    /\ ends[e].at \in {"relay", "race"} /\ ends[e].on # Nobody
    /\ Moves(e, "shake")
    /\ UNCHANGED <<setup, backlog, queue, pairs, mishap>>

\* relay_pair_bound or the edge's park window: nobody came.  Both are longer than what the
\* partner may take on its way here, so it fires when the partner is elsewhere.
LegExpires(e) ==
    /\ ends[e].at \in {"relay", "race"} /\ Waits(e)
    /\ \A x \in Ends : ends[x].with = e => ends[x].at \notin {"admitted", "dial", "accept", "direct", "relay", "race"}
    /\ queue' = LegClosed(e)
    /\ IF At(e, "race")
       THEN Moves(e, "direct")
       ELSE ends' = Left(e)
    /\ UNCHANGED <<setup, backlog, pairs, mishap>>

\* The leg fails: no rung connects, the edge refuses it, its connection is lost.  A race then
\* waits for the direct connection alone.
LegFails(e) ==
    /\ ends[e].at \in {"relay", "race"}
    /\ mishap' = TRUE
    /\ queue' = LegClosed(e)
    /\ ends' = IF At(e, "race")
               THEN [Left(e) EXCEPT ![e] = [ends[e] EXCEPT !.at = "direct", !.on = Nobody]]
               ELSE Left(e)
    /\ UNCHANGED <<setup, backlog, pairs>>

-----------------------------------------------------------------------------
(* The caller: run_channel_join_with_admission, ChannelRole::Initiate.  One path at a time. *)

\* A relay-only peer is met at the relay, any other is dialled.
CallerStarts(c) ==
    /\ At(c, "admitted")
    /\ IF setup.mode = "relay"
       THEN JoinViaRelay(c, FALSE)
       ELSE Moves(c, "dial") /\ UNCHANGED <<setup, queue, pairs, mishap>>
    /\ UNCHANGED backlog

\* The dial reaches the listener of the acceptor.
DialArrives(c) ==
    /\ At(c, "dial") /\ ~\E i \in DOMAIN backlog : backlog[i] = c
    /\ backlog' = Append(backlog, c)
    /\ UNCHANGED <<setup, ends, queue, pairs, mishap>>

\* DIRECT_DIAL_TIMEOUT: ChannelDialError::Unreachable, so the caller turns to the relay.
DialTimesOut(c) ==
    /\ At(c, "dial")
    /\ JoinViaRelay(c, \E i \in DOMAIN backlog : backlog[i] = c)
    /\ backlog' = GivenUp(c)

\* Any other dial error, and the end of the caller's process, end the join.
CallerFails(c) ==
    /\ ~(ends[c].at \in {"out", "parked"})
    /\ ends' = Left(c)
    /\ backlog' = GivenUp(c)
    /\ queue' = LegClosed(c)
    /\ mishap' = (mishap \/ \E i \in DOMAIN backlog : backlog[i] = c)
    /\ UNCHANGED <<setup, pairs>>

-----------------------------------------------------------------------------
(* The acceptor: ChannelRole::Accept, and close_refused_pairing, which takes the same leg.    *)

\* The leg the session is to run on.  A pairing the pin refuses never races.
TakesLeg(s) ==
    \/ /\ setup.mode # "relay"
       /\ IF setup.mode = "race" /\ ~Refused(s)
          THEN PresentsLeg(s, "race", FALSE)
          ELSE Moves(s, "accept") /\ UNCHANGED <<setup, queue, pairs, mishap>>
    \* No listener, or own_endpoint_looks_reachable says that no dial can come.
    \/ JoinViaRelay(s, FALSE)

\* Mutation: a pairing the pin refuses takes no leg.
AcceptorStartsOrLeaves(s) ==
    /\ At(s, "admitted")
    /\ IF Refused(s)
       THEN ends' = Left(s) /\ UNCHANGED <<setup, queue, pairs, mishap>>
       ELSE TakesLeg(s)
    /\ UNCHANGED backlog

AcceptorStarts(s) ==
    /\ At(s, "admitted")
    /\ TakesLeg(s)
    /\ UNCHANGED backlog

\* race_accept_against_relay, Won::Direct: the relay leg is told to abandon and closed before the
\* session starts; a leg the edge had spliced already is closed under its partner.
AbandonsLeg(s, c) ==
    /\ queue' = LegClosed(s)
    /\ ends' = [Left(s) EXCEPT ![s] = [ends[s] EXCEPT !.at = "shake", !.on = c],
                               ![c] = [ends[c] EXCEPT !.at = "shake", !.on = s]]

\* The oldest dial of the shared listener, whoever made it.
Accepts(s) ==
    /\ ends[s].at \in {"accept", "race", "direct"} /\ backlog # <<>>
    /\ Head(backlog) # Gone
    /\ backlog' = Tail(backlog)
    /\ AbandonsLeg(s, Head(backlog))
    /\ UNCHANGED <<setup, pairs, mishap>>

\* Its caller has given up: the accept fails, and with it the join, unless a relay leg is parked.
AcceptFails(s) ==
    /\ ends[s].at \in {"accept", "race", "direct"} /\ backlog # <<>>
    /\ Head(backlog) = Gone
    /\ backlog' = Tail(backlog)
    /\ ends' = IF At(s, "race") THEN [ends EXCEPT ![s].at = "relay"] ELSE Left(s)
    /\ UNCHANGED <<setup, queue, pairs, mishap>>

\* accept_timeout, which is longer than the caller's DIRECT_DIAL_TIMEOUT: it fires when the caller
\* of this pairing no longer dials.  The race waits on at the relay; when its leg had failed before,
\* the join ends with the leg's error.
AcceptTimesOut(s) ==
    /\ ends[s].at \in {"accept", "race", "direct"} /\ backlog = <<>>
    /\ ~(ends[ends[s].with].at \in {"admitted", "dial"} /\ ends[ends[s].with].with = s)
    /\ \/ At(s, "race") /\ Moves(s, "relay") /\ UNCHANGED <<setup, queue, pairs, mishap>>
       \/ At(s, "direct") /\ ends' = Left(s) /\ UNCHANGED <<setup, queue, pairs, mishap>>
       \/ At(s, "accept") /\ JoinViaRelay(s, FALSE)
    /\ UNCHANGED backlog

-----------------------------------------------------------------------------
(* The session on the leg: run_channel_session_on_stream. *)

Fits(c, s) == ends[c].on = s /\ ends[s].on = c /\ At(c, "shake") /\ At(s, "shake")

\* a2a_initiate pins the acceptor's key; a2a_respond_verified takes the attested caller only.
HandshakeAgrees(c, s) == ends[s].with = c

Handshakes(c, s) ==
    /\ Fits(c, s) /\ ~Refused(s) /\ HandshakeAgrees(c, s)
    /\ ends' = [ends EXCEPT ![c].at = "session", ![s].at = "session"]
    /\ UNCHANGED <<setup, backlog, queue, pairs, mishap>>

\* The pin closes the leg it took; the handshake meets the wrong member; the other side closed.
ClosesLeg(e) ==
    /\ At(e, "shake")
    /\ LET x == ends[e].on IN
       \/ Refused(e)
       \/ x = Lost
       \/ Holder(x) # "acceptor" /\ Holder(e) # "acceptor"
       \/ e \in JoinSlots /\ x \in Callers /\ ~HandshakeAgrees(x, e)
    /\ ends' = Left(e)
    /\ UNCHANGED <<setup, backlog, queue, pairs, mishap>>

SessionOver(e) ==
    /\ At(e, "session")
    /\ ends' = Left(e)
    /\ UNCHANGED <<setup, backlog, queue, pairs, mishap>>

JoinNext ==
    \/ EdgeNotices
    \/ \E e \in Ends : LegPaired(e) \/ LegExpires(e) \/ LegFails(e)
    \/ \E e \in Ends : ClosesLeg(e) \/ SessionOver(e)
    \/ \E c \in Callers, s \in JoinSlots : BrokerPairs(c, s) \/ Handshakes(c, s)
    \/ \E c \in Callers : CallerParks(c) \/ CallerStarts(c) \/ DialArrives(c) \/ DialTimesOut(c) \/ CallerFails(c)
    \/ \E s \in JoinSlots : AcceptorParks(s) \/ AcceptorStarts(s) \/ Accepts(s) \/ AcceptFails(s) \/ AcceptTimesOut(s)

JoinSpec == JoinInit /\ [][JoinNext]_joinVars

-----------------------------------------------------------------------------
(* Properties *)

\* A session of the acceptor runs with the member its admission named and its pin lets through,
\* whichever leg it took: the grants it is gated by, and the pin, were looked up for that member
\* (gate_local, check_peer_pin), while the shared listener and the relay may hand it another's leg.
SessionAsAdmitted ==
    \A s \in JoinSlots : At(s, "session") /\ ends[s].on # Lost
        => ends[s].on = ends[s].with /\ ends[s].on \in Pinned

\* An acceptor with one slot that is free again leaves no caller of its behind: none still dials it
\* or waits at the relay, where its leg would be spliced with the next partner's, unless a leg was
\* lost, a dial given up, or a corpse came in between.  A pairing the pin refuses uses up its leg too
\* (close_refused_pairing).
NoLegLeftBehind ==
    \A c \in Callers : \A s \in JoinSlots :
        setup.slots = {s} /\ ~mishap /\ ends[s].at \in {"out", "parked"}
            => ~(ends[c].at \in {"admitted", "dial"}) /\ ~Waits(c)

\* An open leg waits at the relay only for a join that still waits for it, once: the accept-vs-relay
\* race closes the leg it does not use.  (The edge may splice a leg it has closed all the same, and
\* then the one it is spliced with is lost: connectivity.rs, 510-513.)
EveryLegAwaited ==
    /\ \A i, j \in DOMAIN queue : queue[i].open /\ queue[i] = queue[j] => i = j
    /\ \A i \in DOMAIN queue : queue[i].open => ends[queue[i].of].at \in {"relay", "race"}

\* Whatever legs and tasks race in a join, no open leg is left that nobody waits for, on either side
\* of the relay.
LegsAccounted == NoLegLeftBehind /\ EveryLegAwaited

\* A join runs its session with the partner it was admitted with, corpses at the relay or not, and
\* leaves no open leg behind.
JoinSound == JoinTypeOK /\ SessionAsAdmitted /\ LegsAccounted
=============================================================================
