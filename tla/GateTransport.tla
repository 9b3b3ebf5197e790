---------------------------- MODULE GateTransport ----------------------------
(* One stream that is already open, given to a libp2p swarm as a transport      *)
(* (PreConnectedTransport in p2p.rs).  The swarm dials, listens and polls its   *)
(* transports as it likes; this one has a single stream to give, to a dial or   *)
(* as an incoming connection of its only listener.  libp2p is external.         *)
EXTENDS Naturals, FiniteSets, Sequences

CONSTANTS
  ListenerIds,   \* listener ids the swarm uses
  SwarmDials     \* bound: dials the swarm makes

ASSUME GateAssumption == SwarmDials \in Nat

VARIABLES
  gateStream,   \* whether the transport still has its stream
  listener,     \* PreConnectedListenState
  owners,       \* the connections that were made of the stream
  asked,        \* per id: whether listen_on was called, and took it or refused it
  announced,    \* the events each listener has had, in order
  removed,      \* listeners the swarm has given up
  dialCount     \* dials made

gateVars == <<gateStream, listener, owners, asked, announced, removed, dialCount>>

NoListener == "none"

\* The state is of the kinds declared above.
GateTypeOK ==
  /\ gateStream \in BOOLEAN
  /\ listener \in [at : {"Idle", "Requested", "AddressSent", "Done"}, id : ListenerIds \cup {NoListener}]
  /\ owners \in Seq({"dial", "incoming"})
  /\ asked \in [ListenerIds -> {"no", "taken", "refused"}]
  /\ announced \in [ListenerIds -> Seq({"address", "incoming"})]
  /\ removed \subseteq ListenerIds
  /\ dialCount \in 0 .. SwarmDials

GateInit ==
  /\ gateStream = TRUE
  /\ listener = [at |-> "Idle", id |-> NoListener]
  /\ owners = <<>>
  /\ asked = [id \in ListenerIds |-> "no"]
  /\ announced = [id \in ListenerIds |-> <<>>]
  /\ removed = {}
  /\ dialCount = 0

-----------------------------------------------------------------------------

\* listen_on: served once only, and not when the stream is gone.
ListensOn(id) ==
  /\ asked[id] = "no"
  /\ IF gateStream /\ listener.at = "Idle"
       THEN /\ listener' = [at |-> "Requested", id |-> id]
            /\ asked' = [asked EXCEPT ![id] = "taken"]
       ELSE /\ asked' = [asked EXCEPT ![id] = "refused"]
            /\ UNCHANGED listener
  /\ UNCHANGED <<gateStream, owners, announced, removed, dialCount>>

\* remove_listener: the stream stays, for a dial.
RemovesListener(id) ==
  /\ listener.at \in {"Requested", "AddressSent"} /\ listener.id = id
  /\ listener' = [at |-> "Done", id |-> NoListener]
  /\ removed' = removed \cup {id}
  /\ UNCHANGED <<gateStream, owners, asked, announced, dialCount>>

\* dial takes the stream out; the next dial is told that the address is no good.
DialsGate ==
  /\ dialCount < SwarmDials
  /\ dialCount' = dialCount + 1
  /\ owners' = IF gateStream THEN Append(owners, "dial") ELSE owners
  /\ gateStream' = FALSE
  /\ UNCHANGED <<listener, asked, announced, removed>>

\* Mutation: a state that has nothing to say is not put back.
PutBackIfSaid(l) ==
  IF l.at = "Requested" THEN [l EXCEPT !.at = "AddressSent"] ELSE [at |-> "Done", id |-> NoListener]

\* What poll leaves of the listener.  It takes the state out and leaves Done in its place, so each
\* state that is to stay must be put back.
PutBack(l) ==
  CASE l.at = "Requested" -> [l EXCEPT !.at = "AddressSent"]
    [] l.at = "AddressSent" -> [at |-> "Done", id |-> NoListener]
    [] l.at \in {"Idle", "Done"} -> l

\* poll: a listener announces its address first and then hands in the stream, if a dial has not
\* had it.  The swarm polls whether there is a listener or not.
PollsTransport ==
  /\ listener' = PutBack(listener)
  /\ IF listener.at = "Requested"
       THEN announced' = [announced EXCEPT ![listener.id] = Append(@, "address")]
       ELSE IF listener.at = "AddressSent" /\ gateStream
              THEN announced' = [announced EXCEPT ![listener.id] = Append(@, "incoming")]
              ELSE UNCHANGED announced
  /\ IF listener.at = "AddressSent" /\ gateStream
       THEN owners' = Append(owners, "incoming") /\ gateStream' = FALSE
       ELSE UNCHANGED <<owners, gateStream>>
  /\ UNCHANGED <<asked, removed, dialCount>>

GateNext ==
  \/ \E id \in ListenerIds : ListensOn(id) \/ RemovesListener(id)
  \/ DialsGate \/ PollsTransport

GateSpec == GateInit /\ [][GateNext]_gateVars

-----------------------------------------------------------------------------
\* Whichever way the swarm's dials, polls and removals fall, the one stream reaches a user: it is
\* with the transport until it has become one connection, and no removal or poll loses it on the
\* way; listen_on is refused only when the stream is used up or another listener was served, and
\* not because the swarm polled before it listened (the reservation of a member that initiates is a
\* listen_on, p2p.rs:914-917); and a listener hears of its connection after its address and never
\* once it was removed (p2p.rs:945 listen_on, :957 remove_listener, :969 dial, :980 poll).
StreamReachesItsUser ==
  /\ GateTypeOK
  /\ Len(owners) + (IF gateStream THEN 1 ELSE 0) = 1
  /\ \A id \in ListenerIds : asked[id] = "refused" => ~gateStream \/ \E other \in ListenerIds : asked[other] = "taken"
  /\ \A id \in ListenerIds :
       /\ announced[id] \in {<<>>, <<"address">>, <<"address", "incoming">>}
       /\ id \in removed => announced[id] # <<"address", "incoming">>
=============================================================================
