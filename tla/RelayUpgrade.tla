----------------------------- MODULE RelayUpgrade -----------------------------
(* The relay session of a channel that tries to move to a direct path          *)
(* (channel_run/connectivity.rs, channel_run/dialing.rs).  The initiator binds  *)
(* one socket, asks an edge which address it has from outside, offers that      *)
(* address over the relay and accepts a dial on the socket; the responder picks *)
(* an address of the offer and dials it.  Both then run a Noise handshake on    *)
(* the new stream, the dialer being the one that writes first.  Whatever fails, *)
(* a side stays on the relay.  The offer's frames and the switch of a running   *)
(* session onto the new stream belong to ct_common and are external.            *)
EXTENDS Naturals

VARIABLES
  listening,   \* the initiator: where it is, and the address the edge saw
  answering,   \* the responder: where it is, and the offer it was made
  control,     \* upgrade frames on their way over the relay
  lane         \* the direct connection: who dialed it, what is on its way in it

upgradeVars == <<listening, answering, control, lane>>

\* An address: not known, of a private range, or reachable from anywhere.
Reach == {"none", "private", "global"}

\* An offer: the outside address, and from an older peer its own LAN address too.
Offers == [reflexive : Reach, lan : {"none", "elsewhere", "samenet"}]

NoOffer == [reflexive |-> "none", lan |-> "none"]

NoLane == [by |-> "none", up |-> FALSE, toListener |-> 0, toDialer |-> 0]

ListenerStates == {"joined", "plain", "target", "asked", "offered", "accepting", "connecting",
                   "stream", "writing", "reading", "direct", "relay"}

DialerStates == {"joined", "offered", "dialing", "opening", "writing", "reading", "direct", "relay"}

\* The state is of the kinds declared above.
UpgradeTypeOK ==
  /\ listening \in [at : ListenerStates, seen : Reach]
  /\ answering \in [at : DialerStates, offer : Offers]
  /\ control \subseteq {"offer", "ready", "decline"}
  /\ lane \in [by : {"none", "peer", "stranger"}, up : BOOLEAN,
               toListener : 0 .. 1, toDialer : 0 .. 1]

UpgradeInit ==
  /\ listening \in [at : {"joined"}, seen : Reach]
  /\ answering = [at |-> "joined", offer |-> NoOffer]
  /\ control = {}
  /\ lane = NoLane

ListenerGoes(to) == listening' = [listening EXCEPT !.at = to]

DialerGoes(to) == answering' = [answering EXCEPT !.at = to]

-----------------------------------------------------------------------------
(* The initiator.                                                              *)

\* No socket is bound unless the address the edge saw us at is reachable.
BuildsCandidate ==
  /\ listening.at = "joined"
  /\ ListenerGoes(IF listening.seen = "global" THEN "target" ELSE "plain")
  /\ UNCHANGED <<answering, control, lane>>

\* Where to ask is configured or is the relay itself; a name may not resolve, or
\* not within the time the whole query has.
QueryTarget ==
  /\ listening.at = "target"
  /\ \E resolved \in BOOLEAN : ListenerGoes(IF resolved THEN "asked" ELSE "relay")
  /\ UNCHANGED <<answering, control, lane>>

\* The answer of the edge, or none within what is left of that time.
Whoami == Reach

\* Only an address that is reachable from anywhere is offered.
Offer ==
  /\ listening.at = "asked"
  /\ \E reflexive \in Whoami :
       IF reflexive = "global"
         THEN /\ ListenerGoes("offered")
              /\ answering' = [answering EXCEPT !.offer = [NoOffer EXCEPT !.reflexive = reflexive]]
              /\ control' = {"offer"}
         ELSE ListenerGoes("relay") /\ UNCHANGED <<answering, control>>
  /\ UNCHANGED lane

\* The initiator is an older build: it may offer a LAN address too, or an outside
\* address that nobody else can reach.
OlderPeerOffers ==
  /\ listening.at = "joined"
  /\ ListenerGoes("offered")
  /\ \E offer \in Offers : answering' = [answering EXCEPT !.offer = offer]
  /\ control' = {"offer"}
  /\ UNCHANGED lane

\* The responder's answer to the offer.
Answered ==
  /\ listening.at = "offered"
  /\ \E frame \in control \ {"offer"} :
       /\ control' = control \ {frame}
       /\ ListenerGoes(IF frame = "ready" THEN "accepting" ELSE "relay")
  /\ UNCHANGED <<answering, lane>>

\* Anybody can dial the offered address; the first dial is the one taken.
StrangerDials ==
  /\ listening.at \in {"offered", "accepting"}
  /\ lane = NoLane
  /\ lane' = [NoLane EXCEPT !.by = "stranger", !.up = TRUE]
  /\ UNCHANGED <<listening, answering, control>>

TakesDial ==
  /\ listening.at = "accepting"
  /\ lane.by # "none"
  /\ ListenerGoes("connecting")
  /\ UNCHANGED <<answering, control, lane>>

NoDialInTime ==
  /\ listening.at = "accepting"
  /\ ListenerGoes("relay")
  /\ UNCHANGED <<answering, control, lane>>

IncomingConnects ==
  /\ listening.at = "connecting"
  /\ ListenerGoes(IF lane.up THEN "stream" ELSE "relay")
  /\ UNCHANGED <<answering, control, lane>>

-----------------------------------------------------------------------------
(* The handshake on the direct stream.                                         *)

\* Mutation: each side keeps, on the direct path, the Noise role of its channel role.
NoiseInitiatorByRole(side) == side = "listener"

\* Who writes first: the side that opened the stream.
NoiseInitiator(side) == side = "dialer"

\* A stream shows itself to the side accepting it with its first byte.
AcceptsStream ==
  /\ listening.at = "stream"
  /\ lane.up /\ lane.toListener > 0
  /\ ListenerGoes(IF NoiseInitiator("listener") THEN "writing" ELSE "reading")
  /\ UNCHANGED <<answering, control, lane>>

ListenerWrites ==
  /\ listening.at = "writing"
  /\ lane.up
  /\ lane' = [lane EXCEPT !.toDialer = 1]
  /\ ListenerGoes(IF NoiseInitiator("listener") THEN "reading" ELSE "direct")
  /\ UNCHANGED <<answering, control>>

\* What a stranger writes does not verify against the peer's key.
ListenerReads ==
  /\ listening.at = "reading"
  /\ lane.up /\ lane.toListener > 0
  /\ lane' = [lane EXCEPT !.toListener = 0]
  /\ ListenerGoes(CASE lane.by = "stranger" -> "relay"
                    [] lane.by # "stranger" /\ NoiseInitiator("listener") -> "direct"
                    [] OTHER -> "writing")
  /\ UNCHANGED <<answering, control>>

StrangerWrites ==
  /\ lane.by = "stranger" /\ lane.up
  /\ listening.at = "stream" /\ lane.toListener = 0
  /\ lane' = [lane EXCEPT !.toListener = 1]
  /\ UNCHANGED <<listening, answering, control>>

ListenerFails ==
  /\ listening.at \in {"stream", "writing", "reading"}
  /\ ~lane.up
  /\ ListenerGoes("relay")
  /\ UNCHANGED <<answering, control, lane>>

-----------------------------------------------------------------------------
(* The responder.                                                              *)

\* Only an address reachable from anywhere may be dialed from an offer.
SafeEndpoint(reach) == reach = "global"

\* The LAN address first when it is of our own subnet, else the outside address.
SelectCandidate(offer) == offer.lan = "samenet" \/ SafeEndpoint(offer.reflexive)

Considers ==
  /\ answering.at = "joined"
  /\ "offer" \in control
  /\ IF SelectCandidate(answering.offer)
       THEN control' = {"ready"} /\ DialerGoes("dialing")
       ELSE control' = {"decline"} /\ DialerGoes("relay")
  /\ UNCHANGED <<listening, lane>>

\* The dial completes once the listener takes it, and is given up after its time.
Dials ==
  /\ answering.at = "dialing"
  /\ \/ /\ lane = NoLane /\ listening.at \in {"offered", "accepting"}
        /\ lane' = [NoLane EXCEPT !.by = "peer", !.up = TRUE]
        /\ UNCHANGED answering
     \/ /\ lane.by = "peer" /\ lane.up
        /\ listening.at \in {"stream", "writing", "reading"}
        /\ DialerGoes("opening")
        /\ UNCHANGED lane
     \/ /\ DialerGoes("relay")
        /\ lane' = IF lane.by = "peer" THEN [lane EXCEPT !.up = FALSE] ELSE lane
  /\ UNCHANGED <<listening, control>>

OpensStream ==
  /\ answering.at = "opening"
  /\ lane.up
  /\ DialerGoes(IF NoiseInitiator("dialer") THEN "writing" ELSE "reading")
  /\ UNCHANGED <<listening, control, lane>>

DialerWrites ==
  /\ answering.at = "writing"
  /\ lane.up
  /\ lane' = [lane EXCEPT !.toListener = 1]
  /\ DialerGoes(IF NoiseInitiator("dialer") THEN "reading" ELSE "direct")
  /\ UNCHANGED <<listening, control>>

DialerReads ==
  /\ answering.at = "reading"
  /\ lane.up /\ lane.toDialer > 0
  /\ lane' = [lane EXCEPT !.toDialer = 0]
  /\ DialerGoes(IF NoiseInitiator("dialer") THEN "direct" ELSE "writing")
  /\ UNCHANGED <<listening, control>>

DialerFails ==
  /\ answering.at \in {"opening", "writing", "reading"}
  /\ ~lane.up
  /\ DialerGoes("relay")
  /\ UNCHANGED <<listening, control, lane>>

\* The direct connection is lost, or goes idle.
LaneDies ==
  /\ lane.up
  /\ lane' = [lane EXCEPT !.up = FALSE, !.toListener = 0, !.toDialer = 0]
  /\ UNCHANGED <<listening, answering, control>>

UpgradeNext ==
  \/ BuildsCandidate \/ QueryTarget \/ Offer \/ OlderPeerOffers \/ Answered
  \/ TakesDial \/ NoDialInTime \/ IncomingConnects \/ AcceptsStream \/ ListenerWrites \/ ListenerReads \/ ListenerFails
  \/ StrangerDials \/ StrangerWrites
  \/ Considers \/ Dials \/ OpensStream \/ DialerWrites \/ DialerReads \/ DialerFails
  \/ LaneDies

UpgradeSpec == UpgradeInit /\ [][UpgradeNext]_upgradeVars

-----------------------------------------------------------------------------
\* Once the two peers are in the handshake on a living direct connection, they
\* never both wait for the other to write: neither wait has a bound of its own
\* (connectivity.rs:356 accept_bi, :363 and :431 the two handshakes), so a pair
\* of roles that leaves nobody writing would hang the upgrade until the
\* connection goes idle, in an order the two functions only show together.
NeverBlockEachOther ==
  /\ UpgradeTypeOK
  /\ ( /\ lane.by = "peer" /\ lane.up
       /\ listening.at \in {"stream", "reading"}
       /\ answering.at = "reading" ) => lane.toListener + lane.toDialer > 0
=============================================================================
