----------------------------- MODULE DirectPath -----------------------------
(***************************************************************************)
(* The direct listener (serve.rs): anyone who knows its address may        *)
(* connect, up to a cap; a connection has one deadline for the QUIC        *)
(* handshake, its first stream, the Noise handshake with its token check   *)
(* and the local-auth gate, and is then bridged to the Origin for as long  *)
(* as it lasts.  The revocation view is the one the registration loop      *)
(* keeps (TunnelAgent).                                                    *)
(***************************************************************************)
EXTENDS Naturals, FiniteSets

CONSTANTS
    Direct,          \* connections
    MaxConnections,  \* DirectLimits: max_connections
    SetupTime,       \* setup_timeout
    LingerTime       \* linger

ASSUME DirectAssumption == {MaxConnections, SetupTime, LingerTime} \subseteq Nat \ {0}

VARIABLES
    direct,    \* per connection: where its task is, the time left to it, whether its peer
               \* is authenticated, and (history) how long it has held its slot without
    view,      \* RevocationView::is_revoked
    policy,    \* require_token, the gate's mode, the Origin's protocol
    listening  \* the accept loop runs (DirectListener)

directVars == <<direct, view, policy, listening>>

Payloads == {"own", "other", "legacy", "malformed"}
Outside == [at |-> "none", left |-> 0, auth |-> FALSE, held |-> 0]
Ending == [Outside EXCEPT !.at = "done"]
Incoming == [Outside EXCEPT !.at = "quic", !.left = SetupTime]

\* A connection's task holds its slot until it has ended.
SlotsTaken == {c \in Direct : direct[c].at \notin {"none", "done"}}
Unauthenticated == {"quic", "stream", "noise", "gate"}

DirectInit ==
    /\ direct = [c \in Direct |-> Outside]
    /\ view = FALSE
    /\ policy \in [require : BOOLEAN, gate : {"off", "http", "text"}, udp : BOOLEAN]
    /\ listening = TRUE

Sets(c, r) == direct' = [direct EXCEPT ![c] = r] /\ UNCHANGED <<view, policy, listening>>
Enters(c, at) == Sets(c, [direct[c] EXCEPT !.at = at])

\* The accept loop, its finished tasks reaped: refused at the cap, or a task with its deadline.
Accepts(c) ==
    /\ listening /\ direct[c].at = "none"
    /\ Sets(c, IF Cardinality(SlotsTaken) >= MaxConnections THEN Ending
               ELSE Incoming)

\* incoming.await, accept_bi.
DirectConnects(c) == direct[c].at = "quic" /\ Enters(c, "stream")
OpensStream(c) == direct[c].at = "stream" /\ Enters(c, "noise")

\* DirectTokenPolicy::decide, the view first.
Decides(says) ==
    /\ ~view
    /\ says = "own" \/ (says = "legacy" /\ ~policy.require)

\* PreAuth::lift.
Gated == ~policy.udp /\ policy.gate # "off"
Admits(c) == Sets(c, [direct[c] EXCEPT !.at = "dial", !.left = 0, !.auth = TRUE, !.held = 0])

\* Mutation: the gate gets a time of its own.
PassesNoiseAnew(c, says) ==
    /\ direct[c].at = "noise"
    /\ Decides(says)
    /\ IF Gated THEN Sets(c, [direct[c] EXCEPT !.at = "gate", !.left = SetupTime]) ELSE Admits(c)

\* Message 1, judged before message 2 is written; a UDP Origin has no gate.
PassesNoise(c, says) ==
    /\ direct[c].at = "noise"
    /\ Decides(says)
    /\ IF Gated THEN Enters(c, "gate") ELSE Admits(c)

\* Refused: the connection is closed at once.  So is one whose handshake fails.
RefusedNoise(c, says) == direct[c].at = "noise" /\ ~Decides(says) /\ Sets(c, Ending)

\* run_local_auth_gate: a credential or a cookie that is good lifts the deadline ...
PassesGate(c) == direct[c].at = "gate" /\ Admits(c)

\* ... a share link's 302 ends the session well, and a rejection ends it badly.
GateAnswers(c) ==
    /\ direct[c].at = "gate" /\ policy.gate = "http"
    /\ Sets(c, [direct[c] EXCEPT !.at = "linger", !.left = LingerTime, !.auth = TRUE, !.held = 0])

\* A read, a write, the gate, the dial or the pump fails: closed without lingering.
FailsAtOnce(c) == direct[c].at \in Unauthenticated \cup {"dial", "pump"} /\ Sets(c, Ending)

\* connect_origin, and the bridge until one side ends it.
DialsOrigin(c) == direct[c].at = "dial" /\ Enters(c, "pump")
Served(c) == direct[c].at = "pump" /\ Sets(c, [direct[c] EXCEPT !.at = "linger", !.left = LingerTime])

\* The client closes within its time, or the agent does.
LingerEnds(c) == direct[c].at = "linger" /\ Sets(c, Ending)

\* DirectListener: aborting the accept loop aborts the connections it accepted.
ListenerAborts ==
    /\ listening
    /\ listening' = FALSE
    /\ direct' = [c \in Direct |-> Ending]
    /\ UNCHANGED <<view, policy>>

\* The registration loop learns of a revocation, or of an accepted registration.
ViewChanges == view' = ~view /\ UNCHANGED <<direct, policy, listening>>

\* timeout_at, PreAuth and the linger's timeout all wake the task.
Overdue(c) == direct[c].at \in Unauthenticated \cup {"linger"} /\ direct[c].left = 0

DirectTick ==
    /\ SlotsTaken # {} /\ \A c \in Direct : ~Overdue(c)
    /\ direct' = [c \in Direct |->
         [direct[c] EXCEPT !.left = IF direct[c].at \in Unauthenticated \cup {"linger"} THEN @ - 1 ELSE @,
                           !.held = IF c \in SlotsTaken /\ ~direct[c].auth THEN @ + 1 ELSE @]]
    /\ UNCHANGED <<view, policy, listening>>

DirectNext ==
    \/ \E c \in Direct :
         \/ Accepts(c) \/ DirectConnects(c) \/ OpensStream(c) \/ PassesGate(c) \/ GateAnswers(c)
         \/ FailsAtOnce(c) \/ DialsOrigin(c) \/ Served(c) \/ LingerEnds(c)
         \/ \E says \in Payloads : PassesNoise(c, says) \/ RefusedNoise(c, says)
    \/ ListenerAborts \/ ViewChanges \/ DirectTick

DirectSpec == DirectInit /\ [][DirectNext]_directVars

-----------------------------------------------------------------------------
(* Properties. *)

\* A peer that has not authenticated itself, wherever it stalls and however it fails, keeps its
\* slot of the listener no longer than setup_timeout in all (serve_direct_within, PreAuth).
StrangersHoldBriefly == \A c \in SlotsTaken : ~direct[c].auth => direct[c].held <= SetupTime
=============================================================================
