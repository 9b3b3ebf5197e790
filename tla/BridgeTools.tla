----------------------------- MODULE BridgeTools -----------------------------
(* What a channel session of this agent is connected to (channel_local in       *)
(* channel_run/service_calls.rs), the tools a serving agent offers its peers    *)
(* over it, and the revocation of grants (channel_run/grant_revoke.rs).  Peers  *)
(* call at the same time, each in a session of its own; a tool checks who calls *)
(* and what for, then asks the control plane, whose answer may be lost.  The    *)
(* control plane, the manifest engine and the operator's signatures are         *)
(* external.                                                                    *)
EXTENDS Naturals, FiniteSets

CONSTANTS
  Peers,        \* members of the channel that call tools
  Channels,     \* channels the operator signs for
  OwnChannel,   \* the one this agent serves
  ToolCalls     \* bound: calls and sessions started

ASSUME BridgeAssumption == OwnChannel \in Channels /\ ToolCalls \in Nat

VARIABLES
  settings,    \* the environment the agent was started with
  call,        \* each peer's call
  minted,      \* grants issued, with their channel and holder
  revocations, \* the control plane's list of revoked grants
  claims,      \* the channels and peers of the control plane's allow-list
  installs,    \* peers whose install was carried out
  told,        \* grants somebody was told are revoked
  inputCell,   \* INPUT: standard input, once the first one-shot session has read it
  made         \* calls and sessions so far

bridgeVars ==
  <<settings, call, minted, revocations, claims, installs, told, inputCell, made>>

Grants == [channel : Channels, holder : Peers]

\* Tools for the configured bridge peer that read, and those that change something.
ReadingTools == {"status", "config", "members", "allowlist-list", "manifest-list", "manifest-plan"}
ChangingTools == {"revoke", "allowlist-add", "allowlist-remove", "manifest-install"}
Tools == ReadingTools \cup ChangingTools \cup {"grant"}

NoPeer == "nobody"

Settings == [bridge : Peers \cup {NoPeer}, issuers : SUBSET Peers, any : BOOLEAN,
             ownKnown : BOOLEAN, noInstall : BOOLEAN]

NoCall == [at |-> "idle", tool |-> "status", grant |-> CHOOSE g \in Grants : TRUE]

\* The state is of the kinds declared above.
BridgeTypeOK ==
  /\ settings \in Settings
  /\ \A p \in Peers : call[p].at \in {"idle", "check", "ask"} /\ call[p].tool \in Tools
                      /\ call[p].grant \in Grants
  /\ minted \subseteq Grants /\ revocations \subseteq Grants /\ told \subseteq Grants
  /\ claims \subseteq Channels \X Peers
  /\ installs \subseteq Peers
  /\ inputCell \in {"empty", "text"}
  /\ made \in 0 .. ToolCalls

BridgeInit ==
  /\ settings \in {s \in Settings : s.issuers = {} \/ s.issuers = {s.bridge} \/ s.bridge = NoPeer}
  /\ call = [p \in Peers |-> NoCall]
  /\ minted = {} /\ revocations = {} /\ claims = {} /\ installs = {} /\ told = {}
  /\ inputCell = "empty" /\ made = 0

-----------------------------------------------------------------------------
(* What a session is connected to.                                              *)

LocalModes == <<"forward", "forward-accept", "call-service", "call-service-once", "call",
                "stream", "serve", "pipe">>

\* The first mode that is configured, in this order; a pipe when none is.
ChannelLocal(configured) ==
  LET ranks == {i \in 1 .. 8 : LocalModes[i] \in configured \cup {"pipe"}}
  IN LocalModes[CHOOSE i \in ranks : \A j \in ranks : i <= j]

\* A session of a one-shot caller, also when it is dialed again: standard input can
\* be read to its end once, so the first session keeps it for the later ones.
OneShotSession ==
  /\ made < ToolCalls
  /\ \E configured \in {{"call-service-once"}, {"call-service-once", "serve"}, {"serve"}} :
       IF ChannelLocal(configured) = "call-service-once"
         THEN inputCell' = "text"
         ELSE UNCHANGED inputCell
  /\ made' = made + 1
  /\ UNCHANGED <<settings, call, minted, revocations, claims, installs, told>>

-----------------------------------------------------------------------------
(* The tools.                                                                   *)

\* GrantIssuers: the configured issuers, else the bridge peer.
GrantIssuers ==
  IF settings.issuers # {} THEN settings.issuers ELSE {settings.bridge} \ {NoPeer}

\* GrantScope: this agent's own channel, when it knows it, unless set to sign for any.
GrantScope(channel) == settings.any \/ (settings.ownKnown /\ channel = OwnChannel)

\* The tools a serving agent has: the bridge's with a bridge peer, the grant tool with
\* the operator's key.
Offered == {"grant"} \cup (IF settings.bridge = NoPeer THEN {} ELSE ReadingTools \cup ChangingTools)

Calls(p) ==
  /\ call[p].at = "idle" /\ made < ToolCalls
  /\ \E tool \in Offered, grant \in Grants :
       /\ tool \notin {"grant", "revoke"} => grant = NoCall.grant
       /\ call' = [call EXCEPT ![p] = [at |-> "check", tool |-> tool, grant |-> grant]]
  /\ made' = made + 1
  /\ UNCHANGED <<settings, minted, revocations, claims, installs, told, inputCell>>

\* Who may call what, before anything is done.
Permitted(p) ==
  LET c == call[p]
  IN IF c.tool = "grant" THEN p \in GrantIssuers /\ GrantScope(c.grant.channel)
     ELSE /\ p = settings.bridge
          /\ c.tool = "manifest-install" => ~settings.noInstall
          /\ c.tool = "revoke" => settings.ownKnown /\ c.grant.channel = OwnChannel

Finish(p) == call' = [call EXCEPT ![p] = NoCall]

Checks(p) ==
  /\ call[p].at = "check"
  /\ IF Permitted(p) THEN call' = [call EXCEPT ![p].at = "ask"] ELSE Finish(p)
  /\ UNCHANGED <<settings, minted, revocations, claims, installs, told, inputCell, made>>

\* The agent signs the grant itself; nobody else is asked.
IssuesGrant(p) ==
  /\ call[p].at = "ask" /\ call[p].tool = "grant"
  /\ minted' = minted \cup {call[p].grant}
  /\ Finish(p)
  /\ UNCHANGED <<settings, revocations, claims, installs, told, inputCell, made>>

\* Mutation: any answer of status 200 passes for a revocation.
InterpretAny(status, confirms) == status = 200

\* Only a 200 that says the grant is revoked, or already was, is a success.
Interpret(status, confirms) == status = 200 /\ confirms

\* What the control plane does with a revocation, and what comes back: it may do it
\* and the answer be lost, refuse it, or be too old to keep a list and say 200.
RevocationAnswers ==
  { [done |-> TRUE,  status |-> 200, confirms |-> TRUE],
    [done |-> TRUE,  status |-> 0,   confirms |-> FALSE],
    [done |-> FALSE, status |-> 200, confirms |-> FALSE],
    [done |-> FALSE, status |-> 403, confirms |-> FALSE] }

PostsRevocation(grant) ==
  \E answer \in RevocationAnswers :
    /\ revocations' = IF answer.done THEN revocations \cup {grant} ELSE revocations
    /\ told' = IF Interpret(answer.status, answer.confirms) THEN told \cup {grant} ELSE told

\* bridge/channel-revoke, with the owner's login.
RevokesAsOwner(p) ==
  /\ call[p].at = "ask" /\ call[p].tool = "revoke"
  /\ PostsRevocation(call[p].grant)
  /\ Finish(p)
  /\ UNCHANGED <<settings, minted, claims, installs, inputCell, made>>

\* `channel grant-revoke`: the operator's key signs it, for any grant that key issued,
\* by a tool or by hand.
RevokesAsOperator ==
  /\ made < ToolCalls
  /\ \E grant \in Grants : PostsRevocation(grant)
  /\ made' = made + 1
  /\ UNCHANGED <<settings, call, minted, claims, installs, inputCell>>

\* The allow-list of the agent's own channel; the login may fail, or the request.
ChangesAllowlist(p) ==
  /\ call[p].at = "ask" /\ call[p].tool \in {"allowlist-add", "allowlist-remove"}
  /\ \/ UNCHANGED claims
     \/ /\ settings.ownKnown
        /\ \E holder \in Peers :
             claims' = IF call[p].tool = "allowlist-add"
                         THEN claims \cup {<<OwnChannel, holder>>}
                         ELSE claims \ {<<OwnChannel, holder>>}
  /\ Finish(p)
  /\ UNCHANGED <<settings, minted, revocations, installs, told, inputCell, made>>

\* run_activate with the caller's manifest and the agent's own trust.
InstallsManifest(p) ==
  /\ call[p].at = "ask" /\ call[p].tool = "manifest-install"
  /\ installs' \in {installs, installs \cup {p}}
  /\ Finish(p)
  /\ UNCHANGED <<settings, minted, revocations, claims, told, inputCell, made>>

\* Status, configuration, members, lists and plans change nothing.
ReadsOnly(p) ==
  /\ call[p].at = "ask" /\ call[p].tool \in ReadingTools
  /\ Finish(p)
  /\ UNCHANGED <<settings, minted, revocations, claims, installs, told, inputCell, made>>

BridgeNext ==
  \/ OneShotSession \/ RevokesAsOperator
  \/ \E p \in Peers : Calls(p) \/ Checks(p) \/ IssuesGrant(p) \/ RevokesAsOwner(p)
                      \/ ChangesAllowlist(p) \/ InstallsManifest(p) \/ ReadsOnly(p)

BridgeSpec == BridgeInit /\ [][BridgeNext]_bridgeVars

-----------------------------------------------------------------------------
\* A grant that anybody was told is revoked is on the control plane's list, by
\* whichever of the two routes, after retries and lost answers, and with a control
\* plane that answers 200 and keeps no list (grant_revoke.rs:180-196): whoever
\* reads "revoked" stops looking for that member.
ToldIsRevoked == told \subseteq revocations

\* However peers call, and whoever is given a grant and calls again with it, an
\* agent that was not set to sign for any channel issues grants for its own only,
\* and its allow-list calls stay there too (service_calls.rs:1286-1352, #174).
StaysInOwnChannel ==
  /\ ~settings.any => \A g \in minted : g.channel = OwnChannel
  /\ \A c \in claims : c[1] = OwnChannel

\* The bridge reports a revocation only when there was one, and acts for its own channel only.
BridgeHonest == BridgeTypeOK /\ ToldIsRevoked /\ StaysInOwnChannel
=============================================================================
