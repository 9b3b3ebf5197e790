----------------------------- MODULE MC_Channel ------------------------------
(* Model checking of the parts of a channel member around its forwarding:      *)
(* joining, moving to a direct path, serving tools, stopping.  They share no    *)
(* state: a behaviour has one of them in focus, and the others stay as they     *)
(* started.                                                                     *)
EXTENDS ChannelJoin, DcutrJoin, RelayUpgrade, GateTransport, ShutdownDrain, Readiness, BridgeTools,
        ServiceCalls, OidcLogin

VARIABLE focus

Parts == {"join", "dcutr", "upgrade", "gate", "drain", "readiness", "bridge", "calls", "login"}

\* A forward member's own sessions are not counted: their transport makes no difference.
AllMembers == {m \in MemberKinds : m.quic \/ m.kind \in {"serve", "oneshot"}}

MCInit ==
  /\ focus \in Parts
  /\ JoinInit /\ (focus # "join" => setup = [slots |-> JoinSlots, mode |-> "relay"])
  /\ DcutrInit /\ (focus # "dcutr" =>
                     /\ knob.expires = CHOOSE e \in GrantEnds : TRUE
                     /\ ~knob.serve /\ ~knob.upgrade /\ ~knob.pin /\ knob.role = "accept")
  /\ UpgradeInit /\ (focus # "upgrade" => listening.seen = "none")
  /\ GateInit
  /\ Init /\ (focus # "drain" => member = CHOOSE m \in Members : TRUE)
  /\ ReadinessInit /\ (focus # "readiness" => accept)
  /\ BridgeInit /\ (focus # "bridge" =>
                      settings = [bridge |-> NoPeer, issuers |-> {}, any |-> FALSE,
                                  ownKnown |-> FALSE, noInstall |-> FALSE])
  /\ CallsInit /\ (focus # "calls" => ~caller.redials)
  /\ LoginInit /\ (focus # "login" => provider.rotates)

mcVars == <<focus, joinVars, dcutrVars, upgradeVars, gateVars, vars, readinessVars, bridgeVars,
            callVars, loginVars>>

JoinSteps == /\ focus = "join" /\ JoinNext
             /\ UNCHANGED <<focus, dcutrVars, upgradeVars, gateVars, vars, readinessVars, bridgeVars,
                            callVars, loginVars>>
DcutrSteps == /\ focus = "dcutr" /\ DcutrNext
              /\ UNCHANGED <<focus, joinVars, upgradeVars, gateVars, vars, readinessVars, bridgeVars,
                             callVars, loginVars>>
UpgradeSteps == /\ focus = "upgrade" /\ UpgradeNext
                /\ UNCHANGED <<focus, joinVars, dcutrVars, gateVars, vars, readinessVars, bridgeVars,
                               callVars, loginVars>>
GateSteps == /\ focus = "gate" /\ GateNext
             /\ UNCHANGED <<focus, joinVars, dcutrVars, upgradeVars, vars, readinessVars, bridgeVars,
                            callVars, loginVars>>
DrainSteps == /\ focus = "drain" /\ Next
              /\ UNCHANGED <<focus, joinVars, dcutrVars, upgradeVars, gateVars, readinessVars,
                             bridgeVars, callVars, loginVars>>
ReadinessSteps == /\ focus = "readiness" /\ ReadinessNext
                  /\ UNCHANGED <<focus, joinVars, dcutrVars, upgradeVars, gateVars, vars, bridgeVars,
                                 callVars, loginVars>>
BridgeSteps == /\ focus = "bridge" /\ BridgeNext
               /\ UNCHANGED <<focus, joinVars, dcutrVars, upgradeVars, gateVars, vars, readinessVars,
                              callVars, loginVars>>
CallSteps == /\ focus = "calls" /\ CallsNext
             /\ UNCHANGED <<focus, joinVars, dcutrVars, upgradeVars, gateVars, vars, readinessVars,
                            bridgeVars, loginVars>>
LoginSteps == /\ focus = "login" /\ LoginNext
              /\ UNCHANGED <<focus, joinVars, dcutrVars, upgradeVars, gateVars, vars, readinessVars,
                             bridgeVars, callVars>>

MCNext ==
  \/ JoinSteps \/ DcutrSteps \/ UpgradeSteps \/ GateSteps \/ DrainSteps
  \/ ReadinessSteps \/ BridgeSteps \/ CallSteps \/ LoginSteps

MCSpec == MCInit /\ [][MCNext]_mcVars
=============================================================================
