------------------------------ MODULE MC_Tunnel ------------------------------
(* Model checking of the parts between this agent, the edge and a client.  They *)
(* share no state: a behaviour has one of them in focus, and the others stay as *)
(* they started.                                                                *)
EXTENDS FramedRelay, TunnelAgent, DirectPath, MasqueTunnel, EdgeLink, SuperPeer, SshAccess

VARIABLE focus

\* Datagrams on both sides of the longest value a one-byte integer holds.
MCOutgoing == <<62, 63, 1>>

Parts == {"relay", "tunnel", "direct", "masque", "edgeLink", "super", "ssh"}

MCInit ==
  /\ focus \in Parts
  /\ RelayInit /\ MasqueInit /\ EdgeLinkInit
  /\ TunnelInit /\ (focus # "tunnel" => ~agent.only)
  /\ DirectInit /\ (focus # "direct" => policy = [require |-> FALSE, gate |-> "off", udp |-> FALSE])
  /\ SuperInit
  /\ SshInit /\ (focus # "ssh" => setting = [asks |-> FALSE, key |-> "none"])

mcVars == <<focus, relayVars, tunnelVars, directVars, masqueVars, edgeLinkVars, superVars, sshVars>>

RelaySteps == /\ focus = "relay" /\ RelayNext
              /\ UNCHANGED <<focus, tunnelVars, directVars, masqueVars, edgeLinkVars, superVars, sshVars>>
TunnelSteps == /\ focus = "tunnel" /\ TunnelNext
               /\ UNCHANGED <<focus, relayVars, directVars, masqueVars, edgeLinkVars, superVars, sshVars>>
DirectSteps == /\ focus = "direct" /\ DirectNext
               /\ UNCHANGED <<focus, relayVars, tunnelVars, masqueVars, edgeLinkVars, superVars, sshVars>>
MasqueSteps == /\ focus = "masque" /\ MasqueNext
               /\ UNCHANGED <<focus, relayVars, tunnelVars, directVars, edgeLinkVars, superVars, sshVars>>
EdgeLinkSteps == /\ focus = "edgeLink" /\ EdgeLinkNext
                 /\ UNCHANGED <<focus, relayVars, tunnelVars, directVars, masqueVars, superVars, sshVars>>

SuperSteps == /\ focus = "super" /\ SuperNext
              /\ UNCHANGED <<focus, relayVars, tunnelVars, directVars, masqueVars, edgeLinkVars, sshVars>>
SshSteps == /\ focus = "ssh" /\ SshNext
            /\ UNCHANGED <<focus, relayVars, tunnelVars, directVars, masqueVars, edgeLinkVars, superVars>>

MCNext ==
  \/ RelaySteps \/ TunnelSteps \/ DirectSteps \/ MasqueSteps \/ EdgeLinkSteps
  \/ SuperSteps \/ SshSteps

MCSpec == MCInit /\ [][MCNext]_mcVars
=============================================================================
