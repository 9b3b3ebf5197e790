------------------------------- MODULE MC_Host -------------------------------
(* Model checking of what an agent runs and keeps on its own machine: its files, *)
(* its binary, its login doors, its events and the loop of a serving member.     *)
(* The parts share no state: a behaviour has one of them in focus, and the       *)
(* others stay as they started.                                                  *)
EXTENDS SecretFile, SelfUpdate, Onboard, Activation, OriginTls, EventRing, RateLimiter, LinkStore,
        ServeLoop, OriginKeys

VARIABLE focus

\* Two addresses of one name server's host, and one of another's.
MCHostOf(a) == IF a = "b1" THEN "b" ELSE "a"

Man(t, d) == [signed |-> TRUE, tag |-> t, digest |-> d]
NoMan == [signed |-> FALSE, tag |-> 0, digest |-> "none"]

\* What the release page shows: two releases as published, one without its checksums, and an
\* older release served under a newer tag.
MCSigned == {<<2, "a2">>, <<3, "a3">>}
MCReleases ==
  { [tag |-> 2, sha |-> "a2",   man |-> Man(2, "a2"), asset |-> "a2"],
    [tag |-> 3, sha |-> "a3",   man |-> Man(3, "a3"), asset |-> "a3"],
    [tag |-> 3, sha |-> "none", man |-> NoMan,        asset |-> "a3"],
    [tag |-> 3, sha |-> "a2",   man |-> Man(2, "a2"), asset |-> "a2"] }

Parts == {"secret", "update", "onboard", "activation", "cert", "origin", "ring", "limiter",
          "links", "serve", "keys"}

MCInit ==
  /\ focus \in Parts
  /\ SecretInit /\ KeysInit /\ OnboardInit /\ RingInit /\ LimiterInit /\ LinkInit
  /\ UpdateInit /\ (focus # "update" =>
                      /\ machine = [windows |-> FALSE, pinned |-> FALSE, verify |-> FALSE]
                      /\ release = CHOOSE r \in MCReleases : TRUE)
  /\ ActivationInit /\ (focus # "activation" => ~bundle.there)
  /\ OriginInit
  /\ Init /\ (focus # "serve" => own = (CHOOSE e \in Expiries : TRUE) /\ max = 1)

mcVars == <<focus, secretVars, updateVars, onboardVars, activationVars, originVars, ringVars,
            limiterVars, linkVars, keysVars, vars>>

SecretSteps == /\ focus = "secret" /\ SecretNext
               /\ UNCHANGED <<focus, updateVars, onboardVars, activationVars, originVars,
                             ringVars, limiterVars, linkVars, keysVars, vars>>
HostSteps == /\ focus = "update" /\ UpdateNext
             /\ UNCHANGED <<focus, secretVars, onboardVars, activationVars, originVars,
                           ringVars, limiterVars, linkVars, keysVars, vars>>
OnboardSteps == /\ focus = "onboard" /\ OnboardNext
                /\ UNCHANGED <<focus, secretVars, updateVars, activationVars, originVars,
                              ringVars, limiterVars, linkVars, keysVars, vars>>
ActivationSteps == /\ focus = "activation" /\ ActivationNext
                   /\ UNCHANGED <<focus, secretVars, updateVars, onboardVars, originVars,
                                 ringVars, limiterVars, linkVars, keysVars, vars>>
\* The zone is watched over two orders; beside the terminator, where only the public resolvers are
\* asked and what a name server would serve is never read, three orders go by.
CertOrderSteps == /\ focus = "cert" /\ CertNext /\ issue'.order < Orders
                  /\ UNCHANGED <<focus, term, conn, secretVars, updateVars, onboardVars,
                                activationVars, ringVars, limiterVars, linkVars, keysVars, vars>>
OriginSteps == /\ focus = "origin" /\ OriginNext /\ zone'.serves = zone.serves /\ zone'.asked = {}
               /\ UNCHANGED <<focus, secretVars, updateVars, onboardVars, activationVars,
                             ringVars, limiterVars, linkVars, keysVars, vars>>
RingSteps == /\ focus = "ring" /\ RingNext
             /\ UNCHANGED <<focus, secretVars, updateVars, onboardVars, activationVars,
                           originVars, limiterVars, linkVars, keysVars, vars>>
LimiterSteps == /\ focus = "limiter" /\ LimiterNext
                /\ UNCHANGED <<focus, secretVars, updateVars, onboardVars, activationVars,
                              originVars, ringVars, linkVars, keysVars, vars>>
LinkSteps == /\ focus = "links" /\ LinkNext
             /\ UNCHANGED <<focus, secretVars, updateVars, onboardVars, activationVars,
                           originVars, ringVars, limiterVars, keysVars, vars>>
ServeSteps == /\ focus = "serve" /\ Next
              /\ UNCHANGED <<focus, secretVars, updateVars, onboardVars, activationVars,
                            originVars, ringVars, limiterVars, linkVars, keysVars>>

KeySteps == /\ focus = "keys" /\ KeysNext
            /\ UNCHANGED <<focus, secretVars, updateVars, onboardVars, activationVars, originVars,
                          ringVars, limiterVars, linkVars, vars>>

MCNext ==
  \/ SecretSteps \/ HostSteps \/ OnboardSteps \/ ActivationSteps
  \/ CertOrderSteps \/ OriginSteps \/ RingSteps \/ LimiterSteps \/ LinkSteps \/ ServeSteps \/ KeySteps

MCSpec == MCInit /\ [][MCNext]_mcVars
=============================================================================
