------------------------------- MODULE Onboard -------------------------------
(* Onboarding of an agent and its restart (onboard.rs, identity.rs).  A start   *)
(* restores identity and tenant from three files, or redeems a join token that  *)
(* works once and writes them: all three are staged under other names, then     *)
(* renamed one by one, then the directory is synced.  A crash keeps of the      *)
(* renames that were not synced any that it likes.                              *)
EXTENDS Naturals, FiniteSets

CONSTANTS
  AgentIds,      \* agent ids an operator configures
  Redemptions    \* bound: join tokens issued, each a fresh identity

ASSUME OnboardAssumption == Redemptions \in Nat /\ AgentIds # {}

VARIABLES
  starter,     \* the running start: where it is, its agent id, what it has
  stateDir,    \* the names in the state directory, and what a crash may bring back
  registry,    \* the control plane: the agent and tenant of each redeemed identity
  halfway      \* a start that stopped between its first rename and the sync

onboardVars == <<starter, stateDir, registry, halfway>>

Nothing == 0

Names == {"identity", "agent", "tenant"}

\* What a file holds: the redemption it comes from; the agent file's text is the
\* id that redemption was made for.
NoStart == [at |-> "down", id |-> CHOOSE a \in AgentIds : TRUE, identity |-> Nothing,
            tenant |-> Nothing]

\* The state is of the kinds declared above.
OnboardTypeOK ==
  /\ starter.at \in {"down", "restore", "agent", "redeem", "stage", "staged", "renamed1", "renamed2",
                     "renamed3", "running", "failed"}
  /\ starter.id \in AgentIds
  /\ stateDir \in [names : [Names -> 0 .. Redemptions], older : [Names -> 0 .. Redemptions],
                   staged : [Names -> 0 .. Redemptions]]
  /\ registry \in [1 .. Redemptions -> AgentIds \cup {"unused"}]
  /\ halfway \in BOOLEAN

NoFiles == [n \in Names |-> Nothing]

OnboardInit ==
  /\ starter = NoStart
  /\ stateDir = [names |-> NoFiles, older |-> NoFiles, staged |-> NoFiles]
  /\ registry = [r \in 1 .. Redemptions |-> "unused"]
  /\ halfway = FALSE

StarterGoes(to) == starter' = [starter EXCEPT !.at = to]

\* OnboardEnv: a start with some agent id.
StartsAs ==
  /\ starter.at = "down"
  /\ \E a \in AgentIds : starter' = [NoStart EXCEPT !.at = "restore", !.id = a]
  /\ UNCHANGED <<stateDir, registry, halfway>>

\* Without an identity file there is nothing to restore.
LooksForIdentity ==
  /\ starter.at = "restore"
  /\ StarterGoes(IF stateDir.names["identity"] = Nothing THEN "redeem" ELSE "agent")
  /\ UNCHANGED <<stateDir, registry, halfway>>

\* The agent file must be there and name this agent; then the key and the tenant
\* are taken from theirs, and a file that is missing is an error.
Restores ==
  /\ starter.at = "agent"
  /\ LET of == stateDir.names["agent"]
     IN CASE of = Nothing -> StarterGoes("failed")
          [] of # Nothing /\ registry[of] # starter.id -> StarterGoes("redeem")
          [] of # Nothing /\ registry[of] = starter.id ->
               IF stateDir.names["tenant"] = Nothing THEN StarterGoes("failed")
               ELSE starter' = [starter EXCEPT !.at = "running",
                                  !.identity = stateDir.names["identity"],
                                  !.tenant = stateDir.names["tenant"]]
  /\ UNCHANGED <<stateDir, registry, halfway>>

\* A fresh identity signs the token; the control plane takes each token once.
Redeems ==
  /\ starter.at = "redeem"
  /\ \/ \E r \in 1 .. Redemptions :
          /\ registry[r] = "unused"
          /\ registry' = [registry EXCEPT ![r] = starter.id]
          /\ starter' = [starter EXCEPT !.at = "stage", !.identity = r, !.tenant = r]
     \/ StarterGoes("failed") /\ UNCHANGED registry
  /\ UNCHANGED <<stateDir, halfway>>

\* Mutation: the files are written under their own names at once.
StagesInPlace ==
  /\ starter.at = "stage"
  /\ \E done \in SUBSET Names :
       /\ stateDir' = [stateDir EXCEPT !.names = [n \in Names |->
                          IF n \in done THEN starter.identity ELSE @[n]],
                        !.staged = [n \in Names |-> starter.identity]]
       /\ StarterGoes(IF done = Names THEN "staged" ELSE "failed")
  /\ UNCHANGED <<registry, halfway>>

\* All three files under other names, or, when one cannot be written, none.
Stages ==
  /\ starter.at = "stage"
  /\ \/ /\ stateDir' = [stateDir EXCEPT !.staged = [n \in Names |-> starter.identity]]
        /\ StarterGoes("staged")
     \/ /\ stateDir' = [stateDir EXCEPT !.staged = NoFiles]
        /\ StarterGoes("failed")
  /\ UNCHANGED <<registry, halfway>>

Renamed(n) == stateDir' = [stateDir EXCEPT !.names[n] = stateDir.staged[n],
                                           !.staged[n] = Nothing]

\* The identity, the agent, the tenant; a rename that fails stops there.
RenamesNext ==
  /\ \/ starter.at = "staged" /\ Renamed("identity") /\ StarterGoes("renamed1")
     \/ starter.at = "renamed1" /\ Renamed("agent") /\ StarterGoes("renamed2")
     \/ starter.at = "renamed2" /\ Renamed("tenant") /\ StarterGoes("renamed3")
  /\ UNCHANGED <<registry, halfway>>

RenameFails ==
  /\ starter.at \in {"staged", "renamed1", "renamed2", "renamed3"}
  /\ StarterGoes("failed")
  /\ halfway' = (halfway \/ starter.at # "staged")
  /\ UNCHANGED <<stateDir, registry>>

SyncsStateDir ==
  /\ starter.at = "renamed3"
  /\ stateDir' = [stateDir EXCEPT !.older = stateDir.names]
  /\ StarterGoes("running")
  /\ halfway' = FALSE
  /\ UNCHANGED registry

\* The machine or the process stops; of each name the older file may come back.
Crashes ==
  /\ starter.at # "down"
  /\ \E back \in SUBSET Names :
       LET kept == [n \in Names |-> IF n \in back THEN stateDir.older[n] ELSE stateDir.names[n]]
       IN stateDir' = [stateDir EXCEPT !.names = kept, !.older = kept]
  /\ halfway' = (halfway \/ starter.at \in {"renamed1", "renamed2", "renamed3"})
  /\ starter' = NoStart
  /\ UNCHANGED registry

Exits ==
  /\ starter.at \in {"running", "failed"}
  /\ starter' = NoStart
  /\ UNCHANGED <<stateDir, registry, halfway>>

OnboardNext ==
  \/ StartsAs \/ LooksForIdentity \/ Restores \/ Redeems \/ Stages \/ RenamesNext \/ RenameFails
  \/ SyncsStateDir \/ Crashes \/ Exits

OnboardSpec == OnboardInit /\ [][OnboardNext]_onboardVars

-----------------------------------------------------------------------------
\* An agent that runs has the identity and the tenant of one redemption, made for
\* its own agent id, whatever failed or crashed before, except when an earlier
\* start stopped between its first rename and its sync: the window the three
\* renames leave open (onboard.rs:196-208) is the only one.
RunsAsOneOnboarding ==
  /\ OnboardTypeOK
  /\ (starter.at = "running" /\ ~halfway) =>
       /\ starter.identity = starter.tenant
       /\ registry[starter.identity] = starter.id
=============================================================================
