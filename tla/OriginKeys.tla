----------------------------- MODULE OriginKeys -----------------------------
(***************************************************************************)
(* The identity a serving agent presents (capability.rs): the Origin key   *)
(* and the capability that pins it, made on the first start, loaded on     *)
(* every later one together with the retired keys of the key directory,    *)
(* and replaced by rotate_origin_key.  An identity is a number; a key, a   *)
(* capability and the name of a retired key are the number of the identity *)
(* they belong to.  Each file is written whole and durably (AtomicFile),   *)
(* the two renames are not: a kill, an error or a power loss may fall      *)
(* between any two steps.  The files share a directory.                    *)
(***************************************************************************)
EXTENDS Naturals, FiniteSets

CONSTANT Identities  \* bound: identities made in a behaviour

ASSUME KeysAssumption == Identities \in Nat

VARIABLES
    pair,      \* key and capability, and their staged .new siblings; 0 = none
    before,    \* the directory as it was at each step since it was last synced
    retired,   \* the key directory: by the identity in the file's name, the key it holds
    job,       \* who replaces the pair (the first start, a rotation), how far, what it read and made
    agent,     \* how far its start is; the capability and the keys it serves; history: no
               \* rotation ran meanwhile, and torn as it was then
    made,      \* identities made so far
    known,     \* history: identities whose capability clients may hold
    torn       \* history: a rotation ended between its renames, and what came after it

keysVars == <<pair, before, retired, job, agent, made, known, torn>>

NoJob == [at |-> "none", first |-> FALSE, cap |-> 0, key |-> 0, new |-> 0]
Stopped == [at |-> "down", cap |-> 0, key |-> 0, keys |-> {}, calm |-> TRUE, torn |-> "no"]

KeysInit ==
    /\ pair = [key |-> 0, cap |-> 0, keyNew |-> 0, capNew |-> 0] /\ before = {}
    /\ retired = [i \in 1 .. Identities |-> 0]
    /\ job = NoJob /\ agent = Stopped
    /\ made = 0 /\ known = {} /\ torn = "no"

Working(at) == job.at = at
Moves(at) == job' = [job EXCEPT !.at = at]

-----------------------------------------------------------------------------
(* The agent's start: resolve_serving_identity_with_token. *)

\* resolve_primary_identity reads the key, then the capability ...
LoadsPrimary ==
    /\ agent.at = "down" /\ ~job.first
    /\ agent' = [Stopped EXCEPT !.at = "cap", !.key = pair.key, !.calm = job = NoJob]
    /\ UNCHANGED <<pair, before, retired, job, made, known, torn>>

\* ... and when both are there, they are its identity, whether or not they belong together.
LoadsCapability ==
    /\ agent.at = "cap" /\ agent.key # 0 /\ pair.cap # 0
    /\ agent' = [agent EXCEPT !.at = "dir", !.cap = pair.cap]
    /\ UNCHANGED <<pair, before, retired, job, made, known, torn>>

\* Otherwise a new identity is made, staged and promoted like a rotation's.
MakesFirst ==
    /\ agent.at = "cap" /\ (agent.key = 0 \/ pair.cap = 0)
    /\ job = NoJob /\ made < Identities
    /\ made' = made + 1
    /\ job' = [NoJob EXCEPT !.at = "stageKey", !.first = TRUE, !.new = made + 1]
    /\ agent' = [agent EXCEPT !.at = "first"]
    /\ UNCHANGED <<pair, before, retired, known, torn>>

\* load_extra_origin_keys: whatever the directory holds.  The capability in the file is the
\* operator's to hand out, once it is on the disk.
LoadsExtra ==
    /\ agent.at = "dir"
    /\ agent' = [agent EXCEPT !.at = "up", !.torn = torn,
                              !.keys = ({agent.key} \cup {retired[i] : i \in DOMAIN retired}) \ {0}]
    /\ known' = IF before = {} THEN known \cup {pair.cap} ELSE known
    /\ UNCHANGED <<pair, before, retired, job, made, torn>>

AgentStops ==
    /\ agent.at # "down" /\ ~job.first
    /\ agent' = Stopped
    /\ UNCHANGED <<pair, before, retired, job, made, known, torn>>

-----------------------------------------------------------------------------
(* rotate_origin_key, and the promotion it shares with the first start. *)

\* An agent that is starting meanwhile may read a bit of both.
Disturbs == agent' = IF agent.at \in {"cap", "dir"} THEN [agent EXCEPT !.calm = FALSE] ELSE agent

\* Both files must be there; the new identity keeps the token and the address.
RotationStarts ==
    /\ job = NoJob /\ pair.key # 0 /\ pair.cap # 0 /\ made < Identities
    /\ made' = made + 1
    /\ job' = [NoJob EXCEPT !.at = "retire", !.cap = pair.cap, !.key = pair.key, !.new = made + 1]
    /\ Disturbs
    /\ UNCHANGED <<pair, before, retired, known, torn>>

\* The key there is goes into the directory, under the name of the capability there is.
Retires ==
    /\ Working("retire")
    /\ retired' = [retired EXCEPT ![job.cap] = job.key]
    /\ torn' = IF torn \in {"cut", "cutAgain"} THEN "retried" ELSE torn
    /\ Moves("stageKey")
    /\ UNCHANGED <<pair, before, agent, made, known>>

StagesNewKey ==
    /\ Working("stageKey") /\ pair' = [pair EXCEPT !.keyNew = job.new] /\ before' = {}
    /\ Moves("stageCap") /\ UNCHANGED <<retired, agent, made, known, torn>>

StagesNewCap ==
    /\ Working("stageCap") /\ pair' = [pair EXCEPT !.capNew = job.new] /\ before' = {}
    /\ Moves("renameKey") /\ UNCHANGED <<retired, agent, made, known, torn>>

KeyIn == [pair EXCEPT !.key = pair.keyNew, !.keyNew = 0]
CapIn == [pair EXCEPT !.cap = pair.capNew, !.capNew = 0]

MovesIn(f, next) ==
    /\ pair' = f
    /\ before' = before \cup {pair}
    /\ Moves(next) /\ UNCHANGED <<retired, agent, made, known, torn>>

\* Mutation: the capability is promoted first.
PromotesCapFirst ==
    \/ Working("renameKey") /\ MovesIn(CapIn, "renameCap")
    \/ Working("renameCap") /\ MovesIn(KeyIn, "sync")

\* The renames: the key, then the capability.
PromotesPair ==
    \/ Working("renameKey") /\ MovesIn(KeyIn, "renameCap")
    \/ Working("renameCap") /\ MovesIn(CapIn, "sync")

\* sync_parent_dir and Ok: the rotation hands out the new capability, the first start serves it.
SyncsPair ==
    /\ Working("sync") /\ before' = {}
    /\ job' = NoJob
    /\ IF job.first
       THEN /\ agent' = [agent EXCEPT !.at = "dir", !.cap = job.new, !.key = job.new]
            /\ UNCHANGED <<known, torn>>
       ELSE /\ known' = known \cup {job.new}
            /\ torn' = IF torn = "no" THEN "no" ELSE "mended"
            /\ UNCHANGED agent
    /\ UNCHANGED <<pair, retired, made>>

\* The pair on disk is left a mixed one by a rotation that did not end.
Cut(f) == IF f.cap = 0 \/ f.key = f.cap THEN torn
          ELSE CASE torn = "no"     -> "cut"
                 [] torn = "mended" -> "cutAgain"
                 [] OTHER           -> torn

LeavesPair(f) ==
    /\ pair' = f /\ torn' = Cut(f)
    /\ job' = NoJob
    /\ agent' = IF job.first THEN Stopped ELSE agent
    /\ UNCHANGED <<retired, made, known>>

\* A write or a rename fails; only a capability that cannot be staged takes the staged key back.
JobFails ==
    /\ job # NoJob /\ UNCHANGED before
    /\ LeavesPair(IF Working("stageCap") THEN [pair EXCEPT !.keyNew = 0] ELSE pair)

JobKilled == job # NoJob /\ UNCHANGED before /\ LeavesPair(pair)

\* Everything stops, and renames that were not synced may be undone, the last first.
KeysPowerLoss ==
    \E f \in {pair} \cup before :
        /\ pair' = f /\ before' = {}
        /\ torn' = Cut(f)
        /\ job' = NoJob /\ agent' = Stopped
        /\ UNCHANGED <<retired, made, known>>

\* The operator ends the window, days long, of an identity that is not the published one.
WindowCloses(i) ==
    /\ job = NoJob /\ before = {} /\ retired[i] # 0 /\ i # pair.cap
    /\ retired' = [retired EXCEPT ![i] = 0]
    /\ known' = known \ {i}
    /\ UNCHANGED <<pair, before, job, agent, made, torn>>

KeysNext ==
    \/ LoadsPrimary \/ LoadsCapability \/ MakesFirst \/ LoadsExtra \/ AgentStops
    \/ RotationStarts \/ Retires \/ StagesNewKey \/ StagesNewCap \/ PromotesPair \/ SyncsPair
    \/ JobFails \/ JobKilled \/ KeysPowerLoss
    \/ \E i \in 1 .. Identities : WindowCloses(i)

KeysSpec == KeysInit /\ [][KeysNext]_keysVars

-----------------------------------------------------------------------------
(* Properties. *)

\* Wherever one rotation is cut (between the two renames too), and however many complete ones
\* surround it, an agent that starts afterwards serves the identity its own capability pins; and
\* every identity clients may still hold, until its window is closed or a cut rotation is tried
\* again.  (A start in the middle of a rotation is made good by the restart that follows it.)
OwnCapabilityServed ==
    agent.at = "up" /\ agent.calm =>
        /\ agent.torn \in {"no", "cut", "mended"} => agent.cap \in agent.keys
        /\ agent.torn \in {"no", "cut"} => \A i \in known : i <= agent.cap => i \in agent.keys
=============================================================================
