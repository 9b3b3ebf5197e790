------------------------------ MODULE Activation ------------------------------
(***************************************************************************)
(* Service manifests (manifest_run/mod.rs) and the harness that runs tasks *)
(* over an activated bundle (harness_run/mod.rs): a manifest is created,   *)
(* signed and published; an activation claims a directory, has the         *)
(* installer engine unpack and start the bundle there, and leaves a marker *)
(* that binds the directory to the manifest; `harness run` checks the      *)
(* marker before it hands the directory to a task.  Nothing locks the      *)
(* directory: a `ct-agent manifest activate` and the bridge's installs may *)
(* be in it at once.  The installer engine and the registry are external.  *)
(* One project name, one directory.                                        *)
(***************************************************************************)
EXTENDS Naturals, FiniteSets

CONSTANTS
    Activators, \* commands and bridge calls that activate into the directory
    Manifests,
    NoManifest,
    Activations \* bound: activations and tasks started in a behaviour

ASSUME ActivationAssumption == NoManifest \notin Manifests /\ Activations \in Nat

VARIABLES
    shelf,     \* per manifest: "none", "draft", "signed" or "published"
    expired,   \* manifests past their expires_at
    bundle,    \* the directory: there, whose files it holds, whose install passed on what it holds,
               \* its marker, and (history) whether a second activation found it empty in another's hands
    activator, \* per activator: where run_activate is and its manifest
    task,      \* `harness run`: its manifest, where it is, whether it accepts an unmarked directory
    ledger,    \* manifests the registry's activation ledger was told of
    started    \* activations and tasks so far

activationVars == <<shelf, expired, bundle, activator, task, ledger, started>>

Absent == [there |-> FALSE, of |-> {}, installed |-> {}, marker |-> "none", named |-> NoManifest,
           crowded |-> FALSE]
Idle == [at |-> "idle", m |-> NoManifest]
NoTask == [at |-> "idle", m |-> NoManifest, lax |-> FALSE]

ActivationInit ==
    /\ shelf = [m \in Manifests |-> "none"] /\ expired = {}
    /\ bundle \in {Absent, [Absent EXCEPT !.there = TRUE]}
    /\ activator = [a \in Activators |-> Idle]
    /\ task = NoTask /\ ledger = {} /\ started = 0

Empty == bundle.of = {} /\ bundle.marker = "none"
Valid(m) == shelf[m] = "published" /\ m \notin expired
Steps(a, to) == activator' = [activator EXCEPT ![a].at = to]
Leaves(a) == activator' = [activator EXCEPT ![a] = Idle]

\* CreateConfig::unsigned, sign_manifest (which refuses a manifest that could never be valid) and
\* run_publish (which refuses an expired one, and whose request may fail).
Creates(m) ==
    /\ shelf[m] = "none" /\ shelf' = [shelf EXCEPT ![m] = "draft"]
    /\ UNCHANGED <<expired, bundle, activator, task, ledger, started>>

Signs(m) ==
    /\ shelf[m] = "draft" /\ shelf' = [shelf EXCEPT ![m] = "signed"]
    /\ UNCHANGED <<expired, bundle, activator, task, ledger, started>>

PublishesManifest(m) ==
    /\ shelf[m] = "signed" /\ m \notin expired /\ shelf' = [shelf EXCEPT ![m] = "published"]
    /\ UNCHANGED <<expired, bundle, activator, task, ledger, started>>

ManifestExpires(m) ==
    /\ shelf[m] # "none" /\ m \notin expired /\ expired' = expired \cup {m}
    /\ UNCHANGED <<shelf, bundle, activator, task, ledger, started>>

\* Another activation has accepted the directory, and has unpacked nothing there yet.
Claimed == \E o \in Activators : activator[o].at = "fetch"

\* Mutation: a directory that is not empty is accepted.
InspectsAny(a, m) ==
    /\ activator[a] = Idle /\ started < Activations /\ started' = started + 1
    /\ activator' = [activator EXCEPT ![a] = [at |-> IF bundle.there THEN "fetch" ELSE "create", m |-> m]]
    /\ bundle' = [bundle EXCEPT !.crowded = @ \/ (bundle.there /\ Claimed)]
    /\ UNCHANGED <<shelf, expired, task, ledger>>

\* run_activate up to the look at the directory (prepare_activation_dir): an absent one is to be
\* created, an empty one is accepted, and any other is refused with nothing fetched.  An empty one
\* may be the one that another activation has just accepted or created.
Inspects(a, m) ==
    /\ activator[a] = Idle /\ started < Activations /\ started' = started + 1
    /\ bundle.there => Empty
    /\ activator' = [activator EXCEPT ![a] = [at |-> IF bundle.there THEN "fetch" ELSE "create", m |-> m]]
    /\ bundle' = [bundle EXCEPT !.crowded = @ \/ (bundle.there /\ Claimed)]
    /\ UNCHANGED <<shelf, expired, task, ledger>>

\* create_dir, which fails when the directory has appeared since.
CreatesDir(a) ==
    /\ activator[a].at = "create"
    /\ IF bundle.there THEN Leaves(a) /\ UNCHANGED bundle
       ELSE Steps(a, "fetch") /\ bundle' = [Absent EXCEPT !.there = TRUE]
    /\ UNCHANGED <<shelf, expired, task, ledger, started>>

\* The engine fetches and verifies the manifest, and rejects it or unpacks its bundle.
Rejects(a) ==
    /\ activator[a].at = "fetch" /\ Leaves(a)
    /\ UNCHANGED <<shelf, expired, bundle, task, ledger, started>>

Unpacks(a) ==
    /\ activator[a].at = "fetch" /\ Valid(activator[a].m) /\ bundle.there
    /\ bundle' = [bundle EXCEPT !.of = @ \cup {activator[a].m}, !.installed = {}]
    /\ Steps(a, "install")
    /\ UNCHANGED <<shelf, expired, task, ledger, started>>

\* Compose, the verify script: a failed install leaves the files, and no marker.
InstallEnds(a) ==
    /\ activator[a].at = "install"
    /\ \/ Steps(a, "mark") /\ bundle' = [bundle EXCEPT !.installed = @ \cup {activator[a].m}]
       \/ Leaves(a) /\ UNCHANGED bundle
    /\ UNCHANGED <<shelf, expired, task, ledger, started>>

\* write_activation_marker, a plain write: it may fail with the file cut short.
Marks(a) ==
    /\ activator[a].at = "mark"
    /\ \/ Steps(a, "ledger") /\ bundle' = [bundle EXCEPT !.marker = "whole", !.named = activator[a].m]
       \/ Leaves(a) /\ bundle' \in {bundle, [bundle EXCEPT !.marker = "torn", !.named = NoManifest]}
    /\ UNCHANGED <<shelf, expired, task, ledger, started>>

\* The ledger event, best effort, only with a registry configured.
PostsLedger(a) ==
    /\ activator[a].at = "ledger" /\ Leaves(a)
    /\ ledger' \in {ledger, ledger \cup {activator[a].m}}
    /\ UNCHANGED <<shelf, expired, bundle, task, started>>

\* The activating process dies.  Only that ends an activation early: the engine runs on the blocking
\* pool, and so does the bridge's whole handler, which outlives its session.  What compose was asked
\* for may come up all the same; the marker may be cut short.
ActivatorDies(a) ==
    /\ activator[a] # Idle /\ Leaves(a)
    /\ \/ UNCHANGED bundle
       \/ activator[a].at = "install" /\ bundle' = [bundle EXCEPT !.installed = @ \cup {activator[a].m}]
       \/ activator[a].at = "mark" /\ bundle' = [bundle EXCEPT !.marker = "torn", !.named = NoManifest]
    /\ UNCHANGED <<shelf, expired, task, ledger, started>>

\* The operator makes the directory, perhaps between an activation's look at it and its create_dir.
OperatorMakes ==
    /\ ~bundle.there /\ bundle' = [Absent EXCEPT !.there = TRUE]
    /\ UNCHANGED <<shelf, expired, activator, task, ledger, started>>

\* The operator removes the directory a refusal named, with nothing running in it.
OperatorClears ==
    /\ bundle.there /\ task = NoTask /\ \A a \in Activators : activator[a] = Idle
    /\ bundle' = Absent
    /\ UNCHANGED <<shelf, expired, activator, task, ledger, started>>

\* check_activation_marker: the marker names the task's manifest, or there is none and the
\* operator accepts that; a marker that cannot be read is refused.
Accepts(m, lax) ==
    \/ bundle.marker = "whole" /\ bundle.named = m
    \/ bundle.marker = "none" /\ lax

\* run_harness_blocking: the manifest is fetched and valid, the bundle holds a file under its
\* compose path (another manifest's may have the same one), the marker is accepted; --plan ends here.
TaskRuns(m, lax) ==
    /\ task = NoTask /\ started < Activations /\ started' = started + 1
    /\ Valid(m) /\ bundle.of # {} /\ Accepts(m, lax)
    /\ task' = [at |-> "runs", m |-> m, lax |-> lax /\ bundle.marker = "none"]
    /\ UNCHANGED <<shelf, expired, bundle, activator, ledger>>

TaskEnds ==
    /\ task # NoTask /\ task' = NoTask
    /\ UNCHANGED <<shelf, expired, bundle, activator, ledger, started>>

ActivationNext ==
    \/ \E m \in Manifests : Creates(m) \/ Signs(m) \/ PublishesManifest(m) \/ ManifestExpires(m)
    \/ \E a \in Activators :
         \/ \E m \in Manifests : Inspects(a, m)
         \/ CreatesDir(a) \/ Rejects(a) \/ Unpacks(a) \/ InstallEnds(a) \/ Marks(a) \/ PostsLedger(a)
         \/ ActivatorDies(a)
    \/ OperatorMakes \/ OperatorClears
    \/ \E m \in Manifests, lax \in BOOLEAN : TaskRuns(m, lax)
    \/ TaskEnds

ActivationSpec == ActivationInit /\ [][ActivationNext]_activationVars

-----------------------------------------------------------------------------
(* Properties. *)

\* A task that was not let in on the operator's own word works on the whole bundle of its own
\* manifest and on nothing else, whatever activations were cut short, refused or raced for the
\* directory before (prepare_activation_dir, check_activation_marker).  The one way to two bundles
\* in a directory is a second activation that looks at it after the first has accepted or created
\* it and before it has unpacked anything: nothing keeps that one out.
TaskOnItsOwnBundle ==
    task # NoTask /\ ~task.lax /\ ~bundle.crowded => bundle.of = {task.m} /\ bundle.installed = {task.m}
=============================================================================
