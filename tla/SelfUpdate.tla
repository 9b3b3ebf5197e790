----------------------------- MODULE SelfUpdate -----------------------------
(***************************************************************************)
(* The auto-update loop of the agent (self_update.rs) and the supervisor   *)
(* it exits for: check the latest release, fetch its digest, its manifest  *)
(* and its asset, one request each, verify, write the asset beside the     *)
(* running binary and rename it into place.  The release may be published  *)
(* anew between two requests; the process may be killed between any two    *)
(* steps.  write_durable is the atomic file SecretFile implements.         *)
(***************************************************************************)
EXTENDS Supervisor

CONSTANTS
    Releases,  \* releases as published: tag, sha (.sha256), man (signed manifest), asset
    Signed     \* the tag and asset pairs the release pipeline signed a manifest for

\* A manifest whose signature holds is one the pipeline signed.
ASSUME ReleasesAssumption ==
    \A r \in Releases : r.tag \in Nat /\ (r.man.signed => <<r.man.tag, r.man.digest>> \in Signed)

VARIABLES
    machine,     \* how this host is set up: windows, pinned (a release key), verify
    release,  \* the latest release
    disk,     \* exe, new (.<asset>.new) and old beside it
    upd       \* the updater inside the child: the version it runs, and its step

updateVars == <<supervisorVars, machine, release, disk, upd>>
NoBinary == [tag |-> 0, asset |-> "none", x |-> FALSE]
NoUpdate(ver) == [ver |-> ver, at |-> "sleep", tag |-> 0, digest |-> "none", asset |-> "none"]
Installed == [tag |-> 1, asset |-> "a1", x |-> TRUE]

UpdateInit ==
    /\ SupervisorInit
    /\ machine \in [windows : BOOLEAN, pinned : BOOLEAN, verify : BOOLEAN]
    /\ release \in Releases
    /\ disk = [exe |-> Installed, new |-> NoBinary, old |-> NoBinary]
    /\ upd = NoUpdate(0)

Runnable(binary) == binary.x

UpdateSteps(at) == child = "up" /\ upd.at = at
Gives(u) == upd' = u /\ UNCHANGED <<supervisorVars, machine, release>>
GivesUp == Gives(NoUpdate(upd.ver)) /\ UNCHANGED disk

\* check_latest: a newer tag than the running process's.  Without verification the asset is next.
ChecksForUpdate ==
    /\ UpdateSteps("sleep") /\ release.tag > upd.ver
    /\ Gives([NoUpdate(upd.ver) EXCEPT !.at = IF machine.verify THEN "sha" ELSE "asset", !.tag = release.tag])
    /\ UNCHANGED disk

\* fetch_expected_sha256.
FetchesSha ==
    /\ UpdateSteps("sha") /\ release.sha # "none"
    /\ Gives([upd EXCEPT !.at = "manifest", !.digest = release.sha])
    /\ UNCHANGED disk

\* evaluate_provenance with a key pinned: signature, tag and digest.
Proven(man, tag, digest) == man.signed /\ man.tag = tag /\ man.digest = digest

FetchesManifest ==
    /\ UpdateSteps("manifest") /\ (machine.pinned => Proven(release.man, upd.tag, upd.digest))
    /\ Gives([upd EXCEPT !.at = "asset"])
    /\ UNCHANGED disk

\* The download, compared with the digest.
FetchesAsset ==
    /\ UpdateSteps("asset") /\ (machine.verify => release.asset = upd.digest)
    /\ Gives([upd EXCEPT !.at = "write", !.asset = release.asset])
    /\ UNCHANGED disk

\* The stale temp file is removed and the new one is written durably.
WritesNew ==
    /\ UpdateSteps("write")
    /\ disk' = [disk EXCEPT !.new = [tag |-> upd.tag, asset |-> upd.asset, x |-> machine.windows]]
    /\ Gives([upd EXCEPT !.at = IF machine.windows THEN "aside" ELSE "chmod"])

SetsMode ==
    /\ UpdateSteps("chmod")
    /\ disk' = [disk EXCEPT !.new.x = TRUE]
    /\ Gives([upd EXCEPT !.at = "install"])

\* Windows: the running binary is moved aside first.
MovesAside ==
    /\ UpdateSteps("aside") /\ disk.exe # NoBinary
    /\ disk' = [disk EXCEPT !.old = disk.exe, !.exe = NoBinary]
    /\ Gives([upd EXCEPT !.at = "install"])

\* Mutation: the running binary is removed before the new one is in place.
InstallsInTwo ==
    /\ UpdateSteps("install")
    /\ disk' = IF disk.exe = NoBinary THEN [disk EXCEPT !.exe = disk.new, !.new = NoBinary]
               ELSE [disk EXCEPT !.exe = NoBinary]
    /\ Gives([upd EXCEPT !.at = IF disk.exe = NoBinary THEN "exit" ELSE "install"])

\* The rename into place.
Installs ==
    /\ UpdateSteps("install")
    /\ disk' = [disk EXCEPT !.exe = disk.new, !.new = NoBinary]
    /\ Gives([upd EXCEPT !.at = "exit"])

\* process::exit(0), for the supervisor to start the new build.
ExitsForUpdate ==
    /\ UpdateSteps("exit")
    /\ ChildExits("zero")
    /\ upd' = NoUpdate(0)
    /\ UNCHANGED <<machine, release, disk>>

\* Any request or system call may fail, and a comparison that does not hold is an error too: the
\* loop sleeps until its next interval, the temp file stays.
UpdateFails == child = "up" /\ upd.at \notin {"sleep", "exit"} /\ GivesUp

\* The agent ends for a reason of its own, or is killed.
Dies(status) ==
    /\ ChildExits(status)
    /\ upd' = NoUpdate(0)
    /\ UNCHANGED <<machine, release, disk>>

PublishesRelease ==
    /\ release' \in Releases
    /\ UNCHANGED <<supervisorVars, machine, disk, upd>>

\* The supervisor's own steps; a child it stops takes its updater with it.
Supervises ==
    /\ SupervisorSteps \/ Spawns(Runnable(disk.exe))
    /\ upd' = IF child' = "up" THEN (IF child = "up" THEN upd ELSE NoUpdate(disk.exe.tag)) ELSE NoUpdate(0)
    /\ UNCHANGED <<machine, release, disk>>

UpdateNext ==
    \/ Supervises \/ (\E status \in Statuses : Dies(status)) \/ PublishesRelease
    \/ ChecksForUpdate \/ FetchesSha \/ FetchesManifest \/ FetchesAsset
    \/ WritesNew \/ SetsMode \/ MovesAside \/ Installs \/ ExitsForUpdate \/ UpdateFails

UpdateSpec == UpdateInit /\ [][UpdateNext]_updateVars

-----------------------------------------------------------------------------
(* Properties. *)

\* Wherever the update is cut, the host keeps a binary that runs: under its own name, or, on
\* Windows, moved aside by the update that was cut (perform_update_into).
BinarySurvives == Runnable(disk.exe) \/ (machine.windows /\ Runnable(disk.old))

\* The agent is not without a process for longer than the backoff's longest delay and the wait
\* for the pump, whether it crashed or left for an update, cut or not: there is always a binary
\* to start.  Not so on Windows, where a cut update leaves none under the name that is started.
BackInTime == ~Ended /\ ~machine.windows => sup.down <= MaxDelay + PumpWait

\* With a key pinned, what is installed is the asset a signed manifest names for that very tag,
\* though the release is published anew between the requests (evaluate_provenance).
InstalledWasSigned ==
    machine.pinned /\ machine.verify => <<disk.exe.tag, disk.exe.asset>> \in Signed \cup {<<1, "a1">>, <<0, "none">>}

\* An update leaves a binary to start and installs nothing but what was signed for its tag.
InstallSound == BinarySurvives /\ InstalledWasSigned

\* The supervisor leaves no agent behind, and no machine without one for long.
SupervisionHolds == NoOrphan /\ BackInTime
=============================================================================
