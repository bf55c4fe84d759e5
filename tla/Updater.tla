------------------------------ MODULE Updater ------------------------------
(***************************************************************************)
(* The self-update of the desktop service: a release is downloaded and     *)
(* verified by the running service, installed by the next boot, confirmed  *)
(* by a tunnel that connects or rolled back by one that does not           *)
(* (internal/updater, and the boot sequence of service.go).  A change of a *)
(* file is a step of its own, that may fail, and a crash may fall between  *)
(* any two; what survives a crash is what is on disk.                      *)
(*                                                                         *)
(* A file is the version it holds: None when it is absent, Corrupt when    *)
(* its bytes are not those of any release.                                 *)
(***************************************************************************)
EXTENDS Integers, FiniteSets

CONSTANTS
    MaxVersion,   \* releases are numbered 1 .. MaxVersion
    MaxRetries,   \* config.UpdateMaxInstallRetries
    MaxFaults,    \* bound: crashes, failed operations, corrupt downloads
    MaxReleases,  \* bound: how often the latest release changes
    Broken        \* releases whose binary never gets a tunnel up

ASSUME UpdaterAssumption ==
    /\ MaxVersion \in Nat \ {0}
    /\ MaxRetries \in Nat \ {0}
    /\ MaxFaults \in Nat
    /\ MaxReleases \in Nat
    /\ Broken \subseteq 2 .. MaxVersion

Versions == 1 .. MaxVersion
None == 0
Corrupt == MaxVersion + 1
Files == 0 .. MaxVersion + 1

VARIABLES
    \* what the machine is, and what the release page says
    windows, packaged, latest, releases,
    \* files beside the executable
    exe, bak, old,
    \* the staging directory: payload, rollback_state.json,
    \* failed_version.txt, max_seen_version.txt, install_retries.txt
    staging, rollback, failed, maxSeen, retries,
    \* the process: where its boot stands, the image it was loaded from,
    \* updater.Version, whether its image now lies at the .old path
    pc, image, version, moved,
    \* the download cycle, and the version under installation or download
    dl, target,
    \* history: faults so far, the windows met (see Torn), the highest version
    \* ever installed or run with a tunnel
    faults, torn, highest

disk == <<exe, bak, old, staging, rollback, failed, maxSeen, retries>>
process == <<pc, image, version, moved, dl, target>>
history == <<faults, torn, highest>>
world == <<windows, packaged, latest, releases>>
vars == <<disk, process, history, world>>

Nothing == [bin |-> None, sums |-> None, sig |-> None, label |-> None]
Payload(v) == [bin |-> v, sums |-> v, sig |-> v, label |-> v]

Stages == {"down", "boot", "abandonRest", "abandonRetries", "copy", "place",
           "clean", "cleanRest", "maxSeen", "retries", "record", "count", "connect",
           "confirm", "seed", "running", "mark", "unmark"}
Phases == {"idle", "bin", "sums", "sig", "verify", "label", "dropBin", "dropBoth"}

\* Where a crash or a failed operation does lasting harm: the new binary is in place and
\* its payload still staged; a payload lies under the label of another; the version
\* installed is not marked as seen; a record outlives the installation it is about.
Torn == {"placed", "relabel", "unseen", "kept"}

Staging == [bin : Files, sums : Files, sig : Files, label : 0 .. MaxVersion]

TypeOK ==
    /\ windows \in BOOLEAN /\ packaged \in BOOLEAN
    /\ latest \in Versions /\ releases \in 0 .. MaxReleases
    /\ exe \in Files /\ bak \in Files /\ old \in Files
    /\ staging \in Staging
    /\ rollback \in 0 .. MaxVersion /\ failed \in 0 .. MaxVersion
    /\ maxSeen \in 0 .. MaxVersion /\ retries \in 0 .. MaxRetries
    /\ pc \in Stages /\ dl \in Phases
    /\ image \in 0 .. MaxVersion /\ version \in 0 .. MaxVersion /\ moved \in BOOLEAN
    /\ target \in 0 .. MaxVersion /\ highest \in Files
    /\ faults \in 0 .. MaxFaults /\ torn \subseteq Torn

Init ==
    /\ windows \in BOOLEAN
    /\ packaged \in {FALSE, ~windows}
    /\ latest = 1 /\ releases = 0
    /\ exe = 1 /\ bak = None /\ old = None
    \* a payload staged before the option that allowed it was turned off
    /\ staging = IF packaged THEN Payload(1) ELSE Nothing
    /\ rollback = None /\ failed = None /\ maxSeen = None /\ retries = 0
    /\ pc = "down" /\ image = 1 /\ version = 1 /\ moved = FALSE
    /\ dl = "idle" /\ target = None
    /\ faults = 0 /\ torn = {} /\ highest = 1

----------------------------------------------------------------------------
(* The environment.                                                        *)

\* GitHub's latest release changes; an older one comes back when the newest
\* is withdrawn.
Publish(v) ==
    /\ releases < MaxReleases /\ v # latest
    /\ latest' = v /\ releases' = releases + 1
    /\ UNCHANGED <<disk, process, history, windows, packaged>>

Fault ==
    /\ faults < MaxFaults
    /\ faults' = faults + 1

\* The binary without its version file is an incomplete staging.
HasStagedUpdate == staging.bin # None /\ staging.label # None

Mislabelled == staging.bin # None /\ staging.label \notin {None, target}

\* The machine or the process dies.
Crash ==
    /\ pc # "down" /\ Fault
    /\ pc' = "down" /\ dl' = "idle"
    /\ torn' = torn
         \cup (IF pc \in {"clean", "cleanRest"} /\ HasStagedUpdate THEN {"placed"} ELSE {})
         \cup (IF dl \notin {"idle", "bin"} /\ Mislabelled THEN {"relabel"} ELSE {})
         \cup (IF pc \in {"clean", "cleanRest", "maxSeen"} THEN {"unseen"} ELSE {})
    /\ UNCHANGED <<disk, world, highest, image, version, moved, target>>

\* os.Remove of staged files: what cannot be removed stays, and nobody is told.
Removed(gone) ==
    [bin   |-> IF "bin" \in gone THEN None ELSE staging.bin,
     sums  |-> IF "sums" \in gone THEN None ELSE staging.sums,
     sig   |-> IF "sig" \in gone THEN None ELSE staging.sig,
     label |-> IF "label" \in gone THEN None ELSE staging.label]

Remove(files) ==
    \/ staging' = Removed(files) /\ UNCHANGED faults
    \/ Fault /\ \E gone \in SUBSET files : gone # files /\ staging' = Removed(gone)

----------------------------------------------------------------------------
(* Boot: installation of a staged payload.                                 *)

\* The service manager starts what lies at the executable's path.
Boot ==
    /\ pc = "down" /\ exe # None
    /\ pc' = "boot" /\ image' = exe /\ version' = exe /\ moved' = FALSE
    /\ UNCHANGED <<disk, dl, target, history, world>>

Higher(v, w) == IF v > w THEN v ELSE w

Verified == staging.bin = staging.sums /\ staging.sums = staging.sig
            /\ staging.sig \in Versions

Goto(stage) ==
    /\ pc' = stage
    /\ UNCHANGED <<image, version, moved, dl, target>>

NothingStaged ==
    /\ pc = "boot" /\ ~HasStagedUpdate
    /\ Goto("connect")
    /\ UNCHANGED <<disk, history, world>>

\* The package manager owns the binary: the payload is dropped.
SkipPackaged ==
    /\ pc = "boot" /\ HasStagedUpdate /\ packaged
    /\ Remove({"bin", "sums", "sig", "label"})
    /\ Goto("connect")
    /\ UNCHANGED <<exe, bak, old, rollback, failed, maxSeen, retries, torn, highest, world>>

\* Enough failed attempts: the payload is removed, file after file, then the
\* counter.
Abandon ==
    /\ pc = "boot" /\ HasStagedUpdate /\ ~packaged /\ retries >= MaxRetries
    /\ Remove({"bin"})
    /\ Goto("abandonRest")
    /\ UNCHANGED <<exe, bak, old, rollback, failed, maxSeen, retries, torn, highest, world>>

AbandonRest ==
    /\ pc = "abandonRest"
    /\ Remove({"sums", "sig", "label"})
    /\ Goto("abandonRetries")
    /\ UNCHANGED <<exe, bak, old, rollback, failed, maxSeen, retries, torn, highest, world>>

\* Mutant: abandoning a payload leaves the counter of attempts.
AbandonKeepsRetries ==
    /\ pc = "abandonRetries"
    /\ Goto("connect")
    /\ UNCHANGED <<disk, history, world>>

AbandonRetries ==
    /\ pc = "abandonRetries"
    /\ \/ retries' = 0 /\ UNCHANGED faults
       \/ Fault /\ UNCHANGED retries
    /\ Goto("connect")
    /\ UNCHANGED <<exe, bak, old, staging, rollback, failed, maxSeen, torn, highest, world>>

\* Mutant: the cap on the attempts is gone.
InstallableUncapped == HasStagedUpdate /\ ~packaged

Installable == HasStagedUpdate /\ ~packaged /\ retries < MaxRetries

\* Mutant: the executable is removed before the new one is copied, on any platform.
BackupByRename ==
    /\ pc = "boot" /\ Installable /\ Verified
    /\ bak' = exe /\ exe' = None
    /\ pc' = "copy" /\ target' = staging.label
    /\ UNCHANGED <<old, staging, rollback, failed, maxSeen, retries,
                   image, version, moved, dl, history, world>>

\* Mutant: the record of an installation is written before the installation.
BackupRecording ==
    /\ pc = "boot" /\ Installable /\ Verified
    /\ rollback' = staging.label /\ bak' = exe
    /\ pc' = "copy" /\ target' = staging.label
    /\ UNCHANGED <<exe, old, staging, failed, maxSeen, retries,
                   image, version, moved, dl, history, world>>

\* Install: the payload is verified again, and the executable copied to .bak.
Backup ==
    /\ pc = "boot" /\ Installable /\ Verified
    /\ bak' = exe
    /\ pc' = "copy" /\ target' = staging.label
    /\ UNCHANGED <<exe, old, staging, rollback, failed, maxSeen, retries,
                   image, version, moved, dl, history, world>>

\* On Windows a running executable cannot be overwritten: atomicCopyFile
\* first renames it to .old, over the one an earlier installation left.
MoveAside ==
    /\ pc = "copy" /\ windows
    /\ old' = exe /\ exe' = None
    /\ pc' = "place" /\ moved' = TRUE
    /\ UNCHANGED <<bak, staging, rollback, failed, maxSeen, retries,
                   image, version, dl, target, history, world>>

\* The staged binary is renamed over the executable.
Place ==
    /\ pc = (IF windows THEN "place" ELSE "copy")
    /\ exe' = staging.bin
    /\ Goto("clean")
    /\ UNCHANGED <<bak, old, staging, rollback, failed, maxSeen, retries, history, world>>

\* Install returns an error: a payload that does not verify, or a directory
\* or a copy that fails; past the backup, the backup is renamed back, and
\* that may fail as well.
InstallFails ==
    /\ \/ /\ pc = "boot" /\ Installable
          /\ IF Verified THEN Fault ELSE UNCHANGED faults
          /\ UNCHANGED <<exe, bak>>
          /\ UNCHANGED torn
       \/ /\ pc \in {"copy", "place", "clean"} /\ Fault
          /\ \/ exe' = bak /\ bak' = None /\ UNCHANGED torn
             \/ /\ UNCHANGED <<exe, bak>>
                /\ torn' = torn \cup IF pc = "clean" THEN {"placed"} ELSE {}
    /\ Goto("count")
    /\ UNCHANGED <<old, staging, rollback, failed, maxSeen, retries, highest, world>>

\* The attempt is counted; a write that fails is only logged, here and below.
CountAttempt ==
    /\ pc = "count"
    /\ \/ retries' = retries + 1 /\ UNCHANGED faults
       \/ Fault /\ UNCHANGED retries
    /\ Goto("connect")
    /\ UNCHANGED <<exe, bak, old, staging, rollback, failed, maxSeen, torn, highest, world>>

CleanBinary ==
    /\ pc = "clean"
    /\ Remove({"bin"})
    /\ Goto("cleanRest")
    /\ UNCHANGED <<exe, bak, old, rollback, failed, maxSeen, retries, torn, highest, world>>

CleanRest ==
    /\ pc = "cleanRest"
    /\ Remove({"sums", "sig", "label"})
    /\ torn' = torn \cup IF HasStagedUpdate' THEN {"placed"} ELSE {}
    /\ Goto("maxSeen")
    /\ UNCHANGED <<exe, bak, old, rollback, failed, maxSeen, retries, highest, world>>

\* The anti-downgrade mark; a write that fails is ignored.
CommitMaxSeen ==
    /\ pc = "maxSeen"
    /\ \/ maxSeen' = target /\ UNCHANGED <<faults, torn>>
       \/ Fault /\ torn' = torn \cup {"unseen"} /\ UNCHANGED maxSeen
    /\ highest' = Higher(highest, exe)
    /\ Goto("retries")
    /\ UNCHANGED <<exe, bak, old, staging, rollback, failed, retries, world>>

ClearRetries ==
    /\ pc = "retries"
    /\ \/ retries' = 0 /\ UNCHANGED faults
       \/ Fault /\ UNCHANGED retries
    /\ Goto("record")
    /\ UNCHANGED <<exe, bak, old, staging, rollback, failed, maxSeen, torn, highest, world>>

\* rollback_state.json, and updater.Version set to the version on disk: the
\* process still runs the previous image.
RecordInstall ==
    /\ pc = "record"
    /\ \/ rollback' = target /\ UNCHANGED faults
       \/ Fault /\ UNCHANGED rollback
    /\ version' = target
    /\ pc' = "connect"
    /\ UNCHANGED <<exe, bak, old, staging, failed, maxSeen, retries,
                   image, moved, dl, target, torn, highest, world>>

----------------------------------------------------------------------------
(* The first connection confirms the new version or rolls it back.         *)

\* ClearRollbackState: a record that cannot be removed stays, and the service goes on.
ClearRecord ==
    \/ rollback' = None /\ UNCHANGED <<faults, torn>>
    \/ /\ rollback # None /\ Fault
       /\ torn' = torn \cup {"kept"}
       /\ UNCHANGED rollback

\* The tunnel is up: the record goes, then the backup, then the updater
\* starts, which raises the anti-downgrade mark to the running version.
ConnectOK ==
    /\ pc = "connect" /\ image \notin Broken
    /\ ClearRecord
    /\ Goto("confirm")
    /\ UNCHANGED <<exe, bak, old, staging, failed, maxSeen, retries, highest, world>>

CleanupBackup ==
    /\ pc = "confirm"
    /\ \/ bak' = None /\ UNCHANGED faults
       \/ Fault /\ UNCHANGED bak
    /\ Goto(IF packaged THEN "running" ELSE "seed")
    /\ UNCHANGED <<exe, old, staging, rollback, failed, maxSeen, retries, torn, highest, world>>

SeedMaxSeen ==
    /\ pc = "seed"
    /\ \/ maxSeen' = Higher(maxSeen, version) /\ UNCHANGED faults
       \/ Fault /\ UNCHANGED maxSeen
    /\ highest' = Higher(highest, image)
    /\ Goto("running")
    /\ UNCHANGED <<exe, bak, old, staging, rollback, failed, retries, torn, world>>

\* A timeout or a DNS error says nothing of the binary: run returns; as it does when the
\* record cannot be read or the backup not renamed.
ConnectTransient ==
    /\ pc = "connect" /\ Fault
    /\ Goto("down")
    /\ UNCHANGED <<disk, torn, highest, world>>

\* The relay's identity did not verify, or an unknown error: a rollback is
\* due if an installation is on record and its backup is there.
Rejected ==
    /\ pc = "connect"
    /\ IF image \in Broken THEN UNCHANGED faults ELSE Fault
    /\ UNCHANGED <<torn, highest>>

\* Windows refuses to rename over an executable that is running.
Replaceable == ~windows \/ moved

RollbackPossible == rollback # None /\ bak # None /\ Replaceable

NoRollback ==
    /\ Rejected /\ ~RollbackPossible
    /\ Goto("down")
    /\ UNCHANGED <<disk, world>>

Rollback ==
    /\ Rejected /\ RollbackPossible
    /\ exe' = bak /\ bak' = None
    /\ Goto("mark")
    /\ UNCHANGED <<old, staging, rollback, failed, maxSeen, retries, world>>

MarkFailed ==
    /\ pc = "mark"
    /\ \/ failed' = rollback /\ UNCHANGED faults
       \/ Fault /\ UNCHANGED failed
    /\ Goto("unmark")
    /\ UNCHANGED <<exe, bak, old, staging, rollback, maxSeen, retries, torn, highest, world>>

\* The record goes and the service restarts into the restored binary.
ClearRollback ==
    /\ pc = "unmark"
    /\ ClearRecord
    /\ Goto("down")
    /\ UNCHANGED <<exe, bak, old, staging, failed, maxSeen, retries, highest, world>>

Stop ==
    /\ pc = "running" /\ dl = "idle"
    /\ Goto("down")
    /\ UNCHANGED <<disk, history, world>>

----------------------------------------------------------------------------
(* CheckAndDownload, serialised by cycleMu.                                *)

CycleGoto(phase) ==
    /\ dl' = phase
    /\ UNCHANGED <<pc, image, version, moved>>

\* CheckLatest compares the release with updater.Version.
NewerRelease == version < latest

\* Mutant: the mark of the versions seen is not consulted.
StartDownloadAnyVersion ==
    /\ pc = "running" /\ dl = "idle" /\ ~packaged
    /\ NewerRelease
    /\ latest # failed
    /\ failed' = None /\ target' = latest
    /\ CycleGoto("bin")
    /\ UNCHANGED <<exe, bak, old, staging, rollback, maxSeen, retries, history, world>>

\* A newer release, not below the mark and not the one that failed; a marker
\* left by another release is removed.
StartDownload ==
    /\ pc = "running" /\ dl = "idle" /\ ~packaged
    /\ NewerRelease
    /\ latest >= maxSeen
    /\ latest # failed
    /\ failed' = None /\ target' = latest
    /\ CycleGoto("bin")
    /\ UNCHANGED <<exe, bak, old, staging, rollback, maxSeen, retries, history, world>>

\* One download: a temporary file renamed over the staged one.
Fetch(file, phase, next) ==
    /\ dl = phase
    /\ \/ staging' = [staging EXCEPT ![file] = target] /\ UNCHANGED faults
       \/ Fault /\ staging' = [staging EXCEPT ![file] = Corrupt]
    /\ CycleGoto(next)
    /\ UNCHANGED <<exe, bak, old, rollback, failed, maxSeen, retries, target,
                   torn, highest, world>>

\* A download fails: what this cycle fetched before it is to be removed.
FetchFails ==
    /\ dl \in {"bin", "sums", "sig"} /\ Fault
    /\ CycleGoto(CASE dl = "bin"  -> "idle"
                   [] dl = "sums" -> "dropBin"
                   [] dl = "sig"  -> "dropBoth")
    /\ UNCHANGED <<disk, target, torn, highest, world>>

DropFetched ==
    /\ dl \in {"dropBin", "dropBoth"}
    /\ Remove(IF dl = "dropBin" THEN {"bin"} ELSE {"bin", "sums"})
    /\ CycleGoto("idle")
    /\ UNCHANGED <<exe, bak, old, rollback, failed, maxSeen, retries, target, highest, world>>
    /\ torn' = torn \cup IF Mislabelled' THEN {"relabel"} ELSE {}

\* VerifyStagedUpdate removes the three files, not the label of an earlier
\* cycle.
VerifyStaged ==
    /\ dl = "verify"
    /\ IF Verified
       THEN CycleGoto("label") /\ UNCHANGED <<staging, faults>>
       ELSE CycleGoto("idle") /\ Remove({"bin", "sums", "sig"})
    /\ UNCHANGED <<exe, bak, old, rollback, failed, maxSeen, retries, target, torn, highest,
                   world>>

\* A write that fails ends the cycle, with the payload under the label it found.
WriteLabel ==
    /\ dl = "label"
    /\ \/ staging' = [staging EXCEPT !.label = target] /\ UNCHANGED <<faults, torn>>
       \/ /\ Fault
          /\ torn' = torn \cup IF Mislabelled THEN {"relabel"} ELSE {}
          /\ UNCHANGED staging
    /\ CycleGoto("idle")
    /\ UNCHANGED <<exe, bak, old, rollback, failed, maxSeen, retries, target, highest, world>>

----------------------------------------------------------------------------
Install == Abandon \/ AbandonRest \/ AbandonRetries \/ NothingStaged \/ SkipPackaged
           \/ Backup \/ MoveAside \/ Place \/ InstallFails \/ CleanBinary \/ CleanRest
           \/ CommitMaxSeen \/ ClearRetries \/ RecordInstall \/ CountAttempt
Confirm == ConnectOK \/ CleanupBackup \/ SeedMaxSeen \/ ConnectTransient
           \/ NoRollback \/ Rollback \/ MarkFailed \/ ClearRollback
FetchBinary == Fetch("bin", "bin", "sums")
FetchChecksums == Fetch("sums", "sums", "sig")
FetchSignature == Fetch("sig", "sig", "verify")
Download == FetchBinary \/ FetchChecksums \/ FetchSignature \/ FetchFails
            \/ DropFetched \/ VerifyStaged \/ WriteLabel

Next == \/ \E v \in Versions : Publish(v)
        \/ Crash \/ Boot \/ Install \/ Confirm \/ Stop \/ StartDownload \/ Download

Spec == Init /\ [][Next]_vars

\* A started handler runs to its end, the service manager restarts the
\* service, and the periodic check comes round between restarts.
Fairness ==
    /\ WF_vars(Boot) /\ WF_vars(Install) /\ WF_vars(Confirm) /\ WF_vars(Download)
    /\ SF_vars(Stop) /\ SF_vars(StartDownload)

FairSpec == Spec /\ Fairness

----------------------------------------------------------------------------
(* Properties.                                                             *)

\* A machine is never left without a whole, genuine binary: at the
\* executable's path on Linux, there or at the .old path on Windows, whatever
\* step a crash, a full disk or a bad download falls on (installer.go
\* atomicCopyFile and Install).
RunnableCopy ==
    /\ exe # None \/ (windows /\ old # None)
    /\ Corrupt \notin {exe, bak, old}

\* While an installation is on record and its backup exists, the record names
\* the binary in place and rolling back changes it: without it a rollback
\* restores the version that failed.  It is lost only after one of three windows of Torn: a
\* payload that stays staged, or lies under another's label, is installed over its own
\* backup, and a record that could not be removed meets the backup of a later installation
\* (installer.go Install, updater.go CheckAndDownload, service.go tryRollbackIfNeeded).
RollbackRestoresOther ==
    torn \subseteq {"unseen"} /\ rollback # None /\ bak # None /\ pc \notin {"copy", "place", "clean"}
        => rollback = exe /\ bak # exe

\* An installation never puts in place a version below one this machine has
\* installed or run, nor the one marked as failed: the marks are read when the payload is
\* downloaded and the payload is installed by a later boot, with rollbacks, crashes and
\* failed operations in between; after one of the windows of Torn the payload need not be
\* the version its label and the marks speak of (updater.go CheckAndDownload).
InstallsAreNew ==
    [][Place => \/ torn # {}
                \/ staging.bin >= highest /\ staging.bin # failed]_vars

\* The last release is eventually installed, unless a mark or the package
\* manager forbids it, no executable is left (Windows), or the one in place
\* never gets a tunnel up, without which the updater does not start; however
\* many attempts fail before (service.go tryInstallStagedUpdate).
UpdateArrives ==
    <>[](\/ exe >= latest \/ latest = failed \/ latest < maxSeen
         \/ packaged \/ exe = None \/ exe \in Broken)

\* A rollback stays possible until a tunnel has confirmed the new version:
\* when the service is up and its process is not the binary in place, the
\* installation is still on record (service.go tryInstallStagedUpdate).
RollbackUntilConfirmed ==
    pc = "running" /\ image # exe => rollback = exe /\ bak # None

============================================================================
