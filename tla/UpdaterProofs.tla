--------------------------- MODULE UpdaterProofs ---------------------------
(***************************************************************************)
(* Proofs about Updater, for every number of releases, faults and retries, *)
(* and on both platforms: the types, that a runnable binary is never lost, *)
(* that a rollback restores another binary than the one on record, and     *)
(* that an installation never goes back to an older or a failed version.   *)
(***************************************************************************)
EXTENDS Updater, TLAPS

\* Where the installation stands: the payload is verified, the backup taken
\* and the executable still there, until it is renamed away on Windows; only
\* a service that is up downloads, so the payload does not change meanwhile; and a label
\* is only written on a payload that verified.
InstallUnderWay ==
    /\ dl # "idle" => pc = "running"
    /\ pc \in {"boot", "copy", "clean"} => exe # None
    /\ pc \in {"copy", "place", "clean"} => bak # None
    /\ pc \in {"copy", "place", "clean", "count"} => retries < MaxRetries
    /\ pc \in {"copy", "place"} => Verified
    /\ pc = "place" => windows
    /\ dl = "label" => Verified

IInv == RunnableCopy /\ InstallUnderWay

\* The versions, None and Corrupt are told apart.
LEMMA Numbers ==
    /\ None \in Files /\ Corrupt \in Files /\ None # Corrupt
    /\ 0 .. MaxVersion \subseteq Files /\ 0 \in 0 .. MaxVersion /\ 1 \in 0 .. MaxVersion
    /\ 1 \in Versions /\ Versions \subseteq 0 .. MaxVersion
    /\ \A v \in Versions : v # None /\ v # Corrupt
    /\ \A f \in Files : f # Corrupt => f \in 0 .. MaxVersion
BY UpdaterAssumption DEF None, Corrupt, Files, Versions

\* The invariant that protects the executable is inductive: types play no
\* part in it, so it is proved before them.
LEMMA Inductive == Spec => []IInv
<1> USE Numbers DEF IInv, RunnableCopy, InstallUnderWay
<1>1. Init => IInv
  BY DEF Init
<1>2. IInv /\ [Next]_vars => IInv'
  <2> SUFFICES ASSUME IInv, [Next]_vars PROVE IInv'
    OBVIOUS
  <2> USE DEF disk, process, history, world, Goto, CycleGoto
  <2>1. CASE \E v \in Versions : Publish(v)
    BY <2>1 DEF Publish, Verified
  <2>2. CASE Crash
    BY <2>2 DEF Crash
  <2>3. CASE Boot \/ Stop
    BY <2>3 DEF Boot, Stop
  <2>4. CASE NothingStaged \/ SkipPackaged \/ AbandonRest \/ AbandonRetries \/ Abandon
    BY <2>4 DEF NothingStaged, SkipPackaged, AbandonRest, AbandonRetries, Abandon
  <2>5. CASE Backup
    BY <2>5 DEF Backup, Verified, Installable
  <2>6. CASE MoveAside
    BY <2>6 DEF MoveAside, Verified
  <2>7. CASE Place
    <3>1. staging.bin \in Versions /\ bak # None
      BY <2>7 DEF Place, Verified
    <3> QED BY <2>7, <3>1 DEF Place
  <2>8. CASE InstallFails \/ CountAttempt
    BY <2>8 DEF InstallFails, CountAttempt, Installable
  <2>9. CASE CleanBinary \/ CleanRest \/ CommitMaxSeen \/ ClearRetries
    BY <2>9 DEF CleanBinary, CleanRest, CommitMaxSeen, ClearRetries
  <2>10. CASE RecordInstall
    BY <2>10 DEF RecordInstall
  <2>11. CASE ConnectOK \/ CleanupBackup \/ ConnectTransient \/ SeedMaxSeen
    BY <2>11 DEF ConnectOK, CleanupBackup, ConnectTransient, SeedMaxSeen
  <2>12. CASE NoRollback \/ Rollback \/ MarkFailed \/ ClearRollback
    BY <2>12 DEF NoRollback, Rollback, RollbackPossible, Rejected, MarkFailed, ClearRollback
  <2>13. CASE StartDownload
    BY <2>13 DEF StartDownload
  <2>14. CASE FetchBinary \/ FetchChecksums \/ FetchSignature
    BY <2>14 DEF FetchBinary, FetchChecksums, FetchSignature, Fetch
  <2>15. CASE FetchFails \/ DropFetched \/ VerifyStaged \/ WriteLabel
    BY <2>15 DEF FetchFails, DropFetched, VerifyStaged, WriteLabel, Verified
  <2>16. CASE UNCHANGED vars
    BY <2>16 DEF vars, Verified
  <2> QED
    BY <2>1, <2>2, <2>3, <2>4, <2>5, <2>6, <2>7, <2>8, <2>9, <2>10, <2>11,
       <2>12, <2>13, <2>14, <2>15, <2>16
       DEF Next, Install, Confirm, Download
<1> QED BY <1>1, <1>2, PTL DEF Spec

\* Whatever step a crash, a failed operation or a bad download falls on, a
\* whole and genuine binary is left, at the executable's path on Linux, there
\* or at .old on Windows, for any number of releases, retries and faults.
THEOREM ExecutableSurvives == Spec => []RunnableCopy
BY Inductive, PTL DEF IInv

\* Every change a step makes to the staging directory keeps it well formed.
LEMMA StagingUpdates ==
    ASSUME NEW s \in Staging, NEW f \in Files, NEW v \in 0 .. MaxVersion
    PROVE  /\ [s EXCEPT !.bin = f] \in Staging
           /\ [s EXCEPT !.sums = f] \in Staging
           /\ [s EXCEPT !.sig = f] \in Staging
           /\ [s EXCEPT !.label = v] \in Staging
           /\ s.label \in 0 .. MaxVersion /\ s.bin \in Files
BY Numbers DEF Staging

LEMMA StagingExists == Nothing \in Staging /\ Payload(1) \in Staging
BY Numbers DEF Staging, Nothing, Payload

\* What a removal of staged files leaves, some of which may stay: what is then staged was
\* staged, what then verifies is complete and verified, and no binary appears.
LEMMA Removal ==
    ASSUME staging \in Staging, NEW files, Remove(files)
    PROVE  /\ staging' \in Staging
           /\ staging'.bin \in {staging.bin, None}
           /\ HasStagedUpdate' => HasStagedUpdate /\ staging'.bin = staging.bin
                                   /\ staging'.label = staging.label
           /\ Verified' => Verified /\ staging'.bin = staging.bin
           /\ ~Mislabelled' => \/ staging'.bin = None
                               \/ staging'.label = None
                               \/ staging'.label = target'
           /\ faults' = faults \/ Fault
<1>1. PICK gone : staging' = Removed(gone)
  BY DEF Remove
<1>2. /\ staging' \in Staging
      /\ staging'.bin \in {staging.bin, None} /\ staging'.sums \in {staging.sums, None}
      /\ staging'.sig \in {staging.sig, None} /\ staging'.label \in {staging.label, None}
  BY <1>1, Numbers DEF Removed, Staging
<1> QED
  BY <1>2, Numbers DEF Remove, HasStagedUpdate, Verified, Mislabelled

\* The stages and phases the actions move to.
LEMMA Labels ==
    /\ {"down", "boot", "abandonRest", "abandonRetries", "copy", "place",
        "clean", "cleanRest", "maxSeen", "retries", "record", "count", "connect",
        "confirm", "seed", "running", "mark", "unmark"} \subseteq Stages
    /\ {"idle", "sums", "sig", "verify", "label", "bin", "dropBin", "dropBoth"}
          \subseteq Phases
BY DEF Stages, Phases

\* Counters stay within their bounds.
LEMMA Counters ==
    /\ 0 \in 0 .. MaxRetries /\ 0 \in 0 .. MaxFaults /\ 0 \in 0 .. MaxReleases
    /\ \A n \in 0 .. MaxRetries : n < MaxRetries => n + 1 \in 0 .. MaxRetries
    /\ \A n \in 0 .. MaxFaults : n < MaxFaults => n + 1 \in 0 .. MaxFaults
    /\ \A n \in 0 .. MaxReleases : n < MaxReleases => n + 1 \in 0 .. MaxReleases
BY UpdaterAssumption

\* The types hold of every reachable state, for all constants: the attempts
\* stay within their cap, what is staged, recorded and marked is a release,
\* and the running image and updater.Version are never Corrupt.
THEOREM Types == Spec => []TypeOK
<1> USE Numbers, Labels, Counters
<1>1. Init => TypeOK
  <2>1. Init => staging \in Staging
    BY StagingUpdates, StagingExists DEF Init
  <2>2. Init => packaged \in BOOLEAN
    BY Zenon DEF Init
  <2> QED BY <2>1, <2>2 DEF Init, TypeOK
<1>2. TypeOK /\ IInv /\ [Next]_vars => TypeOK'
  <2> SUFFICES ASSUME TypeOK, IInv, [Next]_vars PROVE TypeOK'
    OBVIOUS
  <2>0. staging \in Staging
    BY DEF TypeOK
  <2>a. \A f \in Files, v \in 0 .. MaxVersion :
           /\ [staging EXCEPT !.bin = f] \in Staging
           /\ [staging EXCEPT !.sums = f] \in Staging
           /\ [staging EXCEPT !.sig = f] \in Staging
           /\ [staging EXCEPT !.label = v] \in Staging
           /\ staging.label \in 0 .. MaxVersion /\ staging.bin \in Files
    BY <2>0, StagingUpdates
  <2>b. \A files : Remove(files) => staging' \in Staging /\ faults' \in 0 .. MaxFaults
    <3> SUFFICES ASSUME NEW files, Remove(files)
                 PROVE  staging' \in Staging /\ faults' \in 0 .. MaxFaults
      OBVIOUS
    <3>1. staging' \in Staging /\ (faults' = faults \/ Fault)
      BY <2>0, Removal
    <3> QED BY <3>1 DEF Fault, TypeOK
  <2> USE DEF disk, process, history, world, Goto, CycleGoto, TypeOK
  <2>1. CASE \E v \in Versions : Publish(v)
    BY <2>1 DEF Publish
  <2>2. CASE Crash
    BY <2>2 DEF Crash, Fault, Torn
  <2>3. CASE Boot \/ Stop
    BY <2>3 DEF Boot, Stop, IInv, RunnableCopy
  <2>4. CASE NothingStaged \/ AbandonRetries
    BY <2>4 DEF NothingStaged, AbandonRetries, Fault
  <2>5. CASE SkipPackaged \/ Abandon \/ AbandonRest \/ CleanBinary
    BY <2>5, <2>b DEF SkipPackaged, Abandon, AbandonRest, CleanBinary
  <2>6. CASE Backup \/ MoveAside \/ Place
    BY <2>6, <2>a DEF Backup, MoveAside, Place
  <2>7. CASE InstallFails \/ CountAttempt
    <3>1. pc = "count" => retries < MaxRetries
      BY DEF IInv, InstallUnderWay
    <3> QED BY <2>7, <3>1 DEF InstallFails, CountAttempt, Fault, Torn
  <2>8. CASE CleanRest \/ ClearRetries \/ RecordInstall
    BY <2>8, <2>b DEF CleanRest, ClearRetries, RecordInstall, Fault, Torn
  <2>9. CASE CommitMaxSeen
    BY <2>9 DEF CommitMaxSeen, Higher, Fault, Torn
  <2>10. CASE ConnectOK \/ CleanupBackup \/ ConnectTransient
    BY <2>10 DEF ConnectOK, ClearRecord, CleanupBackup, ConnectTransient, Fault, Torn
  <2>11. CASE SeedMaxSeen
    BY <2>11 DEF SeedMaxSeen, Higher, Fault
  <2>12. CASE NoRollback \/ Rollback \/ MarkFailed \/ ClearRollback
    BY <2>12
    DEF NoRollback, Rollback, Rejected, MarkFailed, ClearRollback, ClearRecord, Fault, Torn
  <2>13. CASE StartDownload
    BY <2>13 DEF StartDownload
  <2>14. CASE FetchBinary \/ FetchChecksums \/ FetchSignature
    BY <2>14, <2>a DEF FetchBinary, FetchChecksums, FetchSignature, Fetch, Fault
  <2>15. CASE FetchFails
    BY <2>15 DEF FetchFails, Fault
  <2>16. CASE DropFetched \/ VerifyStaged \/ WriteLabel
    BY <2>16, <2>a, <2>b DEF DropFetched, VerifyStaged, WriteLabel, Fault, Torn
  <2>17. CASE UNCHANGED vars
    BY <2>17 DEF vars
  <2> QED
    BY <2>1, <2>2, <2>3, <2>4, <2>5, <2>6, <2>7, <2>8, <2>9, <2>10, <2>11,
       <2>12, <2>13, <2>14, <2>15, <2>16, <2>17
       DEF Next, Install, Confirm, Download
<1> QED BY <1>1, <1>2, Inductive, PTL DEF Spec

\* What a rollback will find, unless a window of Torn other than "unseen" was met.  While an installation is on
\* record nothing is staged that can be installed and the updater is not running, so that
\* no second installation takes its backup; and a payload that verifies carries its own
\* version and is not the binary in place, so the backup taken for it is another version.
OnRecord ==
    /\ rollback # None =>
          /\ ~HasStagedUpdate
          /\ pc \notin {"copy", "place", "clean", "cleanRest", "maxSeen", "retries",
                        "record", "count", "confirm", "seed", "running"}
    /\ pc \in {"maxSeen", "retries", "record"} => ~HasStagedUpdate

InPlace ==
    /\ pc \in {"boot", "abandonRest", "abandonRetries", "copy", "place", "count", "connect",
              "confirm", "seed", "running"} =>
          exe \in {version, None}
    /\ pc \in {"copy", "place", "clean"} => bak = version
    /\ pc \in {"copy", "place"} =>
          /\ target = staging.label /\ staging.label = staging.bin
          /\ bak # staging.bin
    /\ pc = "clean" => exe = staging.bin /\ staging.label = staging.bin
    /\ pc \in {"clean", "cleanRest", "maxSeen", "retries", "record"} =>
          exe = target /\ bak # exe

Labelled ==
    /\ dl # "idle" => target # version /\ target \in Versions
    /\ dl \notin {"idle", "bin"} => staging.bin \in {target, Corrupt}
    /\ dl \in {"idle", "bin"} /\ pc \notin {"clean", "cleanRest"} /\ ~packaged
             /\ HasStagedUpdate /\ Verified
          => staging.label = staging.bin /\ staging.bin # exe

Restorable == rollback # None /\ bak # None => rollback = exe /\ bak # exe

RInv == torn \subseteq {"unseen"} => OnRecord /\ InPlace /\ Labelled /\ Restorable

\* A window once met stays on record.
LEMMA TornStays == [Next]_vars => torn \subseteq torn'
BY DEF Next, Publish, Crash, Boot, Stop, StartDownload, Install, Confirm, Download,
       NothingStaged, SkipPackaged, Abandon, AbandonRest, AbandonRetries, Backup, MoveAside,
       Place, InstallFails, CountAttempt, CleanBinary, CleanRest, CommitMaxSeen, ClearRetries,
       RecordInstall, ConnectOK, ClearRecord, CleanupBackup, SeedMaxSeen, ConnectTransient,
       Rejected, NoRollback, Rollback, MarkFailed, ClearRollback, FetchBinary, FetchChecksums,
       FetchSignature, Fetch, FetchFails, DropFetched, VerifyStaged, WriteLabel, vars, history,
       process, disk, world

\* What each change of the staging directory leaves of its fields.
LEMMA StagingFields ==
    ASSUME NEW s \in Staging, NEW f
    PROVE  /\ [s EXCEPT !.bin = f].bin = f /\ [s EXCEPT !.bin = f].label = s.label
           /\ [s EXCEPT !.sums = f].bin = s.bin /\ [s EXCEPT !.sums = f].label = s.label
           /\ [s EXCEPT !.sig = f].bin = s.bin /\ [s EXCEPT !.sig = f].label = s.label
           /\ [s EXCEPT !.label = f].bin = s.bin /\ [s EXCEPT !.label = f].sums = s.sums
           /\ [s EXCEPT !.label = f].sig = s.sig /\ [s EXCEPT !.label = f].label = f
BY DEF Staging

LEMMA RollbackStep == TypeOK /\ IInv /\ RInv /\ [Next]_vars => RInv'
<1> SUFFICES ASSUME TypeOK, IInv, RInv, [Next]_vars, torn' \subseteq {"unseen"}
             PROVE  OnRecord' /\ InPlace' /\ Labelled' /\ Restorable'
  BY DEF RInv
<1> USE Numbers DEF OnRecord, InPlace, Labelled, Restorable
<1>z. torn \subseteq {"unseen"} /\ OnRecord /\ InPlace /\ Labelled /\ Restorable
  BY TornStays DEF RInv
<1>0. staging \in Staging
  BY DEF TypeOK
<1>a. \A v, w \in 0 .. MaxVersion : v < w => v # w
  BY UpdaterAssumption
<1>b. dl # "idle" => pc = "running"
  BY DEF IInv, InstallUnderWay
<1>c. version \in 0 .. MaxVersion /\ latest \in Versions
  BY DEF TypeOK
<1>d. \A f : /\ [staging EXCEPT !.bin = f].bin = f
             /\ [staging EXCEPT !.sums = f].bin = staging.bin
             /\ [staging EXCEPT !.sig = f].bin = staging.bin
  BY <1>0, StagingFields
<1>e. \A files : Remove(files) =>
        /\ staging'.bin \in {staging.bin, None}
        /\ HasStagedUpdate' => HasStagedUpdate /\ staging'.bin = staging.bin
                               /\ staging'.label = staging.label
        /\ Verified' => Verified /\ staging'.bin = staging.bin
        /\ ~Mislabelled' => \/ staging'.bin = None
                            \/ staging'.label = None
                            \/ staging'.label = target'
  BY <1>0, Removal
<1> USE DEF disk, process, history, world, Goto, CycleGoto
<1>1. CASE \E v \in Versions : Publish(v)
  BY <1>1, <1>z DEF Publish, Verified, HasStagedUpdate
<1>2. CASE Crash
  <2>1. /\ pc \in {"clean", "cleanRest"} => ~HasStagedUpdate
        /\ dl \notin {"idle", "bin"} => ~Mislabelled
    BY <1>2 DEF Crash
  <2>2. OnRecord' /\ InPlace' /\ Restorable'
    BY <1>2, <1>z DEF Crash, HasStagedUpdate
  <2>3. ASSUME ~packaged, HasStagedUpdate, Verified
        PROVE  staging.label = staging.bin /\ staging.bin # exe
    <3>1. CASE dl \in {"idle", "bin"}
      BY <1>z, <2>1, <2>3, <3>1
    <3>2. CASE dl \notin {"idle", "bin"}
      <4>1. staging.bin = target /\ staging.label = target
        BY <1>z, <2>1, <2>3, <3>2 DEF Verified, HasStagedUpdate, Mislabelled
      <4>2. target # exe
        BY <1>z, <3>2, <1>b
      <4> QED BY <4>1, <4>2
    <3> QED BY <3>1, <3>2
  <2>4. Labelled'
    BY <1>2, <2>3 DEF Crash, HasStagedUpdate, Verified
  <2> QED BY <2>2, <2>4
<1>3. CASE Boot \/ Stop
  BY <1>3, <1>z, <1>b DEF Boot, Stop, HasStagedUpdate, Verified
<1>4. CASE NothingStaged \/ AbandonRetries \/ CountAttempt
  BY <1>4, <1>z, <1>b
  DEF NothingStaged, AbandonRetries, CountAttempt, HasStagedUpdate, Verified
<1>5. CASE SkipPackaged \/ Abandon \/ AbandonRest
  <2>1. /\ \E files : Remove(files)
        /\ pc' \in {"connect", "abandonRest", "abandonRetries"}
        /\ pc \in {"boot", "abandonRest"}
        /\ UNCHANGED <<exe, bak, rollback, dl, version, target, packaged>>
    BY <1>5 DEF SkipPackaged, Abandon, AbandonRest
  <2> QED BY <2>1, <1>z, <1>b, <1>e
<1>6. CASE Backup
  BY <1>6, <1>z, <1>b
  DEF Backup, Installable, HasStagedUpdate, Verified, IInv, InstallUnderWay
<1>7. CASE MoveAside
  BY <1>7, <1>z, <1>b DEF MoveAside, HasStagedUpdate, Verified
<1>8. CASE Place
  <2>1. /\ pc \in {"copy", "place"} /\ pc' = "clean" /\ exe' = staging.bin
        /\ UNCHANGED <<bak, staging, rollback, dl, version, target, packaged>>
    BY <1>8 DEF Place
  <2> QED BY <2>1, <1>z, <1>b DEF Verified
<1>9. CASE InstallFails
  <2>1. /\ pc \in {"boot", "copy", "place", "clean"} /\ pc' = "count"
        /\ \/ pc = "boot" /\ exe' = exe /\ bak' = bak
           \/ pc # "boot" /\ exe' = bak /\ bak' = None
           \/ pc \in {"copy", "place"} /\ exe' = exe /\ bak' = bak
        /\ UNCHANGED <<staging, rollback, dl, version, target, packaged>>
        /\ pc = "boot" => HasStagedUpdate
    BY <1>9 DEF InstallFails, Installable
  <2>2. /\ pc \in {"boot", "clean"} => exe # None
        /\ pc \in {"copy", "place"} => Verified
    BY DEF IInv, InstallUnderWay
  <2>3. CASE pc = "boot"
    BY <2>1, <2>3, <1>z, <1>b DEF HasStagedUpdate, Verified
  <2>4. CASE pc \in {"copy", "place"}
    BY <2>1, <2>2, <2>4, <1>z, <1>b DEF HasStagedUpdate, Verified
  <2>5. CASE pc = "clean"
    BY <2>1, <2>2, <2>5, <1>z, <1>b DEF HasStagedUpdate, Verified
  <2> QED BY <2>1, <2>3, <2>4, <2>5
<1>10. CASE CleanBinary \/ CleanRest
  <2>1. /\ \E files : Remove(files)
        /\ \/ pc = "clean" /\ pc' = "cleanRest"
           \/ pc = "cleanRest" /\ pc' = "maxSeen"
        /\ pc' = "maxSeen" => ~HasStagedUpdate'
        /\ UNCHANGED <<exe, bak, rollback, dl, version, target, packaged>>
    <3>1. CASE CleanBinary
      BY <3>1 DEF CleanBinary
    <3>2. CASE CleanRest
      <4>1. ~HasStagedUpdate'
        BY <3>2 DEF CleanRest
      <4> QED BY <3>2, <4>1 DEF CleanRest
    <3> QED BY <1>10, <3>1, <3>2
  <2>2. rollback = None /\ dl = "idle" /\ pc' \in {"cleanRest", "maxSeen"}
    BY <2>1, <1>z, <1>b
  <2>3. OnRecord'
    BY <2>1, <2>2
  <2>4. Labelled'
    BY <2>1, <2>2
  <2>5. InPlace' /\ Restorable'
    BY <2>1, <1>z, <1>b
  <2> QED BY <2>3, <2>4, <2>5
<1>11. CASE CommitMaxSeen \/ ClearRetries \/ RecordInstall
  <2>1. /\ \/ pc = "maxSeen" /\ pc' = "retries" /\ UNCHANGED <<rollback, version>>
           \/ pc = "retries" /\ pc' = "record" /\ UNCHANGED <<rollback, version>>
           \/ pc = "record" /\ pc' = "connect" /\ version' = target
              /\ rollback' \in {rollback, target}
        /\ UNCHANGED <<exe, bak, staging, dl, target, packaged>>
    BY <1>11 DEF CommitMaxSeen, ClearRetries, RecordInstall
  <2> QED BY <2>1, <1>z, <1>b DEF HasStagedUpdate, Verified
<1>12. CASE ConnectOK \/ CleanupBackup \/ ConnectTransient \/ SeedMaxSeen
  BY <1>12, <1>z, <1>b DEF ConnectOK, ClearRecord, CleanupBackup, ConnectTransient,
     SeedMaxSeen, HasStagedUpdate, Verified
<1>13. CASE NoRollback \/ Rollback \/ MarkFailed \/ ClearRollback
  BY <1>13, <1>z, <1>b DEF NoRollback, Rollback, RollbackPossible, Rejected, MarkFailed,
     ClearRollback, ClearRecord, HasStagedUpdate, Verified
<1>14. CASE StartDownload
  BY <1>14, <1>z, <1>a, <1>c DEF StartDownload, NewerRelease, HasStagedUpdate, Verified
<1>15. CASE FetchBinary \/ FetchChecksums \/ FetchSignature
  <2>1. /\ dl' \notin {"idle", "bin", "label"}
        /\ dl # "bin" => staging'.bin = staging.bin
        /\ dl = "bin" => staging'.bin \in {target, Corrupt}
    <3>1. CASE FetchBinary
      BY <3>1, <1>d DEF FetchBinary, Fetch
    <3>2. CASE FetchChecksums
      BY <3>2, <1>d DEF FetchChecksums, Fetch
    <3>3. CASE FetchSignature
      BY <3>3, <1>d DEF FetchSignature, Fetch
    <3> QED BY <1>15, <3>1, <3>2, <3>3
  <2>2. dl # "idle" /\ UNCHANGED <<exe, bak, rollback, pc, version, target>>
    BY <1>15 DEF FetchBinary, FetchChecksums, FetchSignature, Fetch
  <2> QED BY <2>1, <2>2, <1>z, <1>b
<1>16. CASE FetchFails
  BY <1>16, <1>z, <1>b DEF FetchFails, HasStagedUpdate, Verified
<1>17. CASE DropFetched \/ (VerifyStaged /\ ~Verified) \/ WriteLabel
  <2>1. /\ dl' = "idle" /\ dl \notin {"idle", "bin"}
        /\ UNCHANGED <<exe, bak, rollback, pc, version, target, packaged>>
    BY <1>17 DEF DropFetched, VerifyStaged, WriteLabel
  <2>2. ASSUME HasStagedUpdate', Verified'
        PROVE  staging'.bin = staging.bin /\ staging'.label = target
    <3>1. CASE DropFetched
      BY <2>1, <2>2, <3>1, <1>e DEF DropFetched, HasStagedUpdate
    <3>2. CASE VerifyStaged /\ ~Verified
      BY <2>2, <3>2, <1>e DEF VerifyStaged
    <3>3. CASE WriteLabel
      <4>1. CASE staging' = [staging EXCEPT !.label = target]
        BY <4>1, <1>0, StagingFields
      <4>2. CASE staging' = staging /\ ~Mislabelled
        BY <2>2, <4>2 DEF Mislabelled, HasStagedUpdate
      <4> QED BY <3>3, <4>1, <4>2 DEF WriteLabel
    <3> QED BY <1>17, <3>1, <3>2, <3>3
  <2>3. OnRecord' /\ InPlace' /\ Restorable'
    BY <2>1, <1>z, <1>b
  <2>4. ASSUME HasStagedUpdate', Verified' PROVE staging'.bin = target /\ target # exe
    BY <2>1, <2>2, <2>4, <1>z, <1>b DEF Verified
  <2> QED BY <2>1, <2>2, <2>3, <2>4
<1>18. CASE VerifyStaged /\ Verified
  BY <1>18, <1>z, <1>b DEF VerifyStaged
<1>19. CASE UNCHANGED vars
  BY <1>19, <1>z DEF vars, HasStagedUpdate, Verified
<1>20. CASE VerifyStaged
  BY <1>17, <1>18, <1>20
<1> HIDE DEF OnRecord, InPlace, Labelled, Restorable
<1> QED
  BY <1>1, <1>2, <1>3, <1>4, <1>5, <1>6, <1>7, <1>8, <1>9, <1>10, <1>11,
     <1>12, <1>13, <1>14, <1>15, <1>16, <1>17, <1>19, <1>20 DEF Next, Install, Confirm, Download

LEMMA RollbackInvariant == Spec => []RInv
<1>1. Init => RInv
  BY Numbers DEF Init, HasStagedUpdate, Nothing, RInv, OnRecord, InPlace, Labelled, Restorable
<1> QED BY <1>1, RollbackStep, Inductive, Types, PTL DEF Spec

\* A rollback restores another version than the one recorded as failed, after any
\* sequence of downloads, crashes and failed operations that leaves no payload staged or
\* mislabelled and no record kept where it was to go: those windows are the only ones.
THEOREM RollbackSound == Spec => []RollbackRestoresOther
<1>1. RInv => RollbackRestoresOther
  BY DEF RInv, Restorable, RollbackRestoresOther
<1> QED BY <1>1, RollbackInvariant, PTL

\* Why an installation never goes back.  The anti-downgrade mark is as high as
\* any version installed or run, before its first value is written as high as
\* version 1; the binaries the machine may fall back to are not above it, and what
\* is downloaded, staged or being installed is not below it, nor marked as failed.
Marked ==
    /\ highest >= 1 /\ version >= 1
    /\ highest <= Higher(maxSeen, 1)
    /\ bak <= highest /\ image <= highest
    /\ pc \notin {"clean", "cleanRest", "maxSeen"} => exe <= highest
    /\ pc \in {"clean", "cleanRest", "maxSeen", "retries", "record"} => exe >= highest

New(v) == v >= highest /\ v # failed

Payloads ==
    /\ pc \in {"copy", "place", "clean"} => New(staging.bin)
    /\ dl # "idle" => New(target)
    /\ dl \in {"idle", "bin"} /\ pc \notin {"clean", "cleanRest"} /\ ~packaged
             /\ HasStagedUpdate /\ Verified
          => New(staging.bin)

NInv == torn = {} => Marked /\ Payloads

\* A step that changes neither the marks nor the files, and starts or ends nothing: what it
\* leaves staged was staged and verified, or is nothing that can be installed.
LEMMA NewStays ==
    ASSUME Payloads, UNCHANGED <<highest, failed, packaged>>,
           pc' \in {"copy", "place", "clean"}
              => pc \in {"copy", "place", "clean"} /\ staging' = staging,
           dl' # "idle" => dl # "idle" /\ target' = target,
           HasStagedUpdate' /\ Verified'
              => HasStagedUpdate /\ Verified /\ staging'.bin = staging.bin,
           dl' \in {"idle", "bin"} => dl \in {"idle", "bin"},
           \/ pc \notin {"clean", "cleanRest"}
           \/ pc' \in {"clean", "cleanRest"}
           \/ ~HasStagedUpdate'
    PROVE  Payloads'
BY DEF Payloads, New

LEMMA NewInvariant == Spec => []NInv
<1>1. Init => NInv
  BY UpdaterAssumption
  DEF Init, NInv, Marked, Payloads, New, Higher, None, HasStagedUpdate, Nothing, Payload
<1>2. TypeOK /\ IInv /\ RInv /\ NInv /\ [Next]_vars => NInv'
  <2> SUFFICES ASSUME TypeOK, IInv, RInv, NInv, [Next]_vars, torn' = {} PROVE Marked' /\ Payloads'
    BY DEF NInv
  <2>1. Marked /\ Payloads /\ OnRecord /\ InPlace /\ Labelled
    BY TornStays DEF NInv, RInv
  <2>2. RInv'
    BY RollbackStep
  <2>3. /\ exe \in 0 .. MaxVersion /\ bak \in 0 .. MaxVersion /\ image \in 0 .. MaxVersion
        /\ version \in 0 .. MaxVersion /\ maxSeen \in 0 .. MaxVersion /\ highest \in 0 .. MaxVersion + 1
        /\ target \in 0 .. MaxVersion /\ staging.bin \in 0 .. MaxVersion + 1 /\ latest \in 1 .. MaxVersion
        /\ staging \in Staging /\ MaxVersion \in Nat /\ None = 0
    BY UpdaterAssumption DEF TypeOK, IInv, RunnableCopy, Files, Corrupt, Staging, Versions, None
  <2>4. /\ dl # "idle" => pc = "running"
        /\ dl = "label" => Verified
    BY DEF IInv, InstallUnderWay
  <2>5. \A files : Remove(files) /\ HasStagedUpdate' /\ Verified'
          => HasStagedUpdate /\ Verified /\ staging'.bin = staging.bin
    BY <2>3, Removal
  <2> USE DEF disk, process, history, world, Goto, CycleGoto
  <2>6. CASE (\E v \in Versions : Publish(v)) \/ UNCHANGED vars
    BY <2>1, <2>6 DEF Publish, vars, Marked, Payloads, New, HasStagedUpdate, Verified
  <2>7. CASE Crash
    <3>1. /\ pc \notin {"clean", "cleanRest", "maxSeen"}
          /\ UNCHANGED <<disk, world, highest, image, version>> /\ pc' = "down" /\ dl' = "idle"
      BY <2>7 DEF Crash
    <3>2. Marked'
      BY <2>1, <3>1 DEF Marked
    <3>3. ASSUME ~packaged, HasStagedUpdate, Verified PROVE New(staging.bin)
      <4>1. CASE dl \in {"idle", "bin"}
        BY <2>1, <3>1, <3>3, <4>1 DEF Payloads
      <4>2. CASE dl \notin {"idle", "bin"}
        <5>1. staging.bin \in {target, Corrupt} /\ New(target)
          BY <2>1, <4>2 DEF Labelled, Payloads
        <5>2. staging.bin # Corrupt
          BY <3>3, Numbers DEF Verified
        <5> QED
          BY <5>1, <5>2
      <4> QED
        BY <4>1, <4>2
    <3>4. Payloads'
      BY <3>1, <3>3 DEF Payloads, New, HasStagedUpdate, Verified
    <3> QED
      BY <3>2, <3>4
  <2>8. CASE Boot \/ Stop
    <3>1. Marked'
      BY <2>1, <2>3, <2>8 DEF Boot, Stop, Marked
    <3>2. Payloads'
      BY <2>1, <2>8, NewStays DEF Boot, Stop, HasStagedUpdate, Verified
    <3> QED
      BY <3>1, <3>2
  <2>9. CASE \/ NothingStaged \/ SkipPackaged \/ Abandon \/ AbandonRest \/ AbandonRetries
             \/ CountAttempt
    <3>1. /\ pc \in {"boot", "abandonRest", "abandonRetries", "count"}
          /\ pc' \in {"connect", "abandonRest", "abandonRetries"}
          /\ UNCHANGED <<exe, bak, failed, maxSeen, highest, image, version, packaged, dl, target>>
          /\ staging' = staging \/ \E files : Remove(files)
      BY <2>9
      DEF NothingStaged, SkipPackaged, Abandon, AbandonRest, AbandonRetries, CountAttempt
    <3>2. Marked'
      BY <2>1, <3>1 DEF Marked
    <3>3. HasStagedUpdate' /\ Verified'
             => HasStagedUpdate /\ Verified /\ staging'.bin = staging.bin
      BY <2>5, <3>1 DEF HasStagedUpdate, Verified
    <3>4. Payloads'
      BY <2>1, <3>1, <3>3, NewStays
    <3> QED
      BY <3>2, <3>4
  <2>10. CASE Backup
    <3>1. /\ pc = "boot" /\ pc' = "copy" /\ dl = "idle" /\ bak' = exe
          /\ UNCHANGED <<exe, staging, failed, maxSeen, highest, image, version, packaged, dl>>
      BY <2>4, <2>10 DEF Backup
    <3>2. New(staging.bin)
      BY <2>1, <2>10, <3>1 DEF Backup, Installable, Payloads
    <3> QED
      BY <2>1, <2>3, <3>1, <3>2 DEF Marked, Payloads, New
  <2>11. CASE MoveAside
    <3>1. /\ pc = "copy" /\ pc' = "place" /\ exe' = None
          /\ UNCHANGED <<bak, staging, failed, maxSeen, highest, image, version, packaged, dl, target>>
      BY <2>11 DEF MoveAside
    <3>2. Marked'
      BY <2>1, <2>3, <3>1 DEF Marked
    <3> QED
      BY <2>1, <3>1, <3>2, NewStays DEF HasStagedUpdate, Verified
  <2>12. CASE Place
    <3>1. /\ pc \in {"copy", "place"} /\ pc' = "clean" /\ exe' = staging.bin
          /\ UNCHANGED <<bak, staging, failed, maxSeen, highest, image, version, packaged, dl, target>>
      BY <2>12 DEF Place
    <3>2. Marked'
      BY <2>1, <2>3, <3>1 DEF Marked, Payloads, New
    <3> QED
      BY <2>1, <2>4, <3>1, <3>2, NewStays DEF HasStagedUpdate, Verified
  <2>13. CASE InstallFails
    <3>1. /\ pc \in {"boot", "copy", "place", "clean"} /\ pc' = "count"
          /\ \/ exe' = bak /\ bak' = None
             \/ pc # "clean" /\ exe' = exe /\ bak' = bak
          /\ UNCHANGED <<staging, failed, maxSeen, highest, image, version, packaged, dl, target>>
      BY <2>13 DEF InstallFails
    <3>2. Marked'
      BY <2>1, <2>3, <3>1 DEF Marked
    <3>3. Payloads'
      BY <2>1, <2>4, <3>1 DEF Payloads, New, HasStagedUpdate, Verified
    <3> QED
      BY <3>2, <3>3
  <2>14. CASE CleanBinary \/ CleanRest \/ ClearRetries
    <3>1. /\ pc \in {"clean", "cleanRest", "retries"}
          /\ pc' = IF pc = "clean" THEN "cleanRest" ELSE IF pc = "cleanRest" THEN "maxSeen" ELSE "record"
          /\ UNCHANGED <<exe, bak, failed, maxSeen, highest, image, version, packaged, dl, target>>
          /\ staging' = staging \/ \E files : Remove(files)
      BY <2>14 DEF CleanBinary, CleanRest, ClearRetries
    <3>2. Marked'
      BY <2>1, <2>3, <3>1 DEF Marked
    <3>3. HasStagedUpdate' /\ Verified'
             => HasStagedUpdate /\ Verified /\ staging'.bin = staging.bin
      BY <2>5, <3>1 DEF HasStagedUpdate, Verified
    <3>4. pc' = "maxSeen" => ~HasStagedUpdate'
      BY <2>2 DEF RInv, OnRecord
    <3> QED
      BY <2>1, <3>1, <3>2, <3>3, <3>4, NewStays
  <2>15. CASE CommitMaxSeen
    <3>1. /\ pc = "maxSeen" /\ pc' = "retries" /\ maxSeen' = target /\ highest' = Higher(highest, exe)
          /\ UNCHANGED <<exe, bak, staging, failed, image, version, packaged, dl, target>>
      BY <2>15 DEF CommitMaxSeen
    <3>2. exe = target /\ ~HasStagedUpdate /\ dl = "idle"
      BY <2>1, <2>4, <3>1 DEF InPlace, OnRecord
    <3>3. highest' = exe
      BY <2>1, <2>3, <3>1 DEF Marked, Higher
    <3>4. Marked'
      BY <2>1, <2>3, <3>1, <3>2, <3>3 DEF Marked, Higher
    <3> QED
      BY <3>1, <3>2, <3>4 DEF Payloads, HasStagedUpdate
  <2>16. CASE RecordInstall
    <3>1. /\ pc = "record" /\ pc' = "connect" /\ version' = target
          /\ UNCHANGED <<exe, bak, staging, failed, maxSeen, highest, image, packaged, dl, target>>
      BY <2>16 DEF RecordInstall
    <3>2. exe = target
      BY <2>1, <3>1 DEF InPlace
    <3>3. Marked'
      BY <2>1, <2>3, <3>1, <3>2 DEF Marked
    <3> QED
      BY <2>1, <3>1, <3>3, NewStays DEF HasStagedUpdate, Verified
  <2>17. CASE SeedMaxSeen
    <3>1. /\ pc = "seed" /\ pc' = "running" /\ maxSeen' \in {maxSeen, Higher(maxSeen, version)}
          /\ highest' = Higher(highest, image)
          /\ UNCHANGED <<exe, bak, staging, failed, image, version, packaged, dl, target>>
      BY <2>17 DEF SeedMaxSeen
    <3>2. highest' = highest
      BY <2>1, <2>3, <3>1 DEF Marked, Higher
    <3>3. Marked'
      BY <2>1, <2>3, <3>1, <3>2 DEF Marked, Higher
    <3>4. HasStagedUpdate' = HasStagedUpdate /\ Verified' = Verified
      BY <3>1 DEF HasStagedUpdate, Verified
    <3> QED
      BY <2>1, <3>1, <3>2, <3>3, <3>4, NewStays
  <2>18. CASE ConnectOK \/ CleanupBackup \/ ConnectTransient \/ NoRollback \/ Rollback \/ ClearRollback
    <3>1. /\ pc \in {"connect", "confirm", "unmark"}
          /\ pc' \in {"confirm", "running", "seed", "down", "mark"}
          /\ \/ exe' = exe /\ bak' \in {bak, None}
             \/ exe' = bak /\ bak' = None
          /\ UNCHANGED <<staging, failed, maxSeen, highest, image, version, packaged, dl, target>>
      BY <2>18
      DEF ConnectOK, CleanupBackup, ConnectTransient, NoRollback, Rollback, Rejected, ClearRollback
    <3>2. Marked'
      BY <2>1, <2>3, <3>1 DEF Marked
    <3>3. HasStagedUpdate' = HasStagedUpdate /\ Verified' = Verified
      BY <3>1 DEF HasStagedUpdate, Verified
    <3> QED
      BY <2>1, <3>1, <3>2, <3>3, NewStays
  <2>19. CASE MarkFailed
    <3>1. /\ pc = "mark" /\ pc' = "unmark" /\ failed' \in {failed, rollback} /\ dl = "idle"
          /\ UNCHANGED <<exe, bak, staging, maxSeen, highest, image, version, packaged, dl>>
      BY <2>4, <2>19 DEF MarkFailed
    <3>2. Marked'
      BY <2>1, <3>1 DEF Marked
    <3>3. rollback # None => ~HasStagedUpdate
      BY <2>1 DEF OnRecord
    <3>4. Payloads'
      BY <2>1, <3>1, <3>3 DEF Payloads, New, HasStagedUpdate, Verified
    <3> QED
      BY <3>2, <3>4
  <2>20. CASE StartDownload
    <3>1. /\ pc = "running" /\ dl = "idle" /\ dl' = "bin" /\ ~packaged
          /\ latest >= maxSeen /\ failed' = None /\ target' = latest
          /\ UNCHANGED <<pc, exe, bak, staging, maxSeen, highest, image, version, packaged>>
      BY <2>20 DEF StartDownload
    <3>2. Marked'
      BY <2>1, <3>1 DEF Marked
    <3>3. latest >= highest /\ latest # None
      BY <2>1, <2>3, <3>1 DEF Marked, Higher
    <3>4. Payloads'
      BY <2>1, <2>3, <3>1, <3>3 DEF Payloads, New, HasStagedUpdate, Verified
    <3> QED
      BY <3>2, <3>4
  <2>21. CASE Download
    <3>1. /\ dl # "idle" /\ UNCHANGED <<pc, exe, bak, failed, maxSeen, highest, image, version, packaged, target>>
      BY <2>21
      DEF Download, FetchBinary, FetchChecksums, FetchSignature, Fetch, FetchFails, DropFetched,
          VerifyStaged, WriteLabel
    <3>2. Marked'
      BY <2>1, <3>1 DEF Marked
    <3>3. New(target) /\ pc = "running"
      BY <2>1, <2>4, <3>1 DEF Payloads
    <3>4. ASSUME dl' \in {"idle", "bin"}, ~packaged, HasStagedUpdate', Verified'
          PROVE  New(staging'.bin)
      <4>1. CASE dl = "bin"
        <5>1. staging' = staging
          BY <2>21, <3>4, <4>1
          DEF Download, FetchBinary, FetchChecksums, FetchSignature, Fetch, FetchFails,
              DropFetched, VerifyStaged, WriteLabel
        <5> QED
          BY <2>1, <3>3, <3>4, <4>1, <5>1 DEF Payloads, HasStagedUpdate, Verified
      <4>2. CASE dl # "bin"
        <5>1. staging'.bin = staging.bin
          <6>1. CASE FetchBinary \/ FetchChecksums \/ FetchSignature
            BY <3>4, <4>2, <6>1 DEF FetchBinary, FetchChecksums, FetchSignature, Fetch
          <6>2. CASE DropFetched \/ VerifyStaged
            BY <2>5, <3>4, <6>2 DEF DropFetched, VerifyStaged
          <6>3. CASE FetchFails
            BY <6>3 DEF FetchFails
          <6>4. CASE WriteLabel
            <7>1. [staging EXCEPT !.label = target].bin = staging.bin
              BY <2>3, StagingFields
            <7> QED
              BY <6>4, <7>1 DEF WriteLabel
          <6> QED
            BY <2>21, <6>1, <6>2, <6>3, <6>4 DEF Download
        <5>2. staging'.bin \in {target, Corrupt}
          BY <2>1, <3>1, <4>2, <5>1 DEF Labelled
        <5>3. staging'.bin # Corrupt
          BY <3>4, Numbers DEF Verified
        <5> QED
          BY <3>3, <5>2, <5>3
      <4> QED
        BY <4>1, <4>2
    <3>5. Payloads'
      BY <3>1, <3>3, <3>4 DEF Payloads, New
    <3> QED
      BY <3>2, <3>5
  <2> QED
    BY <2>6, <2>7, <2>8, <2>9, <2>10, <2>11, <2>12, <2>13, <2>14, <2>15, <2>16, <2>17, <2>18,
       <2>19, <2>20, <2>21 DEF Next, Install, Confirm
<1> QED BY <1>1, <1>2, Inductive, Types, RollbackInvariant, PTL DEF Spec

\* An installation never goes back, whatever the release page, the rollbacks, the
\* crashes and the failed operations do: outside the named windows the binary it
\* puts in place is not below one this machine installed or ran, nor the failed one.
THEOREM InstallationsAreNew == Spec => InstallsAreNew
<1>1. RInv /\ NInv /\ Place => torn # {} \/ (staging.bin >= highest /\ staging.bin # failed)
  BY DEF NInv, Payloads, New, Place
<1>2. RInv /\ NInv /\ [Next]_vars
        => [Place => torn # {} \/ (staging.bin >= highest /\ staging.bin # failed)]_vars
  BY <1>1
<1> QED BY <1>2, NewInvariant, RollbackInvariant, PTL DEF Spec, InstallsAreNew
============================================================================
