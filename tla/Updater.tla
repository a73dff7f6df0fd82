------------------------------- MODULE Updater ------------------------------
(***************************************************************************)
(* The updater helper on disk: applyUpdate's swap of the program files with *)
(* its journal, backup and data snapshot, the rollback, and the recovery    *)
(* that the next start of GameHQ hands to it, with a crash or a power loss  *)
(* between any two steps and any move, copy or phase record failing.        *)
(*                                                                         *)
(* One helper or one application acts at a time: the helper's mutex, the    *)
(* maintenance marker and the instance lock see to it (not modelled).  A    *)
(* file move, a durable_file::replace and a deletion are single steps; an   *)
(* owned path is moved as a whole.  The state files (config, database) are  *)
(* one value: "torn" while a restore has renamed them away.  The staging    *)
(* directory's contents are complete or purged: nothing reads a partial one.*)
(***************************************************************************)
EXTENDS Naturals, Sequences

CONSTANTS
  Owned,      \* kOwned: the paths the swap owns, in its order
  OldHas,     \* those the installed version has
  NewHas      \* those the update brings

Paths == {Owned[k] : k \in DOMAIN Owned}
N == Len(Owned)

ASSUME UpdaterAssumption ==
  /\ Owned \in Seq(Paths) /\ N > 0
  /\ \A j, k \in DOMAIN Owned : Owned[j] = Owned[k] => j = k
  /\ OldHas \subseteq Paths /\ NewHas \subseteq Paths

VARIABLES
  files,     \* per directory, what is at each owned path
  journal,   \* .update/swap.manifest: presence bits per path, or NoJournal
  phase,     \* .update/transaction.phase
  token,     \* a matching .update/healthy.token
  snapshot,  \* .update/data-snapshot: none, open (no readable manifest), whole
  data,      \* the live state files
  app,       \* the application: none, validating (under the helper's job), running,
             \* cleaning (running, and started on a finished update)
  pc, i, ok  \* the helper: its step, loop index, and "nothing failed so far"

disk == <<files, journal, phase, token, snapshot, data>>
vars == <<files, journal, phase, token, snapshot, data, app, pc, i, ok>>

Dirs == {"live", "backup", "staged", "failed"}
Content == {"none", "old", "new"}
NoJournal == [p \in {} |-> TRUE]
Empty == [p \in Paths |-> "none"]
Old == [p \in Paths |-> IF p \in OldHas THEN "old" ELSE "none"]
New == [p \in Paths |-> IF p \in NewHas THEN "new" ELSE "none"]

Unfinished == {"staged", "data_snapshotted", "swapped", "validating"}
Finished == {"healthy", "rolled_back"}

\* readPhase is what writeTransactionPhase recorded last; each record names the
\* step after it, and what happens when it cannot be written.
Record(step) ==
  CASE step = "record_staged"      -> [phase |-> "staged",           next |-> "snapshot"]
    [] step = "record_snapshotted" -> [phase |-> "data_snapshotted", next |-> "journal"]
    [] step = "record_swapped"     -> [phase |-> "swapped",          next |-> "record_validating"]
    [] step = "record_validating"  -> [phase |-> "validating",       next |-> "launch"]
    [] step = "record_healthy"     -> [phase |-> "healthy",          next |-> "idle"]
    [] step = "record_recovered"   -> [phase |-> "healthy",          next |-> "relaunch"]
    [] step = "record_rolled_back" -> [phase |-> "rolled_back",      next |-> "relaunch"]

ApplyRecords == {"record_staged", "record_snapshotted", "record_swapped", "record_validating"}
Records == ApplyRecords \cup {"record_healthy", "record_recovered", "record_rolled_back"}

Steps == Records \cup
  {"idle", "extract", "snapshot", "copy", "journal", "swap", "swap_new", "launch", "wait",
   "unswap", "unswap_old", "restore", "restoring", "purge_failed", "rollback",
   "forget_backup", "forget_journal", "forget_token", "clean", "clean_snapshot",
   "relaunch", "recover"}

HasJournal == journal # NoJournal
At(dir) == files[dir][Owned[i]]
Move(from, to) ==
  files' = [files EXCEPT ![from][Owned[i]] = "none", ![to][Owned[i]] = files[from][Owned[i]]]

Goto(step) == pc' = step
\* failAndRollback starts with rollbackAll.
Fail == Goto("restore") /\ ok' = TRUE

-----------------------------------------------------------------------------
(* applyUpdate up to the swap.                                             *)

\* The caller has exited; UpdatePreflight asked for a clean .update before.
\* "old" data is the data this update starts from.
Apply ==
  /\ pc = "idle" /\ app = "none"
  /\ ~HasJournal /\ snapshot = "none" /\ phase = "none"
  /\ files.live = Old
  /\ token' = FALSE /\ data' = "old"
  /\ files' = [files EXCEPT !["staged"] = Empty]
  /\ Goto("extract")
  /\ UNCHANGED <<journal, phase, snapshot, app, i, ok>>

Extract ==
  /\ pc = "extract"
  /\ \/ files' = [files EXCEPT !["staged"] = New] /\ Goto("record_staged") /\ UNCHANGED ok
     \/ Fail /\ UNCHANGED files
  /\ UNCHANGED <<journal, phase, token, snapshot, data, app, i>>

RecordPhase ==
  /\ pc \in Records
  /\ \/ phase' = Record(pc).phase /\ Goto(Record(pc).next) /\ UNCHANGED ok
     \/ pc \in ApplyRecords /\ Fail /\ UNCHANGED phase
     \/ pc \notin ApplyRecords /\ Goto("idle") /\ UNCHANGED <<phase, ok>>
  /\ UNCHANGED <<files, journal, token, snapshot, data, app, i>>

\* createDataSnapshot: the directory, then the copies and the manifest.
OpenSnapshot ==
  /\ pc = "snapshot"
  /\ \/ snapshot' = "open" /\ Goto("copy") /\ UNCHANGED ok
     \/ Fail /\ UNCHANGED snapshot
  /\ UNCHANGED <<files, journal, phase, token, data, app, i>>

CopyData ==
  /\ pc = "copy"
  /\ \/ snapshot' = "whole" /\ Goto("record_snapshotted") /\ UNCHANGED ok
     \/ snapshot' = "none" /\ Fail
  /\ UNCHANGED <<files, journal, phase, token, data, app, i>>

-----------------------------------------------------------------------------
(* swapProgramFiles.                                                       *)

WriteJournal ==
  /\ pc = "journal"
  /\ \/ /\ journal' = [p \in Paths |-> [old |-> files.live[p] # "none",
                                        new |-> files.staged[p] # "none"]]
        /\ Goto("swap") /\ i' = 1
        /\ UNCHANGED ok
     \/ Fail /\ UNCHANGED <<journal, i>>
  /\ UNCHANGED <<files, phase, token, snapshot, data, app>>

\* One entry's old path goes to the backup; a refused move undoes the earlier ones.
SwapOld ==
  /\ pc = "swap"
  /\ \/ At("live") = "none" /\ Goto("swap_new") /\ UNCHANGED <<files, i, ok>>
     \/ At("live") # "none" /\ Move("live", "backup") /\ Goto("swap_new") /\ UNCHANGED <<i, ok>>
     \/ At("live") # "none" /\ Goto("unswap") /\ i' = i - 1 /\ ok' = TRUE /\ UNCHANGED files
  /\ UNCHANGED <<journal, phase, token, snapshot, data, app>>

\* Mutant of NextPath: the loop runs one entry too far.
NextPathOneMore ==
  /\ Goto(IF i > N THEN "record_swapped" ELSE "swap")
  /\ i' = i + 1

NextPath ==
  /\ Goto(IF i = N THEN "record_swapped" ELSE "swap")
  /\ i' = IF i = N THEN i ELSE i + 1

\* The new path takes its place.
SwapNew ==
  /\ pc = "swap_new"
  /\ \/ At("staged") = "none" /\ NextPath /\ UNCHANGED <<files, ok>>
     \/ At("staged") # "none" /\ Move("staged", "live") /\ NextPath /\ UNCHANGED ok
     \/ /\ At("staged") # "none"
        /\ Goto("unswap_old") /\ ok' = TRUE /\ UNCHANGED <<files, i>>
  /\ UNCHANGED <<journal, phase, token, snapshot, data, app>>

\* Mutant of Unswap: the journal and the backup go even if a move was refused.
UnswapAlwaysForgets ==
  /\ pc = "unswap"
  /\ \/ /\ i = 0 /\ Fail
        /\ files' = [files EXCEPT !["backup"] = Empty]
        /\ journal' = NoJournal
     \/ /\ i > 0 /\ ~journal[Owned[i]].new
        /\ Goto("unswap_old") /\ UNCHANGED <<files, journal, ok>>
     \/ /\ i > 0 /\ journal[Owned[i]].new
        /\ Move("live", "staged") /\ Goto("unswap_old") /\ UNCHANGED <<journal, ok>>
     \/ /\ i > 0 /\ journal[Owned[i]].new
        /\ ok' = FALSE /\ Goto("unswap_old") /\ UNCHANGED <<files, journal>>
  /\ UNCHANGED <<phase, token, snapshot, data, app, i>>

\* The rollback lambda, last step first; what a step had moved follows from the
\* journal.  A refused move is remembered, and the journal and backup then stay.
Unswap ==
  /\ pc = "unswap"
  /\ \/ /\ i = 0 /\ Fail
        /\ files' = IF ok THEN [files EXCEPT !["backup"] = Empty] ELSE files
        /\ journal' = IF ok THEN NoJournal ELSE journal
     \/ /\ i > 0 /\ ~journal[Owned[i]].new
        /\ Goto("unswap_old") /\ UNCHANGED <<files, journal, ok>>
     \/ /\ i > 0 /\ journal[Owned[i]].new
        /\ Move("live", "staged") /\ Goto("unswap_old") /\ UNCHANGED <<journal, ok>>
     \/ /\ i > 0 /\ journal[Owned[i]].new
        /\ ok' = FALSE /\ Goto("unswap_old") /\ UNCHANGED <<files, journal>>
  /\ UNCHANGED <<phase, token, snapshot, data, app, i>>

UnswapOld ==
  /\ pc = "unswap_old"
  /\ Goto("unswap") /\ i' = i - 1
  /\ \/ ~journal[Owned[i]].old /\ UNCHANGED <<files, ok>>
     \/ /\ journal[Owned[i]].old /\ At("live") = "none"
        /\ Move("backup", "live") /\ UNCHANGED ok
     \/ journal[Owned[i]].old /\ ok' = FALSE /\ UNCHANGED files
  /\ UNCHANGED <<journal, phase, token, snapshot, data, app>>

-----------------------------------------------------------------------------
(* launchAndWaitForHealth.                                                 *)

\* A stale token is removed first; the new version may migrate the data.
Launch ==
  /\ pc = "launch"
  /\ token' = FALSE
  /\ \/ /\ app' = "validating" /\ data' \in {data, "new"}
        /\ Goto("wait") /\ UNCHANGED ok
     \/ Fail /\ UNCHANGED <<app, data>>
  /\ UNCHANGED <<files, journal, phase, snapshot, i>>

\* main.cpp, seven seconds after the start of the new version.
AppPublishesToken ==
  /\ app = "validating" /\ ~token
  /\ token' = TRUE
  /\ UNCHANGED <<files, journal, phase, snapshot, data, app, pc, i, ok>>

TokenSeen ==
  /\ pc = "wait" /\ token
  /\ app' = "running"
  /\ Goto("record_healthy")
  /\ UNCHANGED <<disk, i, ok>>

\* The deadline, an exited process tree, or a supervision that cannot be lifted;
\* the token may have been published since the helper last looked.
GiveUp ==
  /\ pc = "wait"
  /\ app' = "none"
  /\ Fail
  /\ UNCHANGED <<disk, i>>

-----------------------------------------------------------------------------
(* rollbackAll, for a failed apply and for a recovery.                     *)

\* restoreDataSnapshot undoes its own renames when it fails.
RestoreData ==
  /\ pc = "restore"
  /\ \/ snapshot = "none" /\ Goto("purge_failed") /\ UNCHANGED <<data, ok>>
     \/ snapshot = "whole" /\ data' = "torn" /\ Goto("restoring") /\ UNCHANGED ok
     \/ snapshot # "none" /\ ok' = FALSE /\ Goto("purge_failed") /\ UNCHANGED data
  /\ UNCHANGED <<files, journal, phase, token, snapshot, app, i>>

PublishRestored ==
  /\ pc = "restoring"
  /\ data' = "old"
  /\ Goto("purge_failed")
  /\ UNCHANGED <<files, journal, phase, token, snapshot, app, i, ok>>

\* rollbackAll reports; both callers stop on a failure.
Ended == Goto(IF ok THEN "clean" ELSE "idle")

\* Mutant of PurgeFailed: it is the backup that is purged.
PurgeFailedTakesBackup ==
  /\ pc = "purge_failed"
  /\ IF HasJournal
     THEN /\ files' = [files EXCEPT !["backup"] = Empty]
          /\ Goto("rollback") /\ i' = N
     ELSE Ended /\ UNCHANGED <<files, i>>
  /\ UNCHANGED <<journal, phase, token, snapshot, data, app, ok>>

\* rollbackProgramFiles, only with a journal.
PurgeFailed ==
  /\ pc = "purge_failed"
  /\ IF HasJournal
     THEN /\ files' = [files EXCEPT !["failed"] = Empty]
          /\ Goto("rollback") /\ i' = N
     ELSE Ended /\ UNCHANGED <<files, i>>
  /\ UNCHANGED <<journal, phase, token, snapshot, data, app, ok>>

Entry == journal[Owned[i]]
ToRestore == Entry.old /\ At("backup") # "none"
ToRemove == ~Entry.old /\ Entry.new /\ At("live") # "none"

\* One entry, the last first: a new path out of the way, the old one back.
RollbackEntry ==
  /\ pc = "rollback" /\ i > 0
  /\ \/ /\ ToRestore /\ At("live") # "none"
        /\ Move("live", "failed") /\ UNCHANGED <<pc, i>>
     \/ /\ ToRestore /\ At("live") = "none"
        /\ Move("backup", "live") /\ i' = i - 1 /\ UNCHANGED pc
     \/ /\ ToRemove /\ At("staged") = "none"
        /\ Move("live", "staged") /\ i' = i - 1 /\ UNCHANGED pc
     \/ /\ ~ToRestore /\ ~ToRemove
        /\ i' = i - 1 /\ UNCHANGED <<files, pc>>
     \/ /\ ToRestore \/ ToRemove
        /\ Goto("idle") /\ UNCHANGED <<files, i>>
  /\ UNCHANGED <<journal, phase, token, snapshot, data, app, ok>>

RollbackEnds ==
  /\ pc = "rollback" /\ i = 0
  /\ Goto("forget_backup")
  /\ UNCHANGED <<disk, app, i, ok>>

ForgetBackup ==
  /\ pc = "forget_backup"
  /\ files' = [files EXCEPT !["backup"] = Empty, !["failed"] = Empty]
  /\ Goto("forget_journal")
  /\ UNCHANGED <<journal, phase, token, snapshot, data, app, i, ok>>

ForgetJournal ==
  /\ pc = "forget_journal"
  /\ journal' = NoJournal
  /\ Goto("forget_token")
  /\ UNCHANGED <<files, phase, token, snapshot, data, app, i, ok>>

ForgetToken ==
  /\ pc = "forget_token"
  /\ token' = FALSE
  /\ Ended
  /\ UNCHANGED <<files, journal, phase, snapshot, data, app, i, ok>>

\* After a complete rollback: staging, then the snapshot, which is a directory
\* and so is not removed in one step.
CleanStaging ==
  /\ pc = "clean"
  /\ files' = [files EXCEPT !["staged"] = Empty]
  /\ snapshot' = IF snapshot = "none" THEN "none" ELSE "open"
  /\ Goto("clean_snapshot")
  /\ UNCHANGED <<journal, phase, token, data, app, i, ok>>

CleanSnapshot ==
  /\ pc = "clean_snapshot"
  /\ snapshot' = "none"
  /\ Goto("record_rolled_back")
  /\ UNCHANGED <<files, journal, phase, token, data, app, i, ok>>

-----------------------------------------------------------------------------
(* Starts, recovery and crashes.                                           *)

\* Mutant of InterruptedUpdateExists: a validated program counts as installed.
InterruptedUnlessValidating == phase \in Unfinished \ {"validating"}

InterruptedUpdateExists == phase \in Unfinished \/ HasJournal

\* main: an interrupted update goes to the helper, everything else opens.
Main ==
  IF InterruptedUpdateExists
  THEN Goto("recover") /\ UNCHANGED app
  ELSE Goto("idle") /\ app' = IF phase \in Finished THEN "cleaning" ELSE "running"

Start ==
  /\ pc = "idle" /\ app = "none"
  /\ Main
  /\ UNCHANGED <<disk, i, ok>>

\* launchPrevious: GameHQ is started again, if that does not fail.
LaunchPrevious ==
  /\ pc = "relaunch"
  /\ Main \/ (Goto("idle") /\ UNCHANGED app)
  /\ UNCHANGED <<disk, i, ok>>

\* recoverInterruptedUpdate.
Recover ==
  /\ pc = "recover"
  /\ \/ phase \in Finished /\ Goto("idle") /\ UNCHANGED ok
     \/ phase = "validating" /\ token /\ Goto("record_recovered") /\ UNCHANGED ok
     \/ phase \notin Finished /\ ~(phase = "validating" /\ token) /\ Fail
  /\ UNCHANGED <<disk, app, i>>

\* cleanCompletedUpdateArtifacts, seven seconds after a start on a finished update.
CleanCompleted ==
  /\ app = "cleaning" /\ app' = "running"
  /\ files' = [d \in Dirs |-> IF d = "live" THEN files.live ELSE Empty]
  /\ journal' = NoJournal /\ snapshot' = "none" /\ token' = FALSE /\ phase' = "none"
  /\ UNCHANGED <<data, pc, i, ok>>

AppExits ==
  /\ app \in {"running", "cleaning"} /\ pc = "idle"
  /\ app' = "none"
  /\ UNCHANGED <<disk, pc, i, ok>>

\* The helper dies, with the application it supervises; a power loss also takes
\* a released one.
Crash ==
  /\ pc # "idle"
  /\ Goto("idle")
  /\ app' \in {"none"} \cup ({app} \cap {"running"})
  /\ UNCHANGED <<disk, i, ok>>

-----------------------------------------------------------------------------
Init ==
  /\ files = [d \in Dirs |-> IF d = "live" THEN Old ELSE Empty]
  /\ journal = NoJournal /\ phase = "none" /\ token = FALSE
  /\ snapshot = "none" /\ data = "old"
  /\ app = "none" /\ pc = "idle" /\ i = 0 /\ ok = TRUE

Swap == WriteJournal \/ SwapOld \/ SwapNew \/ Unswap \/ UnswapOld
Validate == Launch \/ TokenSeen \/ GiveUp
Rollback ==
  \/ RestoreData \/ PublishRestored \/ PurgeFailed \/ RollbackEntry \/ RollbackEnds
  \/ ForgetBackup \/ ForgetJournal \/ ForgetToken
  \/ CleanStaging \/ CleanSnapshot \/ LaunchPrevious
Helper == Extract \/ RecordPhase \/ OpenSnapshot \/ CopyData \/ Swap \/ Validate
          \/ Rollback \/ Recover

Next == \/ Apply \/ Helper \/ AppPublishesToken
        \/ Start \/ CleanCompleted \/ AppExits \/ Crash

Spec == Init /\ [][Next]_vars

-----------------------------------------------------------------------------
(* What must hold.                                                         *)

TypeOK ==
  /\ files \in [Dirs -> [Paths -> Content]]
  /\ journal = NoJournal \/ journal \in [Paths -> [old : BOOLEAN, new : BOOLEAN]]
  /\ phase \in {"none"} \cup Unfinished \cup Finished
  /\ token \in BOOLEAN
  /\ snapshot \in {"none", "open", "whole"}
  /\ data \in {"old", "new", "torn"}
  /\ app \in {"none", "validating", "running", "cleaning"}
  /\ pc \in Steps /\ i \in 0 .. N /\ ok \in BOOLEAN

\* Whatever fails and whenever the machine stops, every program file of the
\* installed version still exists, in its place or in the backup.
OldKept == \A p \in OldHas : "old" \in {files.live[p], files.backup[p]}

\* While the program is not wholly the old one and no update was confirmed, the
\* journal that recovery works from is on disk.
MixIsJournaled == files.live # Old /\ phase # "healthy" => HasJournal

\* No start opens a mixture of two versions, or a program whose state files are
\* renamed away; the new version is only ever tried on a completely swapped program
\* with a data snapshot to go back to; a recorded rollback is a complete one, of
\* program files and user data.
VersionsWhole ==
  /\ app # "none" => files.live \in {Old, New} /\ data # "torn"
  /\ app = "validating" => files.live = New /\ snapshot = "whole"
  /\ phase = "rolled_back" => files.live = Old /\ data = "old"

\* UpdaterRecovery.cpp: a matching health token is "proof the update itself
\* succeeded".  So an update confirmed by one is the whole new program, on data that
\* nobody has taken away.  A token published while the supervisor gives up is on
\* disk during the rollback, and a crash in it lets the recovery believe it.  The code
\* does not keep this (see the README), and no run asks for it.
ConfirmedIsWhole == phase = "healthy" => files.live = New /\ data # "torn"

\* Recovery runs only where there is something to recover: for a finished update
\* it does nothing, and the start that asked for it opens nothing.
RecoveryIsNeeded == pc = "recover" => phase # "healthy"
=============================================================================
