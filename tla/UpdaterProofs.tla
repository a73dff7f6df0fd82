---------------------------- MODULE UpdaterProofs -----------------------------
(***************************************************************************)
(* For any list of owned paths and any two versions of them: the types,     *)
(* OldKept, MixIsJournaled and VersionsWhole of Updater, through every      *)
(* refused move and every crash.                                           *)
(*                                                                         *)
(* A crash leaves only the disk and forgets the step, so the invariant has  *)
(* two halves.  What holds of the disk alone: each path is in one of a few  *)
(* places (OnePlace), and a mixture has a faithful journal (Journaled).     *)
(* And how far each loop has come, by its index (Progress), with the        *)
(* phase, token and data each step relies on: a rollback may forget         *)
(* its journal only with everything back, and a token outlives a forgotten  *)
(* journal only when the data are in place (Tokens).                        *)
(***************************************************************************)
EXTENDS Updater, TLAPS

\* The steps up to the journal, of the swap and its undoing, with the update in place.
Preparing == {"extract", "record_staged", "snapshot", "copy", "record_snapshotted", "journal"}
Swapping == {"swap", "swap_new", "unswap", "unswap_old"}
Swapped == {"record_swapped", "record_validating", "launch", "wait", "record_healthy"}
\* Those of a rollback: data, program files, and what is left to clean.
Restoring == {"restore", "restoring", "purge_failed"}
Returning == {"rollback", "forget_backup", "forget_journal"}
Cleaning == {"clean", "clean_snapshot", "record_rolled_back"}

\* What a journal of this update says.
Entries == [p \in Paths |-> [old |-> p \in OldHas, new |-> p \in NewHas]]
LiveIs(k, version) == files.live[Owned[k]] = version[Owned[k]]
StagedIs(k, version) == files.staged[Owned[k]] = version[Owned[k]]
Index == 1 .. N

\* A path holds one of the two versions' contents; the installed one is never lost.
OnePlace ==
  \A k \in Index :
    /\ files.live[Owned[k]] \in {"none", Old[Owned[k]], New[Owned[k]]}
    /\ files.backup[Owned[k]] \in {"none", Old[Owned[k]]}
    /\ Old[Owned[k]] \in {files.live[Owned[k]], files.backup[Owned[k]], "none"}

\* A journal tells the truth, and a mixture, or a step that reads one, has it.
Journaled ==
  /\ HasJournal => journal = Entries
  /\ (\E k \in Index : ~LiveIs(k, Old)) \/ pc \in Swapping \cup Swapped \cup Returning => HasJournal

\* How far each loop has come: what is before its index and what is behind.
Progress ==
  /\ pc \in Preparing \cup {"forget_backup", "forget_journal"} =>
       \A k \in Index : LiveIs(k, Old)
  /\ pc \in Preparing \ {"extract"} => \A k \in Index : StagedIs(k, New)
  /\ pc = "swap" => /\ i \in Index
                    /\ \A k \in Index : IF k < i THEN LiveIs(k, New)
                                        ELSE LiveIs(k, Old) /\ StagedIs(k, New)
  /\ pc = "swap_new" => /\ i \in Index /\ files.live[Owned[i]] = "none"
                        /\ \A k \in Index : /\ k < i => LiveIs(k, New)
                                            /\ k >= i => StagedIs(k, New)
                                            /\ k > i => LiveIs(k, Old)
  /\ pc = "unswap" => \A k \in Index : IF k <= i THEN LiveIs(k, New) ELSE ok => LiveIs(k, Old)
  /\ pc = "unswap_old" => /\ i \in Index
                          /\ \A k \in Index : /\ k < i => LiveIs(k, New)
                                              /\ k > i /\ ok => LiveIs(k, Old)
                          /\ ok => files.live[Owned[i]] = "none"
  /\ pc \in Swapped => \A k \in Index : LiveIs(k, New)
  /\ pc = "rollback" => \A k \in Index : k > i => LiveIs(k, Old)

\* What the recorded phase means for the other steps and for the disk.
Phases ==
  /\ phase = "none" => snapshot = "none" /\ ~HasJournal /\ data # "torn"
  /\ phase = "rolled_back" => pc \in {"idle", "relaunch"} /\ ~HasJournal /\ data = "old"
  /\ phase = "healthy" => pc \in {"idle", "relaunch", "recover"}
  /\ pc \in {"extract", "record_staged"} => phase = "none"
  /\ pc \in (Preparing \ {"extract", "record_staged"}) \cup Swapping => phase # "none"
  /\ pc \in {"launch", "wait", "record_healthy", "record_recovered"} => phase = "validating"

\* Who may find a health token, and what a recovery that trusts it finds.
Tokens ==
  /\ token => phase \in {"validating", "healthy"}
  /\ token /\ pc \in Restoring => HasJournal
  /\ token /\ pc \in {"restore", "purge_failed", "forget_token"} \cup Returning => data # "torn"
  /\ pc \in {"record_healthy", "record_recovered"} => token
  /\ pc \in Preparing \cup Swapping \cup Cleaning \cup {"record_swapped", "record_validating"} => ~token
  /\ pc \in Cleaning \cup {"forget_token"} => ~HasJournal
  /\ data = "torn" /\ (token \/ phase = "healthy") => HasJournal

\* The user's data, their snapshot, and whether everything restored so far was.
Data ==
  /\ data # "old" /\ snapshot = "none" => phase = "none" /\ pc = "idle"
  /\ pc \in Preparing \cup Swapping \cup Cleaning \cup {"record_swapped", "record_validating", "launch"} =>
       data = "old"
  /\ pc \in {"wait", "record_healthy"} => data # "torn"
  /\ pc \in {"record_snapshotted", "journal", "restoring"} \cup Swapping \cup Swapped => snapshot = "whole"
  /\ pc \in {"restore", "restoring"} => ok
  /\ pc \in {"purge_failed", "forget_token"} \cup Returning => (ok => data = "old")

\* The application runs beside two steps only.
Opened ==
  /\ app = "validating" => pc = "wait"
  /\ app = "running" => pc \in {"idle", "record_healthy"}
  /\ app = "cleaning" => pc = "idle" /\ ~HasJournal /\ phase \in Finished
  /\ app # "none" => data # "torn"

\* What is open is one version.
Whole == app # "none" => (\A k \in Index : LiveIs(k, Old)) \/ (\A k \in Index : LiveIs(k, New))

Controls == Phases /\ Tokens /\ Data /\ Opened

IInv == TypeOK /\ OnePlace /\ Journaled /\ Progress /\ Whole /\ Controls
-----------------------------------------------------------------------------
\* The swap's order reaches every owned path, and each of them once.
LEMMA Order ==
  /\ N \in Nat /\ N > 0 /\ DOMAIN Owned = Index
  /\ \A k \in Index : Owned[k] \in Paths
  /\ \A j, k \in Index : Owned[j] = Owned[k] => j = k
  /\ \A p \in Paths : \E k \in Index : p = Owned[k]
<1>1. Owned \in Seq(Paths)
  BY UpdaterAssumption
<1>2. N \in Nat /\ DOMAIN Owned = Index
  BY <1>1 DEF N, Index
<1> QED BY <1>2, UpdaterAssumption DEF Paths, Index

\* A journal that is written can be told from none.
LEMMA Written ==
  ASSUME NEW bits \in [Paths -> [old : BOOLEAN, new : BOOLEAN]]
  PROVE bits # NoJournal
<1>1. PICK k \in Index : Owned[k] \in Paths
  BY Order DEF Index
<1>2. DOMAIN bits # DOMAIN NoJournal
  BY <1>1 DEF NoJournal
<1> QED BY <1>2

\* The contents of the two versions.
LEMMA Versions ==
  /\ Old \in [Paths -> {"none", "old"}] /\ New \in [Paths -> {"none", "new"}]
  /\ \A p \in Paths : (Old[p] # "none" <=> p \in OldHas) /\ (New[p] # "none" <=> p \in NewHas)
  /\ Entries \in [Paths -> [old : BOOLEAN, new : BOOLEAN]]
  /\ \A p \in Paths : Entries[p].old = (p \in OldHas) /\ Entries[p].new = (p \in NewHas)
BY DEF Old, New, Entries

\* A version is in place when it is in place at every index.
LEMMA Everywhere ==
  ASSUME TypeOK, NEW version \in [Paths -> Content]
  PROVE files.live = version <=> \A k \in Index : LiveIs(k, version)
<1>1. files.live \in [Paths -> Content]
  BY DEF TypeOK, Dirs
<1> QED BY <1>1, Order DEF LiveIs

\* What a move does, place by place.
LEMMA Moved ==
  ASSUME TypeOK, i \in Index, NEW from \in Dirs, NEW to \in Dirs, from # to, Move(from, to)
  PROVE /\ files' \in [Dirs -> [Paths -> Content]]
        /\ files'[from][Owned[i]] = "none" /\ files'[to][Owned[i]] = files[from][Owned[i]]
        /\ \A d \in Dirs, k \in Index :
             k # i \/ (d # from /\ d # to) => files'[d][Owned[k]] = files[d][Owned[k]]
<1>1. Owned[i] \in Paths
  BY Order
<1>2. files \in [Dirs -> [Paths -> Content]] /\ "none" \in Content
  BY DEF TypeOK, Content
<1>3. files[from] \in [Paths -> Content] /\ files[to] \in [Paths -> Content]
  BY <1>2
<1>4. /\ files'[from] = [files[from] EXCEPT ![Owned[i]] = "none"]
      /\ files'[to] = [files[to] EXCEPT ![Owned[i]] = files[from][Owned[i]]]
      /\ \A d \in Dirs : d # from /\ d # to => files'[d] = files[d]
  BY <1>2 DEF Move
<1>5. files' \in [Dirs -> [Paths -> Content]]
  BY <1>1, <1>2, <1>3 DEF Move
<1>6. \A k \in Index : k # i => Owned[k] # Owned[i] /\ Owned[k] \in Paths
  BY Order
<1> QED BY <1>1, <1>3, <1>4, <1>5, <1>6

\* Every step keeps the types.
LEMMA TypesKept == TypeOK /\ Progress /\ [Next]_vars => TypeOK'
<1> SUFFICES ASSUME TypeOK, Progress, [Next]_vars PROVE TypeOK'
  OBVIOUS
<1> DEFINE Files == [Dirs -> [Paths -> Content]]
<1> DEFINE Journals == [Paths -> [old : BOOLEAN, new : BOOLEAN]]
<1> DEFINE Control == /\ phase \in {"none"} \cup Unfinished \cup Finished
                      /\ token \in BOOLEAN /\ snapshot \in {"none", "open", "whole"}
                      /\ data \in {"old", "new", "torn"}
                      /\ app \in {"none", "validating", "running", "cleaning"}
                      /\ pc \in Steps /\ ok \in BOOLEAN
<1>1. files \in Files /\ Control /\ i \in 0 .. N /\ (journal = NoJournal \/ journal \in Journals)
  BY DEF TypeOK
<1>2. Empty \in [Paths -> Content] /\ Old \in [Paths -> Content] /\ New \in [Paths -> Content]
  BY Versions DEF Empty, Content
<1>3. ASSUME NEW from \in Dirs, NEW to \in Dirs, from # to, Move(from, to), i \in Index PROVE files' \in Files
  BY <1>3, Moved
<1>4. files' \in Files
  <2>1. CASE UNCHANGED files
    BY <1>1, <2>1
  <2>2. CASE Apply \/ Extract \/ PurgeFailed \/ CleanStaging \/ ForgetBackup \/ CleanCompleted
    BY <1>1, <1>2, <2>2 DEF Apply, Extract, PurgeFailed, CleanStaging, ForgetBackup, CleanCompleted, Dirs
  <2>3. CASE SwapOld \/ SwapNew
    BY <1>1, <1>3, <2>3 DEF SwapOld, SwapNew, Progress, Dirs
  <2>4. CASE Unswap
    <3>1. CASE i = 0
      BY <1>1, <1>2, <2>4, <3>1 DEF Unswap, Dirs
    <3>2. CASE i # 0
      <4>1. i \in Index
        BY <1>1, <3>2, Order DEF Index
      <4> QED BY <1>1, <1>3, <2>4, <3>2, <4>1 DEF Unswap, Dirs
    <3> QED BY <3>1, <3>2
  <2>5. CASE UnswapOld
    BY <1>1, <1>3, <2>5 DEF UnswapOld, Progress, Dirs
  <2>6. CASE RollbackEntry
    <3>1. i \in Index
      BY <1>1, <2>6, Order DEF Index, RollbackEntry
    <3> QED BY <1>1, <1>3, <2>6, <3>1 DEF RollbackEntry, Dirs
  <2> QED BY <2>1, <2>2, <2>3, <2>4, <2>5, <2>6
      DEF Next, Helper, Swap, Validate, Rollback, RecordPhase, OpenSnapshot, CopyData, WriteJournal,
          Launch, TokenSeen, GiveUp, RestoreData, PublishRestored, RollbackEnds, ForgetJournal,
          ForgetToken, CleanSnapshot, LaunchPrevious, Recover, AppPublishesToken, Start, AppExits,
          Crash, disk, vars
<1>5. journal' = NoJournal \/ journal' \in Journals
  <2>1. CASE UNCHANGED journal
    BY <1>1, <2>1
  <2>2. CASE WriteJournal
    <3>1. journal' = journal \/ journal' = [p \in Paths |-> [old |-> files.live[p] # "none",
                                                             new |-> files.staged[p] # "none"]]
      BY <2>2 DEF WriteJournal
    <3>2. [p \in Paths |-> [old |-> files.live[p] # "none", new |-> files.staged[p] # "none"]] \in Journals
      OBVIOUS
    <3> QED BY <1>1, <3>1, <3>2
  <2>3. CASE Unswap \/ ForgetJournal \/ CleanCompleted
    <3>1. journal' \in {journal, NoJournal}
      BY <2>3 DEF Unswap, ForgetJournal, CleanCompleted
    <3> QED BY <1>1, <3>1
  <2> QED BY <2>1, <2>2, <2>3
      DEF Next, Helper, Swap, Validate, Rollback, Apply, Extract, RecordPhase, OpenSnapshot, CopyData,
          SwapOld, SwapNew, UnswapOld, Launch, TokenSeen, GiveUp, RestoreData, PublishRestored,
          PurgeFailed, RollbackEntry, RollbackEnds, ForgetBackup, ForgetToken, CleanStaging,
          CleanSnapshot, LaunchPrevious, Recover, AppPublishesToken, Start, AppExits, Crash, disk, vars
<1>6. i' \in 0 .. N
  <2>1. CASE UNCHANGED i
    BY <1>1, <2>1
  <2>2. CASE WriteJournal \/ PurgeFailed
    BY <1>1, <2>2, Order DEF WriteJournal, PurgeFailed
  <2>3. CASE SwapOld \/ SwapNew \/ UnswapOld \/ RollbackEntry
    BY <1>1, <2>3, Order DEF SwapOld, SwapNew, NextPath, UnswapOld, RollbackEntry, Progress, Index
  <2> QED BY <2>1, <2>2, <2>3
      DEF Next, Helper, Swap, Validate, Rollback, Apply, Extract, RecordPhase, OpenSnapshot, CopyData,
          Unswap, Launch, TokenSeen, GiveUp, RestoreData, PublishRestored, RollbackEnds, ForgetBackup,
          ForgetJournal, ForgetToken, CleanStaging, CleanSnapshot, LaunchPrevious, Recover,
          AppPublishesToken, Start, CleanCompleted, AppExits, Crash, disk, vars
<1>7. Control'
  <2>0. Control
    BY <1>1
  <2> HIDE DEF Files, Journals
  <2> USE <2>0 DEF Goto, Fail, Ended, Steps, Records, ApplyRecords, Unfinished, Finished
  <2>1. CASE Apply \/ Extract \/ OpenSnapshot \/ CopyData
    <3>1. CASE Apply
      BY <3>1 DEF Apply
    <3>2. CASE Extract
      <4>1. ok' \in BOOLEAN
        BY <3>2 DEF Extract
      <4> QED BY <3>2, <4>1 DEF Extract
    <3>3. CASE OpenSnapshot
      <4>1. ok' \in BOOLEAN
        BY <3>3 DEF OpenSnapshot
      <4> QED BY <3>3, <4>1 DEF OpenSnapshot
    <3>4. CASE CopyData
      <4>1. ok' \in BOOLEAN
        BY <3>4 DEF CopyData
      <4> QED BY <3>4, <4>1 DEF CopyData
    <3> QED BY <2>1, <3>1, <3>2, <3>3, <3>4
  <2>2. CASE RecordPhase
    <3>1. /\ phase' \in {phase, Record(pc).phase} /\ pc' \in {"restore", "idle", Record(pc).next}
          /\ UNCHANGED <<token, snapshot, data, app>> /\ ok' \in BOOLEAN
      BY <2>2 DEF RecordPhase
    <3>2. Record(pc).phase \in Unfinished \cup Finished /\ Record(pc).next \in Steps
      BY <2>2 DEF RecordPhase, Record
    <3> QED BY <3>1, <3>2
  <2>3. CASE Swap
    <3>1. /\ pc' \in {"swap", "swap_new", "unswap", "unswap_old", "restore", "record_swapped"}
          /\ ok' = ok \/ ok' \in BOOLEAN
          /\ UNCHANGED <<phase, token, snapshot, data, app>>
      BY <2>3 DEF Swap, WriteJournal, SwapOld, SwapNew, NextPath, Unswap, UnswapOld
    <3>2. ok' \in BOOLEAN
      BY <3>1
    <3>3. pc' \in Steps
      BY <3>1
    <3> QED BY <3>1, <3>2, <3>3
  <2>4. CASE Validate
    BY <2>4 DEF Validate, Launch, TokenSeen, GiveUp, disk
  <2>5. CASE RestoreData \/ PublishRestored \/ PurgeFailed \/ RollbackEntry \/ RollbackEnds
    <3>1. CASE RestoreData
      <4>1. ok' \in BOOLEAN
        BY <3>1 DEF RestoreData
      <4> QED BY <3>1, <4>1 DEF RestoreData
    <3>2. CASE PublishRestored
      BY <3>2 DEF PublishRestored
    <3>3. CASE PurgeFailed
      BY <3>3 DEF PurgeFailed
    <3>4. CASE RollbackEntry
      BY <3>4 DEF RollbackEntry
    <3>5. CASE RollbackEnds
      BY <3>5 DEF RollbackEnds, disk
    <3> QED BY <2>5, <3>1, <3>2, <3>3, <3>4, <3>5
  <2>6. CASE ForgetBackup \/ ForgetJournal \/ ForgetToken \/ CleanStaging \/ CleanSnapshot
    <3>1. CASE ForgetBackup
      BY <3>1 DEF ForgetBackup
    <3>2. CASE ForgetJournal
      BY <3>2 DEF ForgetJournal
    <3>3. CASE ForgetToken
      BY <3>3 DEF ForgetToken
    <3>4. CASE CleanStaging
      BY <3>4 DEF CleanStaging
    <3>5. CASE CleanSnapshot
      BY <3>5 DEF CleanSnapshot
    <3> QED BY <2>6, <3>1, <3>2, <3>3, <3>4, <3>5
  <2>7. CASE Recover \/ LaunchPrevious \/ AppPublishesToken \/ Start
    <3>1. CASE Recover
      <4>1. ok' \in BOOLEAN
        BY <3>1 DEF Recover
      <4> QED BY <3>1, <4>1 DEF Recover, disk
    <3>2. CASE LaunchPrevious
      BY <3>2 DEF LaunchPrevious, Main, disk
    <3>3. CASE AppPublishesToken
      BY <3>3 DEF AppPublishesToken
    <3>4. CASE Start
      BY <3>4 DEF Start, Main, disk
    <3> QED BY <2>7, <3>1, <3>2, <3>3, <3>4
  <2>8. CASE CleanCompleted \/ AppExits \/ Crash
    <3>1. CASE CleanCompleted
      BY <3>1 DEF CleanCompleted
    <3>2. CASE AppExits
      BY <3>2 DEF AppExits, disk
    <3>3. CASE Crash
      BY <3>3 DEF Crash, disk
    <3> QED BY <2>8, <3>1, <3>2, <3>3
  <2>9. CASE UNCHANGED vars
    BY <2>9 DEF vars
  <2> QED BY <2>1, <2>2, <2>3, <2>4, <2>5, <2>6, <2>7, <2>8, <2>9 DEF Next, Helper, Rollback
<1> QED BY <1>4, <1>5, <1>6, <1>7 DEF TypeOK

\* The phases, the token, the data and the application are where the steps need them.
LEMMA ControlsKept == TypeOK /\ Journaled /\ Controls /\ [Next]_vars => Controls'
<1> SUFFICES ASSUME TypeOK, Journaled, Controls, [Next]_vars PROVE Controls'
  OBVIOUS
<1> DEFINE Scalars == /\ phase \in {"none"} \cup Unfinished \cup Finished
                      /\ token \in BOOLEAN /\ snapshot \in {"none", "open", "whole"}
                      /\ data \in {"old", "new", "torn"}
                      /\ app \in {"none", "validating", "running", "cleaning"}
                      /\ pc \in Steps /\ ok \in BOOLEAN
<1> DEFINE Kept == pc \in Swapping \cup Swapped \cup Returning => HasJournal
<1>1. Scalars /\ Kept
  BY DEF TypeOK, Journaled
<1> USE <1>1 DEF Goto, Fail, Ended, Main, InterruptedUpdateExists, Unfinished, Finished, HasJournal,
        Preparing, Swapping, Swapped, Restoring, Returning, Cleaning,
        Controls, Phases, Tokens, Data, Opened
<1>2. CASE Apply
  BY <1>2 DEF Apply
<1>3. CASE Extract \/ OpenSnapshot \/ CopyData
  BY <1>3 DEF Extract, OpenSnapshot, CopyData
<1>4. CASE RecordPhase
  BY <1>4 DEF RecordPhase, Record, Records, ApplyRecords
<1>5. CASE WriteJournal
  <2>1. HasJournal' \/ UNCHANGED journal
    <3> DEFINE Bits == [p \in Paths |-> [old |-> files.live[p] # "none", new |-> files.staged[p] # "none"]]
    <3>1. Bits # NoJournal
      <4>1. Bits \in [Paths -> [old : BOOLEAN, new : BOOLEAN]]
        OBVIOUS
      <4> HIDE DEF Bits
      <4> QED BY <4>1, Written
    <3> QED BY <1>5, <3>1 DEF WriteJournal
  <2> QED BY <1>5, <2>1 DEF WriteJournal
<1>6. CASE SwapOld \/ SwapNew
  BY <1>6 DEF SwapOld, SwapNew, NextPath
<1>7. CASE Unswap \/ UnswapOld
  BY <1>7 DEF Unswap, UnswapOld
<1>8. CASE Launch \/ TokenSeen \/ GiveUp
  BY <1>8 DEF Launch, TokenSeen, GiveUp, disk
<1>9. CASE RestoreData \/ PublishRestored \/ PurgeFailed
  BY <1>9 DEF RestoreData, PublishRestored, PurgeFailed
<1>10. CASE RollbackEntry \/ RollbackEnds
  BY <1>10 DEF RollbackEntry, RollbackEnds, disk
<1>11. CASE ForgetBackup \/ ForgetJournal \/ ForgetToken
  <2>1. CASE ForgetBackup
    BY <1>11, <2>1 DEF ForgetBackup
  <2>2. CASE ForgetJournal
    BY <1>11, <2>2 DEF ForgetJournal
  <2>3. CASE ForgetToken
    <3>1. CASE ok
      BY <2>3, <3>1 DEF ForgetToken
    <3>2. CASE ~ok
      BY <2>3, <3>2 DEF ForgetToken
    <3> QED BY <3>1, <3>2
  <2> QED BY <1>11, <2>1, <2>2, <2>3
<1>12. CASE CleanStaging \/ CleanSnapshot
  BY <1>12 DEF CleanStaging, CleanSnapshot
<1>13. CASE LaunchPrevious \/ Start
  BY <1>13 DEF LaunchPrevious, Start, disk
<1>14. CASE Recover
  BY <1>14 DEF Recover, disk
<1>15. CASE AppPublishesToken \/ CleanCompleted \/ AppExits
  BY <1>15 DEF AppPublishesToken, CleanCompleted, AppExits, disk
<1>16. CASE Crash
  BY <1>16 DEF Crash, disk
<1>17. CASE UNCHANGED vars
  BY <1>17 DEF vars
<1> QED BY <1>2, <1>3, <1>4, <1>5, <1>6, <1>7, <1>8, <1>9, <1>10, <1>11, <1>12, <1>13, <1>14, <1>15,
           <1>16, <1>17 DEF Next, Helper, Swap, Validate, Rollback

\* Where the program files are, and what the journal says of them: the steps that move none.
LEMMA FilesStay ==
  ASSUME IInv, [Next]_vars, ~(SwapOld \/ SwapNew \/ Unswap \/ UnswapOld \/ RollbackEntry)
  PROVE OnePlace' /\ Journaled' /\ Progress' /\ Whole'
<1> USE DEF Goto, Fail, Ended, Main, HasJournal, LiveIs, StagedIs,
        Preparing, Swapping, Swapped, Restoring, Returning, Cleaning,
        IInv, Journaled, Progress, Whole, Controls, Opened
<1>1. ASSUME UNCHANGED <<files.live, files.backup>> PROVE OnePlace'
  BY <1>1 DEF OnePlace
<1>2. CASE UNCHANGED vars
  BY <1>1, <1>2 DEF vars
<1>3. CASE RecordPhase
  BY <1>1, <1>3 DEF RecordPhase, Record, Records, ApplyRecords
<1>4. CASE OpenSnapshot \/ CopyData
  BY <1>1, <1>4 DEF OpenSnapshot, CopyData
<1>5. CASE Launch
  BY <1>1, <1>5 DEF Launch
<1>6. CASE TokenSeen \/ GiveUp
  BY <1>1, <1>6 DEF TokenSeen, GiveUp, disk
<1>7. CASE RestoreData \/ PublishRestored
  BY <1>1, <1>7 DEF RestoreData, PublishRestored
<1>8. CASE RollbackEnds
  BY <1>1, <1>8, Order DEF RollbackEnds, disk, Index
<1>9. CASE ForgetToken \/ CleanSnapshot
  BY <1>1, <1>9 DEF ForgetToken, CleanSnapshot
<1>10. CASE LaunchPrevious \/ Start
  BY <1>1, <1>10 DEF LaunchPrevious, Start, disk, InterruptedUpdateExists
<1>11. CASE Recover
  BY <1>1, <1>11 DEF Recover, disk
<1>12. CASE AppPublishesToken \/ AppExits
  BY <1>1, <1>12 DEF AppPublishesToken, AppExits, disk
<1>13. CASE Crash
  BY <1>1, <1>13 DEF Crash, disk

<1>14. files \in [Dirs -> [Paths -> Content]] /\ \A k \in Index : Owned[k] \in Paths
  BY Order DEF TypeOK
<1>15. CASE Apply
  <2>1. files'.live = files.live /\ files'.backup = files.backup /\ files.live = Old
    BY <1>14, <1>15 DEF Apply, Dirs
  <2> QED BY <1>1, <1>15, <2>1 DEF Apply
<1>16. CASE Extract
  <2>1. UNCHANGED <<files.live, files.backup>> /\ (files'.staged = New \/ pc' = "restore")
    BY <1>14, <1>16 DEF Extract, Dirs
  <2> QED BY <1>1, <1>16, <2>1 DEF Extract
<1>17. CASE PurgeFailed
  <2>1. UNCHANGED <<files.live, files.backup>>
    BY <1>14, <1>17 DEF PurgeFailed, Dirs
  <2>2. \A k \in Index : ~(k > N)
    BY Order DEF Index
  <2> QED BY <1>1, <1>17, <2>1, <2>2 DEF PurgeFailed
<1>18. CASE CleanStaging
  <2>1. UNCHANGED <<files.live, files.backup>>
    BY <1>14, <1>18 DEF CleanStaging, Dirs
  <2> QED BY <1>1, <1>18, <2>1 DEF CleanStaging
<1>19. ASSUME UNCHANGED files.live, files'.backup \in {files.backup, Empty}, \A k \in Index : LiveIs(k, Old)
       PROVE OnePlace'
  <2>1. \A k \in Index : Owned[k] \in Paths
    BY Order
  <2>2. \A p \in Paths : Empty[p] = "none"
    BY DEF Empty
  <2> QED BY <1>19, <2>1, <2>2 DEF OnePlace
<1>20. CASE ForgetBackup
  <2>1. UNCHANGED files.live /\ files'.backup = Empty
    BY <1>14, <1>20 DEF ForgetBackup, Dirs
  <2> QED BY <1>19, <1>20, <2>1 DEF ForgetBackup
<1>21. CASE ForgetJournal
  BY <1>1, <1>21 DEF ForgetJournal
<1>22. CASE CleanCompleted
  <2>1. UNCHANGED files.live /\ files'.backup = Empty
    BY <1>14, <1>22 DEF CleanCompleted, Dirs
  <2> QED BY <1>19, <1>22, <2>1 DEF CleanCompleted
<1>23. CASE WriteJournal
  <2>1. CASE Fail /\ UNCHANGED <<journal, i>>
    BY <1>1, <1>23, <2>1 DEF WriteJournal
  <2>2. CASE /\ journal' = [p \in Paths |-> [old |-> files.live[p] # "none", new |-> files.staged[p] # "none"]]
             /\ Goto("swap") /\ i' = 1
    <3>1. \A p \in Paths : files.live[p] = Old[p] /\ files.staged[p] = New[p]
      BY <1>23, Order DEF WriteJournal
    <3>2. journal' = Entries
      BY <2>2, <3>1, Versions DEF Entries
    <3>3. Entries # NoJournal
      BY Versions, Written
    <3>4. 1 \in Index /\ \A k \in Index : ~(k < 1)
      BY Order DEF Index
    <3> QED BY <1>1, <1>23, <2>2, <3>2, <3>3, <3>4 DEF WriteJournal
  <2> QED BY <1>23, <2>1, <2>2 DEF WriteJournal
<1> QED BY <1>2, <1>3, <1>4, <1>5, <1>6, <1>7, <1>8, <1>9, <1>10, <1>11, <1>12, <1>13, <1>15, <1>16,
           <1>17, <1>18, <1>20, <1>21, <1>22, <1>23
  DEF Next, Helper, Swap, Validate, Rollback

\* ... and the steps that move one, of the swap, of its undoing and of the rollback.
LEMMA FilesMove ==
  ASSUME IInv, SwapOld \/ SwapNew \/ Unswap \/ UnswapOld \/ RollbackEntry
  PROVE OnePlace' /\ Journaled' /\ Progress' /\ Whole'
<1> USE DEF Goto, Fail, HasJournal, LiveIs, StagedIs, At,
        Preparing, Swapping, Swapped, Restoring, Returning, Cleaning
<1>1. HasJournal /\ journal = Entries /\ app = "none" /\ pc \in Swapping \cup {"rollback"}
  BY DEF IInv, Journaled, Controls, Opened, SwapOld, SwapNew, Unswap, UnswapOld, RollbackEntry, TypeOK
<1>2. i \in Nat /\ N \in Nat /\ N > 0 /\ (i \in Index \/ i = 0) /\ TypeOK /\ Index = 1 .. N
  BY Order DEF IInv, TypeOK, Index
<1>3. \A k \in Index : /\ Old[Owned[k]] \in {"none", "old"} /\ New[Owned[k]] \in {"none", "new"}
                       /\ journal[Owned[k]].old <=> Old[Owned[k]] # "none"
                       /\ journal[Owned[k]].new <=> New[Owned[k]] # "none"
  BY <1>1, Versions, Order
<1>4. ASSUME UNCHANGED <<journal, app>> PROVE Journaled' /\ Whole'
  BY <1>1, <1>4 DEF Journaled, Whole
<1>5. ASSUME UNCHANGED files PROVE OnePlace'
  BY <1>5 DEF IInv, OnePlace
<1>6. ASSUME i \in Index, NEW from \in Dirs, NEW to \in Dirs, from # to, Move(from, to)
      PROVE /\ files'[from][Owned[i]] = "none" /\ files'[to][Owned[i]] = files[from][Owned[i]]
            /\ \A d \in Dirs, k \in Index :
                 k # i \/ (d # from /\ d # to) => files'[d][Owned[k]] = files[d][Owned[k]]
  BY <1>2, <1>6, Moved
<1>7. CASE SwapOld
  <2>1. /\ i \in Index /\ UNCHANGED <<journal, app>> /\ LiveIs(i, Old)
        /\ \A k \in Index : IF k < i THEN LiveIs(k, New) ELSE LiveIs(k, Old) /\ StagedIs(k, New)
    BY <1>2, <1>7 DEF SwapOld, IInv, Progress
  <2>2. CASE At("live") = "none" /\ Goto("swap_new") /\ UNCHANGED <<files, i, ok>>
    BY <1>2, <1>4, <1>5, <2>1, <2>2 DEF Progress
  <2>3. CASE Move("live", "backup") /\ Goto("swap_new") /\ UNCHANGED <<i, ok>>
    <3>1. /\ files'.live[Owned[i]] = "none" /\ files'.backup[Owned[i]] = Old[Owned[i]]
          /\ \A k \in Index : files'.staged[Owned[k]] = files.staged[Owned[k]]
          /\ \A k \in Index : k # i => /\ files'.live[Owned[k]] = files.live[Owned[k]]
                                       /\ files'.backup[Owned[k]] = files.backup[Owned[k]]
      BY <1>6, <2>1, <2>3 DEF Dirs
    <3>2. OnePlace'
      BY <3>1 DEF IInv, OnePlace
    <3> QED BY <1>2, <1>4, <2>1, <2>3, <3>1, <3>2 DEF Progress
  <2>4. CASE Goto("unswap") /\ i' = i - 1 /\ UNCHANGED files
    BY <1>2, <1>4, <1>5, <2>1, <2>4 DEF Progress
  <2> QED BY <1>7, <2>2, <2>3, <2>4 DEF SwapOld
<1>8. CASE SwapNew
  <2>1. /\ i \in Index /\ UNCHANGED <<journal, app>> /\ files.live[Owned[i]] = "none" /\ StagedIs(i, New)
        /\ \A k \in Index : /\ k < i => LiveIs(k, New)
                            /\ k > i => LiveIs(k, Old) /\ StagedIs(k, New)
    BY <1>2, <1>8 DEF SwapNew, IInv, Progress
  <2>2. ASSUME NextPath, files'.live[Owned[i]] = New[Owned[i]],
               \A k \in Index : k # i => /\ files'.live[Owned[k]] = files.live[Owned[k]]
                                         /\ files'.staged[Owned[k]] = files.staged[Owned[k]]
        PROVE Progress'
    <3>1. \A k \in Index : k <= i => files'.live[Owned[k]] = New[Owned[k]]
      BY <1>2, <2>1, <2>2
    <3>2. CASE i = N
      BY <1>2, <2>2, <3>1, <3>2 DEF Progress, NextPath
    <3>3. CASE i # N
      <4>1. pc' = "swap" /\ i' = i + 1 /\ i' \in Index
        BY <1>2, <2>1, <2>2, <3>3 DEF NextPath
      <4> QED BY <1>2, <2>1, <2>2, <3>1, <4>1 DEF Progress
    <3> QED BY <3>2, <3>3
  <2>3. CASE At("staged") = "none" /\ NextPath /\ UNCHANGED files
    BY <1>4, <1>5, <2>1, <2>2, <2>3
  <2>4. CASE Move("staged", "live") /\ NextPath
    <3>1. /\ files'.live[Owned[i]] = New[Owned[i]]
          /\ \A k \in Index : files'.backup[Owned[k]] = files.backup[Owned[k]]
          /\ \A k \in Index : k # i => /\ files'.live[Owned[k]] = files.live[Owned[k]]
                                       /\ files'.staged[Owned[k]] = files.staged[Owned[k]]
      BY <1>6, <2>1, <2>4 DEF Dirs
    <3>2. OnePlace'
      BY <2>1, <3>1 DEF IInv, OnePlace
    <3> QED BY <1>4, <2>1, <2>2, <2>4, <3>1, <3>2
  <2>5. CASE Goto("unswap_old") /\ ok' = TRUE /\ UNCHANGED <<files, i>>
    BY <1>2, <1>4, <1>5, <2>1, <2>5 DEF Progress
  <2> QED BY <1>8, <2>3, <2>4, <2>5 DEF SwapNew
<1>9. CASE Unswap
  <2>1. \A k \in Index : IF k <= i THEN LiveIs(k, New) ELSE ok => LiveIs(k, Old)
    BY <1>9 DEF Unswap, IInv, Progress
  <2>2. CASE i = 0 /\ ok /\ Fail /\ files' = [files EXCEPT !["backup"] = Empty] /\ journal' = NoJournal
    <3>1. \A k \in Index : LiveIs(k, Old)
      BY <1>2, <2>1, <2>2
    <3>2. \A k \in Index : files'.live[Owned[k]] = files.live[Owned[k]] /\ files'.backup[Owned[k]] = "none"
      BY <1>2, <2>2, Order DEF TypeOK, Dirs, Empty
    <3>3. OnePlace'
      BY <3>1, <3>2 DEF OnePlace
    <3> QED BY <1>1, <1>9, <2>2, <3>1, <3>2, <3>3 DEF Unswap, Progress, Journaled, Whole
  <2>3. CASE i = 0 /\ Fail /\ UNCHANGED <<files, journal>>
    BY <1>4, <1>5, <1>9, <2>3 DEF Unswap, Progress
  <2>4. CASE i \in Index /\ ~journal[Owned[i]].new /\ Goto("unswap_old") /\ UNCHANGED <<files, journal, i, ok>>
    BY <1>2, <1>3, <1>4, <1>5, <1>9, <2>1, <2>4 DEF Unswap, Progress
  <2>5. CASE i \in Index /\ journal[Owned[i]].new /\ Move("live", "staged") /\ Goto("unswap_old")
             /\ UNCHANGED <<journal, i, ok>>
    <3>1. /\ files'.live[Owned[i]] = "none"
          /\ \A k \in Index : files'.backup[Owned[k]] = files.backup[Owned[k]]
          /\ \A k \in Index : k # i => files'.live[Owned[k]] = files.live[Owned[k]]
      BY <1>6, <2>5 DEF Dirs
    <3>2. OnePlace'
      BY <1>2, <1>3, <2>1, <2>5, <3>1 DEF IInv, OnePlace
    <3> QED BY <1>2, <1>4, <1>9, <2>1, <2>5, <3>1, <3>2 DEF Unswap, Progress
  <2>6. CASE i \in Index /\ ok' = FALSE /\ Goto("unswap_old") /\ UNCHANGED <<files, journal, i>>
    BY <1>2, <1>4, <1>5, <1>9, <2>1, <2>6 DEF Unswap, Progress
  <2>7. CASE i = 0 /\ Fail
    <3>1. CASE ok
      BY <1>9, <2>2, <2>7, <3>1, <1>2 DEF Unswap
    <3>2. CASE ~ok
      BY <1>9, <2>3, <2>7, <3>2, <1>2 DEF Unswap
    <3> QED BY <3>1, <3>2
  <2>8. CASE i # 0
    <3>1. i \in Index /\ UNCHANGED i
      BY <1>2, <1>9, <2>8 DEF Unswap
    <3> QED BY <1>9, <2>4, <2>5, <2>6, <2>8, <3>1 DEF Unswap
  <2>9. i = 0 => Fail
    BY <1>2, <1>9 DEF Unswap
  <2> QED BY <2>7, <2>8, <2>9
<1>10. CASE UnswapOld
  <2>1. /\ i \in Index /\ UNCHANGED <<journal, app>> /\ (ok => files.live[Owned[i]] = "none")
        /\ \A k \in Index : (k < i => LiveIs(k, New)) /\ (k > i /\ ok => LiveIs(k, Old))
    BY <1>10 DEF UnswapOld, IInv, Progress
  <2>2. CASE ~journal[Owned[i]].old /\ UNCHANGED <<files, ok>>
    BY <1>2, <1>3, <1>4, <1>5, <1>10, <2>1, <2>2 DEF UnswapOld, Progress
  <2>3. CASE journal[Owned[i]].old /\ At("live") = "none" /\ Move("backup", "live") /\ UNCHANGED ok
    <3>1. /\ files'.live[Owned[i]] = files.backup[Owned[i]] /\ files'.backup[Owned[i]] = "none"
          /\ \A k \in Index : k # i => /\ files'.live[Owned[k]] = files.live[Owned[k]]
                                       /\ files'.backup[Owned[k]] = files.backup[Owned[k]]
      BY <1>6, <2>1, <2>3 DEF Dirs
    <3>2. files'.live[Owned[i]] = Old[Owned[i]]
      BY <1>3, <2>1, <2>3, <3>1 DEF IInv, OnePlace
    <3>3. OnePlace'
      BY <3>1, <3>2 DEF IInv, OnePlace
    <3> QED BY <1>2, <1>4, <1>10, <2>1, <2>3, <3>1, <3>2, <3>3 DEF UnswapOld, Progress
  <2>4. CASE ok' = FALSE /\ UNCHANGED files
    BY <1>2, <1>4, <1>5, <1>10, <2>1, <2>4 DEF UnswapOld, Progress
  <2> QED BY <1>10, <2>2, <2>3, <2>4 DEF UnswapOld
<1>11. CASE RollbackEntry
  <2> USE DEF ToRestore, ToRemove, Entry
  <2>1. /\ i \in Index /\ UNCHANGED <<journal, app>>
        /\ \A k \in Index : k > i => LiveIs(k, Old)
    BY <1>2, <1>11 DEF RollbackEntry, IInv, Progress
  <2>2. CASE ToRestore /\ Move("live", "failed") /\ UNCHANGED <<pc, i>>
    <3>1. /\ files'.live[Owned[i]] = "none"
          /\ \A k \in Index : files'.backup[Owned[k]] = files.backup[Owned[k]]
          /\ \A k \in Index : k # i => files'.live[Owned[k]] = files.live[Owned[k]]
      BY <1>6, <2>1, <2>2 DEF Dirs
    <3>2. OnePlace'
      BY <2>1, <2>2, <3>1 DEF IInv, OnePlace
    <3> QED BY <1>2, <1>4, <1>11, <2>1, <2>2, <3>1, <3>2 DEF RollbackEntry, Progress
  <2>3. CASE ToRestore /\ At("live") = "none" /\ Move("backup", "live") /\ i' = i - 1 /\ UNCHANGED pc
    <3>1. /\ files'.live[Owned[i]] = files.backup[Owned[i]] /\ files'.backup[Owned[i]] = "none"
          /\ \A k \in Index : k # i => /\ files'.live[Owned[k]] = files.live[Owned[k]]
                                       /\ files'.backup[Owned[k]] = files.backup[Owned[k]]
      BY <1>6, <2>1, <2>3 DEF Dirs
    <3>2. files'.live[Owned[i]] = Old[Owned[i]]
      BY <2>1, <2>3, <3>1 DEF IInv, OnePlace
    <3>3. OnePlace'
      BY <3>1, <3>2 DEF IInv, OnePlace
    <3> QED BY <1>2, <1>4, <1>11, <2>1, <2>3, <3>1, <3>2, <3>3 DEF RollbackEntry, Progress
  <2>4. CASE ToRemove /\ Move("live", "staged") /\ i' = i - 1 /\ UNCHANGED pc
    <3>1. /\ files'.live[Owned[i]] = "none" /\ Old[Owned[i]] = "none"
          /\ \A k \in Index : files'.backup[Owned[k]] = files.backup[Owned[k]]
          /\ \A k \in Index : k # i => files'.live[Owned[k]] = files.live[Owned[k]]
      BY <1>3, <1>6, <2>1, <2>4 DEF Dirs
    <3>2. OnePlace'
      BY <3>1 DEF IInv, OnePlace
    <3> QED BY <1>2, <1>4, <1>11, <2>1, <2>4, <3>1, <3>2 DEF RollbackEntry, Progress
  <2>5. CASE ~ToRestore /\ ~ToRemove /\ i' = i - 1 /\ UNCHANGED <<files, pc>>
    <3>1. LiveIs(i, Old)
      BY <1>3, <2>1, <2>5 DEF IInv, OnePlace
    <3> QED BY <1>2, <1>4, <1>5, <1>11, <2>1, <2>5, <3>1 DEF RollbackEntry, Progress
  <2>6. CASE Goto("idle") /\ UNCHANGED <<files, i>>
    BY <1>4, <1>5, <2>1, <2>6 DEF Progress
  <2> QED BY <1>11, <2>2, <2>3, <2>4, <2>5, <2>6 DEF RollbackEntry
<1> QED BY <1>7, <1>8, <1>9, <1>10, <1>11

-----------------------------------------------------------------------------
\* The installed version is in place, and nothing else is.
LEMMA Initially == Init => IInv
<1> SUFFICES ASSUME Init PROVE IInv
  OBVIOUS
<1>1. /\ files.live = Old /\ files.backup = Empty /\ files \in [Dirs -> [Paths -> Content]]
  <2>1. Old \in [Paths -> Content] /\ Empty \in [Paths -> Content]
    BY Versions DEF Empty, Content
  <2> QED BY <2>1 DEF Init, Dirs
<1>2. TypeOK
  <2>1. phase = "none" /\ token = FALSE /\ snapshot = "none" /\ data = "old" /\ app = "none" /\ ok = TRUE
    BY DEF Init
  <2>2. pc \in Steps /\ i \in 0 .. N /\ journal = NoJournal
    BY Order DEF Init, Steps
  <2> QED BY <1>1, <2>1, <2>2 DEF TypeOK
<1>3. OnePlace
  <2>1. \A k \in Index : Empty[Owned[k]] = "none"
    BY Order DEF Empty
  <2> QED BY <1>1, <2>1 DEF OnePlace
<1>4. Journaled /\ Whole
  BY <1>1 DEF Init, Journaled, Whole, HasJournal, LiveIs, Swapping, Swapped, Returning
<1>5. Progress
  BY DEF Init, Progress, Preparing, Swapped
<1>6. Controls
  BY DEF Init, Controls, Phases, Tokens, Data, Opened, HasJournal, Preparing, Swapping, Swapped,
         Restoring, Returning, Cleaning
<1> QED BY <1>2, <1>3, <1>4, <1>5, <1>6 DEF IInv

\* Every step preserves the invariant, the crash among them.
LEMMA Inductive == IInv /\ [Next]_vars => IInv'
<1> SUFFICES ASSUME IInv, [Next]_vars PROVE IInv'
  OBVIOUS
<1>1. TypeOK'
  BY TypesKept DEF IInv
<1>2. Controls'
  BY ControlsKept DEF IInv
<1>3. OnePlace' /\ Journaled' /\ Progress' /\ Whole'
  BY FilesStay, FilesMove
<1> QED BY <1>1, <1>2, <1>3 DEF IInv

\* The inductive invariant.
THEOREM Invariant == Spec => []IInv
<1> QED BY Initially, Inductive, PTL DEF Spec

\* The types; the loop index stays among the owned paths.
THEOREM TypeCorrect == Spec => []TypeOK
<1>1. IInv => TypeOK
  BY DEF IInv
<1> QED BY <1>1, Invariant, PTL

\* For any list of owned paths and any two versions of them: whatever move, copy or
\* record fails and wherever the machine stops, every file of the installed version is
\* in its place or in .update/backup (swapProgramFiles, rollbackProgramFiles).
THEOREM FilesSafety == Spec => []OldKept
<1>1. IInv => OldKept
  <2> SUFFICES ASSUME IInv, NEW p \in OldHas PROVE "old" \in {files.live[p], files.backup[p]}
    BY DEF OldKept
  <2>1. PICK k \in Index : p = Owned[k]
    BY Order, UpdaterAssumption
  <2>2. Old[Owned[k]] = "old"
    BY <2>1, Order, Versions
  <2> QED BY <2>1, <2>2 DEF IInv, OnePlace
<1> QED BY <1>1, Invariant, PTL

\* While any owned path is not the installed version's, recovery finds the journal
\* (UpdaterRecovery.cpp): even a confirmed update still has it.
THEOREM JournalSafety == Spec => []MixIsJournaled
<1>1. IInv => MixIsJournaled
  <2> SUFFICES ASSUME IInv, files.live # Old PROVE HasJournal
    BY DEF MixIsJournaled
  <2>1. Old \in [Paths -> Content] /\ TypeOK
    BY Versions DEF Content, IInv
  <2>2. \E k \in Index : ~LiveIs(k, Old)
    BY <2>1, Everywhere
  <2> QED BY <2>2 DEF IInv, Journaled
<1> QED BY <1>1, Invariant, PTL

\* What is opened is one version with its data in place, what is validated can be taken
\* back, and what was recorded as rolled back is.
THEOREM VersionSafety == Spec => []VersionsWhole
<1>1. IInv => VersionsWhole
  <2> SUFFICES ASSUME IInv PROVE VersionsWhole
    OBVIOUS
  <2>1. Old \in [Paths -> Content] /\ New \in [Paths -> Content] /\ TypeOK
    BY Versions DEF Content, IInv
  <2>2. /\ files.live = Old <=> \A k \in Index : LiveIs(k, Old)
        /\ files.live = New <=> \A k \in Index : LiveIs(k, New)
    BY <2>1, Everywhere
  <2>3. app # "none" => files.live \in {Old, New} /\ data # "torn"
    BY <2>2 DEF IInv, Whole, Controls, Opened
  <2>4. app = "validating" => files.live = New /\ snapshot = "whole"
    BY <2>2 DEF IInv, Progress, Controls, Opened, Data, Swapped
  <2>5. phase = "rolled_back" => files.live = Old /\ data = "old"
    BY <2>2 DEF IInv, Journaled, Controls, Phases
  <2> QED BY <2>3, <2>4, <2>5 DEF VersionsWhole
<1> QED BY <1>1, Invariant, PTL
===============================================================================
