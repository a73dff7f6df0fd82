---------------------------- MODULE SegmentRing -----------------------------
(***************************************************************************)
(* The on-disk replay ring: one SegmentRecorder at a time on the capture   *)
(* worker, the thread that prepares its next segment file, and the export  *)
(* thread that reads a leased snapshot while the recorder keeps rolling,   *)
(* trimming, ending and being replaced.                                    *)
(*                                                                         *)
(* A file is its position in creation order; names are time stamps, so the *)
(* order of names is the order of creation.  The ring list is therefore a  *)
(* set, its newest entries are the largest.  A file's bytes are abstracted *)
(* to what the exporter and the restore probe tell apart.                  *)
(*                                                                         *)
(* The worker's handlers are cut where the export thread can act between   *)
(* two of their steps: SegmentLease's mutex is taken once per file, so a   *)
(* lease may be released in the middle of a restore or a trim.             *)
(* Left out: deletions the file system refuses, per-format cache folders,  *)
(* a recorder whose very first segment has no audio track.                 *)
(***************************************************************************)
EXTENDS Naturals, FiniteSets

CONSTANTS
  Keeps,               \* m_keepSegments of the configured replay lengths
  MaxFiles,            \* bound: segment files ever created
  MaxCrashes,          \* bound: crashes of the process
  MaxFailed,           \* kMaxFailedSegmentsInARow
  AudioMayVanish,      \* the AAC encoder may refuse a later segment's audio
  AudioOnlyFinalizes   \* Finalize accepts a segment without video samples

ASSUME SegmentRingAssumption ==
  /\ Keeps \subseteq Nat \ {0}
  /\ MaxFiles \in Nat /\ MaxCrashes \in Nat /\ MaxFailed \in Nat \ {0}
  /\ AudioMayVanish \in BOOLEAN /\ AudioOnlyFinalizes \in BOOLEAN

VARIABLES
  disk,      \* segment files in the cache folder
  content,   \* content[f]: what f holds, see Content
  stale,     \* files older than kStaleSegmentMaxAgeSecs
  created,   \* number of names handed out
  pc,        \* where the worker is inside a handler, see Control
  task,      \* the handler it is in
  todo,      \* files the restore or trim loop has not looked at yet
  rec,       \* the recorder's flags and counters
  cur,       \* m_curPath of the open writer, NoFile without one
  prep,      \* the prepared writer and the thread that builds it
  ring,      \* m_segments
  exporter,  \* the export task as the worker sees it
  lease,     \* files referenced in the lease registry
  required,  \* the running export's requireAudio
  crashes

files == <<disk, content, stale, created>>
flow == <<pc, task, todo>>
export == <<exporter, lease, required>>
vars == <<files, flow, rec, cur, prep, ring, export, crashes>>

NoFile == 0
File == 1..MaxFiles

\* "av" and "silent" hold video, with and without an audio track; "audio" holds
\* audio samples only; "empty" none; "holed" lost a sample to a failed write;
\* "broken" was cut by a crash.
Content == {"empty", "audio", "av", "silent", "holed", "broken"}
Video == {"av", "silent"}

\* "down": no process; "none": no recorder; "idle": between two handlers.
Control == {"down", "none", "idle", "restoring", "trimming", "closing", "closed",
            "opening", "writing", "checking"}
Task == {"begin", "write", "save", "end", "clean"}

NoPrep == [state |-> "none", file |-> NoFile, track |-> FALSE]

Fresh(keep) ==
  [keep |-> keep, active |-> FALSE, polling |-> TRUE, track |-> TRUE, lost |-> FALSE,
   poisoned |-> FALSE, discard |-> FALSE, failures |-> 0, lastMedia |-> NoFile]

\* The k newest files of a set: the last entries of the list.
Newest(S, k) == {f \in S : Cardinality({g \in S : g > f}) < k}

\* The exporter refuses a clip with a segment without video or with segments
\* that disagree about audio, and a silent one when audio is required.
ConcatAccepts(S, requireAudio) ==
  /\ S # {}
  /\ \/ \A f \in S : content[f] = "av"
     \/ ~requireAudio /\ \A f \in S : content[f] = "silent"

\* Room for the names one handler may take (a bound, not the code's).
Room == created + 2 <= MaxFiles

HasClosedMedia == rec.lastMedia \in Newest(ring, rec.keep)

-----------------------------------------------------------------------------
(* Trim and restore: both go file by file through removeIfUnleased.        *)

Goto(p) == pc' = p /\ UNCHANGED <<task, todo>>

StartTrim(t, S) ==
  /\ pc' = "trimming" /\ task' = t
  /\ todo' = S \ Newest(S, rec.keep)

\* Mutant of RemoveIfUnleased: the registry is not asked.
RemoveAnyway(f) == disk' = disk \ {f}

\* SegmentLease::removeIfUnleased: the check and the deletion under one lock.
RemoveIfUnleased(f) == disk' = IF f \in lease THEN disk ELSE disk \ {f}

\* Newest first among the files outside the window.
TrimFile ==
  /\ pc = "trimming"
  /\ \E f \in todo :
       /\ \A g \in todo : g <= f
       /\ RemoveIfUnleased(f)
       /\ ring' = IF f \in lease THEN ring ELSE ring \ {f}
       /\ todo' = todo \ {f}
  /\ UNCHANGED <<content, stale, created, pc, task, rec, cur, prep, export, crashes>>

TrimDone ==
  /\ pc = "trimming" /\ todo = {}
  /\ Goto(CASE task = "begin" -> "opening" [] task = "clean" -> "idle" [] OTHER -> "closed")
  /\ UNCHANGED <<files, rec, cur, prep, ring, export, crashes>>

\* SegmentRecorder::begin of a session that may follow another one's export.
Begin ==
  /\ pc = "none" /\ Room
  /\ \E keep \in Keeps : rec' = Fresh(keep)
  /\ pc' = "restoring" /\ task' = "begin" /\ todo' = disk
  /\ ring' = {}
  /\ UNCHANGED <<files, cur, prep, export, crashes>>

\* restoreRing on the oldest file left.  A stale file that is leased goes on to
\* the probe like any other.
RestoreFile ==
  /\ pc = "restoring"
  /\ \E f \in todo :
       /\ \A g \in todo : f <= g
       /\ todo' = todo \ {f}
       /\ \/ /\ f \in stale /\ f \notin lease
             /\ RemoveIfUnleased(f) /\ UNCHANGED ring
          \/ /\ ~(f \in stale /\ f \notin lease)
             /\ content[f] \notin Video
             /\ RemoveIfUnleased(f) /\ UNCHANGED ring
          \/ /\ ~(f \in stale /\ f \notin lease)
             /\ content[f] \in Video
             /\ ring' = ring \cup {f} /\ UNCHANGED disk
  /\ UNCHANGED <<content, stale, created, pc, task, rec, cur, prep, export, crashes>>

RestoreDone ==
  /\ pc = "restoring" /\ todo = {}
  /\ StartTrim("begin", ring)
  /\ UNCHANGED <<files, rec, cur, prep, ring, export, crashes>>

-----------------------------------------------------------------------------
(* Opening and preparing segments.                                         *)

\* startPrep: the name is taken now, the thread creates the file later.
StartPrep ==
  /\ created' = created + 1
  /\ prep' = [state |-> "building", file |-> created + 1, track |-> ~rec'.lost]

\* The prep thread ends.  A writer that fails late leaves its file behind.
PrepEnds ==
  /\ prep.state = "building"
  /\ \/ \E track \in {prep.track, prep.track /\ ~AudioMayVanish} :
          /\ prep' = [prep EXCEPT !.state = "ready", !.track = track]
          /\ disk' = disk \cup {prep.file}
     \/ /\ prep' = [prep EXCEPT !.state = "failed"]
        /\ disk' \in {disk, disk \cup {prep.file}}
  /\ UNCHANGED <<content, stale, created, flow, rec, cur, ring, export, crashes>>

AfterOpening(t) == CASE t = "write" -> "writing" [] t = "save" -> "checking" [] OTHER -> "idle"

\* A writer without an audio track turns audio off for this recorder; a recorder
\* that begins without one is deleted by attachRecorder.
Adopt(file, track) ==
  /\ task = "begin" => track
  /\ cur' = file
  /\ rec' = [rec EXCEPT !.active = TRUE, !.track = track, !.lost = @ \/ ~track]
  /\ Goto(AfterOpening(task))

\* openSegment joins the prep thread, then takes its writer or builds one.
OpenSegment ==
  /\ pc = "opening"
  /\ prep.state # "building"
  /\ \/ /\ prep.state = "ready" /\ Room
        /\ Adopt(prep.file, prep.track)
        /\ StartPrep
        /\ UNCHANGED disk
     \/ /\ prep.state # "ready" /\ Room
        /\ \E track \in {~rec.lost, ~rec.lost /\ ~AudioMayVanish} : Adopt(created + 1, track)
        /\ disk' = disk \cup {created + 1}
        /\ created' = created + 2
        /\ prep' = [state |-> "building", file |-> created + 2, track |-> ~rec'.lost]
     \/ /\ prep.state # "ready"
        /\ rec' = [rec EXCEPT !.active = FALSE]
        /\ prep' = NoPrep
        /\ Goto(IF task = "begin" THEN "none" ELSE IF task = "save" THEN "checking" ELSE "idle")
        /\ UNCHANGED <<disk, created, cur>>
  /\ UNCHANGED <<content, stale, ring, export, crashes>>

-----------------------------------------------------------------------------
(* Writing, closing and rolling.                                           *)

\* One video or audio packet of a poll.  The poll returns early once it finds
\* the audio track lost.  `due`: the window is over, or the segment is poisoned.
StartWrite ==
  /\ pc = "idle" /\ Room /\ rec.active /\ rec.polling /\ rec.track
  /\ \E due \in {TRUE, rec.poisoned} :
       pc' = IF due THEN "closing" ELSE "writing"
  /\ task' = "write" /\ UNCHANGED todo
  /\ UNCHANGED <<files, rec, cur, prep, ring, export, crashes>>

Written(video) ==
  IF video THEN IF rec.track THEN "av" ELSE "silent"
  ELSE IF content[cur] = "empty" THEN "audio" ELSE content[cur]

\* A refused sample poisons the segment: it rolls before anything else is written.
WriteSample ==
  /\ pc = "writing"
  /\ \/ /\ \E video \in {TRUE, ~rec.track} :
             content' = [content EXCEPT ![cur] = Written(video)]
        /\ UNCHANGED rec
     \/ /\ rec' = [rec EXCEPT !.poisoned = TRUE]
        /\ content' = [content EXCEPT ![cur] = "holed"]
  /\ Goto("idle")
  /\ UNCHANGED <<disk, stale, created, cur, prep, ring, export, crashes>>

\* Audio capture died, or the recorder lost its track: the poll timer stops.
AudioFails ==
  /\ pc = "idle" /\ rec.polling
  /\ rec' = [rec EXCEPT !.polling = FALSE, !.discard = TRUE]
  /\ UNCHANGED <<files, flow, cur, prep, ring, export, crashes>>

\* Mutant of MustDiscard: a failed write is no reason to throw a segment away.
MustDiscardUnlessHoled == rec.discard

MustDiscard == rec.poisoned \/ rec.discard

\* closeSegment without Finalize.
DiscardSegment ==
  /\ pc = "closing" /\ MustDiscard
  /\ disk' = disk \ {cur} /\ cur' = NoFile
  /\ rec' = [rec EXCEPT !.poisoned = FALSE, !.discard = FALSE,
                        !.failures = IF rec.poisoned THEN @ + 1 ELSE @]
  /\ Goto("closed")
  /\ UNCHANGED <<content, stale, created, prep, ring, export, crashes>>

\* Mutant of FinalizeFails: the dropped file stays in the list.
FinalizeFailsListed ==
  /\ pc = "closing" /\ ~MustDiscard
  /\ disk' = disk \ {cur} /\ cur' = NoFile
  /\ ring' = ring \cup {cur}
  /\ Goto("closed")
  /\ UNCHANGED <<content, stale, created, rec, prep, export, crashes>>

\* Finalize refuses a segment without samples (and may refuse any other).
FinalizeFails ==
  /\ pc = "closing" /\ ~MustDiscard
  /\ disk' = disk \ {cur} /\ cur' = NoFile
  /\ Goto("closed")
  /\ UNCHANGED <<content, stale, created, rec, prep, ring, export, crashes>>

FinalizeSucceeds ==
  /\ pc = "closing" /\ ~MustDiscard
  /\ content[cur] \in Video \cup {"holed"} \/ (AudioOnlyFinalizes /\ content[cur] = "audio")
  /\ ring' = ring \cup {cur} /\ cur' = NoFile
  /\ rec' = [rec EXCEPT !.failures = 0,
                        !.lastMedia = IF content[cur] \in Video THEN cur ELSE @]
  /\ StartTrim(task, ring')
  /\ UNCHANGED <<files, prep, export, crashes>>

GivesUp == rec.failures >= MaxFailed

\* The rest of rollIfDue, and of end.
Rolled ==
  /\ pc = "closed" /\ task = "write"
  /\ rec' = [rec EXCEPT !.active = ~GivesUp]
  /\ Goto(IF GivesUp THEN "idle" ELSE "opening")
  /\ UNCHANGED <<files, cur, prep, ring, export, crashes>>

Ended ==
  /\ pc = "closed" /\ task = "end"
  /\ Goto("none")
  /\ UNCHANGED <<files, rec, cur, prep, ring, export, crashes>>

\* Mutant of End: closes a segment whether or not one is open.
EndAlwaysCloses ==
  /\ pc = "idle" /\ prep.state # "building"
  /\ disk' = IF prep.state = "ready" THEN disk \ {prep.file} ELSE disk
  /\ prep' = NoPrep /\ pc' = "closing"
  /\ task' = "end" /\ UNCHANGED todo
  /\ UNCHANGED <<content, stale, created, rec, cur, ring, export, crashes>>

\* stopPump deletes the recorder: the prepared file goes unconditionally.
End ==
  /\ pc = "idle" /\ prep.state # "building"
  /\ disk' = IF prep.state = "ready" THEN disk \ {prep.file} ELSE disk
  /\ prep' = NoPrep
  /\ pc' = IF cur # NoFile THEN "closing" ELSE "none"
  /\ task' = "end" /\ UNCHANGED todo
  /\ UNCHANGED <<content, stale, created, rec, cur, ring, export, crashes>>

-----------------------------------------------------------------------------
(* Saving.                                                                 *)

\* saveReplayOnWorker past its guard: snapshotForSave closes the open segment.
StartSave ==
  /\ pc = "idle" /\ Room /\ rec.active /\ exporter = "idle"
  /\ pc' = "closing" /\ task' = "save" /\ UNCHANGED todo
  /\ UNCHANGED <<files, rec, cur, prep, ring, export, crashes>>

\* Mutant of TakeLease: only the roll counts failed segments, the snapshot goes on.
TakeLeaseGoesOn ==
  /\ pc = "closed" /\ task = "save"
  /\ lease' = Newest(ring, rec.keep) /\ exporter' = "held"
  /\ Goto("opening")
  /\ UNCHANGED <<files, rec, cur, prep, ring, required, crashes>>

\* The snapshot is leased before the next segment opens.
TakeLease ==
  /\ pc = "closed" /\ task = "save"
  /\ lease' = Newest(ring, rec.keep) /\ exporter' = "held"
  /\ rec' = [rec EXCEPT !.active = ~GivesUp]
  /\ Goto(IF GivesUp THEN "checking" ELSE "opening")
  /\ UNCHANGED <<files, cur, prep, ring, required, crashes>>

\* Mutant of HandOver: a refused snapshot forgets to free the exporter.
HandOverOnly ==
  /\ pc = "checking"
  /\ \/ /\ lease # {} /\ HasClosedMedia
        /\ exporter' = "running" /\ required' = rec.track
        /\ UNCHANGED lease
     \/ lease' = {} /\ UNCHANGED <<exporter, required>>
  /\ Goto("idle")
  /\ UNCHANGED <<files, rec, cur, prep, ring, crashes>>

\* freezeRing's refusals and a failed reservation drop the lease; otherwise the
\* export task takes it over.
HandOver ==
  /\ pc = "checking"
  /\ \/ /\ lease # {} /\ HasClosedMedia
        /\ exporter' = "running" /\ required' = rec.track
        /\ UNCHANGED lease
     \/ exporter' = "idle" /\ lease' = {} /\ UNCHANGED required
  /\ Goto("idle")
  /\ UNCHANGED <<files, rec, cur, prep, ring, crashes>>

\* ReplayExportTask::run returns or throws: its local lease dies with it.
ExportReturns ==
  /\ exporter = "running"
  /\ exporter' = "finished" /\ lease' = {}
  /\ UNCHANGED <<files, flow, rec, cur, prep, ring, required, crashes>>

\* Mutant of ExportFinished: leaves the pinned files in the list.
ExportFinishedWithoutTrim ==
  /\ exporter = "finished" /\ pc \in {"none", "idle"}
  /\ exporter' = "idle"
  /\ UNCHANGED <<files, flow, rec, cur, prep, ring, lease, required, crashes>>

\* The queued `finished`: the recorder of the moment trims what was pinned.
ExportFinished ==
  /\ exporter = "finished" /\ pc \in {"none", "idle"}
  /\ exporter' = "idle"
  /\ IF pc = "idle" THEN StartTrim("clean", ring) ELSE UNCHANGED flow
  /\ UNCHANGED <<files, rec, cur, prep, ring, lease, required, crashes>>

-----------------------------------------------------------------------------
(* Time, crashes and process start.                                        *)

\* Ten minutes pass; files being written stay fresh.
Age ==
  /\ stale' = disk \ {cur, prep.file}
  /\ stale' # stale
  /\ UNCHANGED <<disk, content, created, flow, rec, cur, prep, ring, export, crashes>>

\* What a segment holds up to its hole: nothing is written after one.
UpToHole(f) ==
  IF content[f] # "holed" THEN content[f] ELSE IF rec.track THEN "av" ELSE "silent"

\* The open segment is a fragmented MP4: cut, it may still be readable.
Crash ==
  /\ pc # "down" /\ crashes < MaxCrashes
  /\ crashes' = crashes + 1
  /\ \E whole \in BOOLEAN :
       content' = [f \in File |-> IF f # cur THEN content[f]
                                 ELSE IF whole THEN UpToHole(f) ELSE "broken"]
  /\ pc' = "down" /\ task' = "end" /\ todo' = {}
  /\ rec' = Fresh(1) /\ cur' = NoFile /\ prep' = NoPrep /\ ring' = {}
  /\ exporter' = "idle" /\ lease' = {} /\ UNCHANGED required
  /\ UNCHANGED <<disk, stale, created>>

\* onThreadStarted: sweepStaleReplayCache.
Start ==
  /\ pc = "down"
  /\ disk' = disk \ (stale \ lease)
  /\ Goto("none")
  /\ UNCHANGED <<content, stale, created, rec, cur, prep, ring, export, crashes>>

-----------------------------------------------------------------------------
Init ==
  /\ disk = {} /\ content = [f \in File |-> "empty"] /\ stale = {} /\ created = 0
  /\ pc = "down" /\ task = "end" /\ todo = {}
  /\ \E keep \in Keeps : rec = Fresh(keep)
  /\ cur = NoFile /\ prep = NoPrep /\ ring = {}
  /\ exporter = "idle" /\ lease = {} /\ required = FALSE /\ crashes = 0

WorkerStep ==
  \/ RestoreFile \/ RestoreDone \/ TrimFile \/ TrimDone
  \/ OpenSegment \/ WriteSample
  \/ DiscardSegment \/ FinalizeFails \/ FinalizeSucceeds \/ Rolled \/ Ended
  \/ TakeLease \/ HandOver

Next ==
  \/ WorkerStep
  \/ Start \/ Begin \/ StartWrite \/ AudioFails \/ StartSave \/ End
  \/ PrepEnds \/ ExportReturns \/ ExportFinished
  \/ Age \/ Crash

\* A handler that has started runs on, both helper threads end, and the worker's
\* queue reaches `finished` however busy the recorder is.
Fairness ==
  /\ WF_vars(WorkerStep) /\ WF_vars(PrepEnds) /\ WF_vars(ExportReturns)
  /\ SF_vars(ExportFinished)

Spec == Init /\ [][Next]_vars /\ Fairness
-----------------------------------------------------------------------------
(* Properties.                                                             *)

RecType ==
  [keep : Nat, active : BOOLEAN, polling : BOOLEAN, track : BOOLEAN, lost : BOOLEAN,
   poisoned : BOOLEAN, discard : BOOLEAN, failures : Nat, lastMedia : {NoFile} \cup File]

PrepType ==
  [state : {"none", "building", "ready", "failed"}, file : {NoFile} \cup File,
   track : BOOLEAN]

\* Every variable has its type, and a segment is closed only while one is open.
TypeOK ==
  /\ disk \subseteq File /\ content \in [File -> Content] /\ stale \subseteq File
  /\ created \in 0..MaxFiles
  /\ pc \in Control /\ task \in Task /\ todo \subseteq File
  /\ pc = "closing" => cur # NoFile
  /\ rec \in RecType /\ prep \in PrepType
  /\ cur \in {NoFile} \cup File /\ ring \subseteq File
  /\ exporter \in {"idle", "held", "running", "finished"}
  /\ lease \subseteq File /\ required \in BOOLEAN /\ crashes \in 0..MaxCrashes

\* What an export was promised: no roll, trim, restore, sweep, replacement or
\* teardown deletes a leased segment, or writes into it, before the task returns.
LeasedFilesStay == lease \subseteq disk /\ cur \notin lease /\ prep.file \notin lease

\* The recorder's list names files that exist, and neither the open nor the
\* prepared segment, whose deletion asks nobody, is ever among them.
RingOnDisk == ring \subseteq disk /\ cur \notin ring /\ prep.file \notin ring

\* An old lease delays trimming but does not leak: when no export is running,
\* between two handlers, the ring is back inside the configured window.
RingBounded ==
  pc = "idle" /\ exporter = "idle" => Cardinality(ring) <= rec.keep

\* No poisoned, empty or cut segment reaches a snapshot, and every export that is
\* started has video to read, across crashes and re-arms: what the exporter may still
\* refuse is a window in which the encoder dropped the audio, or one with a segment
\* that holds audio only.
SnapshotIsWhole ==
  exporter = "running" =>
    /\ \A f \in lease : content[f] \in Video \cup {"audio"}
    /\ \E f \in lease : content[f] \in Video

\* A recorder that says it records has a segment open, and has stopped for good after
\* MaxFailed discarded segments in a row, whichever of roll and save threw them away.
ActiveMeansRecording ==
  pc = "idle" =>
    /\ rec.active <=> cur # NoFile
    /\ rec.active => rec.failures < MaxFailed

\* docs/capture-engine.md: with a source selected, audio is never silently dropped.
NoSilentClip ==
  exporter = "running" /\ ConcatAccepts(lease, required) =>
    \A f \in lease : content[f] = "av"

\* A snapshot is dropped or exported, and then the next save gets in: no refusal,
\* failed reservation, teardown or re-arm keeps the exporter busy.
ExportEnds == (exporter # "idle") ~> (exporter = "idle")
=============================================================================
