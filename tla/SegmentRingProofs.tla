------------------------- MODULE SegmentRingProofs --------------------------
(***************************************************************************)
(* For every number of files, every set of replay lengths and every number *)
(* of crashes: the types of SegmentRing, the two invariants a saved clip   *)
(* depends on, LeasedFilesStay and RingOnDisk, the size of the ring, what  *)
(* a snapshot holds and when the recorder stops.                           *)
(*                                                                         *)
(* Neither of the two is inductive.  A file may be deleted without asking  *)
(* the lease registry in three places (the open segment, the prepared      *)
(* segment, a restore), so the argument needs that names are never reused  *)
(* (Names), that the two open files are apart from each other              *)
(* (OpenSegments), and where in a handler each of them can exist (Flow).   *)
(* The ring's size, the snapshot's content and the recorder's stop have    *)
(* invariants of their own, which rest on this one.                        *)
(***************************************************************************)
EXTENDS SegmentRing, FiniteSetTheorems, TLAPS

\* Files on disk and open writers carry names that were handed out.
Names ==
  /\ disk \subseteq 1..created
  /\ cur <= created /\ prep.file <= created

\* The open segment exists and is not the prepared one.
OpenSegments ==
  /\ cur # NoFile => cur \in disk /\ cur # prep.file
  /\ prep.state = "none" <=> prep.file = NoFile
  /\ prep.state = "ready" => prep.file \in disk

\* Which files are open, and which the loops still have to look at, by control point.
Flow ==
  /\ pc \in {"down", "none", "restoring"} => cur = NoFile /\ prep.file = NoFile
  /\ pc \in {"trimming", "opening"} /\ task = "begin" => cur = NoFile /\ prep.file = NoFile
  /\ pc \in {"closing", "trimming", "closed"} /\ task = "end" => prep.file = NoFile
  /\ pc \in {"closed", "opening"} => cur = NoFile
  /\ pc = "trimming" /\ task # "clean" => cur = NoFile
  /\ pc \in {"closing", "closed"} => task \in {"write", "save", "end"}
  /\ pc = "trimming" => todo \subseteq ring
  /\ pc = "restoring" => todo \subseteq disk \ ring
  /\ pc = "down" => ring = {} /\ lease = {}
  /\ rec.active /\ (pc \in {"idle", "writing", "checking"} \/ (pc = "trimming" /\ task = "clean"))
       => cur # NoFile

IInv == TypeOK /\ LeasedFilesStay /\ RingOnDisk /\ Names /\ OpenSegments /\ Flow

\* What every step of the invariant's proof opens.
USE DEF NoFile, File, files, flow, export

-----------------------------------------------------------------------------
\* The window of the newest files holds files of the set it is taken from: what
\* snapshotForSave leases is in the list.
LEMMA NewestSubset == ASSUME NEW S, NEW k PROVE Newest(S, k) \subseteq S
  BY DEF Newest

\* The strengthening is preserved by every step of the worker, the two helper
\* threads, time and crashes.
THEOREM Inductive == IInv /\ [Next]_vars => IInv'
<1> SUFFICES ASSUME IInv, [Next]_vars PROVE IInv'
  OBVIOUS
<1> USE SegmentRingAssumption
<1>0. TypeOK /\ LeasedFilesStay /\ RingOnDisk /\ Names /\ OpenSegments /\ Flow
  BY DEF IInv
<1>1. CASE Start
  <2>1. TypeOK'
    BY <1>0, <1>1 DEF Start, Goto, TypeOK, Content, Control, Task
  <2>2. LeasedFilesStay' /\ RingOnDisk'
    BY <1>0, <1>1 DEF Start, Goto, TypeOK, PrepType, LeasedFilesStay, RingOnDisk, Names, OpenSegments, Flow
  <2>3. Names' /\ OpenSegments'
    BY <1>0, <1>1 DEF Start, Goto, TypeOK, PrepType, Names, OpenSegments, Flow
  <2>4. Flow'
    BY <1>0, <1>1 DEF Start, Goto, TypeOK, RecType, PrepType, RingOnDisk, Flow
  <2> QED BY <2>1, <2>2, <2>3, <2>4 DEF IInv
<1>2. CASE Begin
  <2>a. rec' \in RecType
    BY <1>0, <1>2 DEF Begin, Fresh, TypeOK, RecType, PrepType, Flow
  <2>1. TypeOK'
    BY <1>0, <1>2, <2>a DEF Begin, Fresh, TypeOK, Content, Control, Task
  <2>2. LeasedFilesStay' /\ RingOnDisk'
    BY <1>0, <1>2 DEF Begin, Fresh, TypeOK, PrepType, LeasedFilesStay, RingOnDisk, Names, OpenSegments, Flow
  <2>3. Names' /\ OpenSegments'
    BY <1>0, <1>2 DEF Begin, Fresh, TypeOK, PrepType, Names, OpenSegments, Flow
  <2>4. Flow'
    BY <1>0, <1>2 DEF Begin, Fresh, TypeOK, RecType, PrepType, RingOnDisk, Flow
  <2> QED BY <2>1, <2>2, <2>3, <2>4 DEF IInv
<1>3. CASE StartWrite
  <2>1. TypeOK'
    BY <1>0, <1>3 DEF StartWrite, TypeOK, Content, Control, Task, Flow
  <2>2. LeasedFilesStay' /\ RingOnDisk'
    BY <1>0, <1>3 DEF StartWrite, TypeOK, PrepType, LeasedFilesStay, RingOnDisk, Names, OpenSegments, Flow
  <2>3. Names' /\ OpenSegments'
    BY <1>0, <1>3 DEF StartWrite, TypeOK, PrepType, Names, OpenSegments, Flow
  <2>4. Flow'
    BY <1>0, <1>3 DEF StartWrite, TypeOK, RecType, PrepType, RingOnDisk, Flow
  <2> QED BY <2>1, <2>2, <2>3, <2>4 DEF IInv
<1>4. CASE AudioFails
  <2>a. rec' \in RecType
    BY <1>0, <1>4 DEF AudioFails, TypeOK, RecType, PrepType, Flow
  <2>1. TypeOK'
    BY <1>0, <1>4, <2>a DEF AudioFails, TypeOK, Content, Control, Task
  <2>2. LeasedFilesStay' /\ RingOnDisk'
    BY <1>0, <1>4 DEF AudioFails, TypeOK, PrepType, LeasedFilesStay, RingOnDisk, Names, OpenSegments, Flow
  <2>3. Names' /\ OpenSegments'
    BY <1>0, <1>4 DEF AudioFails, TypeOK, PrepType, Names, OpenSegments, Flow
  <2>4. Flow'
    BY <1>0, <1>4 DEF AudioFails, TypeOK, RecType, PrepType, RingOnDisk, Flow
  <2> QED BY <2>1, <2>2, <2>3, <2>4 DEF IInv
<1>5. CASE StartSave
  <2>1. TypeOK'
    BY <1>0, <1>5 DEF StartSave, TypeOK, Content, Control, Task, Flow
  <2>2. LeasedFilesStay' /\ RingOnDisk'
    BY <1>0, <1>5 DEF StartSave, TypeOK, PrepType, LeasedFilesStay, RingOnDisk, Names, OpenSegments, Flow
  <2>3. Names' /\ OpenSegments'
    BY <1>0, <1>5 DEF StartSave, TypeOK, PrepType, Names, OpenSegments, Flow
  <2>4. Flow'
    BY <1>0, <1>5 DEF StartSave, TypeOK, RecType, PrepType, RingOnDisk, Flow
  <2> QED BY <2>1, <2>2, <2>3, <2>4 DEF IInv
<1>6. CASE End
  <2>b. prep' \in PrepType
    BY <1>0, <1>6 DEF End, NoPrep, TypeOK, PrepType
  <2>1. TypeOK'
    BY <1>0, <1>6, <2>b DEF End, NoPrep, TypeOK, Content, Control, Task, Flow, PrepType
  <2>2. LeasedFilesStay' /\ RingOnDisk'
    BY <1>0, <1>6 DEF End, NoPrep, TypeOK, PrepType, LeasedFilesStay, RingOnDisk, Names, OpenSegments, Flow
  <2>3. Names' /\ OpenSegments'
    <3>1. disk' \subseteq disk /\ prep'.file = 0 /\ created' = created /\ cur' = cur
      BY <1>6 DEF End, NoPrep
    <3>2. created \in Nat
      BY <1>0 DEF TypeOK
    <3>3. Names'
      BY <1>0, <3>1, <3>2 DEF Names
    <3>4. OpenSegments'
      BY <1>0, <1>6 DEF End, NoPrep, TypeOK, PrepType, OpenSegments
    <3> QED BY <3>3, <3>4
  <2>4. Flow'
    BY <1>0, <1>6 DEF End, NoPrep, TypeOK, RecType, PrepType, RingOnDisk, Flow
  <2> QED BY <2>1, <2>2, <2>3, <2>4 DEF IInv
<1>7. CASE PrepEnds
  <2>b. prep' \in PrepType
    BY <1>0, <1>7 DEF PrepEnds, TypeOK, PrepType
  <2>1. TypeOK'
    <3>1. disk' \subseteq disk \cup {prep.file} /\ prep.file \in File
      BY <1>0, <1>7 DEF PrepEnds, TypeOK, PrepType, OpenSegments
    <3> QED
      BY <1>0, <1>7, <2>b, <3>1 DEF PrepEnds, TypeOK, Content, Control, Task
  <2>2. LeasedFilesStay' /\ RingOnDisk'
    BY <1>0, <1>7 DEF PrepEnds, TypeOK, PrepType, LeasedFilesStay, RingOnDisk, Names, OpenSegments, Flow
  <2>3. Names' /\ OpenSegments'
    <3>1. prep'.file = prep.file /\ prep'.state \in {"ready", "failed"}
      BY <1>0, <1>7 DEF PrepEnds, TypeOK, PrepType
    <3>2. disk \subseteq disk' /\ disk' \subseteq disk \cup {prep.file}
      BY <1>7 DEF PrepEnds
    <3>3. prep'.state = "ready" => prep.file \in disk'
      BY <1>0, <1>7 DEF PrepEnds, TypeOK, PrepType
    <3>4. prep.file # NoFile /\ prep.file \in Nat /\ created \in Nat
      BY <1>0, <1>7 DEF PrepEnds, TypeOK, PrepType, OpenSegments
    <3>5. cur' = cur /\ created' = created
      BY <1>7 DEF PrepEnds
    <3>6. Names'
      BY <1>0, <3>1, <3>2, <3>4, <3>5 DEF Names
    <3>7. OpenSegments'
      BY <1>0, <3>1, <3>2, <3>3, <3>4, <3>5 DEF OpenSegments
    <3> QED BY <3>6, <3>7
  <2>4. Flow'
    BY <1>0, <1>7 DEF PrepEnds, TypeOK, RecType, PrepType, RingOnDisk, Flow
  <2> QED BY <2>1, <2>2, <2>3, <2>4 DEF IInv
<1>8. CASE ExportReturns
  <2>1. TypeOK'
    BY <1>0, <1>8 DEF ExportReturns, TypeOK, Content, Control, Task
  <2>2. LeasedFilesStay' /\ RingOnDisk'
    BY <1>0, <1>8 DEF ExportReturns, TypeOK, PrepType, LeasedFilesStay, RingOnDisk, Names, OpenSegments, Flow
  <2>3. Names' /\ OpenSegments'
    BY <1>0, <1>8 DEF ExportReturns, TypeOK, PrepType, Names, OpenSegments, Flow
  <2>4. Flow'
    BY <1>0, <1>8 DEF ExportReturns, TypeOK, RecType, PrepType, RingOnDisk, Flow
  <2> QED BY <2>1, <2>2, <2>3, <2>4 DEF IInv
<1>9. CASE ExportFinished
  <2>1. TypeOK'
    BY <1>0, <1>9, NewestSubset DEF ExportFinished, StartTrim, TypeOK, Content, Control, Task
  <2>2. LeasedFilesStay' /\ RingOnDisk'
    BY <1>0, <1>9, NewestSubset DEF ExportFinished, StartTrim, TypeOK, PrepType, LeasedFilesStay, RingOnDisk, Names, OpenSegments, Flow
  <2>3. Names' /\ OpenSegments'
    BY <1>0, <1>9, NewestSubset DEF ExportFinished, StartTrim, TypeOK, PrepType, Names, OpenSegments, Flow
  <2>4. Flow'
    BY <1>0, <1>9, NewestSubset DEF ExportFinished, StartTrim, TypeOK, RecType, PrepType, RingOnDisk, Flow
  <2> QED BY <2>1, <2>2, <2>3, <2>4 DEF IInv
<1>10. CASE Age
  <2>1. TypeOK'
    BY <1>0, <1>10 DEF Age, TypeOK, Content, Control, Task
  <2>2. LeasedFilesStay' /\ RingOnDisk'
    BY <1>0, <1>10 DEF Age, TypeOK, PrepType, LeasedFilesStay, RingOnDisk, Names, OpenSegments, Flow
  <2>3. Names' /\ OpenSegments'
    BY <1>0, <1>10 DEF Age, TypeOK, PrepType, Names, OpenSegments, Flow
  <2>4. Flow'
    BY <1>0, <1>10 DEF Age, TypeOK, RecType, PrepType, RingOnDisk, Flow
  <2> QED BY <2>1, <2>2, <2>3, <2>4 DEF IInv
<1>11. CASE Crash
  <2>a. rec' \in RecType
    BY <1>0, <1>11 DEF Crash, Fresh, NoPrep, TypeOK, RecType, PrepType, Flow
  <2>b. prep' \in PrepType
    BY <1>0, <1>11 DEF Crash, Fresh, NoPrep, TypeOK, PrepType
  <2>1. TypeOK'
    <3>1. content' \in [File -> Content]
      BY <1>0, <1>11 DEF Crash, UpToHole, TypeOK, Content
    <3>2. crashes' \in 0..MaxCrashes
      BY <1>0, <1>11 DEF Crash, TypeOK
    <3> QED
      BY <1>0, <1>11, <2>a, <2>b, <3>1, <3>2 DEF Crash, TypeOK, Control, Task
  <2>2. LeasedFilesStay' /\ RingOnDisk'
    BY <1>0, <1>11 DEF Crash, Fresh, NoPrep, TypeOK, PrepType, LeasedFilesStay, RingOnDisk, Names, OpenSegments, Flow
  <2>3. Names' /\ OpenSegments'
    BY <1>0, <1>11 DEF Crash, Fresh, NoPrep, TypeOK, PrepType, Names, OpenSegments, Flow
  <2>4. Flow'
    BY <1>0, <1>11 DEF Crash, Fresh, NoPrep, TypeOK, RecType, PrepType, RingOnDisk, Flow
  <2> QED BY <2>1, <2>2, <2>3, <2>4 DEF IInv
<1>12. CASE RestoreFile
  <2>1. TypeOK'
    BY <1>0, <1>12 DEF RestoreFile, RemoveIfUnleased, TypeOK, Content, Control, Task
  <2>2. LeasedFilesStay' /\ RingOnDisk'
    <3>1. PICK f \in todo : \/ disk' = disk /\ ring' = ring \cup {f}
                            \/ /\ disk' = (IF f \in lease THEN disk ELSE disk \ {f})
                               /\ ring' = ring
      BY <1>12 DEF RestoreFile, RemoveIfUnleased
    <3>2. f \in disk /\ f \notin ring /\ f # NoFile /\ cur = NoFile /\ prep.file = NoFile
      BY <1>0, <1>12, <3>1 DEF RestoreFile, TypeOK, Flow
    <3>3. cur' = cur /\ prep' = prep /\ lease' = lease
      BY <1>12 DEF RestoreFile, RemoveIfUnleased
    <3> QED
      BY <1>0, <3>1, <3>2, <3>3 DEF LeasedFilesStay, RingOnDisk
  <2>3. Names' /\ OpenSegments'
    BY <1>0, <1>12 DEF RestoreFile, RemoveIfUnleased, TypeOK, PrepType, Names, OpenSegments, Flow
  <2>4. Flow'
    BY <1>0, <1>12 DEF RestoreFile, RemoveIfUnleased, TypeOK, RecType, PrepType, RingOnDisk, Flow
  <2> QED BY <2>1, <2>2, <2>3, <2>4 DEF IInv
<1>13. CASE RestoreDone
  <2>1. TypeOK'
    BY <1>0, <1>13, NewestSubset DEF RestoreDone, StartTrim, TypeOK, Content, Control, Task
  <2>2. LeasedFilesStay' /\ RingOnDisk'
    BY <1>0, <1>13, NewestSubset DEF RestoreDone, StartTrim, TypeOK, PrepType, LeasedFilesStay, RingOnDisk, Names, OpenSegments, Flow
  <2>3. Names' /\ OpenSegments'
    BY <1>0, <1>13, NewestSubset DEF RestoreDone, StartTrim, TypeOK, PrepType, Names, OpenSegments, Flow
  <2>4. Flow'
    BY <1>0, <1>13, NewestSubset DEF RestoreDone, StartTrim, TypeOK, RecType, PrepType, RingOnDisk, Flow
  <2> QED BY <2>1, <2>2, <2>3, <2>4 DEF IInv
<1>14. CASE TrimFile
  <2>1. TypeOK'
    BY <1>0, <1>14 DEF TrimFile, RemoveIfUnleased, TypeOK, Content, Control, Task, Flow
  <2>2. LeasedFilesStay' /\ RingOnDisk'
    BY <1>0, <1>14 DEF TrimFile, RemoveIfUnleased, TypeOK, PrepType, LeasedFilesStay, RingOnDisk, Names, OpenSegments, Flow
  <2>3. Names' /\ OpenSegments'
    BY <1>0, <1>14 DEF TrimFile, RemoveIfUnleased, TypeOK, PrepType, RingOnDisk, Names, OpenSegments, Flow
  <2>4. Flow'
    BY <1>0, <1>14 DEF TrimFile, RemoveIfUnleased, TypeOK, RecType, PrepType, RingOnDisk, Flow
  <2> QED BY <2>1, <2>2, <2>3, <2>4 DEF IInv
<1>15. CASE TrimDone
  <2>1. TypeOK'
    BY <1>0, <1>15 DEF TrimDone, Goto, TypeOK, Content, Control, Task
  <2>2. LeasedFilesStay' /\ RingOnDisk'
    BY <1>0, <1>15 DEF TrimDone, Goto, TypeOK, PrepType, LeasedFilesStay, RingOnDisk, Names, OpenSegments, Flow
  <2>3. Names' /\ OpenSegments'
    BY <1>0, <1>15 DEF TrimDone, Goto, TypeOK, PrepType, Names, OpenSegments, Flow
  <2>4. Flow'
    <3>1. /\ pc = "trimming" /\ UNCHANGED <<task, todo, cur, prep, rec, ring, disk, lease>>
          /\ task \in {"begin", "write", "save", "end", "clean"}
      BY <1>0, <1>15 DEF TrimDone, Goto, TypeOK, Task
    <3>2. CASE task = "begin"
      BY <1>0, <1>15, <3>1, <3>2 DEF TrimDone, Goto, Flow
    <3>3. CASE task = "clean"
      BY <1>0, <1>15, <3>1, <3>3 DEF TrimDone, Goto, Flow
    <3>4. CASE task \in {"write", "save", "end"}
      <4>1. pc' = "closed"
        BY <1>15, <3>4 DEF TrimDone, Goto
      <4> QED
        BY <1>0, <3>1, <3>4, <4>1 DEF Flow
    <3> QED BY <3>1, <3>2, <3>3, <3>4
  <2> QED BY <2>1, <2>2, <2>3, <2>4 DEF IInv
<1>16. CASE OpenSegment
  <2> DEFINE Adopted == prep.state = "ready" /\ Room /\ Adopt(prep.file, prep.track) /\ StartPrep
                       /\ UNCHANGED disk
             Built == /\ prep.state # "ready" /\ Room
                      /\ \E track \in {~rec.lost, ~rec.lost /\ ~AudioMayVanish} :
                           Adopt(created + 1, track)
                      /\ disk' = disk \cup {created + 1}
                      /\ created' = created + 2
                      /\ prep' = [state |-> "building", file |-> created + 2, track |-> ~rec'.lost]
             Failed == /\ prep.state # "ready"
                       /\ rec' = [rec EXCEPT !.active = FALSE]
                       /\ prep' = NoPrep
                       /\ Goto(IF task = "begin" THEN "none"
                               ELSE IF task = "save" THEN "checking" ELSE "idle")
                       /\ UNCHANGED <<disk, created, cur>>
  <2>0. /\ pc = "opening" /\ UNCHANGED <<content, stale, ring, exporter, lease, required, crashes>>
        /\ task' = task /\ todo' = todo /\ cur = NoFile
        /\ Adopted \/ Built \/ Failed
    BY <1>0, <1>16 DEF OpenSegment, Adopt, Goto, Flow
  <2> HIDE DEF Adopted, Built, Failed
  <2>1. CASE Adopted
    <3>1. /\ cur' = prep.file /\ prep.file \in File /\ prep.file \in disk /\ disk' = disk
          /\ created' = created + 1 /\ created + 1 \in File
          /\ prep'.file = created + 1 /\ prep'.state = "building"
      BY <1>0, <2>1 DEF Adopted, Adopt, StartPrep, Room, TypeOK, PrepType, OpenSegments
    <3>2. rec' \in RecType /\ rec'.active = TRUE
      BY <1>0, <2>1 DEF Adopted, Adopt, TypeOK, RecType, PrepType
    <3>3. prep' \in PrepType
      BY <3>1, <3>2, <2>1 DEF Adopted, StartPrep, PrepType, RecType
    <3>4. pc' \in {"writing", "checking", "idle"}
      BY <2>1 DEF Adopted, Adopt, Goto, AfterOpening
    <3>5. TypeOK'
      BY <1>0, <2>0, <3>1, <3>2, <3>3, <3>4 DEF TypeOK, Control
    <3>6. LeasedFilesStay' /\ RingOnDisk'
      BY <1>0, <2>0, <3>1 DEF TypeOK, LeasedFilesStay, RingOnDisk, Names
    <3>7. Names' /\ OpenSegments'
      BY <1>0, <2>0, <3>1 DEF TypeOK, Names, OpenSegments
    <3>8. Flow'
      BY <2>0, <3>1, <3>4 DEF Flow
    <3> QED BY <3>5, <3>6, <3>7, <3>8 DEF IInv
  <2>2. CASE Built
    <3>0. PICK track \in {~rec.lost, ~rec.lost /\ ~AudioMayVanish} : Adopt(created + 1, track)
      BY <2>2 DEF Built
    <3>1. /\ cur' = created + 1 /\ disk' = disk \cup {created + 1}
          /\ created \in Nat /\ created' = created + 2
          /\ created + 1 \in File /\ created + 2 \in File
          /\ prep'.file = created + 2 /\ prep'.state = "building"
      BY <1>0, <2>2, <3>0 DEF Built, Adopt, Room, TypeOK
    <3>2. rec' \in RecType /\ rec'.active = TRUE
      BY <1>0, <3>0 DEF Adopt, TypeOK, RecType
    <3>3. prep' \in PrepType
      BY <3>1, <3>2, <2>2 DEF Built, PrepType, RecType
    <3>4. pc' \in {"writing", "checking", "idle"}
      BY <3>0 DEF Adopt, Goto, AfterOpening
    <3>5. TypeOK'
      BY <1>0, <2>0, <3>1, <3>2, <3>3, <3>4 DEF TypeOK, Control
    <3>6. LeasedFilesStay' /\ RingOnDisk'
      BY <1>0, <2>0, <3>1 DEF TypeOK, LeasedFilesStay, RingOnDisk, Names
    <3>7. Names' /\ OpenSegments'
      BY <1>0, <2>0, <3>1 DEF TypeOK, Names, OpenSegments
    <3>8. Flow'
      BY <2>0, <3>1, <3>4 DEF Flow
    <3> QED BY <3>5, <3>6, <3>7, <3>8 DEF IInv
  <2>3. CASE Failed
    <3>1. /\ disk' = disk /\ created' = created /\ cur' = NoFile
          /\ prep'.file = NoFile /\ prep'.state = "none" /\ prep' \in PrepType
      BY <2>0, <2>3 DEF Failed, NoPrep, PrepType
    <3>2. rec' \in RecType /\ rec'.active = FALSE
      BY <1>0, <2>3 DEF Failed, TypeOK, RecType
    <3>3. pc' \in {"none", "checking", "idle"}
      BY <2>3 DEF Failed, Goto
    <3>4. TypeOK'
      BY <1>0, <2>0, <3>1, <3>2, <3>3 DEF TypeOK, Control
    <3>5. LeasedFilesStay' /\ RingOnDisk'
      BY <1>0, <2>0, <3>1 DEF TypeOK, LeasedFilesStay, RingOnDisk
    <3>6. Names' /\ OpenSegments'
      BY <1>0, <2>0, <3>1 DEF TypeOK, Names, OpenSegments
    <3>7. Flow'
      BY <2>0, <3>1, <3>2, <3>3 DEF Flow
    <3> QED BY <3>4, <3>5, <3>6, <3>7 DEF IInv
  <2> QED BY <2>0, <2>1, <2>2, <2>3
<1>17. CASE WriteSample
  <2>a. rec' \in RecType
    BY <1>0, <1>17 DEF WriteSample, Written, Goto, TypeOK, RecType, PrepType, Flow
  <2>1. TypeOK'
    BY <1>0, <1>17, <2>a DEF WriteSample, Written, Goto, TypeOK, Content, Control, Task
  <2>2. LeasedFilesStay' /\ RingOnDisk'
    BY <1>0, <1>17 DEF WriteSample, Written, Goto, TypeOK, PrepType, LeasedFilesStay, RingOnDisk, Names, OpenSegments, Flow
  <2>3. Names' /\ OpenSegments'
    BY <1>0, <1>17 DEF WriteSample, Written, Goto, TypeOK, PrepType, Names, OpenSegments, Flow
  <2>4. Flow'
    BY <1>0, <1>17 DEF WriteSample, Written, Goto, TypeOK, RecType, PrepType, RingOnDisk, Flow
  <2> QED BY <2>1, <2>2, <2>3, <2>4 DEF IInv
<1>18. CASE DiscardSegment
  <2>a. rec' \in RecType
    <3>1. rec.failures + 1 \in Nat
      BY <1>0 DEF TypeOK, RecType
    <3>2. PICK failures \in Nat :
            rec' = [rec EXCEPT !.poisoned = FALSE, !.discard = FALSE, !.failures = failures]
      <4>1. CASE rec.poisoned
        BY <1>18, <3>1, <4>1 DEF DiscardSegment
      <4>2. CASE ~rec.poisoned
        BY <1>0, <1>18, <4>2 DEF DiscardSegment, TypeOK, RecType
      <4> QED BY <4>1, <4>2
    <3> QED
      BY <1>0, <3>2 DEF TypeOK, RecType
  <2>1. TypeOK'
    BY <1>0, <1>18, <2>a DEF DiscardSegment, Goto, TypeOK, Content, Control, Task
  <2>2. LeasedFilesStay' /\ RingOnDisk'
    BY <1>0, <1>18 DEF DiscardSegment, Goto, TypeOK, PrepType, LeasedFilesStay, RingOnDisk, Names, OpenSegments, Flow
  <2>3. Names' /\ OpenSegments'
    BY <1>0, <1>18 DEF DiscardSegment, Goto, TypeOK, PrepType, Names, OpenSegments, Flow
  <2>4. Flow'
    BY <1>0, <1>18 DEF DiscardSegment, Goto, TypeOK, RecType, PrepType, RingOnDisk, Flow
  <2> QED BY <2>1, <2>2, <2>3, <2>4 DEF IInv
<1>19. CASE FinalizeFails
  <2>1. TypeOK'
    BY <1>0, <1>19 DEF FinalizeFails, Goto, TypeOK, Content, Control, Task
  <2>2. LeasedFilesStay' /\ RingOnDisk'
    BY <1>0, <1>19 DEF FinalizeFails, Goto, TypeOK, PrepType, LeasedFilesStay, RingOnDisk, Names, OpenSegments, Flow
  <2>3. Names' /\ OpenSegments'
    BY <1>0, <1>19 DEF FinalizeFails, Goto, TypeOK, PrepType, Names, OpenSegments, Flow
  <2>4. Flow'
    BY <1>0, <1>19 DEF FinalizeFails, Goto, TypeOK, RecType, PrepType, RingOnDisk, Flow
  <2> QED BY <2>1, <2>2, <2>3, <2>4 DEF IInv
<1>20. CASE FinalizeSucceeds
  <2>a. rec' \in RecType
    BY <1>0, <1>20 DEF FinalizeSucceeds, StartTrim, Video, TypeOK, RecType, PrepType, Flow
  <2>1. TypeOK'
    BY <1>0, <1>20, <2>a, NewestSubset DEF FinalizeSucceeds, StartTrim, Video, TypeOK, Content, Control, Task, Flow
  <2>2. LeasedFilesStay' /\ RingOnDisk'
    BY <1>0, <1>20, NewestSubset DEF FinalizeSucceeds, StartTrim, Video, TypeOK, PrepType, LeasedFilesStay, RingOnDisk, Names, OpenSegments, Flow
  <2>3. Names' /\ OpenSegments'
    BY <1>0, <1>20, NewestSubset DEF FinalizeSucceeds, StartTrim, Video, TypeOK, PrepType, Names, OpenSegments, Flow
  <2>4. Flow'
    BY <1>0, <1>20, NewestSubset DEF FinalizeSucceeds, StartTrim, Video, TypeOK, RecType, PrepType, RingOnDisk, Flow
  <2> QED BY <2>1, <2>2, <2>3, <2>4 DEF IInv
<1>21. CASE Rolled
  <2>a. rec' \in RecType
    BY <1>0, <1>21 DEF Rolled, Goto, TypeOK, RecType, PrepType, Flow
  <2>1. TypeOK'
    BY <1>0, <1>21, <2>a DEF Rolled, Goto, TypeOK, Content, Control, Task
  <2>2. LeasedFilesStay' /\ RingOnDisk'
    BY <1>0, <1>21 DEF Rolled, Goto, TypeOK, PrepType, LeasedFilesStay, RingOnDisk, Names, OpenSegments, Flow
  <2>3. Names' /\ OpenSegments'
    BY <1>0, <1>21 DEF Rolled, Goto, TypeOK, PrepType, Names, OpenSegments, Flow
  <2>4. Flow'
    BY <1>0, <1>21 DEF Rolled, Goto, TypeOK, RecType, PrepType, RingOnDisk, Flow
  <2> QED BY <2>1, <2>2, <2>3, <2>4 DEF IInv
<1>22. CASE Ended
  <2>1. TypeOK'
    BY <1>0, <1>22 DEF Ended, Goto, TypeOK, Content, Control, Task
  <2>2. LeasedFilesStay' /\ RingOnDisk'
    BY <1>0, <1>22 DEF Ended, Goto, TypeOK, PrepType, LeasedFilesStay, RingOnDisk, Names, OpenSegments, Flow
  <2>3. Names' /\ OpenSegments'
    BY <1>0, <1>22 DEF Ended, Goto, TypeOK, PrepType, Names, OpenSegments, Flow
  <2>4. Flow'
    BY <1>0, <1>22 DEF Ended, Goto, TypeOK, RecType, PrepType, RingOnDisk, Flow
  <2> QED BY <2>1, <2>2, <2>3, <2>4 DEF IInv
<1>23. CASE TakeLease
  <2>a. rec' \in RecType
    BY <1>0, <1>23 DEF TakeLease, Goto, TypeOK, RecType, PrepType, Flow
  <2>1. TypeOK'
    BY <1>0, <1>23, <2>a, NewestSubset DEF TakeLease, Goto, TypeOK, Content, Control, Task
  <2>2. LeasedFilesStay' /\ RingOnDisk'
    BY <1>0, <1>23, NewestSubset DEF TakeLease, Goto, TypeOK, PrepType, LeasedFilesStay, RingOnDisk, Names, OpenSegments, Flow
  <2>3. Names' /\ OpenSegments'
    BY <1>0, <1>23, NewestSubset DEF TakeLease, Goto, TypeOK, PrepType, Names, OpenSegments, Flow
  <2>4. Flow'
    BY <1>0, <1>23, NewestSubset DEF TakeLease, Goto, TypeOK, RecType, PrepType, RingOnDisk, Flow
  <2> QED BY <2>1, <2>2, <2>3, <2>4 DEF IInv
<1>24. CASE HandOver
  <2>1. TypeOK'
    <3>1. rec.track \in BOOLEAN
      BY <1>0 DEF TypeOK, RecType
    <3>2. /\ exporter' \in {"running", "idle"} /\ lease' \subseteq lease
          /\ required' \in {rec.track, required}
      BY <1>24 DEF HandOver, Goto
    <3>3. pc' = "idle" /\ UNCHANGED <<files, task, todo, rec, cur, prep, ring, crashes>>
      BY <1>24 DEF HandOver, Goto
    <3> QED
      BY <1>0, <3>1, <3>2, <3>3 DEF TypeOK, Control
  <2>2. LeasedFilesStay' /\ RingOnDisk'
    BY <1>0, <1>24 DEF HandOver, Goto, TypeOK, PrepType, LeasedFilesStay, RingOnDisk, Names, OpenSegments, Flow
  <2>3. Names' /\ OpenSegments'
    BY <1>0, <1>24 DEF HandOver, Goto, TypeOK, PrepType, Names, OpenSegments, Flow
  <2>4. Flow'
    BY <1>0, <1>24 DEF HandOver, Goto, TypeOK, RecType, PrepType, RingOnDisk, Flow
  <2> QED BY <2>1, <2>2, <2>3, <2>4 DEF IInv
<1>25. CASE UNCHANGED vars
  <2>1. TypeOK'
    BY <1>0, <1>25 DEF vars, TypeOK, Content, Control, Task
  <2>2. LeasedFilesStay' /\ RingOnDisk'
    BY <1>0, <1>25 DEF vars, TypeOK, PrepType, LeasedFilesStay, RingOnDisk, Names, OpenSegments, Flow
  <2>3. Names' /\ OpenSegments'
    BY <1>0, <1>25 DEF vars, TypeOK, PrepType, Names, OpenSegments, Flow
  <2>4. Flow'
    BY <1>0, <1>25 DEF vars, TypeOK, RecType, PrepType, RingOnDisk, Flow
  <2> QED BY <2>1, <2>2, <2>3, <2>4 DEF IInv
<1> QED
  BY <1>1, <1>2, <1>3, <1>4, <1>5, <1>6, <1>7, <1>8, <1>9, <1>10, <1>11, <1>12, <1>13, <1>14, <1>15, <1>16, <1>17, <1>18, <1>19, <1>20, <1>21, <1>22, <1>23, <1>24, <1>25 DEF Next, WorkerStep

\* IInv is an invariant of the specification.
THEOREM Invariant == Spec => []IInv
<1>1. Init => IInv
  <2> SUFFICES ASSUME Init PROVE IInv
    OBVIOUS
  <2> USE SegmentRingAssumption
  <2>1. rec \in RecType /\ prep \in PrepType /\ ~rec.active
    BY DEF Init, Fresh, NoPrep, RecType, PrepType
  <2>2. TypeOK
    <3>1. created \in 0..MaxFiles /\ crashes \in 0..MaxCrashes
      BY DEF Init
    <3>2. content \in [File -> Content]
      BY DEF Init, Content
    <3>3. pc \in Control /\ task \in Task /\ cur = NoFile /\ pc = "down"
      BY DEF Init, Control, Task
    <3> QED BY <2>1, <3>1, <3>2, <3>3 DEF Init, TypeOK
  <2>3. LeasedFilesStay /\ RingOnDisk
    BY DEF Init, NoPrep, LeasedFilesStay, RingOnDisk
  <2>4. Names /\ OpenSegments /\ Flow
    BY <2>1 DEF Init, NoPrep, Names, OpenSegments, Flow
  <2> QED BY <2>2, <2>3, <2>4 DEF IInv
<1>2. IInv /\ [Next]_vars => IInv'
  BY Inductive
<1> QED BY <1>1, <1>2, PTL DEF Spec

\* Every variable keeps its type, and closeSegment runs only on an open segment.
THEOREM TypeCorrect == Spec => []TypeOK
<1>1. IInv => TypeOK
  BY DEF IInv
<1> QED BY Invariant, <1>1, PTL

\* SegmentLease's promise: nothing the recorder, its successor, the restore, the
\* sweep or the helper threads do deletes or rewrites a segment an export reads.
THEOREM LeaseSafety == Spec => []LeasedFilesStay
<1>1. IInv => LeasedFilesStay
  BY DEF IInv
<1> QED BY Invariant, <1>1, PTL

\* m_segments never lists a file that is gone, still written or only prepared.
THEOREM RingSafety == Spec => []RingOnDisk
<1>1. IInv => RingOnDisk
  BY DEF IInv
<1> QED BY Invariant, <1>1, PTL
-----------------------------------------------------------------------------
(* The window.  Bounded is not inductive: a lease outlives handlers, and   *)
(* what keeps the list long is only trimmed once it is gone (Exporting).   *)

\* Where in a handler the exporter is free, held by this save, or out of its hands.
Exporting ==
  /\ exporter \in {"idle", "finished"} => lease = {}
  /\ pc \in {"closing", "trimming", "closed"} /\ task = "save" => exporter = "idle"
  /\ pc \in {"opening", "checking"} /\ task = "save" <=> exporter = "held"
  /\ pc = "checking" => task = "save"

\* Without an export behind it the list is in the window, or what a trim leaves is.
Bounded ==
  exporter \in {"idle", "held"} =>
    /\ pc \in {"idle", "opening", "writing", "checking", "closing", "closed"} =>
         Cardinality(ring) <= rec.keep
    /\ pc = "trimming" => Cardinality(ring \ todo) <= rec.keep

\* The window holds no more than its size: no two of its files have the same number of
\* newer ones, and all have fewer than `k`.
LEMMA NewestSize ==
  ASSUME NEW S \in SUBSET Nat, IsFiniteSet(S), NEW k \in Nat
  PROVE Cardinality(Newest(S, k)) <= k
<1> DEFINE N == Newest(S, k)
<1> DEFINE newer(f) == {g \in S : g > f}
<1> DEFINE rank == [f \in N |-> Cardinality(newer(f))]
<1>1. \A f \in Nat : IsFiniteSet(newer(f)) /\ Cardinality(newer(f)) \in Nat
  <2> SUFFICES ASSUME NEW f \in Nat PROVE IsFiniteSet(newer(f)) /\ Cardinality(newer(f)) \in Nat
    OBVIOUS
  <2>1. newer(f) \in SUBSET S
    OBVIOUS
  <2>2. IsFiniteSet(newer(f))
    BY <2>1, FS_Subset
  <2> QED BY <2>2, FS_CardinalityType
<1>2. IsFiniteSet(N) /\ Cardinality(N) \in Nat /\ N \subseteq S
  <2>1. N \in SUBSET S
    BY NewestSubset
  <2>2. IsFiniteSet(N)
    BY <2>1, FS_Subset
  <2> QED BY <2>1, <2>2, FS_CardinalityType
<1>3. IsFiniteSet(0..(k - 1)) /\ Cardinality(0..(k - 1)) = k
  <2>1. IsFiniteSet(0..(k - 1)) /\ Cardinality(0..(k - 1)) = IF 0 > k - 1 THEN 0 ELSE (k - 1) - 0 + 1
    <3>1. 0 \in Int /\ k - 1 \in Int
      OBVIOUS
    <3> QED BY <3>1, FS_Interval
  <2> QED BY <2>1
<1>4. rank \in [N -> 0..(k - 1)]
  <2>1. \A f \in N : Cardinality(newer(f)) < k
    BY DEF Newest
  <2>2. ASSUME NEW f \in N PROVE Cardinality(newer(f)) \in 0..(k - 1)
    <3>1. f \in Nat
      BY <1>2
    <3>2. Cardinality(newer(f)) \in Nat /\ Cardinality(newer(f)) < k
      BY <1>1, <2>1, <3>1
    <3> HIDE DEF newer
    <3> QED BY <3>2
  <2> QED BY <2>2
<1>5. \A f, h \in N : f # h => rank[f] # rank[h]
  <2>1. ASSUME NEW f \in N, NEW h \in N, f < h PROVE rank[f] # rank[h]
    <3>2. f \in Nat /\ h \in Nat /\ h \in S
      BY <1>2
    <3>1. newer(h) \in SUBSET newer(f) /\ h \in newer(f) /\ h \notin newer(h)
      <4>1. \A g \in S : g > h => g > f
        <5>1. \A g \in S : g \in Nat
          OBVIOUS
        <5> QED BY <2>1, <3>2, <5>1
      <4>2. newer(h) \subseteq newer(f)
        BY <4>1
      <4>3. ~(h > h) /\ h > f
        BY <2>1, <3>2
      <4> QED BY <3>2, <4>2, <4>3
    <3>3. Cardinality(newer(h)) # Cardinality(newer(f))
      BY <1>1, <3>1, <3>2, FS_Subset
    <3> HIDE DEF newer, N
    <3> QED BY <3>3
  <2>2. ASSUME NEW f \in N, NEW h \in N, f # h PROVE f < h \/ h < f
    <3>1. f \in Nat /\ h \in Nat
      BY <1>2
    <3> QED BY <2>2, <3>1
  <2> HIDE DEF N, rank
  <2> QED BY <2>1, <2>2
<1>6. CASE k < Cardinality(N)
  <2> HIDE DEF N, rank
  <2>1. \E f, h \in N : f # h /\ rank[f] = rank[h]
    BY <1>2, <1>3, <1>4, <1>6, FS_PigeonHole
  <2> QED BY <1>5, <2>1
<1> QED BY <1>2, <1>6

\* The files of a run are finitely many.
LEMMA RingFinite ==
  ASSUME NEW S, S \subseteq File
  PROVE S \in SUBSET Nat /\ IsFiniteSet(S) /\ Cardinality(S) \in Nat
<1>1. MaxFiles \in Nat
  BY SegmentRingAssumption
<1>2. IsFiniteSet(File)
  BY <1>1, FS_Interval
<1>3. IsFiniteSet(S)
  BY <1>2, FS_Subset
<1> QED BY <1>1, <1>3, FS_CardinalityType

\* A trim has dropped all but the window once it is through, unless a lease stops it.
LEMMA TrimStarts ==
  ASSUME NEW t, NEW S, S \subseteq File, rec \in RecType, StartTrim(t, S)
  PROVE pc' = "trimming" /\ task' = t /\ todo' \subseteq S /\ Cardinality(S \ todo') <= rec.keep
<1>1. pc' = "trimming" /\ task' = t /\ todo' = S \ Newest(S, rec.keep)
  BY DEF StartTrim
<1>2. S \ todo' = Newest(S, rec.keep)
  BY <1>1, NewestSubset
<1>3. rec.keep \in Nat
  BY DEF RecType
<1>4. Cardinality(Newest(S, rec.keep)) <= rec.keep
  BY <1>3, RingFinite, NewestSize
<1> QED BY <1>1, <1>2, <1>4

\* Every step keeps both.
LEMMA WindowKept == IInv /\ Exporting /\ Bounded /\ [Next]_vars => Exporting' /\ Bounded'
<1> SUFFICES ASSUME IInv, Exporting, Bounded, [Next]_vars PROVE Exporting' /\ Bounded'
  OBVIOUS
<1>0. /\ ring \subseteq File /\ rec \in RecType /\ pc \in Control /\ task \in Task
      /\ exporter \in {"idle", "held", "running", "finished"}
      /\ pc \in {"closing", "closed"} => task \in {"write", "save", "end"}
      /\ pc = "trimming" => todo \subseteq ring
  BY DEF IInv, TypeOK, Flow
<1>1. CASE UNCHANGED <<pc, task, todo, ring, rec, exporter, lease>>
  BY <1>1 DEF Exporting, Bounded
<1>2. CASE Age \/ PrepEnds \/ UNCHANGED vars
  BY <1>1, <1>2 DEF Age, PrepEnds, vars
<1>3. CASE Start \/ Begin
  BY <1>3 DEF Start, Begin, Goto, Exporting, Bounded
<1>4. CASE StartWrite \/ StartSave \/ AudioFails
  BY <1>0, <1>4 DEF StartWrite, StartSave, AudioFails, Exporting, Bounded, RecType
<1>5. CASE End
  BY <1>5 DEF End, Exporting, Bounded
<1>6. CASE ExportReturns
  BY <1>6 DEF ExportReturns, Exporting, Bounded
<1>7. CASE ExportFinished
  <2>1. /\ exporter = "finished" /\ exporter' = "idle" /\ UNCHANGED <<rec, ring, lease>>
        /\ pc \in {"none", "idle"}
    BY <1>7 DEF ExportFinished
  <2>2. CASE pc = "none"
    BY <1>7, <2>1, <2>2 DEF ExportFinished, Exporting, Bounded
  <2>3. CASE pc = "idle"
    <3>1. StartTrim("clean", ring)
      BY <1>7, <2>3 DEF ExportFinished
    <3>2. pc' = "trimming" /\ task' = "clean" /\ Cardinality(ring \ todo') <= rec.keep
      BY <1>0, <3>1, TrimStarts
    <3> QED BY <2>1, <3>2 DEF Exporting, Bounded
  <2> QED BY <2>1, <2>2, <2>3
<1>8. CASE Crash
  BY <1>8 DEF Crash, Exporting, Bounded
<1>9. CASE RestoreFile
  BY <1>9 DEF RestoreFile, Exporting, Bounded
<1>10. CASE RestoreDone
  <2>1. StartTrim("begin", ring) /\ pc = "restoring" /\ UNCHANGED <<rec, ring, exporter, lease>>
    BY <1>10 DEF RestoreDone
  <2>2. pc' = "trimming" /\ task' = "begin" /\ Cardinality(ring \ todo') <= rec.keep
    BY <1>0, <2>1, TrimStarts
  <2> QED BY <2>1, <2>2 DEF Exporting, Bounded
<1>11. CASE TrimFile
  <2>1. /\ pc = "trimming" /\ UNCHANGED <<pc, task, rec, exporter, lease>>
        /\ exporter = "idle" => ring' \ todo' = ring \ todo
    BY <1>11 DEF TrimFile, Exporting
  <2> QED BY <2>1 DEF Exporting, Bounded
<1>12. CASE TrimDone
  <2>1. /\ pc = "trimming" /\ todo = {} /\ UNCHANGED <<task, todo, rec, ring, exporter, lease>>
        /\ pc' = (CASE task = "begin" -> "opening" [] task = "clean" -> "idle" [] OTHER -> "closed")
    BY <1>12 DEF TrimDone, Goto
  <2>2. ring \ todo = ring
    BY <2>1
  <2>3. \/ task = "begin" /\ pc' = "opening"
        \/ task = "clean" /\ pc' = "idle"
        \/ task \notin {"begin", "clean"} /\ pc' = "closed"
    BY <2>1
  <2> QED BY <2>1, <2>2, <2>3 DEF Exporting, Bounded
<1>13. CASE OpenSegment
  <2>1. /\ pc = "opening" /\ UNCHANGED <<task, todo, ring, exporter, lease>> /\ rec'.keep = rec.keep
        /\ pc' \in {"none", "idle", "writing", "checking"}
        /\ pc' = "checking" <=> task = "save"
    BY <1>0, <1>13 DEF OpenSegment, Adopt, AfterOpening, Goto, RecType, Task
  <2> QED BY <2>1 DEF Exporting, Bounded
<1>14. CASE WriteSample
  <2>1. pc = "writing" /\ pc' = "idle" /\ UNCHANGED <<task, todo, ring, exporter, lease>> /\ rec'.keep = rec.keep
    BY <1>0, <1>14 DEF WriteSample, Goto, RecType
  <2> QED BY <2>1 DEF Exporting, Bounded
<1>15. CASE DiscardSegment \/ FinalizeFails
  <2>1. pc = "closing" /\ pc' = "closed" /\ UNCHANGED <<task, todo, ring, exporter, lease>> /\ rec'.keep = rec.keep
    BY <1>0, <1>15 DEF DiscardSegment, FinalizeFails, Goto, RecType
  <2> QED BY <1>0, <2>1 DEF Exporting, Bounded
<1>16. CASE FinalizeSucceeds
  <2>1. pc = "closing" /\ StartTrim(task, ring') /\ UNCHANGED <<exporter, lease>> /\ rec'.keep = rec.keep
    BY <1>0, <1>16 DEF FinalizeSucceeds, RecType
  <2>2. ring' \subseteq File
    <3>1. IInv'
      BY Inductive
    <3> QED BY <3>1 DEF IInv, TypeOK
  <2> QED BY <1>0, <2>1, <2>2, TrimStarts DEF Exporting, Bounded
<1>17. CASE Rolled \/ Ended
  <2>1. /\ pc = "closed" /\ task \in {"write", "end"} /\ pc' \in {"idle", "opening", "none"}
        /\ UNCHANGED <<task, todo, ring, exporter, lease>> /\ rec'.keep = rec.keep
    BY <1>0, <1>17 DEF Rolled, Ended, Goto, RecType
  <2> QED BY <2>1 DEF Exporting, Bounded
<1>18. CASE TakeLease
  <2>1. /\ pc = "closed" /\ task = "save" /\ pc' \in {"checking", "opening"} /\ exporter' = "held"
        /\ UNCHANGED <<task, todo, ring>> /\ rec'.keep = rec.keep
    BY <1>0, <1>18 DEF TakeLease, Goto, RecType
  <2> QED BY <2>1 DEF Exporting, Bounded
<1>19. CASE HandOver
  <2>1. /\ pc = "checking" /\ pc' = "idle" /\ UNCHANGED <<task, todo, ring, rec>>
        /\ exporter' = "running" \/ (exporter' = "idle" /\ lease' = {})
    BY <1>19 DEF HandOver, Goto
  <2> QED BY <2>1 DEF Exporting, Bounded
<1> QED BY <1>2, <1>3, <1>4, <1>5, <1>6, <1>7, <1>8, <1>9, <1>10, <1>11, <1>12, <1>13, <1>14, <1>15,
       <1>16, <1>17, <1>18, <1>19 DEF Next, WorkerStep

\* An export delays trimming and leaks nothing: without one, between two handlers, the
\* list is inside the configured window.
THEOREM WindowSafety == Spec => []RingBounded
<1>1. Init => Exporting /\ Bounded
  BY DEF Init, Exporting, Bounded
<1>2. IInv /\ Exporting /\ Bounded /\ [Next]_vars => Exporting' /\ Bounded'
  BY WindowKept
<1>3. Bounded => RingBounded
  BY DEF Bounded, RingBounded
<1> QED BY <1>1, <1>2, <1>3, Invariant, PTL DEF Spec
-----------------------------------------------------------------------------
(* The snapshot, whatever the encoder and Finalize do with the audio.      *)

\* What the files hold: a new one is empty, a hole poisons the recorder until its file is
\* thrown away, what is listed or leased is whole, and the last media file has video.
Whole ==
  /\ \A f \in File : f > created => content[f] = "empty"
  /\ prep.file # NoFile => content[prep.file] = "empty"
  /\ cur # NoFile /\ content[cur] = "holed" => rec.poisoned
  /\ \A f \in ring \cup lease : content[f] \in Video \cup {"audio"}
  /\ rec.lastMedia # NoFile =>
       /\ rec.lastMedia <= created /\ rec.lastMedia \notin {cur, prep.file}
       /\ content[rec.lastMedia] \in Video

\* A lease not yet handed over is the window the ring still has; one that was handed over
\* has video in it.
Frozen ==
  /\ exporter = "held" => lease = Newest(ring, rec.keep)
  /\ exporter = "running" => \E f \in lease : content[f] \in Video

\* Every step keeps the files whole.
LEMMA WholeKept ==
  ASSUME IInv, Whole, [Next]_vars
  PROVE Whole'
<1>0. /\ ring \subseteq File /\ lease \subseteq File /\ rec \in RecType /\ prep \in PrepType
      /\ content \in [File -> Content] /\ created \in Nat /\ cur \in {NoFile} \cup File
      /\ cur \notin ring \cup lease /\ prep.file \notin ring \cup lease
      /\ cur # NoFile => cur # prep.file
      /\ cur <= created /\ prep.file <= created
      /\ prep.state = "none" <=> prep.file = NoFile
      /\ rec.lastMedia \in {NoFile} \cup File /\ prep.file \in {NoFile} \cup File
  BY SegmentRingAssumption DEF IInv, TypeOK, LeasedFilesStay, RingOnDisk, OpenSegments, Names, RecType, PrepType
<1>1. CASE Age \/ UNCHANGED vars
  BY <1>1 DEF Age, vars, Whole
<1>2. CASE Start \/ RestoreDone \/ TrimDone \/ StartWrite \/ StartSave \/ Ended
  BY <1>2 DEF Start, RestoreDone, TrimDone, StartWrite, StartSave, Ended, Whole
<1>3. CASE Begin
  <2>1. rec'.lastMedia = NoFile /\ UNCHANGED <<prep, content, created, cur, lease>> /\ ring' = {}
    BY <1>3 DEF Begin, Fresh
  <2>2. cur = NoFile
    BY <1>3 DEF Begin, IInv, Flow
  <2> QED BY <2>1, <2>2 DEF Whole
<1>4. CASE AudioFails \/ Rolled
  <2>1. /\ rec'.lastMedia = rec.lastMedia /\ rec'.poisoned = rec.poisoned
        /\ UNCHANGED <<prep, content, created, cur, lease, ring>>
    BY <1>0, <1>4 DEF AudioFails, Rolled, RecType
  <2> QED BY <2>1 DEF Whole
<1>5. CASE End
  <2>1. prep'.file = NoFile /\ UNCHANGED <<content, created, rec, cur, ring, lease>>
    BY <1>5 DEF End, NoPrep
  <2> QED BY <2>1 DEF Whole
<1>6. CASE PrepEnds
  <2>1. prep'.file = prep.file /\ UNCHANGED <<content, created, rec, cur, ring, lease>>
    BY <1>0, <1>6 DEF PrepEnds, PrepType
  <2> QED BY <2>1 DEF Whole
<1>7. CASE ExportReturns \/ ExportFinished \/ HandOver
  <2>1. lease' \subseteq lease /\ UNCHANGED <<content, created, rec, cur, prep, ring>>
    BY <1>7 DEF ExportReturns, ExportFinished, HandOver
  <2> QED BY <2>1 DEF Whole
<1>8. CASE Crash
  <2>1. /\ rec'.lastMedia = NoFile /\ prep'.file = NoFile /\ cur' = NoFile
        /\ ring' = {} /\ lease' = {} /\ created' = created
    BY <1>8 DEF Crash, Fresh, NoPrep
  <2>2. \A f \in File : f # cur => content'[f] = content[f]
    BY <1>8 DEF Crash
  <2>3. \A f \in File : f > created => f # cur
    BY <1>0
  <2>4. \A f \in File : f > created => content'[f] = "empty"
    BY <2>2, <2>3 DEF Whole
  <2> QED BY <2>1, <2>4 DEF Whole
<1>9. CASE RestoreFile
  <2>1. PICK f \in todo : ring' = ring \/ (content[f] \in Video /\ ring' = ring \cup {f})
    BY <1>9 DEF RestoreFile
  <2>2. UNCHANGED <<content, created, rec, cur, prep, lease>>
    BY <1>9 DEF RestoreFile
  <2> QED BY <2>1, <2>2 DEF Whole
<1>10. CASE TrimFile
  <2>1. ring' \subseteq ring /\ UNCHANGED <<content, created, rec, cur, prep, lease>>
    BY <1>10 DEF TrimFile
  <2> QED BY <2>1 DEF Whole
<1>11. CASE OpenSegment
  <2>0. UNCHANGED <<content, ring, lease>> /\ rec'.lastMedia = rec.lastMedia
    BY <1>0, <1>11 DEF OpenSegment, Adopt, RecType
  <2>1. CASE /\ prep.state = "ready" /\ Room /\ Adopt(prep.file, prep.track) /\ StartPrep
    <3>1. prep.file # NoFile /\ prep.file \in File /\ created + 1 \in File
      BY <1>0, <2>1, SegmentRingAssumption DEF Room
    <3>2. cur' = prep.file /\ created' = created + 1 /\ prep'.file = created + 1
      BY <2>1 DEF Adopt, StartPrep
    <3>3. content[prep.file] = "empty" /\ content[created + 1] = "empty"
      BY <1>0, <3>1 DEF Whole
    <3>4. \A f \in File : f > created + 1 => f > created
      BY <1>0
    <3>5. rec.lastMedia # NoFile => rec.lastMedia <= created + 1 /\ rec.lastMedia \notin {prep.file, created + 1}
      BY <1>0 DEF Whole
    <3> QED BY <2>0, <3>2, <3>3, <3>4, <3>5 DEF Whole
  <2>2. CASE /\ Room
             /\ \E track \in {~rec.lost, ~rec.lost /\ ~AudioMayVanish} : Adopt(created + 1, track)
             /\ created' = created + 2
             /\ prep' = [state |-> "building", file |-> created + 2, track |-> ~rec'.lost]
    <3>1. created + 1 \in File /\ created + 2 \in File
      BY <1>0, <2>2, SegmentRingAssumption DEF Room
    <3>2. cur' = created + 1 /\ created' = created + 2 /\ prep'.file = created + 2
      BY <2>2 DEF Adopt
    <3>3. content[created + 1] = "empty" /\ content[created + 2] = "empty"
      BY <1>0, <3>1 DEF Whole
    <3>4. \A f \in File : f > created + 2 => f > created
      BY <1>0
    <3>5. rec.lastMedia # NoFile => rec.lastMedia <= created + 2 /\ rec.lastMedia \notin {created + 1, created + 2}
      BY <1>0 DEF Whole
    <3> QED BY <2>0, <3>2, <3>3, <3>4, <3>5 DEF Whole
  <2>3. CASE rec' = [rec EXCEPT !.active = FALSE] /\ prep' = NoPrep /\ UNCHANGED <<created, cur>>
    <3>1. rec'.poisoned = rec.poisoned /\ prep'.file = NoFile
      BY <1>0, <2>3 DEF RecType, NoPrep
    <3> QED BY <2>0, <2>3, <3>1 DEF Whole
  <2> QED BY <1>11, <2>1, <2>2, <2>3 DEF OpenSegment
<1>12. CASE WriteSample
  <2>0. UNCHANGED <<created, cur, prep, ring, lease>>
    BY <1>12 DEF WriteSample
  <2>1. PICK c : /\ content' = [content EXCEPT ![cur] = c]
                 /\ c = "holed" => rec'.poisoned \/ (rec' = rec /\ content[cur] = "holed")
                 /\ rec'.lastMedia = rec.lastMedia
    <3>1. CASE rec' = rec /\ \E video \in {TRUE, ~rec.track} : content' = [content EXCEPT ![cur] = Written(video)]
      <4>1. PICK video \in {TRUE, ~rec.track} : content' = [content EXCEPT ![cur] = Written(video)]
        BY <3>1
      <4>2. Written(video) = "holed" => content[cur] = "holed"
        BY DEF Written
      <4> QED BY <3>1, <4>1, <4>2
    <3>2. CASE rec' = [rec EXCEPT !.poisoned = TRUE] /\ content' = [content EXCEPT ![cur] = "holed"]
      <4>1. rec'.poisoned /\ rec'.lastMedia = rec.lastMedia
        BY <1>0, <3>2 DEF RecType
      <4> QED BY <3>2, <4>1
    <3> QED BY <1>12, <3>1, <3>2 DEF WriteSample
  <2>2. \A f \in File : f # cur => content'[f] = content[f]
    BY <1>0, <2>1
  <2>3. cur \in File => content'[cur] = c
    BY <1>0, <2>1
  <2>4. \A f \in ring \cup lease : content'[f] = content[f]
    BY <1>0, <2>2
  <2>5. \A f \in File : f > created => f # cur
    BY <1>0
  <2>6. \A f \in File : f > created => content'[f] = "empty"
    BY <2>2, <2>5 DEF Whole
  <2>7. prep.file # NoFile => content'[prep.file] = "empty"
    <3>1. prep.file # NoFile => prep.file \in File /\ prep.file # cur
      BY <1>0
    <3> QED BY <2>2, <3>1 DEF Whole
  <2>8. cur # NoFile /\ content'[cur] = "holed" => rec'.poisoned
    BY <1>0, <2>1, <2>3 DEF Whole
  <2>9. rec.lastMedia # NoFile => content'[rec.lastMedia] = content[rec.lastMedia]
    BY <1>0, <2>2 DEF Whole
  <2> QED BY <2>0, <2>1, <2>4, <2>6, <2>7, <2>8, <2>9 DEF Whole
<1>13. CASE DiscardSegment
  <2>1. cur' = NoFile /\ rec'.lastMedia = rec.lastMedia /\ UNCHANGED <<content, created, prep, ring, lease>>
    BY <1>0, <1>13 DEF DiscardSegment, RecType
  <2>2. rec.lastMedia # NoFile => rec.lastMedia \notin {NoFile, prep.file}
    BY DEF Whole
  <2> QED BY <2>1, <2>2 DEF Whole
<1>14. CASE FinalizeFails
  <2>1. cur' = NoFile /\ UNCHANGED <<content, created, rec, prep, ring, lease>>
    BY <1>14 DEF FinalizeFails
  <2>2. rec.lastMedia # NoFile => rec.lastMedia \notin {NoFile, prep.file}
    BY DEF Whole
  <2> QED BY <2>1, <2>2 DEF Whole
<1>15. CASE FinalizeSucceeds
  <2>1. cur' = NoFile /\ ring' = ring \cup {cur} /\ UNCHANGED <<content, created, prep, lease>>
    BY <1>15 DEF FinalizeSucceeds
  <2>2. cur # NoFile /\ ~rec.poisoned
    BY <1>15 DEF FinalizeSucceeds, MustDiscard, IInv, TypeOK
  <2>3. content[cur] \in Video \cup {"audio"}
    BY <1>15, <2>2 DEF FinalizeSucceeds, Whole
  <2>4. rec'.lastMedia = IF content[cur] \in Video THEN cur ELSE rec.lastMedia
    BY <1>0, <1>15 DEF FinalizeSucceeds, RecType
  <2>5. rec'.lastMedia # NoFile =>
          /\ rec'.lastMedia <= created /\ rec'.lastMedia \notin {NoFile, prep.file}
          /\ content[rec'.lastMedia] \in Video
    BY <1>0, <2>2, <2>4 DEF Whole
  <2> QED BY <2>1, <2>3, <2>5 DEF Whole
<1>16. CASE TakeLease
  <2>1. /\ rec'.poisoned = rec.poisoned /\ rec'.lastMedia = rec.lastMedia
        /\ lease' \subseteq ring /\ UNCHANGED <<content, created, cur, prep, ring>>
    BY <1>0, <1>16, NewestSubset DEF TakeLease, RecType
  <2> QED BY <2>1 DEF Whole
<1> QED BY <1>1, <1>2, <1>3, <1>4, <1>5, <1>6, <1>7, <1>8, <1>9, <1>10, <1>11, <1>12, <1>13, <1>14, <1>15,
       <1>16 DEF Next, WorkerStep

\* No step changes the window between the lease and its hand-over, or what a running
\* export reads: only the open segment is written.
LEMMA FrozenKept ==
  ASSUME IInv, Exporting, Whole, Frozen, [Next]_vars
  PROVE Frozen'
<1>0. /\ ring \subseteq File /\ lease \subseteq File /\ rec \in RecType /\ content \in [File -> Content]
      /\ cur \in {NoFile} \cup File /\ cur \notin lease
  BY DEF IInv, TypeOK, LeasedFilesStay
<1>1. CASE UNCHANGED <<ring, rec, exporter, lease, content>>
  BY <1>1 DEF Frozen
<1>2. CASE \/ Age \/ PrepEnds \/ UNCHANGED vars \/ Start \/ StartWrite \/ StartSave \/ End
           \/ RestoreDone \/ TrimDone \/ Ended
  BY <1>1, <1>2 DEF Age, PrepEnds, vars, Start, StartWrite, StartSave, End, RestoreDone, TrimDone, Ended
<1>3. CASE Begin \/ RestoreFile \/ TrimFile \/ DiscardSegment \/ FinalizeFails \/ FinalizeSucceeds
  <2>1. exporter # "held"
    BY <1>3 DEF Begin, RestoreFile, TrimFile, DiscardSegment, FinalizeFails, FinalizeSucceeds, Exporting
  <2>2. UNCHANGED <<content, lease, exporter>>
    BY <1>3 DEF Begin, RestoreFile, TrimFile, DiscardSegment, FinalizeFails, FinalizeSucceeds
  <2> QED BY <2>1, <2>2 DEF Frozen
<1>4. CASE AudioFails \/ Rolled \/ OpenSegment
  <2>1. UNCHANGED <<content, ring, lease, exporter>> /\ rec'.keep = rec.keep
    BY <1>0, <1>4 DEF AudioFails, Rolled, OpenSegment, Adopt, RecType
  <2> QED BY <2>1 DEF Frozen
<1>5. CASE WriteSample
  <2>1. UNCHANGED <<ring, lease, exporter>> /\ rec'.keep = rec.keep
    BY <1>0, <1>5 DEF WriteSample, RecType
  <2>2. \A f \in File : f # cur => content'[f] = content[f]
    BY <1>0, <1>5 DEF WriteSample
  <2>3. \A f \in lease : content'[f] = content[f]
    BY <1>0, <2>2
  <2> QED BY <2>1, <2>3 DEF Frozen
<1>6. CASE TakeLease
  <2>1. lease' = Newest(ring, rec.keep) /\ exporter' = "held" /\ ring' = ring /\ rec'.keep = rec.keep
    BY <1>0, <1>6 DEF TakeLease, RecType
  <2> QED BY <2>1 DEF Frozen
<1>7. CASE HandOver
  <2>1. CASE exporter' = "running" /\ HasClosedMedia /\ UNCHANGED <<lease, content>>
    <3>1. exporter = "held"
      BY <1>7 DEF HandOver, Exporting
    <3>2. rec.lastMedia \in lease
      BY <2>1, <3>1 DEF HasClosedMedia, Frozen
    <3>3. rec.lastMedia # NoFile
      BY <1>0, <3>2
    <3>4. content[rec.lastMedia] \in Video
      BY <3>3 DEF Whole
    <3> QED BY <2>1, <3>2, <3>4 DEF Frozen
  <2>2. CASE exporter' = "idle"
    BY <2>2 DEF Frozen
  <2> QED BY <1>7, <2>1, <2>2 DEF HandOver
<1>8. CASE ExportReturns \/ ExportFinished \/ Crash
  <2>1. exporter' \notin {"held", "running"}
    BY <1>8 DEF ExportReturns, ExportFinished, Crash
  <2> QED BY <2>1 DEF Frozen
<1> QED BY <1>2, <1>3, <1>4, <1>5, <1>6, <1>7, <1>8 DEF Next, WorkerStep

\* Nothing poisoned, empty or cut is frozen, and every export that is started has video to
\* read, whatever the encoder and Finalize do, across crashes and re-arms.
THEOREM SnapshotSafety == Spec => []SnapshotIsWhole
<1>1. Init => Exporting /\ Bounded /\ Whole /\ Frozen
  <2>1. Init => Exporting /\ Bounded
    BY DEF Init, Exporting, Bounded
  <2>2. Init => Whole /\ Frozen
    BY DEF Init, Fresh, NoPrep, Whole, Frozen
  <2> QED BY <2>1, <2>2
<1>2. IInv /\ Exporting /\ Bounded /\ [Next]_vars => Exporting' /\ Bounded'
  BY WindowKept
<1>3. IInv /\ Exporting /\ Whole /\ Frozen /\ [Next]_vars => Whole' /\ Frozen'
  BY WholeKept, FrozenKept
<1>4. Whole /\ Frozen => SnapshotIsWhole
  BY DEF Whole, Frozen, SnapshotIsWhole
<1> QED BY <1>1, <1>2, <1>3, <1>4, Invariant, PTL DEF Spec
-----------------------------------------------------------------------------
(* When the recorder stops.                                                *)

\* Between two handlers, and where a handler only writes, checks or cleans up.
Settled == pc \in {"idle", "writing", "checking"} \/ (pc = "trimming" /\ task = "clean")

\* Whoever opens a segment has looked at the count of failed ones first.
Counting ==
  /\ Settled => (rec.active <=> cur # NoFile) /\ (rec.active => rec.failures < MaxFailed)
  /\ pc \in {"restoring", "opening"} \/ (pc = "trimming" /\ task = "begin") => rec.failures < MaxFailed

\* Every step keeps it.
LEMMA CountingKept ==
  ASSUME IInv, Counting, [Next]_vars
  PROVE Counting'
<1>0. /\ rec \in RecType /\ rec.failures \in Nat /\ pc \in Control /\ task \in Task
      /\ MaxFailed \in Nat /\ MaxFailed > 0 /\ created \in Nat /\ prep \in PrepType
      /\ prep.state = "none" <=> prep.file = NoFile
      /\ pc = "closing" => cur # NoFile
      /\ pc \in {"closed", "opening", "restoring", "none", "down"} => cur = NoFile
      /\ pc = "trimming" /\ task # "clean" => cur = NoFile
      /\ pc \in {"closing", "closed"} => task \in {"write", "save", "end"}
  BY SegmentRingAssumption DEF IInv, TypeOK, OpenSegments, Flow, RecType
<1>1. CASE UNCHANGED <<pc, task, cur, rec>>
  BY <1>1 DEF Counting, Settled
<1>2. CASE Age \/ PrepEnds \/ UNCHANGED vars \/ ExportReturns \/ RestoreFile \/ TrimFile
  BY <1>1, <1>2 DEF Age, PrepEnds, vars, ExportReturns, RestoreFile, TrimFile, flow
<1>3. CASE Start \/ Crash \/ Ended \/ End
  <2>1. pc' \in {"none", "down", "closing"}
    BY <1>3 DEF Start, Crash, Ended, End, Goto
  <2> QED BY <2>1 DEF Counting, Settled
<1>4. CASE Begin
  <2>1. pc' = "restoring" /\ rec'.failures = 0
    BY <1>4 DEF Begin, Fresh
  <2> QED BY <1>0, <2>1 DEF Counting, Settled
<1>5. CASE RestoreDone
  <2>1. pc = "restoring" /\ pc' = "trimming" /\ task' = "begin" /\ rec' = rec
    BY <1>5 DEF RestoreDone, StartTrim
  <2> QED BY <2>1 DEF Counting, Settled
<1>6. CASE TrimDone
  <2>1. /\ pc = "trimming" /\ UNCHANGED <<task, rec, cur>>
        /\ pc' = (CASE task = "begin" -> "opening" [] task = "clean" -> "idle" [] OTHER -> "closed")
    BY <1>6 DEF TrimDone, Goto
  <2>2. \/ task = "begin" /\ pc' = "opening"
        \/ task = "clean" /\ pc' = "idle"
        \/ task \notin {"begin", "clean"} /\ pc' = "closed"
    BY <2>1
  <2> QED BY <2>1, <2>2 DEF Counting, Settled
<1>7. CASE StartWrite \/ StartSave
  <2>1. pc = "idle" /\ pc' \in {"closing", "writing"} /\ UNCHANGED <<rec, cur>>
    BY <1>7 DEF StartWrite, StartSave
  <2> QED BY <2>1 DEF Counting, Settled
<1>8. CASE AudioFails \/ WriteSample
  <2>1. /\ pc \in {"idle", "writing"} /\ pc' = "idle" /\ cur' = cur
        /\ rec'.active = rec.active /\ rec'.failures = rec.failures
    BY <1>0, <1>8 DEF AudioFails, WriteSample, Goto, RecType
  <2> QED BY <2>1 DEF Counting, Settled
<1>9. CASE DiscardSegment \/ FinalizeFails
  <2>1. pc' = "closed"
    BY <1>9 DEF DiscardSegment, FinalizeFails, Goto
  <2> QED BY <2>1 DEF Counting, Settled
<1>10. CASE FinalizeSucceeds
  <2>1. pc = "closing" /\ pc' = "trimming" /\ task' = task
    BY <1>10 DEF FinalizeSucceeds, StartTrim
  <2> QED BY <1>0, <2>1 DEF Counting, Settled
<1>11. CASE Rolled \/ TakeLease
  <2>1. /\ pc = "closed" /\ UNCHANGED <<task, cur>> /\ rec'.failures = rec.failures
        /\ rec'.active = ~GivesUp
    BY <1>0, <1>11 DEF Rolled, TakeLease, Goto, RecType
  <2>2. (GivesUp /\ pc' \in {"idle", "checking"}) \/ (~GivesUp /\ pc' = "opening")
    <3>1. CASE GivesUp
      BY <1>11, <3>1 DEF Rolled, TakeLease, Goto
    <3>2. CASE ~GivesUp
      BY <1>11, <3>2 DEF Rolled, TakeLease, Goto
    <3> QED BY <3>1, <3>2
  <2>3. ~GivesUp => rec.failures < MaxFailed
    BY <1>0 DEF GivesUp
  <2> QED BY <1>0, <2>1, <2>2, <2>3 DEF Counting, Settled
<1>12. CASE OpenSegment
  <2>1. pc = "opening" /\ rec.failures < MaxFailed /\ cur = NoFile
    BY <1>0, <1>12 DEF OpenSegment, Counting
  <2>2. /\ rec'.failures = rec.failures
        /\ pc' \in {"none", "idle", "writing", "checking"}
        /\ \/ rec'.active /\ cur' # NoFile
           \/ ~rec'.active /\ cur' = NoFile
    <3>1. CASE \E file \in {prep.file, created + 1} : file # NoFile /\ \E track : Adopt(file, track)
      <4>1. PICK file \in {prep.file, created + 1} : file # NoFile /\ \E track : Adopt(file, track)
        BY <3>1
      <4>2. cur' = file /\ rec'.active = TRUE /\ rec'.failures = rec.failures
        BY <1>0, <4>1 DEF Adopt, RecType
      <4>3. pc' \in {"idle", "writing", "checking"}
        BY <4>1 DEF Adopt, AfterOpening, Goto
      <4> QED BY <4>1, <4>2, <4>3
    <3>2. CASE rec' = [rec EXCEPT !.active = FALSE] /\ cur' = cur
      <4>1. rec'.active = FALSE /\ rec'.failures = rec.failures
        BY <1>0, <3>2 DEF RecType
      <4>2. pc' \in {"none", "idle", "checking"}
        BY <1>12, <1>0, <2>1, <3>2, <4>1 DEF OpenSegment, Adopt, Goto, RecType
      <4> QED BY <2>1, <3>2, <4>1, <4>2
    <3>3. CASE prep.state = "ready" /\ Adopt(prep.file, prep.track)
      BY <1>0, <3>1, <3>3
    <3>4. CASE \E track \in {~rec.lost, ~rec.lost /\ ~AudioMayVanish} : Adopt(created + 1, track)
      <4>1. created + 1 # NoFile
        BY <1>0
      <4> QED BY <3>1, <3>4, <4>1
    <3> QED BY <1>12, <3>2, <3>3, <3>4 DEF OpenSegment
  <2> QED BY <2>1, <2>2 DEF Counting, Settled
<1>13. CASE HandOver
  <2>1. pc = "checking" /\ pc' = "idle" /\ UNCHANGED <<rec, cur>>
    BY <1>13 DEF HandOver, Goto
  <2> QED BY <2>1 DEF Counting, Settled
<1>14. CASE ExportFinished
  <2>1. /\ UNCHANGED <<rec, cur>>
        /\ \/ pc = "idle" /\ pc' = "trimming" /\ task' = "clean"
           \/ pc = "none" /\ pc' = "none"
    BY <1>14 DEF ExportFinished, StartTrim, flow
  <2> QED BY <2>1 DEF Counting, Settled
<1> QED BY <1>2, <1>3, <1>4, <1>5, <1>6, <1>7, <1>8, <1>9, <1>10, <1>11, <1>12, <1>13, <1>14 DEF Next, WorkerStep

\* A recorder that says it records has a segment open and has not yet thrown away
\* MaxFailed in a row, for any limit.
THEOREM RecordingSafety == Spec => []ActiveMeansRecording
<1>1. Init => Counting
  BY DEF Init, Counting, Settled
<1>2. IInv /\ Counting /\ [Next]_vars => Counting'
  BY CountingKept
<1>3. Counting => ActiveMeansRecording
  BY DEF Counting, Settled, ActiveMeansRecording
<1> QED BY <1>1, <1>2, <1>3, Invariant, PTL DEF Spec
=============================================================================
