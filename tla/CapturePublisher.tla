-------------------------- MODULE CapturePublisher --------------------------
(***************************************************************************)
(* How a capture gets its name.  An encoder thread reserves a name by      *)
(* creating "<final>.part" exclusively, encodes into it and renames it;    *)
(* a journal on disk remembers which .part files are GameHQ's own, so that *)
(* a later start may sweep what a crash left.                              *)
(*                                                                         *)
(* One mutex guards the journal and the active set, and nothing else: the  *)
(* file operations of two encoders interleave between its critical         *)
(* sections.  All captures modelled fall into one time stamp, so that they *)
(* compete for the same names; name n is the stamp with suffix _n.         *)
(* Left out: several capture roots, a journal that cannot be written,      *)
(* symbolic links, letter case of paths.                                   *)
(***************************************************************************)
EXTENDS Naturals, FiniteSets

CONSTANTS
  Capture,    \* encode jobs
  Nobody,     \* no such file
  Foreign,    \* a .part file some other program left under the root
  MaxNames    \* kMaxNameAttempts

ASSUME CapturePublisherAssumption ==
  /\ Nobody \notin Capture /\ Foreign \notin Capture /\ Nobody # Foreign
  /\ MaxNames \in Nat \ {0}

VARIABLES
  final,      \* final[n]: the capture published under name n
  part,       \* part[n]: whose "<name n>.part" lies on disk
  encoded,    \* captures whose .part holds the whole image
  journal,    \* names listed in pending-captures.journal
  active,     \* g_active
  pc,         \* where each capture's thread is, see Control
  name,       \* name[c]: the name capture c probes or holds
  dead        \* captures whose process crashed under them

disk == <<final, part, encoded, journal>>
thread == <<pc, name>>
publisher == <<disk, active, thread, dead>>

Name == 1..MaxNames

Control == {"idle", "probing", "creating", "recording", "encoding", "whole",
            "discarding", "looking", "published", "gone", "left",
            "refused", "saved", "failed"}

\* The thread has an answer for the caller: reserve, publish or discard returned.
Answered(c) == pc[c] \in {"refused", "saved", "failed"}

At(c, p) == pc[c] = p /\ c \notin dead

Goto(c, p) == pc' = [pc EXCEPT ![c] = p]

-----------------------------------------------------------------------------
(* reserve                                                                 *)

Reserve(c) ==
  /\ At(c, "idle")
  /\ name' = [name EXCEPT ![c] = 1]
  /\ Goto(c, "probing")
  /\ UNCHANGED <<disk, active, dead>>

\* Mutant of NextName: one attempt too many.
NextNameOneMore(c) ==
  IF name[c] <= MaxNames
  THEN name' = [name EXCEPT ![c] = @ + 1] /\ Goto(c, "probing")
  ELSE Goto(c, "refused") /\ UNCHANGED name

\* `continue`: the next suffix, or none is left.
NextName(c) ==
  IF name[c] < MaxNames
  THEN name' = [name EXCEPT ![c] = @ + 1] /\ Goto(c, "probing")
  ELSE Goto(c, "refused") /\ UNCHANGED name

ProbeFinal(c) ==
  /\ At(c, "probing")
  /\ IF final[name[c]] # Nobody THEN NextName(c) ELSE Goto(c, "creating") /\ UNCHANGED name
  /\ UNCHANGED <<disk, active, dead>>

\* Mutant of CreatePart: the .part is opened without NewOnly.
CreatePartShared(c) ==
  /\ At(c, "creating")
  /\ part' = [part EXCEPT ![name[c]] = c]
  /\ Goto(c, "recording")
  /\ UNCHANGED <<name, final, encoded, journal, active, dead>>

\* Opened NewOnly: the check and the creation are one operation.
CreatePart(c) ==
  /\ At(c, "creating")
  /\ \/ /\ part[name[c]] # Nobody
        /\ NextName(c) /\ UNCHANGED part
     \/ /\ part[name[c]] = Nobody
        /\ part' = [part EXCEPT ![name[c]] = c]
        /\ Goto(c, "recording") /\ UNCHANGED name
  /\ UNCHANGED <<final, encoded, journal, active, dead>>

\* recordReservation, before the path is handed out.
Record(c) ==
  /\ At(c, "recording")
  /\ active' = active \cup {name[c]}
  /\ journal' = journal \cup {name[c]}
  /\ Goto(c, "encoding")
  /\ UNCHANGED <<final, part, encoded, name, dead>>

-----------------------------------------------------------------------------
(* The owner's encode, publish and discard.                                *)

\* Mutant of Encode: the writer's verdict is not looked at.
EncodeUnchecked(c) ==
  /\ At(c, "encoding")
  /\ encoded' \in {encoded, encoded \cup {c}}
  /\ Goto(c, "whole")
  /\ UNCHANGED <<final, part, journal, active, name, dead>>

Encode(c) ==
  /\ At(c, "encoding")
  /\ \/ encoded' = encoded \cup {c} /\ Goto(c, "whole")
     \/ Goto(c, "discarding") /\ UNCHANGED encoded
  /\ UNCHANGED <<final, part, journal, active, name, dead>>

\* Mutant of Rename: whatever holds the final name is replaced.
RenameClobbers(c) ==
  /\ At(c, "whole")
  /\ final' = [final EXCEPT ![name[c]] = part[name[c]]]
  /\ part' = [part EXCEPT ![name[c]] = Nobody]
  /\ Goto(c, "published")
  /\ UNCHANGED <<encoded, journal, active, name, dead>>

\* publish: the rename refuses to clobber, and may be refused for other reasons.
Rename(c) ==
  /\ At(c, "whole")
  /\ \/ /\ final[name[c]] = Nobody
        /\ final' = [final EXCEPT ![name[c]] = part[name[c]]]
        /\ part' = [part EXCEPT ![name[c]] = Nobody]
        /\ Goto(c, "published")
     \/ Goto(c, "looking") /\ UNCHANGED <<final, part>>
  /\ UNCHANGED <<encoded, journal, active, name, dead>>

\* discard: the removal may be refused.
Remove(c) ==
  /\ At(c, "discarding")
  /\ part' \in {part, [part EXCEPT ![name[c]] = Nobody]}
  /\ Goto(c, "looking")
  /\ UNCHANGED <<final, encoded, journal, active, name, dead>>

\* The stillOnDisk argument, evaluated before releaseReservation takes the mutex.
Look(c) ==
  /\ At(c, "looking")
  /\ Goto(c, IF part[name[c]] = Nobody THEN "gone" ELSE "left")
  /\ UNCHANGED <<disk, active, name, dead>>

\* Mutant of Release: the journal entry goes with the reservation.
ReleaseForgets(c) ==
  /\ pc[c] \in {"published", "gone", "left"} /\ c \notin dead
  /\ active' = active \ {name[c]}
  /\ journal' = journal \ {name[c]}
  /\ Goto(c, IF pc[c] = "published" THEN "saved" ELSE "failed")
  /\ UNCHANGED <<final, part, encoded, name, dead>>

\* releaseReservation under the mutex: a file still on disk keeps its entry.
Release(c) ==
  /\ pc[c] \in {"published", "gone", "left"} /\ c \notin dead
  /\ active' = active \ {name[c]}
  /\ journal' = IF pc[c] = "left" THEN journal ELSE journal \ {name[c]}
  /\ Goto(c, IF pc[c] = "published" THEN "saved" ELSE "failed")
  /\ UNCHANGED <<final, part, encoded, name, dead>>

-----------------------------------------------------------------------------
(* The world around: deletions, crashes and the sweep of the next start.   *)

\* The user deletes a published capture, in the gallery or in the folder.
DeleteCapture ==
  /\ \E n \in Name : final[n] # Nobody /\ final' = [final EXCEPT ![n] = Nobody]
  /\ UNCHANGED <<part, encoded, journal, active, thread, dead>>

\* sweepStale: entries whose file is gone are dropped; `kept` are the files that
\* are too young, or that cannot be removed.
Sweep(kept) ==
  /\ part' = [n \in Name |-> IF n \in journal \ kept THEN Nobody ELSE part[n]]
  /\ journal' = {n \in journal \cap kept : part[n] # Nobody}

\* The process dies and comes up again, and sweeps before its first capture.
Restart ==
  /\ dead' = dead \cup {c \in Capture : pc[c] # "idle" /\ ~Answered(c)}
  /\ dead' # dead
  /\ active' = {}
  /\ \E kept \in SUBSET Name : Sweep(kept)
  /\ UNCHANGED <<final, encoded, thread>>

-----------------------------------------------------------------------------
\* What the thread of capture c does next inside this component.
Step(c) ==
  \/ ProbeFinal(c) \/ CreatePart(c) \/ Record(c)
  \/ Encode(c) \/ Rename(c) \/ Remove(c) \/ Look(c) \/ Release(c)

Init ==
  /\ final = [n \in Name |-> Nobody]
  /\ part \in [Name -> {Nobody, Foreign}]
  /\ encoded = {} /\ journal = {} /\ active = {} /\ dead = {}
  /\ pc = [c \in Capture |-> "idle"]
  /\ name = [c \in Capture |-> 1]

Next ==
  \/ \E c \in Capture : Reserve(c) \/ Step(c)
  \/ DeleteCapture \/ Restart

Spec == Init /\ [][Next]_publisher

-----------------------------------------------------------------------------
(* Properties.                                                             *)

TypeOK ==
  /\ final \in [Name -> Capture \cup {Nobody}]
  /\ part \in [Name -> Capture \cup {Nobody, Foreign}]
  /\ encoded \subseteq Capture /\ dead \subseteq Capture
  /\ journal \subseteq Name /\ active \subseteq Name
  /\ pc \in [Capture -> Control] /\ name \in [Capture -> Name]

Writing == {"recording", "encoding", "whole", "discarding"}

\* The capture's file is its own from the moment reserve created it until it is
\* renamed or removed: no other encoder writes, publishes, removes or sweeps it.
OwnsItsFile ==
  \A c \in Capture : pc[c] \in Writing /\ c \notin dead => part[name[c]] = c

\* A truncated or failed encode never appears under a final name, whatever was
\* interrupted: what the gallery can index is whole.
GalleryIsWhole == \A n \in Name : final[n] # Nobody => final[n] \in encoded

\* From the creation of its .part to the final name a capture works on its own file
\* alone, and only what it wrote in whole gets there: captures of the same second,
\* failed encodes and crashes included.
PublishesItsOwn == OwnsItsFile /\ GalleryIsWhole

\* A capture once published is never replaced by another one, and another program's
\* .part is never deleted, renamed or overwritten.
OthersUntouched ==
  [][\A n \in Name :
       /\ final[n] # Nobody => final'[n] \in {final[n], Nobody}
       /\ part[n] = Foreign => part'[n] = Foreign]_publisher

\* docs/threading-and-lifecycle.md: a .part left behind keeps its entry, so that a
\* later sweep can remove it - after any failure or crash, once it was recorded,
\* unless another capture went for the same name.
LeftoversOwned ==
  \A n \in Name : \A c \in Capture :
    /\ part[n] = c /\ pc[c] # "recording"
    /\ \A d \in Capture \ {c} : name[d] = n => pc[d] \in {"idle", "probing"}
    => n \in journal

\* CapturePublisher.cpp: the final name was reserved for this capture and nothing
\* else may have taken it.
ReservedNameStaysFree ==
  \A c \in Capture :
    pc[c] \in {"encoding", "whole"} /\ c \notin dead => final[name[c]] = Nobody
=============================================================================
