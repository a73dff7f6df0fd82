------------------------ MODULE CapturePublisherProofs ------------------------
(***************************************************************************)
(* For any number of captures and of name attempts: the types of           *)
(* CapturePublisher, OwnsItsFile, GalleryIsWhole, LeftoversOwned and        *)
(* OthersUntouched.                                                        *)
(*                                                                         *)
(* OwnsItsFile is inductive with the types.  The others rest on it and on   *)
(* four additions: a thread that is about to rename has encoded (Whole), the *)
(* journal names no other program's file (JournalOwn), a file belongs to    *)
(* the name its capture holds and is gone once that capture was published   *)
(* (PartMine), and Leftovers, which is LeftoversOwned without the thread    *)
(* that has probed a name but not yet gone for its file.                   *)
(***************************************************************************)
EXTENDS CapturePublisher, TLAPS

\* What the writer's verdict let through is a whole image.
Whole == \A c \in Capture : pc[c] = "whole" => c \in encoded

\* No entry of the journal lets the sweep remove another program's file.
JournalOwn == \A n \in journal : part[n] # Foreign

\* A capture's file lies under the name the capture holds; one that was seen
\* to be gone, or was renamed away, is not on disk.
PartMine ==
  \A n \in Name : \A c \in Capture :
    part[n] = c => name[c] = n /\ pc[c] \in Writing \cup {"looking", "left", "failed"}

\* LeftoversOwned, where a thread that is about to open the name does not count yet.
Leftovers ==
  \A n \in Name : \A c \in Capture :
    /\ part[n] = c /\ pc[c] # "recording"
    /\ \A d \in Capture \ {c} : name[d] = n => pc[d] \in {"idle", "probing", "creating"}
    => n \in journal

IInv ==
  TypeOK /\ OwnsItsFile /\ Whole /\ GalleryIsWhole /\ JournalOwn /\ PartMine /\ Leftovers
-----------------------------------------------------------------------------
\* Nobody and Foreign are no captures, and the first name exists.
LEMMA Values ==
  /\ Nobody \notin Capture /\ Foreign \notin Capture /\ Nobody # Foreign
  /\ 1 \in Name /\ \A n \in Name : n < MaxNames => n + 1 \in Name
  BY CapturePublisherAssumption DEF Name

\* Every variable keeps its type; a rename publishes the capture's own file.
LEMMA TypeKept == TypeOK /\ OwnsItsFile /\ [Next]_publisher => TypeOK'
<1> SUFFICES ASSUME TypeOK, OwnsItsFile, [Next]_publisher PROVE TypeOK'
  OBVIOUS
<1> USE Values DEF TypeOK, disk, thread, Goto, Control, At
<1>1. ASSUME NEW c \in Capture, Reserve(c) PROVE TypeOK'
  BY <1>1 DEF Reserve
<1>2. ASSUME NEW c \in Capture, NextName(c) PROVE pc' \in [Capture -> Control] /\ name' \in [Capture -> Name]
  <2>1. name[c] < MaxNames \/ ~(name[c] < MaxNames)
    OBVIOUS
  <2> QED BY <1>2, <2>1 DEF NextName
<1>3. ASSUME NEW c \in Capture, ProbeFinal(c) PROVE TypeOK'
  BY <1>2, <1>3 DEF ProbeFinal
<1>4. ASSUME NEW c \in Capture, CreatePart(c) PROVE TypeOK'
  BY <1>2, <1>4 DEF CreatePart
<1>5. ASSUME NEW c \in Capture, Record(c) PROVE TypeOK'
  BY <1>5 DEF Record
<1>6. ASSUME NEW c \in Capture, Encode(c) PROVE TypeOK'
  BY <1>6 DEF Encode
<1>7. ASSUME NEW c \in Capture, Rename(c) PROVE TypeOK'
  <2>1. part[name[c]] = c
    BY <1>7 DEF Rename, OwnsItsFile, Writing
  <2> QED BY <1>7, <2>1 DEF Rename
<1>8. ASSUME NEW c \in Capture, Remove(c) PROVE TypeOK'
  BY <1>8 DEF Remove
<1>9. ASSUME NEW c \in Capture, Look(c) PROVE TypeOK'
  BY <1>9 DEF Look
<1>10. ASSUME NEW c \in Capture, Release(c) PROVE TypeOK'
  BY <1>10 DEF Release
<1>11. CASE DeleteCapture
  BY <1>11 DEF DeleteCapture
<1>12. CASE Restart
  BY <1>12 DEF Restart, Sweep
<1>13. CASE UNCHANGED publisher
  BY <1>13 DEF publisher
<1> QED BY <1>1, <1>3, <1>4, <1>5, <1>6, <1>7, <1>8, <1>9, <1>10, <1>11, <1>12, <1>13 DEF Next, Step
\* Files and threads: who owns which file, and what may be published.
Owners == OwnsItsFile /\ Whole /\ GalleryIsWhole /\ JournalOwn /\ PartMine

\* Every step keeps each file with its owner.
LEMMA OwnersKept == TypeOK /\ Owners /\ [Next]_publisher => Owners'
<1> SUFFICES ASSUME TypeOK, Owners, [Next]_publisher PROVE Owners'
  OBVIOUS
<1> USE Values DEF TypeOK, Owners, OwnsItsFile, Whole, GalleryIsWhole, JournalOwn, PartMine,
                   Writing, disk, thread, Goto, At
<1>1. ASSUME NEW c \in Capture, Reserve(c) PROVE Owners'
  BY <1>1 DEF Reserve
<1>2. ASSUME NEW c \in Capture, NextName(c), pc[c] \in {"probing", "creating"},
             UNCHANGED <<final, part, encoded, journal, active, dead>>
      PROVE Owners'
  BY <1>2 DEF NextName
<1>3. ASSUME NEW c \in Capture, ProbeFinal(c) PROVE Owners'
  <2>1. CASE NextName(c)
    BY <1>2, <1>3, <2>1 DEF ProbeFinal
  <2>2. CASE Goto(c, "creating") /\ UNCHANGED name
    BY <1>3, <2>2 DEF ProbeFinal
  <2> QED BY <1>3, <2>1, <2>2 DEF ProbeFinal
<1>4. ASSUME NEW c \in Capture, CreatePart(c) PROVE Owners'
  <2>1. CASE NextName(c) /\ UNCHANGED part
    BY <1>2, <1>4, <2>1 DEF CreatePart
  <2>2. CASE /\ part[name[c]] = Nobody
             /\ part' = [part EXCEPT ![name[c]] = c]
             /\ Goto(c, "recording") /\ UNCHANGED name
    BY <1>4, <2>2 DEF CreatePart
  <2> QED BY <1>4, <2>1, <2>2 DEF CreatePart
<1>5. ASSUME NEW c \in Capture, Record(c) PROVE Owners'
  BY <1>5 DEF Record
<1>6. ASSUME NEW c \in Capture, Encode(c) PROVE Owners'
  BY <1>6 DEF Encode
<1>7. ASSUME NEW c \in Capture, Rename(c) PROVE Owners'
  <2>1. part[name[c]] = c /\ c \in encoded
    BY <1>7 DEF Rename
  <2> QED BY <1>7, <2>1 DEF Rename
<1>8. ASSUME NEW c \in Capture, Remove(c) PROVE Owners'
  <2>1. part[name[c]] = c
    BY <1>8 DEF Remove
  <2> QED BY <1>8, <2>1 DEF Remove
<1>9. ASSUME NEW c \in Capture, Look(c) PROVE Owners'
  BY <1>9 DEF Look
<1>10. ASSUME NEW c \in Capture, Release(c) PROVE Owners'
  BY <1>10 DEF Release
<1>11. CASE DeleteCapture
  BY <1>11 DEF DeleteCapture
<1>12. CASE Restart
  BY <1>12 DEF Restart, Sweep, Answered
<1>13. CASE UNCHANGED publisher
  BY <1>13 DEF publisher
<1> QED BY <1>1, <1>3, <1>4, <1>5, <1>6, <1>7, <1>8, <1>9, <1>10, <1>11, <1>12, <1>13
      DEF Next, Step
\* A thread that has gone for a name never counts as one that has not.
Aside(d, n) == name[d] = n => pc[d] \in {"idle", "probing", "creating"}

\* A file that was recorded stays in the journal while nobody else went for its name.
LEMMA LeftoversKept == TypeOK /\ Owners /\ Leftovers /\ [Next]_publisher => Leftovers'
<1> SUFFICES ASSUME TypeOK, Owners, Leftovers, [Next]_publisher,
                    NEW n \in Name, NEW c \in Capture,
                    part'[n] = c, pc'[c] # "recording", \A d \in Capture \ {c} : Aside(d, n)'
             PROVE n \in journal'
  BY DEF Leftovers, Aside
<1> USE Values DEF TypeOK, Owners, OwnsItsFile, JournalOwn, PartMine, Writing, Aside,
                   disk, thread, Goto, At
<1>1. ASSUME part[n] = c, pc[c] # "recording", \A d \in Capture \ {c} : Aside(d, n)
      PROVE n \in journal
  BY <1>1 DEF Leftovers
<1>2. ASSUME NEW d \in Capture, Reserve(d) PROVE n \in journal'
  BY <1>1, <1>2 DEF Reserve
<1>3. ASSUME NEW d \in Capture, NextName(d), pc[d] \in {"probing", "creating"},
             UNCHANGED <<part, journal>>
      PROVE n \in journal'
  BY <1>1, <1>3 DEF NextName
<1>4. ASSUME NEW d \in Capture, ProbeFinal(d) PROVE n \in journal'
  <2>1. CASE NextName(d)
    BY <1>3, <1>4, <2>1 DEF ProbeFinal
  <2>2. CASE Goto(d, "creating") /\ UNCHANGED name
    BY <1>1, <1>4, <2>2 DEF ProbeFinal
  <2> QED BY <1>4, <2>1, <2>2 DEF ProbeFinal
<1>5. ASSUME NEW d \in Capture, CreatePart(d) PROVE n \in journal'
  <2>1. CASE NextName(d) /\ UNCHANGED part
    BY <1>3, <1>5, <2>1 DEF CreatePart
  <2>2. CASE /\ part[name[d]] = Nobody
             /\ part' = [part EXCEPT ![name[d]] = d]
             /\ Goto(d, "recording") /\ UNCHANGED name
    BY <1>1, <1>5, <2>2 DEF CreatePart
  <2> QED BY <1>5, <2>1, <2>2 DEF CreatePart
<1>6. ASSUME NEW d \in Capture, Record(d) PROVE n \in journal'
  <2>1. CASE d = c
    BY <1>6, <2>1 DEF Record
  <2>2. CASE d # c
    BY <1>1, <1>6, <2>2 DEF Record
  <2> QED BY <2>1, <2>2
<1>7. ASSUME NEW d \in Capture, Encode(d) PROVE n \in journal'
  BY <1>1, <1>7 DEF Encode
<1>8. ASSUME NEW d \in Capture, Rename(d) PROVE n \in journal'
  BY <1>1, <1>8 DEF Rename
<1>9. ASSUME NEW d \in Capture, Remove(d) PROVE n \in journal'
  BY <1>1, <1>9 DEF Remove
<1>10. ASSUME NEW d \in Capture, Look(d) PROVE n \in journal'
  BY <1>1, <1>10 DEF Look
<1>11. ASSUME NEW d \in Capture, Release(d) PROVE n \in journal'
  BY <1>1, <1>11 DEF Release
<1>12. CASE DeleteCapture
  BY <1>1, <1>12 DEF DeleteCapture
<1>13. CASE Restart
  BY <1>1, <1>13 DEF Restart, Sweep
<1>14. CASE UNCHANGED publisher
  BY <1>1, <1>14 DEF publisher
<1> QED BY <1>2, <1>4, <1>5, <1>6, <1>7, <1>8, <1>9, <1>10, <1>11, <1>12, <1>13, <1>14
      DEF Next, Step

-----------------------------------------------------------------------------
\* Nothing is published, journaled or held at first.
LEMMA Initially == Init => IInv
  BY Values DEF Init, IInv, TypeOK, Control, OwnsItsFile, Writing, Whole, GalleryIsWhole,
                JournalOwn, PartMine, Leftovers

\* IInv is inductive.
LEMMA Inductive == IInv /\ [Next]_publisher => IInv'
  BY TypeKept, OwnersKept, LeftoversKept DEF IInv, Owners

\* The inductive invariant holds in every behaviour of the publisher.
THEOREM Invariant == Spec => []IInv
  BY Initially, Inductive, PTL DEF Spec

\* Every variable keeps its type.
THEOREM TypeCorrect == Spec => []TypeOK
<1>1. IInv => TypeOK
  BY DEF IInv
<1> QED BY <1>1, Invariant, PTL

\* A capture's file is its own from its creation until it is renamed or removed, and
\* what the gallery can index is whole.
THEOREM PublicationSafety == Spec => []PublishesItsOwn
<1>1. IInv => PublishesItsOwn
  BY DEF IInv, PublishesItsOwn
<1> QED BY <1>1, Invariant, PTL

\* What a failure or a crash left behind stays in the journal until it is swept.
THEOREM LeftoversSafety == Spec => []LeftoversOwned
<1>1. IInv => LeftoversOwned
  BY DEF IInv, Leftovers, LeftoversOwned
<1> QED BY <1>1, Invariant, PTL

\* Published captures are not replaced and other programs' files are not touched: by
\* a rename, a removal, a creation or the sweep of a start.
THEOREM OthersSafety == Spec => OthersUntouched
<1>1. ASSUME IInv, [Next]_publisher, NEW n \in Name
      PROVE /\ final[n] # Nobody => final'[n] \in {final[n], Nobody}
            /\ part[n] = Foreign => part'[n] = Foreign
  <2> USE <1>1, Values DEF IInv, TypeOK, OwnsItsFile, JournalOwn, Writing, disk, thread, Goto, At
  <2>1. ASSUME NEW c \in Capture, CreatePart(c)
        PROVE final' = final /\ (part[n] = Foreign => part'[n] = Foreign)
    BY <2>1 DEF CreatePart
  <2>2. ASSUME NEW c \in Capture, Rename(c)
        PROVE /\ final[n] # Nobody => final'[n] = final[n]
              /\ part[n] = Foreign => part'[n] = Foreign
    BY <2>2 DEF Rename
  <2>3. ASSUME NEW c \in Capture, Remove(c)
        PROVE final' = final /\ (part[n] = Foreign => part'[n] = Foreign)
    BY <2>3 DEF Remove
  <2>4. CASE DeleteCapture
    BY <2>4 DEF DeleteCapture
  <2>5. CASE Restart
    BY <2>5 DEF Restart, Sweep
  <2>6. CASE UNCHANGED <<final, part>>
    BY <2>6
  <2> QED BY <2>1, <2>2, <2>3, <2>4, <2>5, <2>6
        DEF Next, Step, publisher, Reserve, ProbeFinal, Record, Encode, Look, Release
<1>2. IInv /\ [Next]_publisher =>
        \A n \in Name : /\ final[n] # Nobody => final'[n] \in {final[n], Nobody}
                        /\ part[n] = Foreign => part'[n] = Foreign
  BY <1>1
<1> QED BY <1>2, Invariant, PTL DEF Spec, OthersUntouched
=============================================================================
