----------------------- MODULE ScreenshotServiceProofs ------------------------
(***************************************************************************)
(* For any captures, encoder threads, backlog and number of preparations:  *)
(* the service's threads only do what CapturePublisher allows, so what is   *)
(* proved about it holds here, and PreparationAnswered.                    *)
(*                                                                         *)
(* PreparationAnswered needs three additions: the types, that only finitely *)
(* many jobs have a place in the backlog, and Flagged, that App waits only  *)
(* while the flag is up which the last encoder reads.                      *)
(***************************************************************************)
EXTENDS ScreenshotService, CapturePublisherProofs, FiniteSetTheorems

\* Jobs that hold a place in the backlog.
Busy == {c \in Capture : job[c] \in {"queued", "running", "leaving"}}

ServiceTypeOK ==
  /\ job \in [Capture -> Job]
  /\ pending \in Nat /\ posted \in Nat /\ updates \in 0..MaxUpdates
  /\ preparing \in BOOLEAN
  /\ gui \in {"free", "asking"} /\ app \in {"idle", "waiting", "ready"}

\* The update flag is up exactly while App is in a preparation.
Flagged == preparing <=> app # "idle"

\* The GUI thread asks only in a preparation of its own.
Asking == gui = "asking" => app = "waiting"

ServiceInv ==
  ServiceTypeOK /\ IsFiniteSet(Busy) /\ Flagged /\ Asking /\ PreparationAnswered

-----------------------------------------------------------------------------
\* Whatever the service does is a step of the publisher, or none.
LEMMA StepsOfThePublisher == [ServiceNext]_vars => [Next]_publisher
  BY DEF ServiceNext, vars, Next, Press, JobStep, Run, Work, Leave, LastLeaves, Prepare, AskBusy,
         UpdateReady, CancelPreparation, Reboot

\* The screenshot service uses the publisher as its specification says.
THEOREM Implements == ServiceSpec => Spec
<1>1. ServiceInit => Init
  BY DEF ServiceInit
<1> QED BY <1>1, StepsOfThePublisher, PTL DEF ServiceSpec, Spec

\* Ownership, wholeness and leftovers hold with the service's pool on top.
THEOREM PublisherSafety ==
  ServiceSpec => [](TypeOK /\ PublishesItsOwn /\ LeftoversOwned) /\ OthersUntouched
<1>1. Spec => [](TypeOK /\ PublishesItsOwn /\ LeftoversOwned)
  BY TypeCorrect, PublicationSafety, LeftoversSafety, PTL
<1> QED BY <1>1, Implements, OthersSafety

-----------------------------------------------------------------------------
\* A job that takes or leaves its place changes the backlog by one.
LEMMA Places ==
  ASSUME IsFiniteSet(Busy), NEW c \in Capture
  PROVE /\ Cardinality(Busy) \in Nat
        /\ IsFiniteSet(Busy \cup {c}) /\ IsFiniteSet(Busy \ {c})
        /\ c \notin Busy => Cardinality(Busy \cup {c}) = Cardinality(Busy) + 1
        /\ c \in Busy => Cardinality(Busy \ {c}) = Cardinality(Busy) - 1
        /\ Cardinality(Busy) = 0 <=> Busy = {}
  BY FS_CardinalityType, FS_AddElement, FS_RemoveElement, FS_EmptySet

\* Every variable of the service keeps its type, and the flag follows App.
LEMMA ServiceTypesKept ==
  ASSUME ServiceInv, [ServiceNext]_vars PROVE ServiceTypeOK' /\ Flagged' /\ Asking'
<1> USE DEF ServiceInv, ServiceTypeOK, Flagged, Asking, Job, service, vars
<1>1. ASSUME NEW c \in Capture, Press(c) PROVE ServiceTypeOK' /\ Flagged' /\ Asking'
  BY <1>1 DEF Press
<1>2. ASSUME NEW c \in Capture, Run(c) PROVE ServiceTypeOK' /\ Flagged' /\ Asking'
  BY <1>2 DEF Run
<1>3. ASSUME NEW c \in Capture, Work(c) PROVE ServiceTypeOK' /\ Flagged' /\ Asking'
  <2>1. job' \in [Capture -> Job]
    BY <1>3 DEF Work
  <2> QED BY <1>3, <2>1 DEF Work
<1>4. ASSUME NEW c \in Capture, Leave(c) PROVE ServiceTypeOK' /\ Flagged' /\ Asking'
  <2>1. c \in Busy /\ pending = Cardinality(Busy)
    BY <1>4 DEF Leave, Busy, PreparationAnswered
  <2>2. pending - 1 \in Nat
    <3>1. Cardinality(Busy) \in Nat /\ Cardinality(Busy) # 0
      BY <2>1, Places
    <3> QED BY <2>1, <3>1
  <2> QED BY <1>4, <2>2 DEF Leave
<1>5. ASSUME NEW c \in Capture, LastLeaves(c) PROVE ServiceTypeOK' /\ Flagged' /\ Asking'
  BY <1>5 DEF LastLeaves
<1>6. CASE Prepare
  BY <1>6, ScreenshotServiceAssumption DEF Prepare, GuiFree
<1>7. CASE AskBusy
  BY <1>7 DEF AskBusy
<1>8. CASE UpdateReady
  BY <1>8 DEF UpdateReady
<1>9. CASE CancelPreparation
  BY <1>9 DEF CancelPreparation, GuiFree
<1>10. CASE Reboot
  BY <1>10 DEF Reboot
<1>11. CASE UNCHANGED service
  BY <1>11
<1> QED BY <1>1, <1>2, <1>3, <1>4, <1>5, <1>6, <1>7, <1>8, <1>9, <1>10, <1>11
      DEF ServiceNext, JobStep

\* The backlog is exact, and somebody answers App, after every step.
LEMMA AnswerKept ==
  ASSUME ServiceInv, [ServiceNext]_vars PROVE IsFiniteSet(Busy)' /\ PreparationAnswered'
<1> USE DEF ServiceInv, ServiceTypeOK, Flagged, Asking, Job, service, vars
<1> DEFINE Late == \E c \in Capture : job[c] \in {"queued", "running", "leaving", "last"}
<1>1. pending = Cardinality(Busy) /\ (app = "waiting" /\ gui = "free" /\ posted = 0 => Late)
  BY DEF PreparationAnswered, Busy
<1> SUFFICES /\ IsFiniteSet(Busy') /\ pending' = Cardinality(Busy')
             /\ app' = "waiting" /\ gui' = "free" /\ posted' = 0 => Late'
  BY DEF PreparationAnswered, Busy
<1> HIDE DEF Late
<1>2. ASSUME NEW c \in Capture, Press(c)
      PROVE /\ IsFiniteSet(Busy') /\ pending' = Cardinality(Busy')
            /\ app' = "waiting" /\ gui' = "free" /\ posted' = 0 => Late'
  <2>1. CASE job' = [job EXCEPT ![c] = "refused"] /\ UNCHANGED pending
    <3>1. Busy' = Busy /\ (Late => Late')
      BY <1>2, <2>1 DEF Press, Busy, Late
    <3> QED BY <1>1, <1>2, <2>1, <3>1 DEF Press
  <2>2. CASE job' = [job EXCEPT ![c] = "queued"] /\ pending' = pending + 1
    <3>1. Busy' = Busy \cup {c} /\ c \notin Busy /\ Late'
      BY <1>2, <2>2 DEF Press, Busy, Late
    <3> QED BY <1>1, <2>2, <3>1, Places
  <2> QED BY <1>2, <2>1, <2>2 DEF Press
<1>3. ASSUME NEW c \in Capture, Run(c) \/ Work(c)
      PROVE /\ IsFiniteSet(Busy') /\ pending' = Cardinality(Busy')
            /\ app' = "waiting" /\ gui' = "free" /\ posted' = 0 => Late'
  <2>1. /\ job[c] \in {"queued", "running"} /\ UNCHANGED <<pending, gui, posted, app>>
        /\ \E s \in {"running", "leaving"} : job' = [job EXCEPT ![c] = s]
    BY <1>3 DEF Run, Work
  <2>2. Busy' = Busy /\ Late'
    BY <2>1 DEF Busy, Late
  <2> QED BY <1>1, <2>1, <2>2
<1>4. ASSUME NEW c \in Capture, Leave(c)
      PROVE /\ IsFiniteSet(Busy') /\ pending' = Cardinality(Busy')
            /\ app' = "waiting" /\ gui' = "free" /\ posted' = 0 => Late'
  <2>1. Busy' = Busy \ {c} /\ c \in Busy
    BY <1>4 DEF Leave, Busy
  <2>2. IsFiniteSet(Busy') /\ pending' = Cardinality(Busy')
    BY <1>1, <1>4, <2>1, Places DEF Leave
  <2>3. CASE pending = 1
    BY <1>4, <2>2, <2>3 DEF Leave, Late
  <2>4. CASE pending # 1
    <3>1. Cardinality(Busy') # 0
      BY <1>4, <2>2, <2>4 DEF Leave
    <3>2. PICK d \in Busy' : TRUE
      BY <3>1, FS_EmptySet
    <3>3. Late'
      BY <3>2 DEF Busy, Late
    <3> QED BY <2>2, <3>3
  <2> QED BY <2>3, <2>4
<1>5. ASSUME NEW c \in Capture, LastLeaves(c)
      PROVE /\ IsFiniteSet(Busy') /\ pending' = Cardinality(Busy')
            /\ app' = "waiting" /\ gui' = "free" /\ posted' = 0 => Late'
  <2>1. Busy' = Busy
    BY <1>5 DEF LastLeaves, Busy
  <2>2. app' = "waiting" => posted' # 0
    BY <1>5 DEF LastLeaves
  <2> QED BY <1>1, <1>5, <2>1, <2>2 DEF LastLeaves
<1>6. CASE Prepare \/ UpdateReady \/ CancelPreparation
  <2>1. Busy' = Busy /\ UNCHANGED pending
    BY <1>6 DEF Prepare, UpdateReady, CancelPreparation, Busy
  <2>2. app' # "waiting" \/ gui' # "free"
    BY <1>6 DEF Prepare, UpdateReady, CancelPreparation
  <2> QED BY <1>1, <2>1, <2>2
<1>7. CASE AskBusy
  <2>1. Busy' = Busy /\ UNCHANGED <<pending, job>>
    BY <1>7 DEF AskBusy, Busy
  <2>2. ASSUME app' = "waiting" PROVE Late'
    <3>1. Busy # {}
      BY <1>1, <1>7, <2>2, FS_EmptySet DEF AskBusy
    <3> QED BY <2>1, <3>1 DEF Busy, Late
  <2> QED BY <1>1, <2>1, <2>2
<1>8. CASE Reboot
  <2>1. Busy' = {} /\ pending' = 0 /\ app' = "idle"
    BY <1>8 DEF Reboot, Busy
  <2> QED BY <2>1, FS_EmptySet
<1>9. CASE UNCHANGED service
  <2>1. Busy' = Busy /\ (Late <=> Late')
    BY <1>9 DEF Busy, Late
  <2> QED BY <1>1, <1>9, <2>1
<1> QED BY <1>2, <1>3, <1>4, <1>5, <1>6, <1>7, <1>8, <1>9 DEF ServiceNext, JobStep

\* Nobody has pressed, nothing is pending.
LEMMA ServiceInitially == ServiceInit => ServiceInv
<1> SUFFICES ASSUME ServiceInit PROVE ServiceInv
  OBVIOUS
<1>1. Busy = {}
  BY DEF ServiceInit, Busy
<1>2. IsFiniteSet(Busy) /\ pending = Cardinality(Busy)
  BY <1>1, FS_EmptySet DEF ServiceInit
<1>3. PreparationAnswered
  BY <1>2 DEF ServiceInit, PreparationAnswered, Busy
<1>4. updates \in 0..MaxUpdates
  <2>1. MaxUpdates \in Nat
    BY ScreenshotServiceAssumption
  <2> QED BY <2>1 DEF ServiceInit
<1>5. job \in [Capture -> Job]
  BY DEF ServiceInit, Job
<1>6. ServiceTypeOK
  BY <1>4, <1>5 DEF ServiceInit, ServiceTypeOK
<1> QED BY <1>2, <1>3, <1>6
      DEF ServiceInit, ServiceInv, Flagged, Asking

\* The backlog is exact and App's wait always has somebody left to end it.
THEOREM AnswerSafety == ServiceSpec => []PreparationAnswered
<1>1. ServiceInv /\ [ServiceNext]_vars => ServiceInv'
  BY ServiceTypesKept, AnswerKept DEF ServiceInv
<1>2. ServiceInv => PreparationAnswered
  BY DEF ServiceInv
<1> QED BY <1>1, <1>2, ServiceInitially, PTL DEF ServiceSpec
=============================================================================
