------------------------- MODULE ScreenshotService --------------------------
(***************************************************************************)
(* The screenshot service over CapturePublisher: presses on the GUI        *)
(* thread, a pool of encoder threads with a bounded backlog, and the       *)
(* update hand-over, where the service tells App once that it is quiet.    *)
(*                                                                         *)
(* The counter of pending encodes and the update flag are two atomics; the *)
(* GUI thread stores the flag and then reads the counter, an encoder       *)
(* decrements the counter and then reads the flag.                         *)
(* Abstracted: capture mode, grab and HDR hand-off are one verdict.        *)
(* Signals that cross to the GUI thread are delivered before it takes the  *)
(* next timer or input event.                                              *)
(* Left out: the bytes limit next to the count, and the grab itself.       *)
(***************************************************************************)
EXTENDS CapturePublisher

CONSTANTS
  Workers,       \* threads of the encode pool
  Backlog,       \* kMaxPendingEncodes
  MaxUpdates     \* bound: update preparations

ASSUME ScreenshotServiceAssumption ==
  {Workers, Backlog, MaxUpdates} \subseteq Nat \ {0}

VARIABLES
  job,          \* job[c]: how far the press and its runnable are
  pending,      \* m_pendingWrites
  preparing,    \* m_updatePreparing
  gui,          \* where the GUI thread is inside prepareForUpdate
  posted,       \* updateReady invocations queued by encoders
  app,          \* App's wiring: idle, waiting for this service, or ready
  updates

service == <<job, pending, preparing, gui, posted, app, updates>>
vars == <<publisher, service>>

Job == {"none", "refused", "queued", "running", "leaving", "last", "done"}

Running == {c \in Capture : job[c] \in {"running", "leaving", "last"}}

\* The GUI thread is free to take an event.
GuiFree == gui = "free" /\ posted = 0

-----------------------------------------------------------------------------
(* The press, on the GUI thread.                                           *)

\* encodeBacklogFull and the update gate, before anything is grabbed.
Refuses == preparing \/ pending >= Backlog

Press(c) ==
  /\ GuiFree /\ job[c] = "none"
  /\ \/ /\ job' = [job EXCEPT ![c] = "refused"]
        /\ UNCHANGED pending
     \/ /\ ~Refuses
        /\ job' = [job EXCEPT ![c] = "queued"]
        /\ pending' = pending + 1
  /\ UNCHANGED <<publisher, preparing, gui, posted, app, updates>>

-----------------------------------------------------------------------------
(* The runnable, on an encoder thread.                                     *)

\* The folder may turn out impossible to create; then nothing is reserved.
Run(c) ==
  /\ job[c] = "queued" /\ Cardinality(Running) < Workers
  /\ \/ job' = [job EXCEPT ![c] = "running"] /\ Reserve(c)
     \/ job' = [job EXCEPT ![c] = "leaving"] /\ UNCHANGED publisher
  /\ UNCHANGED <<pending, preparing, gui, posted, app, updates>>

Work(c) ==
  /\ job[c] = "running"
  /\ Step(c)
  /\ job' = [job EXCEPT ![c] = IF Answered(c)' THEN "leaving" ELSE @]
  /\ UNCHANGED <<pending, preparing, gui, posted, app, updates>>

\* Completion's destructor: the decrement and its verdict are one operation.
Leave(c) ==
  /\ job[c] = "leaving"
  /\ pending' = pending - 1
  /\ job' = [job EXCEPT ![c] = IF pending = 1 THEN "last" ELSE "done"]
  /\ UNCHANGED <<publisher, preparing, gui, posted, app, updates>>

\* Mutant of LastLeaves: only the preparing thread reports.
LastLeavesSilently(c) ==
  /\ job[c] = "last"
  /\ job' = [job EXCEPT ![c] = "done"]
  /\ UNCHANGED <<publisher, pending, preparing, gui, posted, app, updates>>

LastLeaves(c) ==
  /\ job[c] = "last"
  /\ job' = [job EXCEPT ![c] = "done"]
  /\ posted' = IF preparing THEN posted + 1 ELSE posted
  /\ UNCHANGED <<publisher, pending, preparing, gui, app, updates>>

-----------------------------------------------------------------------------
(* Update preparation, on the GUI thread.                                  *)

Prepare ==
  /\ GuiFree /\ app = "idle" /\ updates < MaxUpdates
  /\ preparing' = TRUE
  /\ gui' = "asking" /\ app' = "waiting" /\ updates' = updates + 1
  /\ UNCHANGED <<publisher, job, pending, posted>>

AskBusy ==
  /\ gui = "asking"
  /\ gui' = "free"
  /\ app' = IF pending = 0 THEN "ready" ELSE app
  /\ UNCHANGED <<publisher, job, pending, preparing, posted, updates>>

\* App takes the signal whenever it comes.
UpdateReady ==
  /\ gui = "free" /\ posted > 0
  /\ posted' = posted - 1
  /\ app' = IF app = "waiting" THEN "ready" ELSE app
  /\ UNCHANGED <<publisher, job, pending, preparing, gui, updates>>

\* The 30 s quiescence timeout, or a hand-over that failed.
CancelPreparation ==
  /\ GuiFree /\ app # "idle"
  /\ preparing' = FALSE /\ app' = "idle"
  /\ UNCHANGED <<publisher, job, pending, gui, posted, updates>>

-----------------------------------------------------------------------------
\* The process comes up again with nothing pending.
Reboot ==
  /\ Restart
  /\ job' = [c \in Capture |-> IF job[c] = "none" THEN "none" ELSE "done"]
  /\ pending' = 0 /\ preparing' = FALSE
  /\ gui' = "free" /\ posted' = 0 /\ app' = "idle"
  /\ UNCHANGED updates

ServiceInit ==
  /\ Init
  /\ job = [c \in Capture |-> "none"]
  /\ pending = 0 /\ preparing = FALSE
  /\ gui = "free" /\ posted = 0 /\ app = "idle" /\ updates = 0

JobStep(c) == Run(c) \/ Work(c) \/ Leave(c) \/ LastLeaves(c)

ServiceNext ==
  \/ \E c \in Capture : Press(c) \/ JobStep(c)
  \/ Prepare \/ AskBusy \/ UpdateReady \/ CancelPreparation
  \/ DeleteCapture /\ UNCHANGED service
  \/ Reboot

ServiceSpec == ServiceInit /\ [][ServiceNext]_vars

-----------------------------------------------------------------------------
(* Properties.                                                             *)

\* The backlog neither leaks nor wears out, whatever fails on the way; so of the last
\* encoder and the preparing thread the second one sees the first, and App never
\* waits for a signal nobody will send.
PreparationAnswered ==
  /\ pending = Cardinality({c \in Capture : job[c] \in {"queued", "running", "leaving"}})
  /\ app = "waiting" /\ gui = "free" /\ posted = 0 =>
       \E c \in Capture : job[c] \in {"queued", "running", "leaving", "last"}

\* docs/updater.md: only after both capture services report ready - after every
\* image write in flight - may the update become quiescent.
QuiescentWhenReady ==
  app = "ready" => \A c \in Capture : job[c] \notin {"queued", "running"}
=============================================================================
