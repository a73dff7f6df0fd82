----------------------------- MODULE FramePump ------------------------------
(***************************************************************************)
(* The replay buffer's two halves: FramePumpService on the GUI thread and  *)
(* FramePumpWorker on the capture thread.  They share nothing; every call  *)
(* and every signal between them is an event in the receiver's queue, so   *)
(* each half acts on a view of the other that may be several events old.   *)
(* Start and stop commands carry a generation, save and HDR requests carry *)
(* the token of the owner that keeps the session alive.                    *)
(*                                                                         *)
(* Abstracted: the media pipeline is four bits of one session (recorder    *)
(* active, finalized media, poll timer running, HDR tone mapper active),   *)
(* a window is a value, a clip is a verdict, timers fire whenever they may.*)
(* Left out: the capture-border report and the service's destructor.       *)
(*                                                                         *)
(* A handler is written as an operator from the half's state to its new    *)
(* state, because handlers call one another; `sent` and `emitted` collect  *)
(* what it posts, in order.                                                *)
(***************************************************************************)
EXTENDS Naturals, Sequences

CONSTANTS
  Games,        \* windows the detector reports as eligible games
  Desktop,      \* a valid foreground window that is not eligible
  NoWindow,     \* no foreground window, no target
  NoPipe,       \* the worker has no capture session
  HdrDisplay,   \* whether the tone mapper may be active: a subset of BOOLEAN
  MaxSaves,     \* bound: save presses
  MaxHdr,       \* bound: HDR screenshot requests
  MaxEvents,    \* bound: outside events (ticks that act, failures, settings, updates)
  MaxQueue      \* bound: reports in flight before the worker's timers pause

\* A capture session.
PipeType == [recorder : BOOLEAN, media : BOOLEAN, polling : BOOLEAN, toneMap : BOOLEAN]

ASSUME FramePumpAssumption ==
  /\ Desktop \notin Games /\ NoWindow \notin Games /\ Desktop # NoWindow
  /\ NoPipe \notin PipeType
  /\ HdrDisplay \subseteq BOOLEAN
  /\ {MaxSaves, MaxHdr, MaxEvents, MaxQueue} \subseteq Nat

VARIABLES
  gui,          \* FramePumpService: buffer state, owners, target
  worker,       \* FramePumpWorker: generation, state, session, pending work
  toWorker,     \* queued slot invocations, GUI -> worker
  toGui,        \* queued signals, worker -> GUI
  saves,        \* saves[r]: what the presser of save r has been told
  hdrs,         \* hdrs[h]: what the requester of HDR screenshot h has been told
  app,          \* App's update wiring: idle, preparing or ready (told "updateReady")
  events        \* outside events used up

vars == <<gui, worker, toWorker, toGui, saves, hdrs, app, events>>

Window == Games \cup {Desktop, NoWindow}
Save == 1..MaxSaves
Hdr == 1..MaxHdr
BufferState == {"Stopped", "Starting", "Recording", "Ready", "Failed"}

StartRequested(s) == s \in {"Starting", "Recording", "Ready"}
CanSave(s) == s \in {"Recording", "Ready"}

-----------------------------------------------------------------------------
(* GUI half: ReplayBufferState and ReplayBufferOwners inside the service.  *)

Post(g, m) == [g EXCEPT !.sent = Append(@, m)]

\* ReplayBufferState::setState together with the service's stateChanged handler.
SetState(g, s) ==
  [g EXCEPT !.state = s,
            !.hwnd = IF s \in {"Stopped", "Failed"} THEN NoWindow ELSE @,
            !.game = IF s = "Stopped" THEN NoWindow ELSE @]

RequestStart(g) == SetState([g EXCEPT !.generation = @ + 1], "Starting")
RequestStop(g) == SetState([g EXCEPT !.generation = @ + 1], "Stopped")

Allowed(from, to) ==
  \/ <<from, to>> \in {<<"Starting", "Recording">>, <<"Recording", "Ready">>,
                       <<"Ready", "Recording">>}
  \/ to = "Failed"

\* Mutant of Confirm: a late report of an earlier session is believed.
ConfirmAnyGeneration(g, generation, s) ==
  IF StartRequested(g.state) /\ Allowed(g.state, s) THEN SetState(g, s) ELSE g

Confirm(g, generation, s) ==
  IF generation = g.generation /\ StartRequested(g.state) /\ Allowed(g.state, s)
  THEN SetState(g, s)
  ELSE g

NeedsSession(g) == g.auto \/ g.manual # 0 \/ g.hdr # 0
HasExplicitOwner(g) == g.manual # 0 \/ g.hdr # 0

\* Mutant of StopBuffer: a failed buffer is taken for a stopped one.
StopBufferUnlessFailed(g) ==
  IF NeedsSession(g) \/ ~StartRequested(g.state)
  THEN g
  ELSE Post([RequestStop(g) EXCEPT !.noGameTicks = 0],
            [type |-> "stop", generation |-> g.generation + 1])

StopBuffer(g) ==
  IF NeedsSession(g) \/ g.state = "Stopped"
  THEN g
  ELSE Post([RequestStop(g) EXCEPT !.noGameTicks = 0],
            [type |-> "stop", generation |-> g.generation + 1])

OwnersChanged(g) ==
  IF ~g.preparing /\ ~NeedsSession(g) THEN StopBuffer(g) ELSE g

\* An ineligible target fails the new generation without telling the worker.
StartBuffer(g, rearm, foreground) ==
  LET target == IF rearm /\ g.game # NoWindow THEN g.game ELSE foreground
      started == RequestStart(g)
  IN IF (~rearm /\ StartRequested(g.state)) \/ g.preparing \/ ~NeedsSession(g)
     THEN g
     ELSE IF target \notin Games
     THEN Confirm(started, started.generation, "Failed")
     ELSE Post([started EXCEPT !.game = target, !.hwnd = target, !.noGameTicks = 0],
               [type |-> "start", generation |-> started.generation])

AcquireManual(g) ==
  IF g.manual = 0
  THEN [g EXCEPT !.manual = g.sequence + 1, !.sequence = @ + 1]
  ELSE g

\* captureHdrScreenshot's early returns: update, another target, a request in flight.
HdrRefused(g, hwnd) ==
  \/ g.preparing
  \/ g.manual # 0 /\ g.game # NoWindow /\ g.game # hwnd
  \/ g.hdr # 0

AcquireHdr(g) == [g EXCEPT !.hdr = g.sequence + 1, !.sequence = @ + 1]

FinishSave(g, token) ==
  IF token # 0 /\ token = g.manual /\ g.savePending
  THEN OwnersChanged([g EXCEPT !.savePending = FALSE, !.manual = 0, !.activeReplay = 0])
  ELSE g

FinishHdr(g) == OwnersChanged([g EXCEPT !.hdr = 0, !.activeHdr = 0])

ReleaseColdManual(g) == IF g.savePending THEN g ELSE [g EXCEPT !.manual = 0]

RestartBuffer(g, autoEnabled, foreground) ==
  LET owned == [g EXCEPT !.auto = IF ~autoEnabled THEN FALSE
                                  ELSE IF foreground \in Games THEN TRUE ELSE @]
      checked == OwnersChanged(owned)
  IN IF g.preparing THEN g
     ELSE IF NeedsSession(checked)
          THEN StartBuffer(checked, checked.game # NoWindow, foreground)
          ELSE checked

\* Publish a handler's result: the GUI half's new state and what it posted.
GuiStep(g) ==
  /\ gui' = [g EXCEPT !.sent = <<>>]
  /\ toWorker' = toWorker \o g.sent

Outside == events < MaxEvents /\ events' = events + 1

-----------------------------------------------------------------------------
(* GUI actions started by the user, by timers or by the application.       *)

SaveReplay(r) ==
  \E foreground \in Window :
    LET owned == OwnersChanged(AcquireManual(gui))
        armed == IF StartRequested(owned.state) THEN owned
                 ELSE StartBuffer(owned, owned.game # NoWindow, foreground)
        pending == [armed EXCEPT !.savePending = TRUE, !.activeReplay = r]
    IN /\ saves[r] = "idle"
       /\ \A q \in 1..(r - 1) : saves[q] # "idle"
       /\ \/ /\ gui.preparing \/ gui.savePending
             /\ saves' = [saves EXCEPT ![r] = "rejected"]
             /\ GuiStep(gui)
          \/ /\ ~gui.preparing /\ ~gui.savePending
             /\ ~CanSave(armed.state)
             /\ saves' = [saves EXCEPT ![r] = "rejected"]
             /\ GuiStep(armed)
          \/ /\ ~gui.preparing /\ ~gui.savePending
             /\ CanSave(armed.state)
             /\ saves' = [saves EXCEPT ![r] = "dispatched"]
             /\ GuiStep(Post(pending, [type |-> "save", generation |-> armed.generation,
                                       token |-> armed.manual]))
       /\ UNCHANGED <<worker, toGui, hdrs, app, events>>

\* Mutant of HdrTimeout: the timed-out request keeps the owner.
HdrTimeoutKeepsOwner ==
  /\ gui.activeHdr # 0
  /\ hdrs[gui.activeHdr] = "pending"
  /\ hdrs' = [hdrs EXCEPT ![gui.activeHdr] = "failed"]
  /\ GuiStep(Post(gui, [type |-> "cancelHdr", token |-> gui.hdr]))
  /\ UNCHANGED <<worker, toGui, saves, app, events>>

CaptureHdrScreenshot(h) ==
  \E hwnd \in Games, foreground \in Window :
    LET refused == HdrRefused(gui, hwnd)
        owned == [AcquireHdr(gui) EXCEPT !.activeHdr = h]
        retargeted == IF owned.hwnd # hwnd /\ owned.manual = 0
                      THEN [owned EXCEPT !.game = foreground] ELSE owned
        armed == IF StartRequested(owned.state) /\ owned.hwnd = hwnd THEN owned
                 ELSE StartBuffer(retargeted, retargeted.game # NoWindow, foreground)
    IN /\ hdrs[h] = "idle"
       /\ \A q \in 1..(h - 1) : hdrs[q] # "idle"
       /\ \/ /\ refused
             /\ hdrs' = [hdrs EXCEPT ![h] = "failed"]
             /\ GuiStep(gui)
          \/ /\ ~refused /\ ~(StartRequested(armed.state) /\ armed.hwnd = hwnd)
             /\ hdrs' = [hdrs EXCEPT ![h] = "failed"]
             /\ GuiStep(FinishHdr(armed))
          \/ /\ ~refused /\ StartRequested(armed.state) /\ armed.hwnd = hwnd
             /\ hdrs' = [hdrs EXCEPT ![h] = "pending"]
             /\ GuiStep(Post(armed, [type |-> "hdr", generation |-> armed.generation,
                                     token |-> armed.hdr]))
       /\ UNCHANGED <<worker, toGui, saves, app, events>>

\* The five-second backstop armed with each dispatched HDR request.
HdrTimeout ==
  /\ gui.activeHdr # 0
  /\ hdrs' = [hdrs EXCEPT ![gui.activeHdr] = "failed"]
  /\ GuiStep(OwnersChanged(Post([gui EXCEPT !.hdr = 0, !.activeHdr = 0],
                                [type |-> "cancelHdr", token |-> gui.hdr])))
  /\ UNCHANGED <<worker, toGui, saves, app, events>>

\* One tick of the 1.5 s timer.  `expired`: the manual idle deadline has passed.
AutoTick ==
  \E foreground \in Window, expired, autoEnabled \in BOOLEAN :
    LET idle == IF expired /\ gui.manual # 0 /\ ~gui.savePending
                THEN OwnersChanged(ReleaseColdManual(gui)) ELSE gui
        acquired == [idle EXCEPT !.noGameTicks = 0, !.auto = TRUE]
        ticks == IF idle.auto THEN idle.noGameTicks + 1 ELSE idle.noGameTicks
        away == [idle EXCEPT !.noGameTicks = ticks]
        after == IF autoEnabled /\ foreground \in Games
                 THEN IF ~HasExplicitOwner(acquired)
                         /\ (~StartRequested(acquired.state) \/ acquired.hwnd # foreground)
                      THEN StartBuffer([acquired EXCEPT !.game = foreground], TRUE, foreground)
                      ELSE acquired
                 ELSE IF idle.auto /\ ticks >= 2
                 THEN OwnersChanged([away EXCEPT !.auto = FALSE])
                 ELSE away
    IN /\ ~gui.preparing
       /\ after # gui
       /\ Outside
       /\ GuiStep(after)
       /\ UNCHANGED <<worker, toGui, saves, hdrs, app>>

\* A replay setting was changed; the rebuild keeps owners and export leases.
SettingsRestart ==
  \E foreground \in Window, autoEnabled \in BOOLEAN :
    /\ ~gui.preparing
    /\ Outside
    /\ GuiStep(RestartBuffer(gui, autoEnabled, foreground))
    /\ UNCHANGED <<worker, toGui, saves, hdrs, app>>

\* App forwards UpdateService::prepareForUpdateRequested.  A service that is still
\* prepared from an earlier attempt answers nothing.
PrepareForUpdate ==
  LET released == ReleaseColdManual([gui EXCEPT !.preparing = TRUE, !.auto = FALSE])
  IN /\ app = "idle"
     /\ Outside
     /\ app' = "preparing"
     /\ GuiStep(IF gui.preparing THEN gui
                ELSE Post(OwnersChanged(released),
                          [type |-> "prepare", generation |-> gui.generation]))
     /\ UNCHANGED <<worker, toGui, saves, hdrs>>

\* The release cannot be revalidated: App's wiring hears nothing of it, so the
\* capture services stay prepared.
RevalidationFails ==
  /\ app = "ready"
  /\ app' = "idle"
  /\ UNCHANGED <<gui, worker, toWorker, toGui, saves, hdrs, events>>

\* The 30 s quiescence timeout, or a failed hand-over to the updater.
CancelUpdatePreparation ==
  /\ app # "idle"
  /\ gui.preparing
  /\ app' = "idle"
  /\ GuiStep(Post([gui EXCEPT !.preparing = FALSE], [type |-> "cancel"]))
  /\ UNCHANGED <<worker, toGui, saves, hdrs, events>>

-----------------------------------------------------------------------------
(* GUI: delivery of one queued worker signal.                              *)

Arrived(type) == toGui # <<>> /\ Head(toGui).type = type

Deliver == toGui' = Tail(toGui) /\ UNCHANGED <<worker, events>>

DeliverState ==
  /\ Arrived("state")
  /\ GuiStep(Confirm(gui, Head(toGui).generation, Head(toGui).state))
  /\ Deliver
  /\ UNCHANGED <<saves, hdrs, app>>

DeliverRestart ==
  \E foreground \in Window, autoEnabled \in BOOLEAN :
    /\ Arrived("restart")
    /\ GuiStep(IF Head(toGui).generation # gui.generation \/ gui.preparing
               THEN gui
               ELSE RestartBuffer(gui, autoEnabled, foreground))
    /\ Deliver
    /\ UNCHANGED <<saves, hdrs, app>>

\* clipSaved and clipFailed carry no identity: the service adds the active one.
DeliverClip ==
  /\ Arrived("clip")
  /\ saves' = [saves EXCEPT ![gui.activeReplay] = Head(toGui).verdict]
  /\ GuiStep(gui)
  /\ Deliver
  /\ UNCHANGED <<hdrs, app>>

DeliverSaveFinished ==
  /\ Arrived("finished")
  /\ GuiStep(FinishSave(gui, Head(toGui).token))
  /\ Deliver
  /\ UNCHANGED <<saves, hdrs, app>>

DeliverHdr ==
  LET mine == Head(toGui).token = gui.hdr
  IN /\ Arrived("hdrDone")
     /\ hdrs' = IF mine THEN [hdrs EXCEPT ![gui.activeHdr] = Head(toGui).verdict] ELSE hdrs
     /\ GuiStep(IF mine THEN FinishHdr(gui) ELSE gui)
     /\ Deliver
     /\ UNCHANGED <<saves, app>>

\* Accepted only while preparing and for the live generation.
DeliverUpdateReady ==
  LET accepted == gui.preparing /\ Head(toGui).generation = gui.generation
  IN /\ Arrived("updateReady")
     /\ GuiStep(IF accepted THEN RequestStop(gui) ELSE gui)
     /\ app' = IF accepted THEN "ready" ELSE app
     /\ Deliver
     /\ UNCHANGED <<saves, hdrs>>

GuiDeliver ==
  \/ DeliverState \/ DeliverRestart \/ DeliverClip \/ DeliverSaveFinished
  \/ DeliverHdr \/ DeliverUpdateReady

-----------------------------------------------------------------------------
(* Worker half.                                                            *)

Emit(w, m) == [w EXCEPT !.emitted = Append(@, m)]

ReportBufferState(w, s) ==
  IF w.state = s THEN w
  ELSE Emit([w EXCEPT !.state = s],
            [type |-> "state", generation |-> w.generation, state |-> s])

RecorderActive(w) == w.pipe # NoPipe /\ w.pipe.recorder

CheckReplayReadiness(w) ==
  IF w.pipe = NoPipe THEN w
  ELSE IF ~w.pipe.recorder THEN ReportBufferState(w, "Failed")
  ELSE IF w.state = "Recording" /\ w.pipe.media THEN ReportBufferState(w, "Ready")
  ELSE IF w.state = "Ready" /\ ~w.pipe.media THEN ReportBufferState(w, "Recording")
  ELSE w

HdrAnswer(token, verdict) == [type |-> "hdrDone", token |-> token, verdict |-> verdict]

StopPump(w) ==
  LET stopped == [w EXCEPT !.state = "Stopped"]
  IN IF w.pipe = NoPipe THEN stopped
     ELSE IF w.hdr # 0
     THEN Emit([stopped EXCEPT !.pipe = NoPipe, !.hdr = 0], HdrAnswer(w.hdr, "failed"))
     ELSE [stopped EXCEPT !.pipe = NoPipe]

\* The ways a start can end: no session at all, a session whose recorder failed
\* (it still serves HDR screenshots), or a recording one.
StartResult ==
  {NoPipe} \cup [recorder : BOOLEAN, media : {FALSE}, polling : {TRUE}, toneMap : HdrDisplay]

StartPump(w, generation, pipe) ==
  LET fresh == [StopPump(w) EXCEPT !.generation = generation, !.state = "Starting"]
      failed == ReportBufferState(fresh, "Failed")
      up == IF pipe # NoPipe /\ pipe.recorder
            THEN ReportBufferState([fresh EXCEPT !.pipe = pipe], "Recording")
            ELSE [failed EXCEPT !.pipe = pipe]
  IN IF generation <= w.generation THEN w
     ELSE IF w.updatePreparing THEN failed
     ELSE CheckReplayReadiness(up)

StopPumpForGeneration(w, generation) ==
  IF generation <= w.generation THEN w
  ELSE [StopPump(w) EXCEPT !.generation = generation]

\* A save that never reaches the exporter: one answer, then the release.
\* Mutant of RefuseSave: released before the verdict is told.
RefuseSaveReleasedFirst(w, token) ==
  Emit(Emit(w, [type |-> "finished", token |-> token]),
       [type |-> "clip", verdict |-> "failed"])

RefuseSave(w, token) ==
  Emit(Emit(w, [type |-> "clip", verdict |-> "failed"]),
       [type |-> "finished", token |-> token])

\* saveGuard, freezeRing and the reservation.  `frozen`: the session after the
\* ring was frozen (the reopened segment may fail, leaving the recorder inactive);
\* `exportable`: the frozen ring holds media and a name could be reserved.
SaveReplayOnWorker(w, m, frozen, exportable) ==
  LET checked == CheckReplayReadiness(w)
      ring == CheckReplayReadiness([checked EXCEPT !.pipe = frozen])
  IN IF m.generation # w.generation THEN RefuseSave(w, m.token)
     ELSE IF \/ ~CanSave(checked.state) \/ ~RecorderActive(checked)
             \/ checked.exportToken # 0 \/ checked.updatePreparing
     THEN RefuseSave(checked, m.token)
     ELSE IF ~(exportable /\ frozen.media) THEN RefuseSave(ring, m.token)
     ELSE [ring EXCEPT !.exportToken = m.token]

\* Mutant of FinishedExport: the owner is released only when no update waits.
FinishedExportUpdateFirst(w, m) ==
  IF w.updatePreparing
  THEN Emit(StopPump([w EXCEPT !.exportToken = 0]),
            [type |-> "updateReady", generation |-> w.updateGeneration])
  ELSE Emit(Emit([w EXCEPT !.exportToken = 0], [type |-> "clip", verdict |-> m.verdict]),
            [type |-> "finished", token |-> m.token])

FinishedExport(w, m) ==
  LET answered == Emit(Emit([w EXCEPT !.exportToken = 0],
                            [type |-> "clip", verdict |-> m.verdict]),
                       [type |-> "finished", token |-> m.token])
  IN IF w.updatePreparing
     THEN Emit(StopPump(answered), [type |-> "updateReady", generation |-> w.updateGeneration])
     ELSE answered

\* Mutant of WorkerPrepare: a running export is not waited for.
WorkerPrepareAtOnce(w, generation) ==
  Emit(StopPump([w EXCEPT !.updateGeneration = generation, !.updatePreparing = TRUE]),
       [type |-> "updateReady", generation |-> generation])

WorkerPrepare(w, generation) ==
  LET preparing == [w EXCEPT !.updateGeneration = generation, !.updatePreparing = TRUE]
  IN IF w.exportToken # 0 THEN preparing
     ELSE Emit(StopPump(preparing), [type |-> "updateReady", generation |-> generation])

WorkerHdr(w, m) ==
  IF m.generation # w.generation \/ w.pipe = NoPipe \/ w.hdr # 0
  THEN Emit(w, HdrAnswer(m.token, "failed"))
  ELSE IF ~w.pipe.toneMap THEN Emit(w, HdrAnswer(m.token, "failed"))
  ELSE [w EXCEPT !.hdr = m.token]

WorkerStep(w) ==
  /\ worker' = [w EXCEPT !.emitted = <<>>]
  /\ toGui' = toGui \o w.emitted
  /\ UNCHANGED <<gui, saves, hdrs, app>>

Called(type) == toWorker # <<>> /\ Head(toWorker).type = type

Handled(w) == WorkerStep(w) /\ toWorker' = Tail(toWorker) /\ UNCHANGED events

HandleStart ==
  /\ Called("start")
  /\ \E pipe \in StartResult : Handled(StartPump(worker, Head(toWorker).generation, pipe))

HandleStop ==
  /\ Called("stop")
  /\ Handled(StopPumpForGeneration(worker, Head(toWorker).generation))

\* Freezing closes the open segment, so it may produce media, or the recorder
\* may give up when the next segment cannot be opened.
HandleSave ==
  /\ Called("save")
  /\ \E active, media, exportable \in BOOLEAN :
       LET frozen == IF worker.pipe = NoPipe THEN NoPipe
                     ELSE [worker.pipe EXCEPT !.recorder = @ /\ active,
                                              !.media = @ \/ media]
       IN Handled(SaveReplayOnWorker(worker, Head(toWorker), frozen, exportable))

HandlePrepare ==
  /\ Called("prepare")
  /\ Handled(WorkerPrepare(worker, Head(toWorker).generation))

HandleCancel ==
  /\ Called("cancel")
  /\ Handled([worker EXCEPT !.updatePreparing = FALSE])

HandleHdr ==
  /\ Called("hdr")
  /\ Handled(WorkerHdr(worker, Head(toWorker)))

HandleCancelHdr ==
  /\ Called("cancelHdr")
  /\ Handled([worker EXCEPT !.hdr = IF @ = Head(toWorker).token THEN 0 ELSE @])

HandleExported ==
  /\ Called("exported")
  /\ Handled(FinishedExport(worker, Head(toWorker)))

WorkerHandle ==
  \/ HandleStart \/ HandleStop \/ HandleSave \/ HandlePrepare \/ HandleCancel
  \/ HandleHdr \/ HandleCancelHdr \/ HandleExported

-----------------------------------------------------------------------------
(* Worker timers and the export thread.                                    *)

TimerTurn == worker.pipe # NoPipe /\ Len(toGui) < MaxQueue /\ UNCHANGED toWorker

\* Segments roll as frames arrive; the newest finalized media may also age out
\* of the ring, and a recorder whose segments keep failing turns itself off.
SegmentRolls ==
  \E media, active \in BOOLEAN :
    /\ TimerTurn
    /\ worker.pipe.polling /\ worker.pipe.recorder
    /\ media # worker.pipe.media \/ ~active
    /\ Outside
    /\ WorkerStep([worker EXCEPT !.pipe.media = media, !.pipe.recorder = active])

ReadinessTimer ==
  /\ TimerTurn
  /\ CheckReplayReadiness(worker) # worker
  /\ WorkerStep(CheckReplayReadiness(worker))
  /\ UNCHANGED events

Restart(w) == Emit([w EXCEPT !.pipe.polling = FALSE],
                   [type |-> "restart", generation |-> w.generation])

\* Audio died, the frame pool failed or the game changed its resolution: the
\* poll timer stops and the GUI is asked to rebuild.  Past the re-arm budget
\* (or before the rebuild, for the frame pool) the buffer is reported failed.
PollFails ==
  /\ TimerTurn
  /\ worker.pipe.polling
  /\ Outside
  /\ \/ WorkerStep(Restart(worker))
     \/ WorkerStep(ReportBufferState([worker EXCEPT !.pipe.polling = FALSE], "Failed"))
     \/ WorkerStep(Restart(ReportBufferState(worker, "Failed")))

\* A frame, or the stale-frame fallback, answers the pending HDR request.
PollAnswersHdr ==
  /\ TimerTurn
  /\ worker.pipe.polling /\ worker.hdr # 0
  /\ \E verdict \in {"saved", "failed"} :
       WorkerStep(Emit([worker EXCEPT !.hdr = 0], HdrAnswer(worker.hdr, verdict)))
  /\ UNCHANGED events

\* The export thread ends: published, or failed and discarded.
ExportEnds ==
  /\ worker.exportToken # 0
  /\ \A i \in DOMAIN toWorker : toWorker[i].type # "exported"
  /\ \E verdict \in {"saved", "failed"} :
       toWorker' = Append(toWorker, [type |-> "exported", token |-> worker.exportToken,
                                     verdict |-> verdict])
  /\ UNCHANGED <<gui, worker, toGui, saves, hdrs, app, events>>

-----------------------------------------------------------------------------
Init ==
  /\ gui = [state |-> "Stopped", generation |-> 0, hwnd |-> NoWindow, game |-> NoWindow,
            auto |-> FALSE, manual |-> 0, savePending |-> FALSE, hdr |-> 0, sequence |-> 0,
            activeReplay |-> 0, activeHdr |-> 0, noGameTicks |-> 0, preparing |-> FALSE,
            sent |-> <<>>]
  /\ worker = [generation |-> 0, state |-> "Stopped", pipe |-> NoPipe, hdr |-> 0,
               exportToken |-> 0, updatePreparing |-> FALSE, updateGeneration |-> 0,
               emitted |-> <<>>]
  /\ toWorker = <<>> /\ toGui = <<>>
  /\ saves = [r \in {0} \cup Save |-> "idle"]
  /\ hdrs = [h \in {0} \cup Hdr |-> "idle"]
  /\ app = "idle" /\ events = 0

Next ==
  \/ \E r \in Save : SaveReplay(r)
  \/ \E h \in Hdr : CaptureHdrScreenshot(h)
  \/ HdrTimeout \/ AutoTick \/ SettingsRestart
  \/ PrepareForUpdate \/ RevalidationFails \/ CancelUpdatePreparation
  \/ GuiDeliver
  \/ WorkerHandle
  \/ SegmentRolls \/ ReadinessTimer \/ PollFails \/ PollAnswersHdr
  \/ ExportEnds

\* Both event loops keep turning, the export thread ends and the five-second
\* timer fires.  Users, games and capture failures owe nothing.
Fairness ==
  /\ WF_vars(GuiDeliver)
  /\ WF_vars(WorkerHandle)
  /\ WF_vars(ExportEnds)
  /\ WF_vars(HdrTimeout)

Spec == Init /\ [][Next]_vars /\ Fairness
-----------------------------------------------------------------------------
(* Properties.                                                             *)

\* Every variable has its type; no press is ever answered under identity 0.
TypeOK ==
  /\ gui \in [state : BufferState, generation : Nat, hwnd : Window, game : Window,
               auto : BOOLEAN, manual : Nat, savePending : BOOLEAN, hdr : Nat,
               sequence : Nat, activeReplay : {0} \cup Save, activeHdr : {0} \cup Hdr,
               noGameTicks : Nat, preparing : BOOLEAN, sent : {<<>>}]
  /\ worker.state \in BufferState
  /\ worker.pipe \in {NoPipe} \cup PipeType
  /\ {worker.generation, worker.hdr, worker.exportToken, worker.updateGeneration} \subseteq Nat
  /\ worker.updatePreparing \in BOOLEAN /\ worker.emitted = <<>>
  /\ app \in {"idle", "preparing", "ready"} /\ events \in 0..MaxEvents
  /\ saves[0] = "idle" /\ hdrs[0] = "idle"

Settled == toWorker = <<>> /\ toGui = <<>>

\* "Ready" towards the updater means quiescent: from the moment the app has been
\* told and until it gives the preparation up, no session records and no export
\* runs, whatever was still queued for the worker.
QuiescentWhenReady ==
  app = "ready" =>
    /\ worker.pipe = NoPipe /\ worker.exportToken = 0

\* Capture needs an owner: once both queues are drained, a worker without any
\* owner behind it holds no session (the buffer does not keep filming).
NoOwnerNoCapture ==
  Settled /\ ~NeedsSession(gui) /\ ~gui.preparing => worker.pipe = NoPipe

\* The state shown to the user was confirmed by the session it belongs to: while
\* the GUI says Recording or Ready the worker is at the same generation.
ConfirmedByThisGeneration ==
  CanSave(gui.state) => worker.generation = gui.generation

\* The front end keeps the promise of SaveRequests whatever the queues do.
Requests == INSTANCE SaveRequests WITH Request <- Save, request <- [r \in Save |-> saves[r]]
SavesAnsweredOnce == Requests!Spec

\* An HDR requester hears back, and hears back once: the late answer of a
\* request that already timed out changes nothing.
HdrAnsweredOnce ==
  /\ [][\A h \in Hdr : hdrs[h] \in {"saved", "failed"} => hdrs'[h] = hdrs[h]]_vars
  /\ \A h \in Hdr : hdrs[h] = "pending" ~> hdrs[h] # "pending"

\* docs/replay-buffer.md: the state shown is derived from the confirmed state of
\* the current recorder.  Once nothing is in flight, a shown Recording or Ready
\* has a capture session behind it.  A preparation given up while the worker's
\* updateReady is under way breaks this: the session is gone and nobody says so
\* (see the README); no run asks for it.
ShownRecordingHasSession ==
  Settled /\ CanSave(gui.state) => worker.pipe # NoPipe
=============================================================================
