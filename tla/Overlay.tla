-------------------------------- MODULE Overlay -------------------------------
(***************************************************************************)
(* The in-game overlay's window: opening, the bounded request for the       *)
(* foreground (ForegroundAcquirer), the watch over the game it covers       *)
(* (probe timer and foreground events), and the close that hands pad and    *)
(* foreground back, composed with NeutralHandoff.                           *)
(*                                                                         *)
(* Everything runs on the GUI thread: an action is one handler with every   *)
(* signal it emits.  forceForeground may dispatch a foreground event while  *)
(* it runs, so an attempt has two steps, its call and its return.           *)
(*                                                                         *)
(* Windows decides who has the foreground; a request may be denied.  It     *)
(* posts one event per change, which may get lost; an event that no longer  *)
(* names the foreground does nothing, so only "an event for the current     *)
(* foreground is queued" is kept.  A game leaves the screen by minimising,  *)
(* and may replace its window.  Left out: geometry, topmost repair, owned   *)
(* popups of the game, traces, the 250 ms guard against doubled presses.    *)
(***************************************************************************)
EXTENDS Naturals, NeutralHandoff

CONSTANTS
  Games,        \* main windows of the game's process
  MaxAttempts,  \* ForegroundAcquirer::kMaxAttempts
  Grace         \* probe ticks within kContextLostGraceMs

ASSUME OverlayAssumption ==
  /\ Games \cap {"overlay", "desktop", "other", "none"} = {}
  /\ MaxAttempts \in Nat \ {0} /\ Grace \in Nat \ {0}

VARIABLES
  fg,        \* GetForegroundWindow()
  event,     \* a foreground event for fg is queued
  game,      \* each game window: "shown", "iconic" or "gone"
  overlay,   \* visible, remembered window and process, acquired, lost probe ticks
  closing,   \* m_closeStage is ReleasingInput (the pending policy is always ToGame)
  acquirer,  \* target ("none": settled), attempts, calling: inside forceForeground
  raising    \* m_raiseTimer: a share target is being raised

vars == <<policy, pad, wait, fg, event, game, overlay, closing, acquirer, raising>>

\* "desktop" is GameHQ's own gallery window, "other" any other application.
Windows == Games \cup {"overlay", "desktop", "other", "none"}

Process(w) == IF w \in Games THEN "game"
              ELSE IF w \in {"overlay", "desktop"} THEN "gamehq" ELSE w

Exists(w) == w # "none" /\ (w \in Games => game[w] # "gone")
OnScreen(w) == w # "none" /\ (w \in Games => game[w] = "shown")

\* Windows that may get the foreground while the overlay is hidden.
Others == {w \in Windows \ {"overlay"} : w = "none" \/ OnScreen(w)}

Settled == [target |-> "none", attempts |-> 0, calling |-> FALSE]
Calling(w, n) == [target |-> w, attempts |-> n, calling |-> TRUE]

\* Nothing is inside forceForeground, so the event loop runs.
Idle == ~acquirer.calling

\* A hidden overlay remembers nothing and claims nothing.
Hidden == [visible |-> FALSE, remembered |-> "none", process |-> "none",
           acquired |-> TRUE, lost |-> 0]

\* Windows posts an event when the foreground changes.
Notify == event' = (event \/ fg' # fg)

-----------------------------------------------------------------------------
(* Hiding.                                                                 *)

\* Mutant of CompleteHide: nobody stops a show acquisition that still retries.
CompleteHideKeepsAcquiring(toGame) ==
  LET back == toGame /\ fg = "overlay" /\ OnScreen(overlay.remembered)
  IN /\ overlay' = Hidden /\ closing' = FALSE
     /\ policy' = Restored /\ wait' = "idle"
     /\ acquirer' = IF back THEN Calling(overlay.remembered, 1) ELSE acquirer
     /\ IF fg = "overlay" THEN fg' \in Others ELSE UNCHANGED fg

\* Mutant of CompleteHide: the policy is only given back by the handoff.
CompleteHideKeepsPolicy(toGame) ==
  LET back == toGame /\ fg = "overlay" /\ OnScreen(overlay.remembered)
  IN /\ overlay' = Hidden /\ closing' = FALSE
     /\ policy' = (IF closing THEN Restored ELSE policy) /\ wait' = "idle"
     /\ acquirer' = IF back THEN Calling(overlay.remembered, 1) ELSE Settled
     /\ IF fg = "overlay" THEN fg' \in Others ELSE UNCHANGED fg

\* completeHide, with the runner's finish before it: the policy goes back, the
\* window goes away, and only if it still owned the foreground the game is asked
\* to take it - unless it is frozen.
CompleteHide(toGame) ==
  LET back == toGame /\ fg = "overlay" /\ OnScreen(overlay.remembered)
  IN /\ overlay' = Hidden /\ closing' = FALSE
     /\ policy' = Restored /\ wait' = "idle"
     /\ \/ back /\ acquirer' = Calling(overlay.remembered, 1)
        \/ acquirer' = Settled
     /\ IF fg = "overlay" THEN fg' \in Others ELSE UNCHANGED fg

\* handoffBlockedReason and begin: a close waits for the pad only if the game is
\* the next owner.
Waits(toGame) == toGame /\ OnScreen(overlay.remembered) /\ MustWait

\* hideInternal on a visible overlay; a repeated request is ignored.
Hide(toGame) ==
  IF closing
  THEN UNCHANGED <<overlay, closing, acquirer, policy, wait, fg>>
  ELSE IF Waits(toGame)
  THEN /\ closing' = TRUE /\ wait' = "waiting"
       /\ UNCHANGED <<overlay, acquirer, policy, fg>>
  ELSE CompleteHide(toGame)

HideRequested ==
  /\ Idle /\ overlay.visible
  /\ Hide(TRUE) /\ Notify
  /\ UNCHANGED <<pad, game, raising>>

\* hideForDesktopHandoff: the gallery is about to take the foreground.
DesktopHandoff ==
  /\ Idle /\ overlay.visible
  /\ Hide(FALSE) /\ Notify
  /\ UNCHANGED <<pad, game, raising>>

\* hideForExternalApp, with the first raise tick.
ExternalHandoff ==
  /\ Idle /\ overlay.visible
  /\ IF closing
     THEN fg' \in {fg, "other"} /\ UNCHANGED <<overlay, closing, acquirer, policy, wait>>
     ELSE CompleteHide(FALSE)
  /\ raising' \in {fg' # "other", FALSE}
  /\ Notify
  /\ UNCHANGED <<pad, game>>

\* raiseExternalAppTick: until the target has the foreground, freezes, or eight
\* seconds have passed.  Opening the overlay again does not stop it.
RaiseTick ==
  /\ Idle /\ raising
  /\ fg' \in {fg, "other"}
  /\ raising' \in {fg' # "other", FALSE}
  /\ Notify
  /\ UNCHANGED <<handoffVars, game, overlay, closing, acquirer>>

\* NeutralHandoffRunner::poll, when it ends the wait, and onReleaseHandoffFinished.
HandoffPoll ==
  /\ Idle /\ closing
  /\ PollFinishes
  /\ CompleteHide(TRUE) /\ Notify
  /\ UNCHANGED <<pad, game, raising>>

-----------------------------------------------------------------------------
(* Opening and acquiring.                                                  *)

\* show, up to its first call for the foreground.
Show ==
  /\ Idle /\ ~overlay.visible
  /\ overlay' = [visible |-> TRUE, remembered |-> fg, process |-> Process(fg),
                 acquired |-> FALSE, lost |-> 0]
  /\ policy' = Restored
  /\ pad' = MarkedStale
  /\ acquirer' = Calling("overlay", 1)
  /\ fg' \in {fg, "overlay"} /\ Notify
  /\ UNCHANGED <<wait, game, closing, raising>>

\* finishShowTrace and decideGameInputPolicy.
FinishShow(acquired) ==
  /\ overlay' = [overlay EXCEPT !.acquired = acquired]
  /\ policy' = IF acquired /\ OnScreen(overlay.remembered) THEN Requested ELSE policy

\* Mutant of AttemptReturns: one retry too many.
AttemptReturnsOnceMore ==
  /\ acquirer.calling
  /\ IF fg # acquirer.target /\ acquirer.attempts <= MaxAttempts
     THEN acquirer' = [acquirer EXCEPT !.calling = FALSE] /\ UNCHANGED <<overlay, policy>>
     ELSE /\ acquirer' = Settled
          /\ IF acquirer.target = "overlay"
             THEN FinishShow(fg = acquirer.target)
             ELSE UNCHANGED <<overlay, policy>>
  /\ UNCHANGED <<pad, wait, fg, event, game, closing, raising>>

\* The call returns, nobody having cancelled it meanwhile.
AttemptReturns ==
  /\ acquirer.calling
  /\ IF fg # acquirer.target /\ acquirer.attempts < MaxAttempts
     THEN acquirer' = [acquirer EXCEPT !.calling = FALSE] /\ UNCHANGED <<overlay, policy>>
     ELSE /\ acquirer' = Settled
          /\ IF acquirer.target = "overlay"
             THEN FinishShow(fg = acquirer.target)
             ELSE UNCHANGED <<overlay, policy>>
  /\ UNCHANGED <<pad, wait, fg, event, game, closing, raising>>

\* The retry timer: a frozen game is given up.
Retry ==
  /\ Idle /\ acquirer.target # "none"
  /\ \/ /\ acquirer' = Calling(acquirer.target, acquirer.attempts + 1)
        /\ fg' \in {fg} \cup (IF OnScreen(acquirer.target) THEN {acquirer.target} ELSE {})
     \/ /\ acquirer.target # "overlay"
        /\ acquirer' = Settled
        /\ UNCHANGED fg
  /\ Notify
  /\ UNCHANGED <<handoffVars, game, overlay, closing, raising>>

-----------------------------------------------------------------------------
(* Watching.                                                               *)

\* OverlayLifetimePolicy's decide, for the window that has the foreground.
Decision ==
  LET sameProcess == Process(fg) = overlay.process /\ Process(fg) # "gamehq"
  IN IF fg = "overlay" THEN "ignore"
     ELSE IF ~Exists(fg) THEN "hide"
     ELSE IF fg = overlay.remembered THEN (IF OnScreen(fg) THEN "keep" ELSE "hide")
     ELSE IF ~sameProcess \/ ~OnScreen(fg) THEN "hide"
     ELSE IF OnScreen(overlay.remembered) THEN "keep"
     ELSE IF Exists(overlay.remembered) THEN "hide" ELSE "rebind"

\* onForegroundWindowChanged, also from inside forceForeground.
ForegroundEvent ==
  /\ event
  /\ IF overlay.visible /\ Decision = "hide"
     THEN Hide(TRUE)
     ELSE /\ overlay' = IF overlay.visible /\ Decision = "rebind"
                        THEN [overlay EXCEPT !.remembered = fg] ELSE overlay
          /\ UNCHANGED <<closing, acquirer, policy, wait, fg>>
  /\ event' = (fg' # fg)
  /\ UNCHANGED <<pad, game, raising>>

\* The remembered game is no longer to be seen.
GameLost == overlay.remembered # "none" /\ ~OnScreen(overlay.remembered)

\* Another application has the foreground the overlay had acquired.
UserLeft ==
  overlay.acquired /\ fg \notin {"none", "overlay"} /\ Process(fg) # overlay.process

\* Mutant of ProbeTick: the tick trusts the foreground event to have come.
ProbeTickNoReconcile ==
  /\ Idle /\ overlay.visible
  /\ IF ~closing /\ GameLost /\ overlay.lost + 1 >= Grace
     THEN CompleteHide(TRUE)
     ELSE /\ overlay' = [overlay EXCEPT !.lost = IF ~GameLost THEN 0
                                                 ELSE IF @ < Grace THEN @ + 1 ELSE @]
          /\ policy' = IF Exclusive /\ fg # "overlay" THEN Restored ELSE policy
          /\ UNCHANGED <<wait, closing, acquirer, fg>>
  /\ Notify
  /\ UNCHANGED <<pad, game, raising>>

\* probeTick: an unrelated foreground is handed to the same policy as an event,
\* the exclusive policy is not kept without the foreground, and a game that stays
\* lost for Grace ticks ends the overlay.
ProbeTick ==
  /\ Idle /\ overlay.visible
  /\ IF ~closing /\ \/ UserLeft /\ ~Waits(TRUE)
                    \/ GameLost /\ overlay.lost + 1 >= Grace
     THEN CompleteHide(TRUE)
     ELSE /\ closing' = (closing \/ UserLeft)
          /\ wait' = IF UserLeft /\ ~closing THEN "waiting" ELSE wait
          /\ overlay' = [overlay EXCEPT !.lost = IF ~GameLost THEN 0
                                                 ELSE IF @ < Grace THEN @ + 1 ELSE @]
          /\ policy' = IF Exclusive /\ fg # "overlay" THEN Restored ELSE policy
          /\ UNCHANGED <<acquirer, fg>>
  /\ Notify
  /\ UNCHANGED <<pad, game, raising>>

-----------------------------------------------------------------------------
(* Windows, the user and the game.                                         *)

FocusMoves(w) ==
  /\ w # fg
  /\ fg' = w /\ event' = TRUE
  /\ UNCHANGED <<handoffVars, game, overlay, closing, acquirer, raising>>

EventLost ==
  /\ event /\ event' = FALSE
  /\ UNCHANGED <<handoffVars, fg, game, overlay, closing, acquirer, raising>>

\* A game window is minimised, closed, restored or created; one that leaves hands
\* the foreground to some other window.
GameWindow(g, state) ==
  /\ state # game[g]
  /\ state = "iconic" => game[g] = "shown"
  /\ game' = [game EXCEPT ![g] = state]
  /\ IF fg = g THEN fg' \in Others \ {g} ELSE UNCHANGED fg
  /\ Notify
  /\ UNCHANGED <<handoffVars, overlay, closing, acquirer, raising>>

ControllerStep ==
  /\ HandoffNext
  /\ UNCHANGED <<fg, event, game, overlay, closing, acquirer, raising>>

Init ==
  /\ HandoffInit
  /\ game \in [Games -> {"shown", "gone"}]
  /\ fg \in Others /\ event = FALSE
  /\ overlay = Hidden
  /\ closing = FALSE /\ acquirer = Settled /\ raising = FALSE

Next ==
  \/ Show \/ HideRequested \/ DesktopHandoff \/ ExternalHandoff \/ RaiseTick
  \/ HandoffPoll \/ AttemptReturns \/ Retry
  \/ ForegroundEvent \/ EventLost \/ ProbeTick \/ ControllerStep
  \/ \E w \in Others \cup (IF overlay.visible THEN {"overlay"} ELSE {}) : FocusMoves(w)
  \/ \E g \in Games, state \in {"shown", "iconic", "gone"} : GameWindow(g, state)

\* Timers fire and calls into Windows return; events may be lost, and neither the
\* user nor the game owes anything.
Fairness ==
  /\ WF_vars(AttemptReturns) /\ WF_vars(Retry)
  /\ WF_vars(ProbeTick) /\ WF_vars(HandoffPoll)
  /\ WF_vars(ClockExpires /\ UNCHANGED <<fg, event, game, overlay, closing, acquirer, raising>>)

Spec == Init /\ [][Next]_vars /\ Fairness

-----------------------------------------------------------------------------
(* What must hold.                                                         *)

TypeOK ==
  /\ HandoffTypeOK
  /\ fg \in Windows /\ event \in BOOLEAN
  /\ game \in [Games -> {"shown", "iconic", "gone"}]
  /\ overlay \in [visible : BOOLEAN, remembered : Windows, acquired : BOOLEAN,
                  process : {"game", "gamehq", "other", "none"}, lost : 0..Grace]
  /\ closing \in BOOLEAN /\ raising \in BOOLEAN
  /\ acquirer \in [target : Windows, attempts : 0..MaxAttempts, calling : BOOLEAN]

\* The exclusive policy and the quiesced input path never outlive the open overlay
\* they were taken for, whichever of the ways of hiding it was.
PolicyScoped ==
  /\ Exclusive => overlay.visible /\ policy.attached
  /\ Quiesced <=> closing
  /\ closing => overlay.visible

\* A call for the foreground serves the window state it was made for: the overlay
\* asks only while it is up and not closing, a call for the game that an earlier close
\* made is not repeated over an overlay that was opened meanwhile, and nobody asks
\* while the policy is exclusive.
AcquirerFollowsWindow ==
  /\ acquirer.target = "overlay" => overlay.visible /\ ~closing
  /\ acquirer.target \notin {"overlay", "none"} => ~overlay.visible \/ closing
  /\ acquirer.target # "none" => ~Exclusive

\* docs/overlay.md, "Closing with a held control": the policy is restored, then the
\* foreground goes back, then the window hides.  The code hides first (see the README),
\* and no run asks for it.
ForegroundBeforeHide == [][closing /\ acquirer'.target \in Games => overlay'.visible]_vars

\* Handing the foreground to the game out of an exclusive session exposes no
\* control that was pressed in the overlay and is still held, but for the bound.
HeldNotExposed ==
  [][Exclusive /\ overlay.visible /\ acquirer'.target # "none"
       => pad.held = {} \/ wait = "expired"]_vars

\* A close that waits for the pad ends, however long a control is held.
CloseEnds == closing ~> ~closing

\* With every foreground event lost, the probe still notices: an application the
\* user went to, a game that left, and a policy kept without the foreground.
WatchActs ==
  /\ overlay.visible /\ UserLeft ~> ~overlay.visible \/ ~UserLeft
  /\ overlay.visible /\ GameLost ~> ~overlay.visible \/ ~GameLost
  /\ Exclusive /\ fg # "overlay" ~> ~Exclusive \/ fg = "overlay"
=============================================================================
