----------------------------- MODULE OverlayProofs ----------------------------
(***************************************************************************)
(* For any controls, any windows of the game and any number of attempts and *)
(* probe ticks: the types of Overlay, PolicyScoped, AcquirerFollowsWindow   *)
(* and HeldNotExposed.                                                     *)
(*                                                                         *)
(* The first three are inductive together, with three additions: Attempts, *)
(* a pending retry has an attempt left, AsksHidden, the game is asked when *)
(* the window is down, and Remembers, the overlay is never the window it   *)
(* returns to.  They need each other: a close that begins to wait leaves   *)
(* no acquisition for the overlay behind only because the policy is never  *)
(* exclusive while one is pending.                                         *)
(***************************************************************************)
EXTENDS Overlay, TLAPS

PolicyType == [attached : BOOLEAN, mode : Mode]
PadType == [down : SUBSET Controls, held : SUBSET Controls, stale : SUBSET Controls]
OverlayType == [visible : BOOLEAN, remembered : Windows, acquired : BOOLEAN,
                process : {"game", "gamehq", "other", "none"}, lost : 0..Grace]
AcquirerType == [target : Windows, attempts : 0..MaxAttempts, calling : BOOLEAN]

\* A retry that is due, or a call under way, belongs to an acquisition with attempts left.
Attempts ==
  /\ acquirer.calling => acquirer.target # "none"
  /\ acquirer.target # "none" /\ ~acquirer.calling => acquirer.attempts < MaxAttempts

\* As the code closes, the window is down when the game is asked.
AsksHidden == acquirer.target \notin {"overlay", "none"} => ~overlay.visible

\* The overlay never remembers itself, and a hidden window has no foreground.
Remembers ==
  /\ overlay.remembered # "overlay"
  /\ ~overlay.visible => fg # "overlay"

IInv == TypeOK /\ PolicyScoped /\ AcquirerFollowsWindow /\ AsksHidden /\ Attempts /\ Remembers

\* IInv without what hardly changes: the pad, the game's windows, the event and the
\* raise timer.
Core ==
  /\ fg \in Windows
  /\ policy \in PolicyType /\ overlay \in OverlayType /\ acquirer \in AcquirerType
  /\ closing \in BOOLEAN /\ wait \in {"idle", "waiting", "expired"}
  /\ PolicyScoped /\ AcquirerFollowsWindow /\ AsksHidden /\ Attempts /\ Remembers

\* The inductive invariant is Core and the types of the rest.
LEMMA Parts ==
  IInv <=> /\ Core /\ pad \in PadType /\ event \in BOOLEAN
           /\ game \in [Games -> {"shown", "iconic", "gone"}] /\ raising \in BOOLEAN
  BY DEF IInv, Core, TypeOK, HandoffTypeOK, PolicyType, PadType, OverlayType, AcquirerType

-----------------------------------------------------------------------------
\* Windows, processes and the policies a handler can leave behind.
LEMMA Values ==
  /\ Others \subseteq Windows \ {"overlay"} /\ "none" \in Windows /\ "overlay" \in Windows
  /\ "other" \in Windows /\ Games \subseteq Windows
  /\ Hidden \in OverlayType /\ Settled \in AcquirerType
  /\ \A w \in Windows : /\ Calling(w, 1) \in AcquirerType
                       /\ Process(w) \in {"game", "gamehq", "other", "none"}
<1> USE OverlayAssumption DEF Windows
<1>1. 0 \in 0..Grace /\ 0 \in 0..MaxAttempts /\ 1 \in 0..MaxAttempts
  OBVIOUS
<1>2. Hidden \in OverlayType
  BY <1>1 DEF Hidden, OverlayType
<1>3. Settled \in AcquirerType
  BY <1>1 DEF Settled, AcquirerType
<1>4. ASSUME NEW w \in Windows
      PROVE Calling(w, 1) \in AcquirerType /\ Process(w) \in {"game", "gamehq", "other", "none"}
  BY <1>1, <1>4 DEF Calling, AcquirerType, Process
<1> QED BY <1>2, <1>3, <1>4 DEF Others

\* The policy that is given back is the background policy, attached or not.
LEMMA PolicyReturns ==
  ASSUME policy \in PolicyType, PolicyScoped
  PROVE /\ Restored \in PolicyType /\ Restored.mode = "background"
        /\ Requested \in PolicyType /\ (Requested.mode = "exclusive" => Requested.attached)
  BY DEF PolicyType, Mode, Restored, Requested, PolicyScoped, Exclusive

\* Every way of hiding gives the policy back before it asks for the game.
LEMMA HidingKeeps ==
  ASSUME Core, NEW toGame \in BOOLEAN, CompleteHide(toGame) PROVE Core'
<1>1. overlay' = Hidden /\ closing' = FALSE /\ policy' = Restored /\ wait' = "idle"
  BY DEF CompleteHide
<1>2. \/ acquirer' = Settled
      \/ acquirer' = Calling(overlay.remembered, 1) /\ overlay.remembered \notin {"none", "overlay"}
  BY DEF CompleteHide, OnScreen, Core, Remembers
<1>3. fg' \in Windows /\ fg' # "overlay"
  BY Values DEF CompleteHide, Core
<1>4. overlay.remembered \in Windows
  BY DEF Core, OverlayType
<1>5. /\ overlay' \in OverlayType /\ policy' \in PolicyType /\ policy'.mode = "background"
      /\ ~overlay'.visible /\ overlay'.remembered # "overlay"
  BY <1>1, Values, PolicyReturns DEF Core, Hidden
<1>6. /\ acquirer' \in AcquirerType
      /\ acquirer'.target # "overlay" /\ (acquirer'.calling => acquirer'.target # "none")
      /\ acquirer'.target # "none" => acquirer'.calling
  <2>1. CASE acquirer' = Settled
    BY <2>1, Values DEF Settled
  <2>2. CASE acquirer' = Calling(overlay.remembered, 1) /\ overlay.remembered \notin {"none", "overlay"}
    <3>1. acquirer' \in AcquirerType
      BY <2>2, <1>4, Values
    <3>2. acquirer'.target = overlay.remembered /\ acquirer'.calling
      BY <2>2 DEF Calling
    <3> QED BY <2>2, <3>1, <3>2
  <2> QED BY <1>2, <2>1, <2>2
<1> QED BY <1>1, <1>3, <1>5, <1>6
      DEF Core, PolicyScoped, AcquirerFollowsWindow, AsksHidden, Attempts, Remembers, Exclusive, Quiesced

\* A close that begins to wait finds no acquisition under way.
LEMMA ClosingKeeps ==
  ASSUME Core, NEW toGame \in BOOLEAN, overlay.visible, Hide(toGame) PROVE Core'
<1>1. CASE CompleteHide(toGame)
  BY <1>1, HidingKeeps
<1>2. CASE UNCHANGED <<overlay, closing, acquirer, policy, wait, fg>>
  BY <1>2 DEF Core, PolicyType, OverlayType, AcquirerType, PolicyScoped, AcquirerFollowsWindow,
              AsksHidden, Attempts, Remembers, Exclusive, Quiesced
<1>3. CASE /\ Waits(toGame) /\ closing' = TRUE /\ wait' = "waiting"
           /\ UNCHANGED <<overlay, acquirer, policy, fg>>
  <2>1. acquirer.target = "none"
    BY <1>3 DEF Waits, MustWait, Core, AcquirerFollowsWindow
  <2> QED BY <1>3, <2>1 DEF Core, PolicyScoped, AcquirerFollowsWindow, AsksHidden, Attempts, Remembers, Exclusive, Quiesced
<1> QED BY <1>1, <1>2, <1>3 DEF Hide

\* What is outside Core: it changes with the pad, the game and the timer, within its type.
Rest ==
  /\ pad \in PadType /\ event \in BOOLEAN
  /\ game \in [Games -> {"shown", "iconic", "gone"}] /\ raising \in BOOLEAN

\* The pad, the game's windows, the event and the raise timer keep their types.
LEMMA RestKept == ASSUME Rest, [Next]_vars PROVE Rest'
<1>1. event' \in BOOLEAN
  BY DEF Rest, Next, vars, Show, HideRequested, DesktopHandoff, ExternalHandoff, RaiseTick, HandoffPoll,
         AttemptReturns, Retry, ForegroundEvent, EventLost, ProbeTick, ControllerStep, FocusMoves,
         GameWindow, Notify
<1>2. game' \in [Games -> {"shown", "iconic", "gone"}]
  BY DEF Rest, Next, vars, Show, HideRequested, DesktopHandoff, ExternalHandoff, RaiseTick, HandoffPoll,
         AttemptReturns, Retry, ForegroundEvent, EventLost, ProbeTick, ControllerStep, FocusMoves, GameWindow
<1>3. raising' \in BOOLEAN
  BY DEF Rest, Next, vars, Show, HideRequested, DesktopHandoff, ExternalHandoff, RaiseTick, HandoffPoll,
         AttemptReturns, Retry, ForegroundEvent, EventLost, ProbeTick, ControllerStep, FocusMoves, GameWindow
<1>4. pad' \in PadType
  <2>1. MarkedStale \in PadType
    BY DEF Rest, PadType, MarkedStale
  <2>2. ASSUME NEW c \in Controls, Press(c) PROVE pad' \in PadType
    BY <2>2 DEF Rest, PadType, Press
  <2>3. ASSUME NEW c \in Controls, Release(c) PROVE pad' \in PadType
    BY <2>3 DEF Rest, PadType, Release
  <2>4. CASE PadGone
    BY <2>4 DEF PadType, PadGone
  <2>5. CASE RuntimeStarts \/ RuntimeStops \/ ClockExpires
    BY <2>5 DEF Rest, RuntimeStarts, RuntimeStops, ClockExpires
  <2>6. CASE HandoffNext
    BY <2>2, <2>3, <2>4, <2>5, <2>6 DEF HandoffNext
  <2>7. CASE UNCHANGED pad
    BY <2>7 DEF Rest
  <2>8. CASE Show
    BY <2>1, <2>8 DEF Show
  <2> QED BY <2>6, <2>7, <2>8
        DEF Next, vars, handoffVars, HideRequested, DesktopHandoff, ExternalHandoff, RaiseTick,
            HandoffPoll, AttemptReturns, Retry, ForegroundEvent, EventLost, ProbeTick,
            ControllerStep, FocusMoves, GameWindow
<1> QED BY <1>1, <1>2, <1>3, <1>4 DEF Rest

\* Every step keeps the policy, the window, its close and the acquirer in agreement.
LEMMA CoreKept == ASSUME Core, Rest, [Next]_vars PROVE Core'
<1> USE DEF Core, PolicyScoped, AcquirerFollowsWindow, AsksHidden, Attempts, Remembers, Exclusive, Quiesced
<1>1. CASE Show
  <2>1. policy' \in PolicyType /\ policy'.mode = "background"
    BY <1>1, PolicyReturns DEF Show
  <2>2. /\ overlay' \in OverlayType /\ acquirer' \in AcquirerType /\ overlay'.visible
        /\ overlay'.remembered # "overlay" /\ fg' \in Windows
        /\ acquirer'.target = "overlay" /\ acquirer'.calling
    <3>1. fg \in Windows /\ fg # "overlay" /\ "overlay" \in Windows
      BY <1>1, Values DEF Show
    <3>2. Process(fg) \in {"game", "gamehq", "other", "none"} /\ 0 \in 0..Grace
      BY <3>1, Values, OverlayAssumption
    <3>3. overlay' \in OverlayType /\ overlay'.visible /\ overlay'.remembered = fg
      BY <1>1, <3>1, <3>2 DEF Show, OverlayType
    <3>4. acquirer' \in AcquirerType
      BY <1>1, <3>1, Values DEF Show
    <3>5. acquirer'.target = "overlay" /\ acquirer'.calling
      BY <1>1 DEF Show, Calling
    <3> QED BY <1>1, <3>1, <3>3, <3>4, <3>5 DEF Show
  <2> QED BY <1>1, <2>1, <2>2 DEF Show
<1>2. CASE HideRequested \/ DesktopHandoff
  BY <1>2, ClosingKeeps DEF HideRequested, DesktopHandoff
<1>3. CASE ExternalHandoff
  <2>1. CASE CompleteHide(FALSE)
    BY <2>1, HidingKeeps
  <2>2. CASE fg' \in {fg, "other"} /\ UNCHANGED <<overlay, closing, acquirer, policy, wait>>
    BY <2>2, Values
  <2> QED BY <1>3, <2>1, <2>2 DEF ExternalHandoff
<1>4. CASE RaiseTick
  BY <1>4, Values DEF RaiseTick, handoffVars
<1>5. CASE HandoffPoll
  BY <1>5, HidingKeeps DEF HandoffPoll
<1>6. CASE AttemptReturns
  <2>1. CASE /\ fg # acquirer.target /\ acquirer.attempts < MaxAttempts
             /\ acquirer' = [acquirer EXCEPT !.calling = FALSE] /\ UNCHANGED <<overlay, policy>>
    BY <1>6, <2>1 DEF AttemptReturns, AcquirerType
  <2>2. CASE acquirer' = Settled /\ UNCHANGED <<overlay, policy>>
    BY <1>6, <2>2, Values DEF AttemptReturns, Settled
  <2>3. CASE acquirer' = Settled /\ acquirer.target = "overlay" /\ FinishShow(fg = acquirer.target)
    <3>1. /\ overlay' \in OverlayType /\ overlay'.visible = overlay.visible
          /\ overlay'.remembered = overlay.remembered
      BY <2>3 DEF FinishShow, OverlayType
    <3>2. policy' \in PolicyType /\ (policy'.mode = "exclusive" => policy'.attached)
      BY <2>3, PolicyReturns DEF FinishShow
    <3> QED BY <1>6, <2>3, <3>1, <3>2, Values DEF AttemptReturns, Settled
  <2> QED BY <1>6, <2>1, <2>2, <2>3 DEF AttemptReturns
<1>7. CASE Retry
  <2>1. /\ acquirer' \in AcquirerType /\ (acquirer'.calling => acquirer'.target # "none")
        /\ acquirer'.target \in {acquirer.target, "none"}
        /\ acquirer'.target # "none" => acquirer'.calling
    <3>1. CASE acquirer' = Calling(acquirer.target, acquirer.attempts + 1)
      BY <1>7, <3>1, OverlayAssumption DEF Retry, Idle, Calling, AcquirerType
    <3>2. CASE acquirer' = Settled
      BY <3>2, Values DEF Settled
    <3> QED BY <1>7, <3>1, <3>2 DEF Retry
  <2>2. fg' \in Windows /\ (fg' = fg \/ fg' = acquirer.target)
    BY <1>7 DEF Retry, AcquirerType
  <2> QED BY <1>7, <2>1, <2>2 DEF Retry, handoffVars
<1>8. CASE ForegroundEvent
  <2>1. CASE overlay.visible /\ Hide(TRUE)
    BY <2>1, ClosingKeeps
  <2>2. CASE /\ overlay' = [overlay EXCEPT !.remembered = fg] /\ Decision = "rebind"
             /\ UNCHANGED <<closing, acquirer, policy, wait, fg>>
    <3>1. fg # "overlay"
      BY <2>2 DEF Decision
    <3>2. overlay' \in OverlayType /\ overlay'.visible = overlay.visible /\ overlay'.remembered = fg
      BY <2>2 DEF OverlayType
    <3> QED BY <2>2, <3>1, <3>2
  <2>3. CASE UNCHANGED <<overlay, closing, acquirer, policy, wait, fg>>
    BY <2>3
  <2> QED BY <1>8, <2>1, <2>2, <2>3 DEF ForegroundEvent
<1>9. CASE ProbeTick
  <2>1. CASE CompleteHide(TRUE)
    BY <2>1, HidingKeeps
  <2>2. CASE /\ ~(~closing /\ UserLeft /\ ~Waits(TRUE))
             /\ closing' = (closing \/ UserLeft)
             /\ wait' = IF UserLeft /\ ~closing THEN "waiting" ELSE wait
             /\ overlay' = [overlay EXCEPT !.lost = IF ~GameLost THEN 0
                                                    ELSE IF @ < Grace THEN @ + 1 ELSE @]
             /\ policy' = IF Exclusive /\ fg # "overlay" THEN Restored ELSE policy
             /\ UNCHANGED <<acquirer, fg>>
    <3>1. /\ overlay' \in OverlayType /\ overlay'.visible = overlay.visible
          /\ overlay'.remembered = overlay.remembered
      BY <2>2, OverlayAssumption DEF OverlayType
    <3>2. policy' \in PolicyType /\ (policy'.mode = "exclusive" => policy'.attached /\ Exclusive)
      BY <2>2, PolicyReturns
    <3>3. UserLeft /\ ~closing => acquirer.target = "none"
      BY <2>2 DEF Waits, MustWait
    <3> QED BY <1>9, <2>2, <3>1, <3>2, <3>3 DEF ProbeTick
  <2> QED BY <1>9, <2>1, <2>2 DEF ProbeTick
<1>10. CASE ControllerStep
  <2>1. /\ policy' \in PolicyType /\ (policy'.mode = "exclusive" => policy' = policy)
        /\ wait' \in {"idle", "waiting", "expired"} /\ (wait' = "idle" <=> wait = "idle")
    <3>1. CASE RuntimeStarts \/ RuntimeStops
      <4>1. /\ policy' \in PolicyType /\ policy'.mode = "background"
        <5>1. /\ [attached |-> TRUE, mode |-> "background"] \in PolicyType
              /\ [attached |-> FALSE, mode |-> "background"] \in PolicyType
          BY DEF PolicyType, Mode
        <5>2. CASE RuntimeStarts
          <6>1. policy' = [attached |-> TRUE, mode |-> "background"]
            BY <5>2 DEF RuntimeStarts
          <6> QED BY <5>1, <6>1
        <5>3. CASE RuntimeStops
          <6>1. policy' = [attached |-> FALSE, mode |-> "background"]
            BY <5>3 DEF RuntimeStops
          <6> QED BY <5>1, <6>1
        <5> QED BY <3>1, <5>2, <5>3
      <4> QED BY <3>1, <4>1 DEF RuntimeStarts, RuntimeStops
    <3>2. CASE ClockExpires
      BY <3>2 DEF ClockExpires
    <3>3. CASE UNCHANGED <<policy, wait>>
      BY <3>3
    <3> QED BY <1>10, <3>1, <3>2, <3>3 DEF ControllerStep, HandoffNext, PadGone, Press, Release
  <2> QED BY <1>10, <2>1 DEF ControllerStep
<1>11. CASE \E w \in Others \cup (IF overlay.visible THEN {"overlay"} ELSE {}) : FocusMoves(w)
  BY <1>11, Values DEF FocusMoves, handoffVars
<1>12. CASE \E g \in Games, state \in {"shown", "iconic", "gone"} : GameWindow(g, state)
  BY <1>12, Values DEF GameWindow, handoffVars
<1>13. CASE EventLost \/ UNCHANGED vars
  BY <1>13 DEF EventLost, vars, handoffVars
<1> QED BY <1>1, <1>2, <1>3, <1>4, <1>5, <1>6, <1>7, <1>8, <1>9, <1>10, <1>11, <1>12, <1>13 DEF Next
-----------------------------------------------------------------------------
\* A hidden overlay with nobody acquiring, no close and no wait.
LEMMA Initially == Init => IInv
<1> SUFFICES ASSUME Init PROVE IInv
  OBVIOUS
<1>1. Core
  <2>1. policy \in PolicyType /\ policy.mode = "background" /\ wait = "idle" /\ closing = FALSE
    BY DEF Init, HandoffInit, PolicyType, Mode
  <2>2. /\ overlay \in OverlayType /\ acquirer \in AcquirerType
        /\ ~overlay.visible /\ overlay.remembered = "none"
        /\ acquirer.target = "none" /\ ~acquirer.calling
    BY Values DEF Init, Hidden, Settled
  <2>3. fg \in Windows /\ fg # "overlay"
    BY Values DEF Init
  <2> QED BY <2>1, <2>2, <2>3
        DEF Core, PolicyScoped, AcquirerFollowsWindow, AsksHidden, Attempts, Remembers, Exclusive, Quiesced
<1>2. Rest
  BY DEF Init, HandoffInit, Rest, PadType
<1> QED BY <1>1, <1>2, Parts DEF Rest

\* IInv is inductive.
LEMMA Inductive == IInv /\ [Next]_vars => IInv'
<1> SUFFICES ASSUME IInv, [Next]_vars PROVE IInv'
  OBVIOUS
<1>1. Core /\ Rest
  BY Parts DEF Rest
<1>2. Core' /\ Rest'
  BY <1>1, CoreKept, RestKept
<1> QED BY <1>2 DEF IInv, Core, Rest, TypeOK, HandoffTypeOK, PolicyType, PadType, OverlayType, AcquirerType

\* The inductive invariant holds in every behaviour of the overlay.
THEOREM Invariant == Spec => []IInv
  BY Initially, Inductive, PTL DEF Spec

\* Every variable keeps its type, whatever the windows, the pad and the game do.
THEOREM TypeCorrect == Spec => []TypeOK
<1>1. IInv => TypeOK
  BY DEF IInv
<1> QED BY <1>1, Invariant, PTL

\* The exclusive policy and the quiesced input path never outlive the open overlay.
THEOREM PolicySafety == Spec => []PolicyScoped
<1>1. IInv => PolicyScoped
  BY DEF IInv
<1> QED BY <1>1, Invariant, PTL

\* A request for the foreground serves the window state it was made for: none of the
\* overlay's outlives it, none of the game's reaches into an overlay opened since.
THEOREM AcquirerSafety == Spec => []AcquirerFollowsWindow
<1>1. IInv => AcquirerFollowsWindow
  BY DEF IInv
<1> QED BY <1>1, Invariant, PTL

-----------------------------------------------------------------------------
\* A close that does not wait asks for the game only if no control is held.
LEMMA HideExposesNothing ==
  ASSUME Exclusive, acquirer.target = "none",
         NEW toGame \in BOOLEAN, Hide(toGame), acquirer'.target # "none"
  PROVE pad.held = {}
<1>1. CompleteHide(toGame) /\ ~Waits(toGame)
  BY DEF Hide
<1>2. toGame /\ OnScreen(overlay.remembered)
  BY <1>1 DEF CompleteHide, Settled
<1> QED BY <1>1, <1>2 DEF Waits, MustWait

\* No step out of an exclusive session asks for the game while a control pressed in
\* the overlay is held, unless the wait has expired.
THEOREM HeldSafety == Spec => HeldNotExposed
<1>1. ASSUME IInv, [Next]_vars, Exclusive, overlay.visible, acquirer'.target # "none"
      PROVE pad.held = {} \/ wait = "expired"
  <2>1. acquirer.target = "none" /\ ~acquirer.calling
    BY <1>1 DEF IInv, AcquirerFollowsWindow, AsksHidden, Attempts
  <2>2. CASE HideRequested \/ DesktopHandoff
    BY <1>1, <2>1, <2>2, HideExposesNothing DEF HideRequested, DesktopHandoff
  <2>3. CASE ExternalHandoff
    BY <1>1, <2>1, <2>3 DEF ExternalHandoff, CompleteHide, Settled
  <2>4. CASE HandoffPoll
    BY <1>1, <2>4 DEF HandoffPoll, PollFinishes
  <2>5. CASE ForegroundEvent
    BY <1>1, <2>1, <2>5, HideExposesNothing DEF ForegroundEvent
  <2>6. CASE ProbeTick
    <3>1. CompleteHide(TRUE) /\ (~Waits(TRUE) \/ GameLost)
      BY <1>1, <2>1, <2>6 DEF ProbeTick
    <3>2. OnScreen(overlay.remembered)
      BY <1>1, <3>1 DEF CompleteHide, Settled
    <3> QED BY <1>1, <3>1, <3>2 DEF GameLost, Waits, MustWait
  <2>7. CASE Show \/ AttemptReturns \/ Retry
    BY <1>1, <2>1, <2>7 DEF Show, AttemptReturns, Retry
  <2>8. CASE UNCHANGED acquirer
    BY <1>1, <2>1, <2>8
  <2> QED BY <1>1, <2>2, <2>3, <2>4, <2>5, <2>6, <2>7, <2>8
        DEF Next, vars, RaiseTick, EventLost, ControllerStep, FocusMoves, GameWindow
<1>2. IInv /\ [Next]_vars
        => (Exclusive /\ overlay.visible /\ acquirer'.target # "none"
              => pad.held = {} \/ wait = "expired")
  BY <1>1
<1> QED BY <1>2, Invariant, PTL DEF Spec, HeldNotExposed
=============================================================================
