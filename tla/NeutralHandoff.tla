---------------------------- MODULE NeutralHandoff ----------------------------
(***************************************************************************)
(* The controller side of the overlay's close: who owns the GameInput focus *)
(* policy (GameInputFocusController), which controls are held              *)
(* (HeldControlTracker), and the bounded wait for a neutral pad            *)
(* (NeutralHandoffRunner).  Overlay composes it with the window.           *)
(*                                                                         *)
(* One controller.  A control is physically up or down; every edge is      *)
(* published once by the backend that serves it.  Time is abstracted: the  *)
(* wait's clock passes its 400 ms when it likes.                           *)
(***************************************************************************)
EXTENDS FiniteSets

CONSTANT Controls    \* the controls of the pad

VARIABLES
  policy,   \* GameInputFocusController: [attached, mode]
  pad,      \* the controls that are down, and how HeldControlTracker counts them
  wait      \* NeutralHandoffRunner: "idle", "waiting", "expired"

handoffVars == <<policy, pad, wait>>

Mode == {"background", "exclusive"}

HandoffTypeOK ==
  /\ policy \in [attached : BOOLEAN, mode : Mode]
  /\ pad \in [down : SUBSET Controls, held : SUBSET Controls, stale : SUBSET Controls]
  /\ wait \in {"idle", "waiting", "expired"}

HandoffInit ==
  /\ policy \in [attached : BOOLEAN, mode : {"background"}]
  /\ pad = [down |-> {}, held |-> {}, stale |-> {}]
  /\ wait = "idle"

Exclusive == policy.mode = "exclusive"

\* requestExclusiveForeground: refused without a runtime.
Requested == IF policy.attached THEN [policy EXCEPT !.mode = "exclusive"] ELSE policy

\* restoreBackground: idempotent, and nothing to restore without a runtime.
Restored == IF policy.attached THEN [policy EXCEPT !.mode = "background"] ELSE policy

\* setOverlayReleaseActive is TRUE exactly while the runner waits.
Quiesced == wait # "idle"

\* Mutant of PollFinishes: a quiet overlay is taken for a neutral pad.
PollFinishesWhileHeld == ~Exclusive \/ Quiesced

\* Mutant of PollFinishes: the wait has no bound.
PollFinishesNever == ~Exclusive \/ (Quiesced /\ pad.held = {})

\* decideNeutralHandoff and the bound: what lets a poll end the wait.  A policy
\* released elsewhere leaves nothing to wait for.
PollFinishes == ~Exclusive \/ (Quiesced /\ pad.held = {}) \/ wait = "expired"

\* begin: without the policy in force there is no wait at all.
MustWait == Exclusive /\ pad.held # {}

-----------------------------------------------------------------------------
\* attach and detach, as the GameInput session starts and stops; both leave the
\* background policy behind.
RuntimeStarts ==
  /\ ~policy.attached
  /\ policy' = [attached |-> TRUE, mode |-> "background"]
  /\ UNCHANGED <<pad, wait>>

RuntimeStops ==
  /\ policy.attached
  /\ policy' = [attached |-> FALSE, mode |-> "background"]
  /\ UNCHANGED <<pad, wait>>

\* notePressed, before any routing.
Press(c) ==
  /\ c \notin pad.down
  /\ pad' = [pad EXCEPT !.down = @ \cup {c}, !.held = IF c \in pad.stale THEN @ ELSE @ \cup {c}]
  /\ UNCHANGED <<policy, wait>>

\* noteReleased.
Release(c) ==
  /\ c \in pad.down
  /\ pad' = [down |-> pad.down \ {c}, stale |-> pad.stale \ {c},
             held |-> IF c \in pad.stale THEN pad.held ELSE pad.held \ {c}]
  /\ UNCHANGED <<policy, wait>>

\* noteDeviceGone: what the pad held went with it.
PadGone ==
  /\ pad.down # {}
  /\ pad' = [down |-> {}, held |-> {}, stale |-> {}]
  /\ UNCHANGED <<policy, wait>>

\* markHeldAsStale, as the overlay opens.
MarkedStale == [pad EXCEPT !.stale = @ \cup pad.held, !.held = {}]

\* m_clock reaches kNeutralHandoffTimeoutMs.
ClockExpires ==
  /\ wait = "waiting"
  /\ wait' = "expired"
  /\ UNCHANGED <<policy, pad>>

HandoffNext ==
  \/ RuntimeStarts \/ RuntimeStops \/ PadGone \/ ClockExpires
  \/ \E c \in Controls : Press(c) \/ Release(c)
=============================================================================
