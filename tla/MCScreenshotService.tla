------------------------ MODULE MCScreenshotService -------------------------
(***************************************************************************)
(* Three screenshots in one second, two encoder threads, two names.  The   *)
(* captures are interchangeable: nothing tells them apart but their names. *)
(***************************************************************************)
EXTENDS ScreenshotService, TLC

CONSTANTS a, b, c

Captures == {a, b, c}
Symmetry == Permutations(Captures)
=============================================================================
