----------------------------- MODULE MCUpdater ------------------------------
(* Three kinds of owned path: replaced, brought by the update, dropped by it. *)
EXTENDS Updater
MCOwned == <<"app", "added", "gone">>
=============================================================================
