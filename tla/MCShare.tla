-------------------------------- MODULE MCShare -------------------------------
(* The instance of Share for TLC. *)
EXTENDS Share

\* Two jobs to the add-on, or one to each.
MCQuota == [p \in Providers |-> IF p = "external" THEN 2 ELSE 1]
=============================================================================
