----------------------------- MODULE MCShareTelegram ---------------------------
(* The instance of ShareTelegram for TLC. *)
EXTENDS ShareTelegram

MCQuota == [p \in Providers |-> MaxJobs]
=============================================================================
