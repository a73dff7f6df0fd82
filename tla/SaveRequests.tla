---------------------------- MODULE SaveRequests ----------------------------
(***************************************************************************)
(* What the replay-save front end promises to whoever pressed the save     *)
(* button, without saying anything about threads, queues or generations.   *)
(*                                                                         *)
(* Every press is a request.  It is either turned down on the spot or      *)
(* admitted; at most one request is admitted at a time; an admitted one is *)
(* answered once, saved or failed, and the answer carries its own identity.*)
(***************************************************************************)

CONSTANT Request                    \* the identities of the presses

VARIABLE request                    \* request[r]: how far press r has come

Verdict == {"saved", "failed"}

Status == {"idle", "rejected", "dispatched"} \cup Verdict

Init == request = [r \in Request |-> "idle"]

Reject(r) ==
  /\ request[r] = "idle"
  /\ request' = [request EXCEPT ![r] = "rejected"]

\* An admitted request owns the exporter until it is answered.
Dispatch(r) ==
  /\ request[r] = "idle"
  /\ \A other \in Request : request[other] # "dispatched"
  /\ request' = [request EXCEPT ![r] = "dispatched"]

Answer(r) ==
  /\ request[r] = "dispatched"
  /\ \E v \in Verdict : request' = [request EXCEPT ![r] = v]

Next == \E r \in Request : Reject(r) \/ Dispatch(r) \/ Answer(r)

Spec == Init /\ [][Next]_request /\ \A r \in Request : WF_request(Answer(r))
=============================================================================
