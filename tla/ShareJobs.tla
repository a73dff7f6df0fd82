------------------------------- MODULE ShareJobs ------------------------------
(***************************************************************************)
(* What sharing promises for its jobs, whatever a provider does: one job at *)
(* a time, each ends, and ends once, and a capture whose last job to a      *)
(* destination ended as sent or unconfirmed is not sent there again unless  *)
(* the user confirms it.  Share implements this specification.             *)
(***************************************************************************)
EXTENDS Naturals, Sequences

CONSTANTS
  Places,    \* where a capture can be sent: the capture and the destination
  Outcomes,  \* how a job may end; "running" is none of them
  MaxJobs    \* bound: jobs in a behaviour

VARIABLE log   \* the jobs so far: place, confirmed by the user, outcome

Job == [place : Places, confirmed : BOOLEAN, outcome : Outcomes \cup {"running"}]

Running == Len(log) > 0 /\ log[Len(log)].outcome = "running"

\* The last job to this place ended as sent or unconfirmed.
MayHaveArrived(at) ==
  \E i \in 1..Len(log) :
    /\ log[i].place = at /\ log[i].outcome \in {"sent", "unconfirmed"}
    /\ \A k \in (i + 1)..Len(log) : log[k].place # at

Init == log = <<>>

\* A provider may refuse a job on the spot, which ends it.
Begin ==
  /\ ~Running /\ Len(log) < MaxJobs
  /\ \E j \in Job : /\ j.confirmed \/ ~MayHaveArrived(j.place)
                    /\ log' = Append(log, j)

End ==
  /\ Running
  /\ \E o \in Outcomes : log' = [log EXCEPT ![Len(log)].outcome = o]

Next == Begin \/ End

Ends == Running ~> ~Running

Spec == Init /\ [][Next]_log /\ Ends
=============================================================================
