---------------------------- MODULE ExternalProvider ---------------------------
(***************************************************************************)
(* A share destination provided by another program: ExternalProvider, its   *)
(* connection at the ExternalProviderHost, the pipe and, as environment,    *)
(* the program itself.                                                     *)
(*                                                                         *)
(* The program tells the truth about a delivery, but may be silent, late,   *)
(* say things twice, speak of jobs that are over and disappear.  It has read *)
(* what was written: one that reads late is one that acts late.  Left out:  *)
(* the handshake (a connection is here once it has registered), a second    *)
(* claim of the same identity, which changes nothing.                      *)
(***************************************************************************)
EXTENDS Naturals, Sequences, FiniteSets

CONSTANTS
  MaxViolations,  \* kMaxViolations
  MaxPipe,        \* bound: messages of the program under way
  MaxReports      \* bound: what the program says about one job

ASSUME ExternalAssumption ==
  /\ MaxViolations \in Nat \ {0} /\ MaxPipe \in Nat \ {0} /\ MaxReports \in Nat \ {0}

VARIABLES
  ext,      \* here: registered; job: m_jobId (0: empty); cancelSent; asked: the
            \* capture of m_pendingQuery; violations
  toHost,   \* messages of the program
  peer,     \* the program: job, stop requested, said: reports so far, over
  arrived   \* the jobs whose capture has arrived where it was sent

extVars == <<ext, toHost, peer, arrived>>

Away == [here |-> FALSE, job |-> 0, cancelSent |-> FALSE, asked |-> "none", violations |-> 0]
Asleep == [job |-> 0, stop |-> FALSE, said |-> 0, over |-> TRUE]

Verdicts == {"sent", "failed", "cancelled", "unconfirmed"}

ExternalInit ==
  /\ ext = [Away EXCEPT !.here = TRUE]
  /\ toHost = <<>> /\ peer = Asleep /\ arrived = {}

\* releaseProvider: the registration and the pipe end.
Released ==
  /\ ext' = Away /\ toHost' = <<>>
  /\ UNCHANGED <<peer, arrived>>

\* Mutant of MatchesActiveJob: any message of a program with a job is about it.
MatchesAnyJob(m) == ext.job # 0

\* matchesActiveJob: the id and the one-time token, one number here.
MatchesActiveJob(m) == ext.job # 0 /\ m.job = ext.job

\* Mutant of Tolerated: one violation too many.
ToleratedOnceMore == ext.violations < MaxViolations

\* violation: another one does not end the connection yet.
Tolerated == ext.violations + 1 < MaxViolations

-----------------------------------------------------------------------------
(* The program.                                                            *)

\* job.start and job.cancel reach it.
PeerStarts(j) == peer' = [job |-> j, stop |-> FALSE, said |-> 0, over |-> FALSE]
PeerStops(j) == peer' = [peer EXCEPT !.stop = (@ \/ (peer.job = j /\ ~peer.over))]

\* The recipient gets the capture.
PeerDelivers ==
  /\ ~peer.over
  /\ arrived' = arrived \cup {peer.job}
  /\ UNCHANGED <<ext, toHost, peer>>

Says(m) ==
  /\ ext.here /\ Len(toHost) < MaxPipe /\ peer.said < MaxReports /\ peer.job # 0
  /\ toHost' = Append(toHost, m)

PeerReports ==
  /\ ~peer.over
  /\ \E state \in {"preparing", "transferring"} :
       Says([type |-> "progress", job |-> peer.job, what |-> state])
  /\ peer' = [peer EXCEPT !.said = @ + 1]
  /\ UNCHANGED <<ext, arrived>>

\* The verdict agrees with what happened, and nothing happens after it.
Truthful(v) ==
  \/ v = "sent" /\ peer.job \in arrived
  \/ v = "failed" /\ peer.job \notin arrived
  \/ v = "cancelled" /\ peer.job \notin arrived /\ peer.stop
  \/ v = "unconfirmed"

PeerConcludes ==
  /\ \E v \in Verdicts : /\ Truthful(v)
                         /\ Says([type |-> "result", job |-> peer.job, what |-> v])
  /\ peer' = [peer EXCEPT !.said = @ + 1, !.over = TRUE, !.stop = FALSE]
  /\ UNCHANGED <<ext, arrived>>
=============================================================================
