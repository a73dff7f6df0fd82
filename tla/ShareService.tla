------------------------------ MODULE ShareService -----------------------------
(***************************************************************************)
(* share::Service: the capture that is open, the list of destinations on    *)
(* display, the one active job and the memory of how jobs ended.  Its       *)
(* operators give the service's half of a handler; Share composes them with *)
(* the half of the provider that is called, or calls.                      *)
(*                                                                         *)
(* Every provider offers one destination here.  A refusal that only sets    *)
(* the last error (disabled, unavailable, unsupported, not connected,       *)
(* capture changed) is no step.                                            *)
(***************************************************************************)
EXTENDS Naturals, Sequences, FiniteSets

CONSTANTS
  Captures,
  Providers,    \* provider identities
  DirectSend,   \* those that declare Capability::DirectSend
  MaxJobs,      \* bound: jobs started in a behaviour
  Quota         \* bound: of them, jobs given to each provider

ASSUME ShareServiceAssumption ==
  /\ "none" \notin Captures \cup Providers
  /\ DirectSend \subseteq Providers
  /\ MaxJobs \in Nat \ {0}
  /\ Quota \in [Providers -> Nat]

VARIABLES
  session,   \* capture; provider asked last; its answer is pending; listed: the
             \* capture for which the destinations on display were asked
  phase,     \* m_phase, with Sending split into m_active.job.state: "preparing" (or
             \* pending) and "transferring"
  jobs,      \* every job of the run, its number the id: the last one is m_active
  history    \* m_history

serviceVars == <<session, phase, jobs, history>>

Outcomes == {"sent", "handed_off", "failed", "cancelled", "unconfirmed"}
Places == Captures \X Providers
Closed == [capture |-> "none", provider |-> "none", pending |-> FALSE, listed |-> "none"]

ServiceTypeOK ==
  /\ session \in [capture : Captures \cup {"none"}, provider : Providers \cup {"none"},
                  pending : BOOLEAN, listed : Captures \cup {"none"}]
  /\ jobs \in Seq([place : Places, confirmed : BOOLEAN,
                   outcome : Outcomes \cup {"running"}])
  /\ Len(jobs) <= MaxJobs
  /\ phase \in {"idle", "choosing", "preparing", "transferring", "finished"}
  /\ history \in [Places -> Outcomes \cup {"none"}]

ServiceInit ==
  /\ session = Closed /\ phase = "idle" /\ jobs = <<>>
  /\ history = [at \in Places |-> "none"]

Active == Len(jobs)
Job == jobs[Active]
Busy == phase \in {"preparing", "transferring"}
Runs(p) == Busy /\ Job.place[2] = p

\* finishActive: the second end of a job finds none active.
FinishActive(outcome) ==
  IF Busy
  THEN /\ jobs' = [jobs EXCEPT ![Active].outcome = outcome]
       /\ history' = [history EXCEPT ![Job.place] = outcome]
       /\ phase' = "finished"
  ELSE UNCHANGED <<phase, jobs, history>>

\* Mutant of OnJobFinished: any verdict ends the job that is active.
OnJobFinishedForeign(p, j, outcome) == FinishActive(outcome)

\* onJobFinished: the verdict of provider p about job j.
OnJobFinished(p, j, outcome) ==
  IF Runs(p) /\ j = Active
  THEN FinishActive(IF outcome = "sent" /\ p \notin DirectSend THEN "handed_off" ELSE outcome)
  ELSE UNCHANGED <<phase, jobs, history>>

\* onJobProgress, which also gives the watchdog a fresh window.
OnJobProgress(p, j, transferring) ==
  /\ phase' = IF ~Runs(p) \/ j # Active THEN phase
              ELSE IF transferring THEN "transferring" ELSE "preparing"
  /\ UNCHANGED <<jobs, history>>

\* Mutant of NeedsConfirmation: an unconfirmed end counts as a failure.
NeedsConfirmationIfSent(p) == history[<<session.capture, p>>] = "sent"

\* share refuses with resend_needs_confirmation.
NeedsConfirmation(p) == history[<<session.capture, p>>] \in {"sent", "unconfirmed"}

\* share's guards, in one: the destination is in the list on display.
MayShare(p, confirmed) ==
  /\ ~Busy /\ Len(jobs) < MaxJobs
  /\ Cardinality({i \in 1..Active : jobs[i].place[2] = p}) < Quota[p]
  /\ session.capture # "none"
  /\ session.provider = p /\ ~session.pending /\ session.listed # "none"
  /\ confirmed \/ ~NeedsConfirmation(p)

NewJob(p, confirmed, outcome) ==
  [place |-> <<session.capture, p>>, confirmed |-> confirmed, outcome |-> outcome]

\* share, for a provider that takes the job.
Begins(p, confirmed) ==
  /\ jobs' = Append(jobs, NewJob(p, confirmed, "running"))
  /\ phase' = "preparing"
  /\ UNCHANGED history

\* share, for a provider that ends it before start returns.
BeginsAndEnds(p, confirmed, outcome) ==
  /\ jobs' = Append(jobs, NewJob(p, confirmed, outcome))
  /\ history' = [history EXCEPT ![<<session.capture, p>>] = outcome]
  /\ phase' = "finished"

\* open: a new capture forgets the destinations and the query under way.
Open(c) ==
  /\ ~Busy
  /\ session' = [Closed EXCEPT !.capture = c]
  /\ phase' = "choosing"
  /\ UNCHANGED <<jobs, history>>

Close ==
  /\ ~Busy /\ phase # "idle"
  /\ session' = Closed /\ phase' = "idle"
  /\ UNCHANGED <<jobs, history>>

\* requestTargets: a new query supersedes the one under way.
Asks(p) ==
  session' = [session EXCEPT !.provider = p, !.pending = TRUE, !.listed = "none"]

\* Mutant of OnTargetsReady: the answer's provider is looked at, not its query.
OnTargetsReadyOfProvider(p, c, found) ==
  session' = IF session.capture # "none"
             THEN [session EXCEPT !.pending = FALSE, !.listed = IF found THEN c ELSE "none"]
             ELSE session

\* onTargetsReady: p answers the query it got for capture c, with or without
\* destinations; an answer nobody waits for is dropped.
OnTargetsReady(p, c, found) ==
  session' = IF session.pending /\ session.provider = p
             THEN [session EXCEPT !.pending = FALSE, !.listed = IF found THEN c ELSE "none"]
             ELSE session

=============================================================================
