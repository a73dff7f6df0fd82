--------------------------------- MODULE Share --------------------------------
(***************************************************************************)
(* Sharing: the service (ShareService) with a provider in another program   *)
(* (ExternalProvider) and a built-in one that does what ShareProvider.h      *)
(* asks of every provider.  Everything runs on the GUI thread, and           *)
(* providers call back from inside start and cancel: an action is one event *)
(* with every such call.                                                   *)
(***************************************************************************)
EXTENDS ShareService, ExternalProvider

ASSUME ProvidersAssumption == Providers = {"external", "builtin"}

VARIABLE builtin   \* the job the built-in provider works on; 0: none

vars == <<serviceVars, extVars, builtin>>

\* Writing to the pipe: it gets there, the program is gone already but not yet
\* noticed, or the write breaks the connection.
Wrote == {"written", "refused", "broken"}

Init ==
  /\ ServiceInit /\ ExternalInit /\ builtin = 0

-----------------------------------------------------------------------------
(* The user.                                                               *)

UserOpens ==
  /\ phase = "idle"
  /\ \E c \in Captures : Open(c)
  /\ UNCHANGED <<extVars, builtin>>

UserCloses ==
  /\ Close
  /\ UNCHANGED <<extVars, builtin>>

\* requestTargets of the program: it may be gone, which answers at once.
AskExternal ==
  /\ phase = "choosing" /\ ext.here
  /\ \/ /\ Asks("external")
        /\ ext' = [ext EXCEPT !.asked = session.capture]
     \/ /\ session' = [session EXCEPT !.provider = "external", !.pending = FALSE,
                                      !.listed = "none"]
        /\ ext' = [ext EXCEPT !.asked = "none"]
  /\ UNCHANGED <<phase, jobs, history, toHost, peer, arrived, builtin>>

\* requestTargets of the built-in provider, which has one destination at hand.
AskBuiltin ==
  /\ phase = "choosing"
  /\ session' = [session EXCEPT !.provider = "builtin", !.pending = FALSE,
                               !.listed = session.capture]
  /\ UNCHANGED <<phase, jobs, history, extVars, builtin>>

\* The dialog offers a destination of the list, and confirms only what the service
\* has refused before.
UserShares(p, confirmed) == phase = "choosing" /\ MayShare(p, confirmed)

\* share to the program.  A write that breaks the connection is unconfirmed: the
\* loss is noticed inside start.  The program has only one job at a time.
ShareExternal ==
  \E wrote \in Wrote : LET confirmed == NeedsConfirmation("external") IN
    /\ UserShares("external", confirmed) /\ ext.here
    /\ IF ext.job # 0 \/ wrote = "refused"
       THEN /\ BeginsAndEnds("external", confirmed, "failed")
            /\ UNCHANGED extVars
       ELSE IF wrote = "broken"
       THEN BeginsAndEnds("external", confirmed, "unconfirmed") /\ Released
       ELSE /\ Begins("external", confirmed)
            /\ ext' = [ext EXCEPT !.job = Active + 1, !.cancelSent = FALSE]
            /\ PeerStarts(Active + 1)
            /\ UNCHANGED <<toHost, arrived>>
    /\ UNCHANGED <<session, builtin>>

\* share to the built-in provider, which may end the job inside start.
ShareBuiltin ==
  LET confirmed == NeedsConfirmation("builtin") IN
    /\ UserShares("builtin", confirmed)
    /\ \/ \E verdict \in Verdicts : BeginsAndEnds("builtin", confirmed, verdict) /\ builtin' = 0
       \/ Begins("builtin", confirmed) /\ builtin' = Active + 1
    /\ UNCHANGED <<session, extVars>>

\* Mutant of LoseExternal: the query under way is forgotten with the connection.
LoseExternalForgetsQuery ==
  /\ Released
  /\ IF Runs("external")
     THEN FinishActive(IF ext.job = Active \/ phase = "transferring" THEN "unconfirmed" ELSE "failed")
     ELSE UNCHANGED <<phase, jobs, history>>
  /\ UNCHANGED session

\* releaseProvider: connectionLost answers the query under way and ends the job
\* as unconfirmed; then the registry tells the service that the provider is gone.
LoseExternal ==
  /\ Released
  /\ IF Runs("external")
     THEN FinishActive(IF ext.job = Active \/ phase = "transferring" THEN "unconfirmed" ELSE "failed")
     ELSE UNCHANGED <<phase, jobs, history>>
  /\ IF ext.asked = "none" THEN UNCHANGED session
     ELSE OnTargetsReady("external", ext.asked, FALSE)

\* ExternalProvider::cancel, and what the service does after it: end stands for
\* its own verdict, "none" for waiting.
CancelExternal(end) ==
  \E wrote \in Wrote :
    IF ext.job # Active \/ ext.cancelSent
    THEN /\ IF end = "none" THEN UNCHANGED <<phase, jobs, history>> ELSE FinishActive(end)
         /\ UNCHANGED <<session, extVars>>
    ELSE IF wrote = "broken" THEN LoseExternal
    ELSE /\ IF end = "none" THEN UNCHANGED <<phase, jobs, history>> ELSE FinishActive(end)
         /\ ext' = [ext EXCEPT !.cancelSent = TRUE]
         /\ IF wrote = "refused" THEN UNCHANGED peer ELSE PeerStops(Active)
         /\ UNCHANGED <<session, toHost, arrived>>

\* The built-in provider may report its end inside cancel, or later.
CancelBuiltin(end) ==
  /\ \/ /\ \E verdict \in Verdicts : OnJobFinished("builtin", builtin, verdict)
        /\ builtin' = 0
     \/ /\ IF end = "none" THEN UNCHANGED <<phase, jobs, history>> ELSE FinishActive(end)
        /\ UNCHANGED builtin
  /\ UNCHANGED session

\* cancel: at once if nothing is moving yet, else the provider has the word.
UserCancels ==
  LET end == IF phase = "transferring" THEN "none" ELSE "cancelled"
  IN /\ \/ Runs("external") /\ CancelExternal(end) /\ UNCHANGED builtin
        \/ Runs("builtin") /\ CancelBuiltin(end) /\ UNCHANGED extVars

\* The watchdog: no result and no progress for the provider's time.
Watchdog ==
  /\ \/ Runs("external") /\ CancelExternal("unconfirmed") /\ UNCHANGED builtin
     \/ Runs("builtin") /\ CancelBuiltin("unconfirmed") /\ UNCHANGED extVars

-----------------------------------------------------------------------------
(* The program and its connection.                                         *)

PeerActs ==
  /\ PeerDelivers \/ PeerReports \/ PeerConcludes
  /\ UNCHANGED <<serviceVars, builtin>>

Disconnects ==
  /\ ext.here
  /\ LoseExternal
  /\ UNCHANGED <<builtin>>

\* handleHello: a new connection has a provider of its own.
Registers ==
  /\ ~ext.here
  /\ ext' = [Away EXCEPT !.here = TRUE]
  /\ UNCHANGED <<serviceVars, toHost, peer, arrived, builtin>>

\* dispatch of a message about a job; one that is not about the job in hand is a
\* violation, and too many of those end the connection.
HostReads ==
  /\ toHost # <<>>
  /\ LET m == Head(toHost)
     IN IF MatchesActiveJob(m)
        THEN /\ toHost' = Tail(toHost)
             /\ IF m.type = "progress"
                THEN OnJobProgress("external", ext.job, m.what = "transferring") /\ UNCHANGED ext
                ELSE /\ OnJobFinished("external", ext.job, m.what)
                     /\ ext' = [ext EXCEPT !.job = 0, !.cancelSent = FALSE]
             /\ UNCHANGED <<session, peer, arrived>>
        ELSE IF Tolerated
        THEN /\ toHost' = Tail(toHost)
             /\ ext' = [ext EXCEPT !.violations = @ + 1]
             /\ UNCHANGED <<serviceVars, peer, arrived>>
        ELSE LoseExternal
  /\ UNCHANGED <<builtin>>

\* targets.result, or the ten seconds without one, which count as an empty list.
ExternalAnswers ==
  /\ ext.here /\ ext.asked # "none"
  /\ \E found \in BOOLEAN : OnTargetsReady("external", ext.asked, found)
  /\ ext' = [ext EXCEPT !.asked = "none"]
  /\ UNCHANGED <<phase, jobs, history, toHost, peer, arrived, builtin>>

-----------------------------------------------------------------------------
(* The built-in provider.                                                  *)

\* It ends its job, once, in its own time; also after the service gave the job up.
BuiltinEnds ==
  /\ builtin # 0
  /\ \E verdict \in Verdicts : OnJobFinished("builtin", builtin, verdict)
  /\ builtin' = 0
  /\ UNCHANGED <<session, extVars>>

BuiltinReports ==
  /\ builtin # 0
  /\ OnJobProgress("builtin", builtin, TRUE)
  /\ UNCHANGED <<session, extVars, builtin>>

Next ==
  \/ UserOpens \/ UserCloses \/ AskExternal \/ AskBuiltin
  \/ ShareExternal \/ ShareBuiltin \/ UserCancels \/ Watchdog
  \/ PeerActs \/ Disconnects \/ Registers \/ HostReads \/ ExternalAnswers
  \/ BuiltinEnds \/ BuiltinReports

\* Timers fire, whatever a provider does: the watchdog (a job's reports are finite)
\* and the ten seconds an add-on has for its list.
Spec == Init /\ [][Next]_vars /\ WF_vars(Watchdog) /\ WF_vars(ExternalAnswers)

-----------------------------------------------------------------------------
(* What must hold.                                                         *)

TypeOK ==
  /\ ServiceTypeOK
  /\ ext \in [here : BOOLEAN, job : 0..MaxJobs, cancelSent : BOOLEAN,
              asked : Captures \cup {"none"}, violations : 0..(MaxViolations - 1)]
  /\ Len(toHost) <= MaxPipe
  /\ peer \in [job : 0..MaxJobs, stop : BOOLEAN, said : 0..MaxReports, over : BOOLEAN]
  /\ arrived \subseteq 1..MaxJobs
  /\ builtin \in 0..MaxJobs

\* A destination is only ever used for the capture it was listed for, although
\* answers arrive after another capture was opened.
RightCapture == session.listed # "none" => session.listed = session.capture

\* Where the service names an end of an add-on's job it is true: nothing arrives that
\* was called failed, and what was called sent or handed off has arrived.  Of a job
\* called cancelled it says nothing, see CancelledNeverArrives.
ExternalTruth ==
  \A i \in 1..Active : jobs[i].place[2] = "external" =>
    /\ jobs[i].outcome \in {"sent", "handed_off"} => i \in arrived
    /\ jobs[i].outcome = "failed" => i \notin arrived

\* docs/share-platform.md, of the outcome cancelled: stopped before anything left
\* GameHQ.  The code does not keep this (see the README), and no run asks for it.
CancelledNeverArrives ==
  \A i \in 1..Active :
    jobs[i].place[2] = "external" /\ jobs[i].outcome = "cancelled" => i \notin arrived

\* A job ends as sent or failed only when the provider it was given to lets go of
\* that very job: not through the late word of another provider or another job.
OwnVerdict ==
  [][Busy /\ jobs'[Active].outcome \in {"sent", "handed_off", "failed"} =>
       \/ Job.place[2] = "external" /\ ext.job = Active /\ ext.job' = 0
       \/ Job.place[2] = "builtin" /\ builtin = Active /\ builtin' = 0]_vars

\* The service keeps what ShareJobs promises for every provider.
Promise == INSTANCE ShareJobs WITH log <- jobs

KeepsPromise == Promise!Spec

\* An add-on's list comes, or its silence is answered.
ListArrives ==
  session.pending /\ session.provider = "external"
    ~> ~(session.pending /\ session.provider = "external")
=============================================================================
