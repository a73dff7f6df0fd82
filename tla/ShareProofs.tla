------------------------------ MODULE ShareProofs ------------------------------
(***************************************************************************)
(* For every set of captures and every bound: the types of Share, the       *)
(* truth of what the user is told (RightCapture, ExternalTruth, OwnVerdict), *)
(* and that every step of the service and its providers is a step of        *)
(* ShareJobs.                                                              *)
(*                                                                         *)
(* The jobs change in five ways only (JobsStep), whatever action is taken;   *)
(* what is about the jobs alone is proved of those five, and the actions    *)
(* are opened once per subject: jobs, destinations, and the add-on.         *)
(***************************************************************************)
EXTENDS Share, TLAPS

\* A job of the log, and a message of the program.
JobRecord == [place : Places, confirmed : BOOLEAN, outcome : Outcomes \cup {"running"}]
Message == [type : {"progress"}, job : Nat \ {0}, what : {"preparing", "transferring"}]
             \cup [type : {"result"}, job : Nat \ {0}, what : Verdicts]

\* The last job is the running one exactly while the service is busy, and the
\* history remembers what would need a confirmation.
Journal ==
  /\ Busy => Active > 0 /\ Job.outcome = "running"
  /\ ~Busy /\ Active > 0 => Job.outcome # "running"
  /\ \A at \in Places : Promise!MayHaveArrived(at) => history[at] \in {"sent", "unconfirmed"}

\* The add-on holds the job it was given for as long as the service waits for it.
Holder == Runs("external") => ext.here /\ ext.job = Active

\* A query under way at the add-on is about the capture that is open.
Asked ==
  session.pending /\ session.provider = "external" /\ ext.asked # "none"
    => ext.asked = session.capture

\* The host and the built-in provider hold started jobs only.
Held == ext.job <= Active /\ builtin <= Active

\* So does the program, and so do its messages.
PeerType == [job : 0..MaxJobs, stop : BOOLEAN, said : 0..MaxReports, over : BOOLEAN]
Known ==
  /\ toHost \in Seq(Message) /\ Len(toHost) <= MaxPipe
  /\ peer \in PeerType /\ peer.job <= Active /\ (~peer.over => peer.job # 0)
  /\ arrived \subseteq 1..Active
  /\ \A k \in 1..Len(toHost) : toHost[k].job <= Active

\* Job i did not arrive and will not: the program does not work on it any more.
Settled(i) == i \notin arrived /\ (peer.job = i => peer.over)

\* A verdict is true when it is said, and stays so, on the way and in the log.
TrueWord(m) ==
  m.type = "result" =>
    /\ m.what = "sent" => m.job \in arrived
    /\ m.what = "failed" => Settled(m.job)

TrueMessages == \A k \in 1..Len(toHost) : TrueWord(toHost[k])

TrueEnd(i) ==
  jobs[i].place[2] = "external" =>
    /\ jobs[i].outcome \in {"sent", "handed_off"} => i \in arrived
    /\ jobs[i].outcome = "failed" => Settled(i)

TrueLog == \A i \in 1..Active : TrueEnd(i)

IInv ==
  /\ TypeOK /\ Journal /\ Holder /\ Held /\ RightCapture /\ Asked
  /\ Known /\ TrueMessages /\ TrueLog

-----------------------------------------------------------------------------
(* The ways in which jobs change.                                          *)

Quiet == UNCHANGED <<phase, jobs, history>>

Browses ==
  ~Busy /\ phase' \in {"idle", "choosing"} /\ UNCHANGED <<jobs, history>>

Moves ==
  Busy /\ phase' \in {"preparing", "transferring"} /\ UNCHANGED <<jobs, history>>

Ended(o) ==
  /\ Busy
  /\ jobs' = [jobs EXCEPT ![Active].outcome = o]
  /\ history' = [history EXCEPT ![Job.place] = o]
  /\ phase' = "finished"

\* A new job; the add-on takes it, or refuses it untouched.
Given(p, confirmed) ==
  /\ MayShare(p, confirmed) /\ session.capture \in Captures
  /\ \/ /\ Begins(p, confirmed)
        /\ p = "external" => ext'.here /\ ext'.job = Active + 1
     \/ \E o \in Outcomes :
          /\ BeginsAndEnds(p, confirmed, o)
          /\ p = "external" => o \in {"failed", "unconfirmed"} /\ UNCHANGED <<peer, arrived>>

\* The provider of the running job lets go of it.
LetsGo ==
  \/ Runs("external") /\ ext.job = Active /\ ext'.job = 0
  \/ Runs("builtin") /\ builtin = Active /\ builtin' = 0

\* What the add-on says of the running job.
Spoken(o) ==
  /\ toHost # <<>> /\ Head(toHost).type = "result"
  /\ Head(toHost).job = Active /\ Head(toHost).what \in Verdicts
  /\ o = Head(toHost).what \/ (o = "handed_off" /\ Head(toHost).what = "sent")

\* The service ends a job itself as unconfirmed or cancelled only.
Ends ==
  \/ Ended("unconfirmed") \/ Ended("cancelled")
  \/ LetsGo /\ \E o \in Outcomes : Ended(o) /\ (Runs("external") => Spoken(o))

JobsStep ==
  \/ Quiet \/ Browses \/ Moves \/ Ends
  \/ \E p \in Providers, confirmed \in BOOLEAN : Given(p, confirmed)

-----------------------------------------------------------------------------
\* finishActive ends the job that runs, or changes nothing.
LEMMA Finishing ==
  ASSUME NEW o \in Outcomes, FinishActive(o) PROVE Quiet \/ Ended(o)
  BY DEF FinishActive, Quiet, Ended

\* onJobFinished ends the running job of that provider with its verdict, or nothing.
LEMMA Answering ==
  ASSUME NEW p, NEW j, NEW v \in Verdicts, OnJobFinished(p, j, v)
  PROVE \/ Quiet
        \/ /\ Runs(p) /\ j = Active
           /\ \E o \in Outcomes :
                /\ Ended(o)
                /\ o = v \/ (o = "handed_off" /\ v = "sent")
  BY DEF OnJobFinished, FinishActive, Quiet, Ended, Verdicts, Outcomes, Runs

\* onJobProgress moves the running job between preparing and transferring only.
LEMMA Progressing ==
  ASSUME NEW p, NEW j, NEW t, OnJobProgress(p, j, t), TypeOK PROVE Quiet \/ Moves
  BY DEF OnJobProgress, Quiet, Moves, Runs

\* The loss of the program leaves the job unconfirmed, never failed.
LEMMA Losing ==
  ASSUME LoseExternal, Holder PROVE Quiet \/ Ended("unconfirmed")
  BY DEF LoseExternal, Holder, Runs, FinishActive, Quiet, Ended

\* Cancelling at the add-on ends the job as the service decides, or as a loss.
LEMMA CancellingExternal ==
  ASSUME NEW end \in {"none", "cancelled", "unconfirmed"}, CancelExternal(end), Holder
  PROVE Quiet \/ Ended("unconfirmed") \/ Ended("cancelled")
<1> USE Losing DEF FinishActive, Quiet, Ended
<1>1. PICK wrote \in Wrote :
        IF ext.job # Active \/ ext.cancelSent
        THEN IF end = "none" THEN UNCHANGED <<phase, jobs, history>> ELSE FinishActive(end)
        ELSE IF wrote = "broken" THEN LoseExternal
        ELSE IF end = "none" THEN UNCHANGED <<phase, jobs, history>> ELSE FinishActive(end)
  BY DEF CancelExternal
<1> QED BY <1>1

\* The built-in provider has the last word, or the service has.
LEMMA CancellingBuiltin ==
  ASSUME NEW end \in {"none", "cancelled", "unconfirmed"}, CancelBuiltin(end)
  PROVE Quiet \/ Ends
<1>1. ASSUME NEW v \in Verdicts, OnJobFinished("builtin", builtin, v), builtin' = 0
      PROVE Quiet \/ Ends
  BY <1>1, Answering DEF Ends, LetsGo, Runs
<1>2. CASE IF end = "none" THEN UNCHANGED <<phase, jobs, history>> ELSE FinishActive(end)
  BY <1>2 DEF FinishActive, Quiet, Ended, Ends
<1> QED BY <1>1, <1>2 DEF CancelBuiltin

\* Whatever happens, the jobs change in one of the five ways.
LEMMA EveryStep == ASSUME IInv, [Next]_vars PROVE JobsStep
<1>0. TypeOK /\ Holder
  BY DEF IInv
<1>a. ASSUME NEW p \in Providers, NEW c \in BOOLEAN, MayShare(p, c) PROVE session.capture \in Captures
  BY <1>0, <1>a DEF MayShare, TypeOK, ServiceTypeOK
<1>1. CASE UserOpens \/ UserCloses
  BY <1>1 DEF UserOpens, UserCloses, Open, Close, Busy, Browses, JobsStep
<1>2. CASE AskExternal \/ AskBuiltin \/ ExternalAnswers \/ PeerActs \/ Registers
  BY <1>2 DEF AskExternal, AskBuiltin, ExternalAnswers, PeerActs, Registers, serviceVars, Quiet, JobsStep
<1>3. CASE ShareExternal
  <2>1. "external" \in Providers /\ NeedsConfirmation("external") \in BOOLEAN
    BY ProvidersAssumption DEF NeedsConfirmation
  <2> DEFINE c == NeedsConfirmation("external")
  <2>2. MayShare("external", c) /\ session.capture \in Captures
    BY <1>3, <1>a, <2>1 DEF ShareExternal, UserShares
  <2>3. \/ BeginsAndEnds("external", c, "failed") /\ UNCHANGED <<peer, arrived>>
        \/ BeginsAndEnds("external", c, "unconfirmed") /\ UNCHANGED <<peer, arrived>>
        \/ Begins("external", c) /\ ext'.here /\ ext'.job = Active + 1
    BY <1>0, <1>3 DEF ShareExternal, extVars, Released, TypeOK
  <2> HIDE DEF c
  <2>4. Given("external", c)
    BY <2>2, <2>3 DEF Given, Outcomes
  <2>5. c \in BOOLEAN
    BY <2>1 DEF c
  <2> QED BY <2>1, <2>4, <2>5 DEF JobsStep
<1>4. CASE ShareBuiltin
  <2>1. "builtin" \in Providers /\ NeedsConfirmation("builtin") \in BOOLEAN
    BY ProvidersAssumption DEF NeedsConfirmation
  <2> QED BY <1>4, <1>a, <2>1 DEF ShareBuiltin, UserShares, Given, Verdicts, Outcomes, JobsStep
<1>5. CASE UserCancels
  <2>1. PICK end \in {"none", "cancelled", "unconfirmed"} : CancelExternal(end) \/ CancelBuiltin(end)
    BY <1>5 DEF UserCancels
  <2> QED BY <1>0, <2>1, CancellingExternal, CancellingBuiltin DEF Ends, JobsStep
<1>6. CASE Watchdog
  <2>1. CancelExternal("unconfirmed") \/ CancelBuiltin("unconfirmed")
    BY <1>6 DEF Watchdog
  <2> QED BY <1>0, <2>1, CancellingExternal, CancellingBuiltin DEF Ends, JobsStep
<1>7. CASE Disconnects
  BY <1>0, <1>7, Losing DEF Disconnects, Ends, JobsStep
<1>8. CASE HostReads
  <2>1. CASE LoseExternal
    BY <1>0, <2>1, Losing DEF Ends, JobsStep
  <2>2. CASE UNCHANGED serviceVars
    BY <2>2 DEF serviceVars, Quiet, JobsStep
  <2>3. ASSUME NEW t, OnJobProgress("external", ext.job, t) PROVE JobsStep
    BY <1>0, <2>3, Progressing DEF JobsStep
  <2>4. ASSUME Head(toHost).type # "progress", toHost # <<>>,
               OnJobFinished("external", ext.job, Head(toHost).what), ext'.job = 0,
               Head(toHost).job = ext.job
        PROVE JobsStep
    <3>1. toHost \in Seq(Message)
      BY DEF IInv, Known
    <3>2. Head(toHost) \in Message
      BY <2>4, <3>1
    <3>3. Head(toHost).what \in Verdicts /\ Head(toHost).type = "result"
      BY <2>4, <3>2 DEF Message
    <3> QED BY <2>4, <3>3, Answering DEF Ends, LetsGo, Spoken, JobsStep
  <2>5. ext \in [here : BOOLEAN, job : 0..MaxJobs, cancelSent : BOOLEAN,
                 asked : Captures \cup {"none"}, violations : 0..(MaxViolations - 1)]
    BY <1>0 DEF TypeOK
  <2> QED BY <1>8, <2>1, <2>2, <2>3, <2>4, <2>5 DEF HostReads, MatchesActiveJob
<1>9. CASE BuiltinEnds
  <2>1. PICK v \in Verdicts : OnJobFinished("builtin", builtin, v) /\ builtin' = 0
    BY <1>9 DEF BuiltinEnds
  <2> QED BY <2>1, Answering DEF Ends, LetsGo, Runs, JobsStep
<1>10. CASE BuiltinReports
  BY <1>0, <1>10, Progressing DEF BuiltinReports, JobsStep
<1>11. CASE UNCHANGED vars
  BY <1>11 DEF vars, serviceVars, Quiet, JobsStep
<1> QED BY <1>1, <1>2, <1>3, <1>4, <1>5, <1>6, <1>7, <1>8, <1>9, <1>10, <1>11 DEF Next

-----------------------------------------------------------------------------
(* What is about the jobs alone.                                           *)

\* Places and capabilities, and what a busy service has.
LEMMA Facts ==
  ASSUME TypeOK, Journal
  PROVE /\ jobs \in Seq(JobRecord) /\ Active \in Nat /\ Active <= MaxJobs
        /\ history \in [Places -> Outcomes \cup {"none"}]
        /\ Busy => Active \in 1..Len(jobs) /\ Job \in JobRecord
<1>1. jobs \in Seq(JobRecord) /\ Len(jobs) <= MaxJobs /\ history \in [Places -> Outcomes \cup {"none"}]
  BY DEF TypeOK, ServiceTypeOK, JobRecord
<1>2. Busy => Len(jobs) \in 1..Len(jobs)
  BY <1>1 DEF Journal, Active
<1>3. Busy => jobs[Len(jobs)] \in JobRecord
  BY <1>1, <1>2
<1> QED BY <1>1, <1>2, <1>3 DEF Active, Job

\* The shape of the log after a step: jobs keep their place, and only the last one
\* of a busy service, or a new one, changes at all.
LEMMA LogGrows ==
  ASSUME TypeOK, Journal, JobsStep
  PROVE /\ jobs' \in Seq(JobRecord) /\ Active' \in Nat /\ Active <= Active' /\ Active' <= MaxJobs
        /\ history' \in [Places -> Outcomes \cup {"none"}]
        /\ phase' \in {"idle", "choosing", "preparing", "transferring", "finished"}
        /\ \A i \in 1..Active : jobs'[i].place = jobs[i].place
        /\ \A i \in 1..Active : ~Busy \/ i # Active => jobs'[i] = jobs[i]
<1>0. /\ jobs \in Seq(JobRecord) /\ Active \in Nat /\ Active <= MaxJobs
      /\ history \in [Places -> Outcomes \cup {"none"}]
      /\ phase \in {"idle", "choosing", "preparing", "transferring", "finished"}
      /\ Busy => Active \in 1..Len(jobs) /\ Job \in JobRecord
  BY Facts DEF TypeOK, ServiceTypeOK
<1>1. CASE Quiet \/ Browses \/ Moves
  BY <1>0, <1>1 DEF Quiet, Browses, Moves, Active
<1>2. ASSUME NEW o \in Outcomes, Ended(o) PROVE
        /\ jobs' \in Seq(JobRecord) /\ Len(jobs') = Len(jobs)
        /\ history' \in [Places -> Outcomes \cup {"none"}] /\ phase' = "finished"
        /\ \A i \in 1..Len(jobs) : jobs'[i].place = jobs[i].place
        /\ \A i \in 1..Len(jobs) : i # Active => jobs'[i] = jobs[i]
  BY <1>0, <1>2 DEF Ended, Active, Job, JobRecord
<1>3. CASE Ends
  <2>1. PICK o \in Outcomes : Ended(o)
    BY <1>3 DEF Ends, Outcomes
  <2>2. Busy
    BY <2>1 DEF Ended
  <2> QED BY <1>0, <1>2, <2>1, <2>2 DEF Active
<1>4. ASSUME NEW p \in Providers, NEW c \in BOOLEAN, Given(p, c) PROVE
        \E o \in Outcomes \cup {"running"} :
          /\ NewJob(p, c, o) \in JobRecord /\ jobs' = Append(jobs, NewJob(p, c, o))
          /\ Len(jobs) < MaxJobs /\ phase' \in {"preparing", "finished"}
          /\ history' \in [Places -> Outcomes \cup {"none"}]
  BY <1>0, <1>4 DEF Given, MayShare, Begins, BeginsAndEnds, NewJob, JobRecord, Places
<1>5. CASE \E p \in Providers, c \in BOOLEAN : Given(p, c)
  <2>1. PICK o \in Outcomes \cup {"running"}, p \in Providers, c \in BOOLEAN :
          /\ NewJob(p, c, o) \in JobRecord /\ jobs' = Append(jobs, NewJob(p, c, o))
          /\ Len(jobs) < MaxJobs /\ phase' \in {"preparing", "finished"}
          /\ history' \in [Places -> Outcomes \cup {"none"}]
    BY <1>4, <1>5
  <2> QED BY <1>0, <2>1, ShareServiceAssumption DEF Active
<1> QED BY <1>1, <1>3, <1>5 DEF JobsStep

\* A job ends once, and the history keeps up with the log.
LEMMA JournalKept == ASSUME TypeOK, Journal, JobsStep PROVE Journal'
<1>0. /\ jobs \in Seq(JobRecord) /\ Active \in Nat
      /\ history \in [Places -> Outcomes \cup {"none"}]
      /\ Busy => Active \in 1..Len(jobs) /\ Job \in JobRecord
  BY Facts
<1> USE DEF Promise!MayHaveArrived
<1>1. CASE Quiet \/ Browses \/ Moves
  BY <1>1 DEF Quiet, Browses, Moves, Journal, Busy, Active, Job
<1>2. CASE Ends
  <2>1. PICK o \in Outcomes : Ended(o)
    BY <1>2 DEF Ends, Outcomes
  <2>2. /\ Len(jobs') = Len(jobs) /\ Len(jobs) \in 1..Len(jobs)
        /\ jobs'[Len(jobs)] = [jobs[Len(jobs)] EXCEPT !.outcome = o]
        /\ \A i \in 1..Len(jobs) : i # Len(jobs) => jobs'[i] = jobs[i]
    BY <1>0, <2>1 DEF Ended, Active
  <2>3. jobs'[Len(jobs)].outcome = o /\ jobs'[Len(jobs)].place = Job.place /\ Job.place \in Places
    BY <1>0, <2>1, <2>2 DEF Active, Job, JobRecord, Ended
  <2>4. ~Busy' /\ Job'.outcome # "running"
    BY <2>1, <2>2, <2>3 DEF Ended, Busy, Active, Job, Outcomes
  <2>5. ASSUME NEW at \in Places, Promise!MayHaveArrived(at)' PROVE history'[at] \in {"sent", "unconfirmed"}
    <3>1. PICK i \in 1..Len(jobs) :
            /\ jobs'[i].place = at /\ jobs'[i].outcome \in {"sent", "unconfirmed"}
            /\ \A k \in (i + 1)..Len(jobs) : jobs'[k].place # at
      BY <2>2, <2>5
    <3>2. CASE i = Len(jobs)
      BY <1>0, <2>1, <2>3, <3>1, <3>2 DEF Ended, Active, Job
    <3>3. CASE i # Len(jobs)
      <4>0. /\ i \in 1..Len(jobs) /\ Len(jobs) \in (i + 1)..Len(jobs)
            /\ jobs[i].place = at /\ jobs[i].outcome \in {"sent", "unconfirmed"}
        BY <1>0, <2>2, <3>1, <3>3
      <4>a. at # Job.place
        BY <2>3, <3>1, <4>0
      <4>b. \A k \in (i + 1)..Len(jobs) : jobs[k].place # at
        <5> SUFFICES ASSUME NEW k \in (i + 1)..Len(jobs) PROVE jobs[k].place # at
          OBVIOUS
        <5>1. CASE k = Len(jobs)
          BY <4>a, <5>1 DEF Active, Job
        <5>2. CASE k # Len(jobs)
          BY <1>0, <2>2, <3>1, <5>2
        <5> QED BY <5>1, <5>2
      <4>1. at # Job.place /\ Promise!MayHaveArrived(at)
        BY <4>0, <4>a, <4>b
      <4> QED BY <1>0, <2>1, <2>3, <4>1 DEF Journal, Ended
    <3> QED BY <3>2, <3>3
  <2> QED BY <2>4, <2>5 DEF Journal
<1>3. ASSUME NEW p \in Providers, NEW c \in BOOLEAN, Given(p, c) PROVE Journal'
  <2>1. PICK o \in Outcomes \cup {"running"} :
          /\ jobs' = Append(jobs, NewJob(p, c, o)) /\ NewJob(p, c, o) \in JobRecord
          /\ IF o = "running" THEN phase' = "preparing" /\ UNCHANGED history
             ELSE phase' = "finished" /\ history' = [history EXCEPT ![<<session.capture, p>>] = o]
    BY <1>3 DEF Given, Begins, BeginsAndEnds, NewJob, JobRecord, Places, Outcomes
  <2>2. /\ Len(jobs') = Len(jobs) + 1 /\ jobs'[Len(jobs) + 1] = NewJob(p, c, o)
        /\ \A i \in 1..Len(jobs) : jobs'[i] = jobs[i]
    BY <1>0, <2>1
  <2>3. /\ Busy' <=> Job'.outcome = "running"
        /\ Active' > 0
    BY <1>0, <2>1, <2>2 DEF Busy, Active, Job, NewJob, Outcomes
  <2>4. ASSUME NEW at \in Places, Promise!MayHaveArrived(at)' PROVE history'[at] \in {"sent", "unconfirmed"}
    <3>1. PICK i \in 1..(Len(jobs) + 1) :
            /\ jobs'[i].place = at /\ jobs'[i].outcome \in {"sent", "unconfirmed"}
            /\ \A k \in (i + 1)..(Len(jobs) + 1) : jobs'[k].place # at
      BY <2>2, <2>4
    <3>2. NewJob(p, c, o).place = <<session.capture, p>> /\ NewJob(p, c, o).outcome = o
      BY DEF NewJob
    <3>3. CASE i = Len(jobs) + 1
      BY <1>0, <2>1, <2>2, <3>1, <3>2, <3>3
    <3>4. CASE i # Len(jobs) + 1
      <4>0. /\ i \in 1..Len(jobs) /\ Len(jobs) + 1 \in (i + 1)..(Len(jobs) + 1)
            /\ jobs[i].place = at /\ jobs[i].outcome \in {"sent", "unconfirmed"}
        BY <1>0, <2>2, <3>1, <3>4
      <4>a. at # <<session.capture, p>>
        BY <2>2, <3>1, <3>2, <4>0
      <4>b. \A k \in (i + 1)..Len(jobs) : jobs[k].place # at
        BY <1>0, <2>2, <3>1, <4>0
      <4>1. at # <<session.capture, p>> /\ Promise!MayHaveArrived(at)
        BY <4>0, <4>a, <4>b
      <4> QED BY <1>0, <2>1, <4>1 DEF Journal
    <3> QED BY <3>3, <3>4
  <2> QED BY <2>3, <2>4 DEF Journal
<1> QED BY <1>1, <1>2, <1>3 DEF JobsStep

\* Every step is a step of ShareJobs, or none.
LEMMA StepMaps == ASSUME TypeOK, Journal, JobsStep PROVE [Promise!Next]_jobs
<1>0. /\ jobs \in Seq(JobRecord) /\ Active \in Nat
      /\ Busy => Active \in 1..Len(jobs) /\ Job \in JobRecord
  BY Facts
<1>1. CASE Quiet \/ Browses \/ Moves
  BY <1>1 DEF Quiet, Browses, Moves
<1>2. CASE Ends
  <2>1. PICK o \in Outcomes : Ended(o)
    BY <1>2 DEF Ends, Outcomes
  <2>2. Promise!Running
    BY <2>1 DEF Ended, Journal, Promise!Running, Active, Job
  <2> QED BY <2>1, <2>2 DEF Ended, Active, Promise!Next, Promise!End
<1>3. ASSUME NEW p \in Providers, NEW c \in BOOLEAN, Given(p, c) PROVE Promise!Next
  <2>1. PICK o \in Outcomes \cup {"running"} : jobs' = Append(jobs, NewJob(p, c, o))
    BY <1>3 DEF Given, Begins, BeginsAndEnds
  <2>2. NewJob(p, c, o) \in Promise!Job
    BY <1>3 DEF NewJob, Promise!Job, Given, Places
  <2>3. ~Promise!Running /\ Len(jobs) < MaxJobs
    BY <1>0, <1>3 DEF Given, MayShare, Journal, Promise!Running, Active, Job
  <2>4. c \/ ~Promise!MayHaveArrived(<<session.capture, p>>)
    BY <1>3 DEF Given, MayShare, NeedsConfirmation, Journal, Places
  <2>5. NewJob(p, c, o).confirmed = c /\ NewJob(p, c, o).place = <<session.capture, p>>
    BY DEF NewJob
  <2> QED BY <2>1, <2>2, <2>3, <2>4, <2>5 DEF Promise!Next, Promise!Begin
<1> QED BY <1>1, <1>2, <1>3 DEF JobsStep

-----------------------------------------------------------------------------
(* Destinations: what the session and the query at the add-on agree on.     *)

ExtType == [here : BOOLEAN, job : 0..MaxJobs, cancelSent : BOOLEAN,
            asked : Captures \cup {"none"}, violations : 0..(MaxViolations - 1)]
SessionType == [capture : Captures \cup {"none"}, provider : Providers \cup {"none"},
                pending : BOOLEAN, listed : Captures \cup {"none"}]

Destinations == session \in SessionType /\ RightCapture /\ Asked

\* The loss of the program answers its query with an empty list.
LEMMA LosingKeepsDestinations ==
  ASSUME Destinations, ext \in ExtType, LoseExternal PROVE Destinations' /\ ext' \in ExtType
<1> USE ExternalAssumption, ShareServiceAssumption DEF SessionType
<1>1. ext' \in ExtType /\ ext'.asked = "none"
  BY DEF LoseExternal, Released, Away, ExtType
<1>2. session' \in SessionType
  BY DEF LoseExternal, OnTargetsReady, Destinations
<1>3. session'.listed # "none" => session' = session
  BY DEF LoseExternal, OnTargetsReady, Destinations
<1> QED BY <1>1, <1>2, <1>3 DEF Destinations, RightCapture, Asked

\* A cancellation touches the destinations only through a loss.
LEMMA CancellingKeepsDestinations ==
  ASSUME NEW end, Destinations, ext \in ExtType, CancelExternal(end)
  PROVE Destinations' /\ ext' \in ExtType
<1>1. CASE LoseExternal
  BY <1>1, LosingKeepsDestinations
<1>2. CASE UNCHANGED session /\ (UNCHANGED ext \/ ext' = [ext EXCEPT !.cancelSent = TRUE])
  <2>1. ext' \in ExtType /\ ext'.asked = ext.asked
    BY <1>2 DEF ExtType
  <2> QED BY <1>2, <2>1 DEF Destinations, RightCapture, Asked
<1> QED BY <1>1, <1>2 DEF CancelExternal, extVars

\* The destinations on display are those of the capture that is open.
LEMMA DestinationsKept ==
  ASSUME Destinations, ext \in ExtType, Active \in Nat, [Next]_vars
  PROVE Destinations' /\ ext' \in ExtType
<1> USE DEF Destinations
<1>1. CASE UserOpens \/ UserCloses
  <2>1. CASE UserOpens
    BY <1>1, <2>1 DEF UserOpens, Open, Closed, extVars, SessionType, RightCapture, Asked
  <2>2. CASE UserCloses
    BY <1>1, <2>2 DEF UserCloses, Close, Closed, extVars, SessionType, RightCapture, Asked
  <2> QED BY <1>1, <2>1, <2>2
<1>2. CASE AskExternal
  <2>1. ext' \in ExtType
    BY <1>2 DEF AskExternal, ExtType, SessionType
  <2>2. session' \in SessionType /\ session'.listed = "none"
    BY <1>2, ProvidersAssumption DEF AskExternal, Asks, SessionType
  <2>3. Asked'
    BY <1>2 DEF AskExternal, Asks, SessionType, ExtType, Asked
  <2> QED BY <2>1, <2>2, <2>3 DEF RightCapture
<1>3. CASE AskBuiltin
  BY <1>3, ProvidersAssumption DEF AskBuiltin, extVars, SessionType, RightCapture, Asked
<1>4. CASE ShareExternal
  <2>0. Active + 1 \in 0..MaxJobs
    BY <1>4, ShareServiceAssumption DEF ShareExternal, UserShares, MayShare, Active
  <2>a. /\ UNCHANGED session
        /\ \/ UNCHANGED ext
           \/ ext' = [ext EXCEPT !.job = Active + 1, !.cancelSent = FALSE]
           \/ ext' = Away
    BY <1>4 DEF ShareExternal, Released, extVars
  <2>1. ext' \in ExtType /\ UNCHANGED session /\ (ext'.asked = ext.asked \/ ext'.asked = "none")
    <3>1. Away \in ExtType /\ Away.asked = "none"
      BY ExternalAssumption, ShareServiceAssumption DEF Away, ExtType
    <3>2. ASSUME ext' = [ext EXCEPT !.job = Active + 1, !.cancelSent = FALSE]
          PROVE ext' \in ExtType /\ ext'.asked = ext.asked
      BY <2>0, <3>2 DEF ExtType
    <3> QED BY <2>a, <3>1, <3>2
  <2> QED BY <2>1 DEF RightCapture, Asked
<1>5. CASE ShareBuiltin \/ BuiltinEnds \/ BuiltinReports \/ PeerActs \/ UNCHANGED vars
  <2>1. UNCHANGED <<session, ext>>
    BY <1>5 DEF ShareBuiltin, BuiltinEnds, BuiltinReports, PeerActs, PeerDelivers, PeerReports,
                PeerConcludes, vars, serviceVars, extVars
  <2> QED BY <2>1 DEF RightCapture, Asked
<1>6. CASE UserCancels \/ Watchdog
  <2>1. (\E end : CancelExternal(end)) \/ UNCHANGED <<session, ext>>
    BY <1>6 DEF UserCancels, Watchdog, CancelBuiltin, extVars
  <2>2. CASE UNCHANGED <<session, ext>>
    BY <2>2 DEF RightCapture, Asked
  <2> QED BY <2>1, <2>2, CancellingKeepsDestinations
<1>7. CASE Disconnects
  BY <1>7, LosingKeepsDestinations DEF Disconnects
<1>8. CASE Registers
  <2>1. UNCHANGED session /\ ext' \in ExtType /\ ext'.asked = "none"
    <3>1. UNCHANGED session /\ ext' = [Away EXCEPT !.here = TRUE]
      BY <1>8 DEF Registers, serviceVars
    <3>2. Away \in ExtType /\ Away.asked = "none"
      BY ExternalAssumption, ShareServiceAssumption DEF Away, ExtType
    <3>3. [Away EXCEPT !.here = TRUE] \in ExtType /\ [Away EXCEPT !.here = TRUE].asked = "none"
      BY <3>2 DEF ExtType
    <3> QED BY <3>1, <3>3
  <2> QED BY <2>1 DEF RightCapture, Asked
<1>9. CASE HostReads
  <2>1. CASE LoseExternal
    BY <2>1, LosingKeepsDestinations
  <2>2. CASE UNCHANGED session /\ ext' \in ExtType /\ ext'.asked = ext.asked
    BY <2>2 DEF RightCapture, Asked
  <2>3. LoseExternal \/ (UNCHANGED session /\ ext' \in ExtType /\ ext'.asked = ext.asked)
    <3>1. \/ LoseExternal
          \/ /\ UNCHANGED session
             /\ \/ UNCHANGED ext
                \/ ext' = [ext EXCEPT !.job = 0, !.cancelSent = FALSE]
                \/ Tolerated /\ ext' = [ext EXCEPT !.violations = @ + 1]
      BY <1>9 DEF HostReads, serviceVars
    <3>2. ASSUME Tolerated, ext' = [ext EXCEPT !.violations = @ + 1]
          PROVE ext' \in ExtType /\ ext'.asked = ext.asked
      BY <3>2, ExternalAssumption DEF Tolerated, ExtType
    <3>3. ASSUME ext' = [ext EXCEPT !.job = 0, !.cancelSent = FALSE]
          PROVE ext' \in ExtType /\ ext'.asked = ext.asked
      <4>1. 0 \in 0..MaxJobs
        BY ShareServiceAssumption
      <4> QED BY <3>3, <4>1 DEF ExtType
    <3> QED BY <3>1, <3>2, <3>3
  <2> QED BY <2>1, <2>2, <2>3
<1>10. CASE ExternalAnswers
  <2>1. PICK found \in BOOLEAN : OnTargetsReady("external", ext.asked, found)
    BY <1>10 DEF ExternalAnswers
  <2>2. ext' \in ExtType /\ ext'.asked = "none"
    BY <1>10 DEF ExternalAnswers, ExtType
  <2>3. session' \in SessionType /\ session'.capture = session.capture
    BY <1>10, <2>1 DEF ExternalAnswers, OnTargetsReady, SessionType, ExtType
  <2>4. RightCapture'
    BY <1>10, <2>1 DEF ExternalAnswers, OnTargetsReady, SessionType, RightCapture, Asked
  <2> QED BY <2>2, <2>3, <2>4 DEF Asked
<1> QED BY <1>1, <1>2, <1>3, <1>4, <1>5, <1>6, <1>7, <1>8, <1>9, <1>10 DEF Next

-----------------------------------------------------------------------------
(* The program and what it says.                                           *)

\* The pipe, the program and what arrived, in one step.
PipeStep ==
  \/ UNCHANGED <<toHost, peer, arrived>>
  \/ toHost # <<>> /\ toHost' = Tail(toHost) /\ UNCHANGED <<peer, arrived>>
  \/ toHost' = <<>> /\ UNCHANGED <<peer, arrived>>
  \/ \E b \in BOOLEAN : peer' = [peer EXCEPT !.stop = b] /\ UNCHANGED <<toHost, arrived>>
  \/ PeerStarts(Active + 1) /\ Active' = Active + 1 /\ UNCHANGED <<toHost, arrived>>
  \/ PeerDelivers \/ PeerReports \/ PeerConcludes

\* What arrived stays there, and what is settled stays settled.
Stands == \A i \in 1..Active : /\ i \in arrived => i \in arrived'
                               /\ Settled(i) => Settled(i)'

\* A verdict that agrees with the state it is said in stays true.
LEMMA ProgramKept ==
  ASSUME Known, TrueMessages, PipeStep,
         Active \in Nat, Active' \in Nat, Active <= Active', Active' <= MaxJobs
  PROVE Known' /\ TrueMessages' /\ Stands
<1>0. /\ toHost \in Seq(Message) /\ Len(toHost) <= MaxPipe
      /\ peer \in PeerType /\ peer.job <= Active /\ (~peer.over => peer.job # 0)
      /\ arrived \subseteq 1..Active
      /\ \A k \in 1..Len(toHost) : toHost[k].job <= Active /\ TrueWord(toHost[k])
  BY DEF Known, TrueMessages
<1> USE DEF PeerType, Settled
<1>1. ASSUME NEW m \in Message, m.job <= Active, TrueWord(m), Stands PROVE TrueWord(m)'
  <2>1. m.job \in 1..Active
    BY <1>1 DEF Message
  <2> QED BY <1>1, <2>1 DEF TrueWord, Stands
<1>2. ASSUME Stands, peer' \in PeerType, peer'.job <= Active', ~peer'.over => peer'.job # 0,
             arrived' \subseteq 1..Active', toHost' \in Seq(Message), Len(toHost') <= MaxPipe,
             \A k \in 1..Len(toHost') :
               \/ \E j \in 1..Len(toHost) : toHost'[k] = toHost[j]
               \/ toHost'[k] \in Message /\ toHost'[k].job <= Active' /\ TrueWord(toHost[k])'
      PROVE Known' /\ TrueMessages' /\ Stands
  <2>1. ASSUME NEW k \in 1..Len(toHost') PROVE toHost'[k].job <= Active' /\ TrueWord(toHost[k])'
    <3>1. CASE \E j \in 1..Len(toHost) : toHost'[k] = toHost[j]
      <4>1. PICK j \in 1..Len(toHost) : toHost'[k] = toHost[j]
        BY <3>1
      <4>2. toHost[j] \in Message /\ toHost[j].job <= Active /\ TrueWord(toHost[j])
        BY <1>0
      <4>3. \A m \in Message : m.job <= Active /\ TrueWord(m) => TrueWord(m)'
        BY <1>1, <1>2
      <4>4. PICK m \in Message : m = toHost[j]
        BY <4>2
      <4>5. TrueWord(m)' /\ toHost'[k] = m /\ m.job <= Active
        BY <4>1, <4>2, <4>3, <4>4 DEF TrueWord
      <4>6. m.job <= Active'
        BY <4>5 DEF Message
      <4> QED BY <4>5, <4>6 DEF TrueWord
    <3> QED BY <1>2, <2>1, <3>1
  <2> QED BY <1>2, <2>1 DEF Known, TrueMessages
\* One message more, which is about the job the program works on and true.
<1>3. ASSUME NEW m \in Message, m.job = peer.job, TrueWord(m)', Stands, Says(m),
             peer' \in PeerType, peer'.job = peer.job, ~peer'.over => peer'.job # 0, UNCHANGED arrived
      PROVE Known' /\ TrueMessages' /\ Stands
  <2>1. /\ toHost' \in Seq(Message) /\ Len(toHost') = Len(toHost) + 1 /\ Len(toHost') <= MaxPipe
        /\ toHost'[Len(toHost) + 1] = m /\ \A k \in 1..Len(toHost) : toHost'[k] = toHost[k]
    BY <1>0, <1>3, ExternalAssumption DEF Says
  <2>2. ASSUME NEW k \in 1..Len(toHost') PROVE
          \/ \E j \in 1..Len(toHost) : toHost'[k] = toHost[j]
          \/ toHost'[k] \in Message /\ toHost'[k].job <= Active' /\ TrueWord(toHost[k])'
    <3>1. CASE k \in 1..Len(toHost)
      BY <2>1, <3>1
    <3>2. CASE k = Len(toHost) + 1
      <4>1. toHost'[k] = m /\ m.job <= Active'
        BY <1>0, <1>3, <2>1, <3>2
      <4> QED BY <1>3, <4>1 DEF TrueWord
    <3> QED BY <1>0, <2>1, <2>2, <3>1, <3>2
  <2>3. peer'.job <= Active' /\ arrived' \subseteq 1..Active'
    BY <1>0, <1>3
  <2> QED BY <1>2, <1>3, <2>1, <2>2, <2>3
<1>4. ASSUME UNCHANGED <<peer, arrived>>,
             \/ toHost' = toHost
             \/ toHost' = <<>>
             \/ (toHost # <<>> /\ toHost' = Tail(toHost))
      PROVE Known' /\ TrueMessages' /\ Stands
  <2>1. Stands /\ peer' \in PeerType /\ peer'.job <= Active' /\ (~peer'.over => peer'.job # 0)
        /\ arrived' \subseteq 1..Active'
    BY <1>0, <1>4 DEF Stands
  <2>2. /\ toHost' \in Seq(Message) /\ Len(toHost') <= MaxPipe
        /\ \A k \in 1..Len(toHost') : \E j \in 1..Len(toHost) : toHost'[k] = toHost[j]
    <3>1. CASE toHost' = toHost
      BY <1>0, <3>1
    <3>3. CASE toHost' = <<>>
      BY <3>3, ExternalAssumption
    <3>2. CASE toHost # <<>> /\ toHost' = Tail(toHost)
      <4>1. /\ Len(toHost') = Len(toHost) - 1 /\ Len(toHost) > 0 /\ toHost' \in Seq(Message)
            /\ \A k \in 1..Len(toHost') : toHost'[k] = toHost[k + 1]
        BY <1>0, <3>2
      <4> QED BY <1>0, <4>1, ExternalAssumption
    <3> QED BY <1>4, <3>1, <3>2, <3>3
  <2> QED BY <1>2, <2>1, <2>2
<1>5. ASSUME UNCHANGED toHost, peer' \in PeerType, peer'.job <= Active', ~peer'.over => peer'.job # 0,
             arrived' \subseteq 1..Active', Stands
      PROVE Known' /\ TrueMessages' /\ Stands
  BY <1>0, <1>2, <1>5
<1>6. ASSUME NEW b \in BOOLEAN, peer' = [peer EXCEPT !.stop = b], UNCHANGED <<toHost, arrived>>
      PROVE Known' /\ TrueMessages' /\ Stands
  BY <1>0, <1>5, <1>6 DEF Stands
<1>7. ASSUME PeerStarts(Active + 1), Active' = Active + 1, UNCHANGED <<toHost, arrived>>
      PROVE Known' /\ TrueMessages' /\ Stands
  BY <1>0, <1>5, <1>7, ExternalAssumption DEF PeerStarts, Stands
<1>8. ASSUME PeerDelivers PROVE Known' /\ TrueMessages' /\ Stands
  <2>1. UNCHANGED <<toHost, peer>> /\ ~peer.over /\ arrived' = arrived \cup {peer.job}
    BY <1>8 DEF PeerDelivers
  <2>a. peer.job \in 1..Active
    BY <1>0, <2>1
  <2>2. arrived' \subseteq 1..Active' /\ peer'.job <= Active'
    <3>1. 1..Active \subseteq 1..Active'
      OBVIOUS
    <3>2. arrived \subseteq 1..Active' /\ peer.job \in 1..Active'
      BY <1>0, <2>a, <3>1
    <3>3. arrived' = arrived \cup {peer.job} /\ peer' = peer
      BY <2>1
    <3>4. arrived' \subseteq 1..Active'
      BY <3>2, <3>3
    <3>5. peer'.job <= Active'
      BY <1>0, <3>2, <3>3
    <3> QED BY <3>4, <3>5
  <2>3. Stands
    BY <1>0, <2>1 DEF Stands
  <2> QED BY <1>0, <1>5, <2>1, <2>2, <2>3
<1>9. ASSUME PeerReports PROVE Known' /\ TrueMessages' /\ Stands
  <2>1. PICK state \in {"preparing", "transferring"} :
          Says([type |-> "progress", job |-> peer.job, what |-> state])
    BY <1>9 DEF PeerReports
  <2>a. peer.job \in Nat \ {0}
    BY <1>0, <1>9 DEF PeerReports
  <2>2. PICK m \in Message : m = [type |-> "progress", job |-> peer.job, what |-> state]
    BY <2>a DEF Message
  <2>3. peer' \in PeerType /\ peer'.job = peer.job /\ (~peer'.over => peer'.job # 0) /\ UNCHANGED arrived
        /\ Stands
    BY <1>0, <1>9, <2>1, ExternalAssumption, SMTT(30) DEF PeerReports, Says, Stands
  <2>4. m.job = peer.job /\ Says(m) /\ TrueWord(m)'
    BY <2>1, <2>2 DEF TrueWord
  <2> QED BY <1>3, <2>3, <2>4
<1>10. ASSUME PeerConcludes PROVE Known' /\ TrueMessages' /\ Stands
  <2>1. PICK v \in Verdicts : Truthful(v) /\ Says([type |-> "result", job |-> peer.job, what |-> v])
    BY <1>10 DEF PeerConcludes
  <2>2. PICK m \in Message : m = [type |-> "result", job |-> peer.job, what |-> v]
    BY <1>0, <2>1 DEF Says, Message
  <2>3. /\ peer' = [peer EXCEPT !.said = @ + 1, !.over = TRUE, !.stop = FALSE]
        /\ UNCHANGED arrived /\ peer.said + 1 \in 0..MaxReports
    BY <1>0, <1>10, <2>1, ExternalAssumption DEF PeerConcludes, Says
  <2>4. peer' \in PeerType /\ peer'.job = peer.job /\ peer'.over
    BY <1>0, <2>3
  <2>5. Stands
    BY <1>0, <2>3, <2>4 DEF Stands
  <2>6. m.job = peer.job /\ Says(m) /\ TrueWord(m)'
    BY <2>1, <2>2, <2>3, <2>4 DEF Truthful, TrueWord
  <2> QED BY <1>3, <2>3, <2>4, <2>5, <2>6
<1> QED BY <1>4, <1>6, <1>7, <1>8, <1>9, <1>10 DEF PipeStep

\* What the log says of an ended job is true when it is written, and stays so.
LEMMA LogKept ==
  ASSUME TypeOK, Journal, JobsStep, Known, TrueMessages, TrueLog, Stands PROVE TrueLog'
<1>0. /\ jobs \in Seq(JobRecord) /\ jobs' \in Seq(JobRecord) /\ Active \in Nat /\ Active' \in Nat
      /\ Active <= Active'
      /\ \A i \in 1..Active : jobs'[i].place = jobs[i].place
      /\ \A i \in 1..Active : ~Busy \/ i # Active => jobs'[i] = jobs[i]
  BY Facts, LogGrows
<1>1. ASSUME NEW i \in 1..Active, jobs'[i] = jobs[i] PROVE TrueEnd(i)'
  BY <1>1 DEF TrueLog, TrueEnd, Stands
<1>2. CASE Quiet \/ Browses \/ Moves
  BY <1>1, <1>2 DEF Quiet, Browses, Moves, Active, TrueLog
<1>3. CASE Ends
  <2>1. PICK o \in Outcomes :
          /\ Ended(o)
          /\ o \in {"cancelled", "unconfirmed"} \/ Runs("builtin") \/ Spoken(o)
    BY <1>3 DEF Ends, LetsGo, Outcomes
  <2>2. Active' = Active /\ Active \in 1..Active /\ jobs'[Active].outcome = o
    BY <1>0, <2>1, Facts DEF Ended, Active, JobRecord
  <2>3. jobs'[Active].place = Job.place /\ Busy
    BY <1>0, <2>1, <2>2 DEF Ended, Job
  <2>4. TrueEnd(Active)'
    <3>1. CASE o \in {"cancelled", "unconfirmed"}
      BY <2>2, <3>1 DEF TrueEnd
    <3>2. CASE Runs("builtin")
      BY <2>2, <2>3, <3>2 DEF TrueEnd, Runs
    <3>3. CASE Spoken(o)
      <4>1. TrueWord(Head(toHost)) /\ Head(toHost).type = "result" /\ Head(toHost).job = Active
        BY <3>3 DEF Spoken, Known, TrueMessages
      <4>2. /\ o \in {"sent", "handed_off"} => Active \in arrived
            /\ o = "failed" => Settled(Active)
        BY <3>3, <4>1 DEF Spoken, TrueWord, Verdicts
      <4> QED BY <2>2, <4>2 DEF TrueEnd, Stands
    <3> QED BY <2>1, <3>1, <3>2, <3>3
  <2> QED BY <1>0, <1>1, <2>2, <2>4 DEF TrueLog
<1>4. ASSUME NEW p \in Providers, NEW c \in BOOLEAN, Given(p, c) PROVE TrueLog'
  <2>1. PICK o \in Outcomes \cup {"running"} :
          /\ jobs' = Append(jobs, NewJob(p, c, o))
          /\ p = "external" =>
               o = "running" \/ (o \in {"failed", "unconfirmed"} /\ UNCHANGED <<peer, arrived>>)
    BY <1>4 DEF Given, Begins, BeginsAndEnds
  <2>2. /\ Active' = Active + 1 /\ jobs'[Active + 1] = NewJob(p, c, o)
        /\ \A i \in 1..Active : jobs'[i] = jobs[i]
    BY <1>0, <2>1 DEF Active
  <2>3. NewJob(p, c, o).place[2] = p /\ NewJob(p, c, o).outcome = o
    BY DEF NewJob
  <2>4. Active + 1 \notin arrived /\ peer.job # Active + 1
    BY <1>0 DEF Known, PeerType
  <2>5. ASSUME NEW i \in 1..Active' PROVE TrueEnd(i)'
    <3>1. CASE i \in 1..Active
      BY <1>1, <2>2, <3>1
    <3>2. CASE i = Active + 1
      BY <2>2, <2>3, <2>4, <2>1, <3>2 DEF TrueEnd, Settled
    <3> QED BY <1>0, <2>2, <2>5, <3>1, <3>2
  <2> QED BY <2>5 DEF TrueLog
<1> QED BY <1>2, <1>3, <1>4 DEF JobsStep

-----------------------------------------------------------------------------
(* The provider's side of every action.                                    *)

\* The host may lose its job only when the service does not wait for it any more.
HostStep ==
  /\ (ext'.here = ext.here /\ ext'.job = ext.job) \/ ~Runs("external") \/ phase' = "finished"
  /\ ext'.job \in {0, ext.job, Active'}
  /\ builtin' \in {0, builtin, Active'}

\* After the loss of the program the service waits for nothing from it.
LEMMA LosingProvider ==
  ASSUME LoseExternal PROVE
    /\ PipeStep /\ ext'.job = 0
    /\ ~Runs("external") \/ phase' = "finished"
<1>1. PipeStep /\ ext'.job = 0
  BY DEF LoseExternal, Released, Away, PipeStep
<1>2. ~Runs("external") \/ phase' = "finished"
  BY DEF LoseExternal, FinishActive, Runs
<1> QED BY <1>1, <1>2

\* A cancellation that is written leaves the add-on its job.
LEMMA CancellingProvider ==
  ASSUME NEW end, CancelExternal(end), ext \in ExtType, peer \in PeerType PROVE
    /\ PipeStep /\ ext'.job \in {0, ext.job}
    /\ (ext'.here = ext.here /\ ext'.job = ext.job) \/ ~Runs("external") \/ phase' = "finished"
<1>1. CASE LoseExternal
  BY <1>1, LosingProvider
<1>2. CASE UNCHANGED extVars
  BY <1>2 DEF extVars, PipeStep
<1>3. CASE /\ ext' = [ext EXCEPT !.cancelSent = TRUE]
           /\ UNCHANGED peer \/ PeerStops(Active)
           /\ UNCHANGED <<toHost, arrived>>
  <2>1. ext'.here = ext.here /\ ext'.job = ext.job
    BY <1>3 DEF ExtType
  <2>2. PipeStep
    BY <1>3 DEF PipeStep, PeerStops, PeerType
  <2> QED BY <2>1, <2>2
<1> QED BY <1>1, <1>2, <1>3 DEF CancelExternal

\* Every action is a step of the pipe and keeps the host's side in step with it.
LEMMA EveryProviderStep ==
  ASSUME IInv, [Next]_vars PROVE PipeStep /\ HostStep
<1>0. /\ TypeOK /\ Journal /\ Holder /\ ext \in ExtType /\ peer \in PeerType
      /\ jobs \in Seq(JobRecord) /\ Active \in Nat
  BY Facts DEF IInv, TypeOK, ExtType, PeerType
<1> USE DEF HostStep, PipeStep
<1>1. CASE UserOpens \/ UserCloses \/ AskBuiltin \/ BuiltinEnds \/ BuiltinReports \/ UNCHANGED vars
  BY <1>1 DEF UserOpens, UserCloses, AskBuiltin, BuiltinEnds, BuiltinReports, vars, extVars
<1>2. CASE AskExternal \/ ExternalAnswers
  BY <1>0, <1>2 DEF AskExternal, ExternalAnswers, ExtType
<1>3. CASE ShareExternal
  <2>1. ~Runs("external") /\ UNCHANGED builtin
    BY <1>3 DEF ShareExternal, UserShares, MayShare, Runs
  <2>2. CASE UNCHANGED extVars
    BY <2>1, <2>2 DEF extVars
  <2>3. CASE Released
    BY <2>1, <2>3 DEF Released, Away
  <2>4. CASE /\ \E c : Begins("external", c)
             /\ ext' = [ext EXCEPT !.job = Active + 1, !.cancelSent = FALSE]
             /\ PeerStarts(Active + 1) /\ UNCHANGED <<toHost, arrived>>
    <3>1. Active' = Active + 1
      BY <1>0, <2>4 DEF Begins, Active
    <3>2. ext'.job = Active'
      BY <1>0, <2>4, <3>1 DEF ExtType
    <3> QED BY <2>1, <2>4, <3>1, <3>2
  <2> QED BY <1>3, <2>2, <2>3, <2>4 DEF ShareExternal
<1>4. CASE ShareBuiltin
  <2>1. UNCHANGED extVars
    BY <1>4 DEF ShareBuiltin
  <2>2. builtin' = 0 \/ (builtin' = Active + 1 /\ Active' = Active + 1)
    BY <1>0, <1>4 DEF ShareBuiltin, Begins, Active
  <2> QED BY <2>1, <2>2 DEF extVars
<1>5. CASE UserCancels \/ Watchdog
  <2>1. \/ UNCHANGED builtin /\ \E end : CancelExternal(end)
        \/ UNCHANGED extVars /\ builtin' \in {0, builtin}
    BY <1>5 DEF UserCancels, Watchdog, CancelBuiltin
  <2>2. CASE UNCHANGED builtin /\ \E end : CancelExternal(end)
    BY <1>0, <2>2, CancellingProvider
  <2>3. CASE UNCHANGED extVars /\ builtin' \in {0, builtin}
    BY <2>3 DEF extVars
  <2> QED BY <2>1, <2>2, <2>3
<1>6. CASE PeerActs
  BY <1>6 DEF PeerActs, PeerDelivers, PeerReports, PeerConcludes
<1>7. CASE Disconnects
  BY <1>7, LosingProvider DEF Disconnects
<1>8. CASE Registers
  <2>1. ~Runs("external")
    BY <1>0, <1>8 DEF Registers, Holder
  <2> QED BY <1>8, <2>1 DEF Registers, Away
<1>9. CASE HostReads
  <2>1. CASE LoseExternal
    BY <1>9, <2>1, LosingProvider DEF HostReads
  <2>2. CASE toHost # <<>> /\ toHost' = Tail(toHost) /\ UNCHANGED <<peer, arrived, builtin>>
             /\ ext'.here = ext.here /\ ext'.job = ext.job
    BY <2>2
  <2>3. CASE /\ toHost # <<>> /\ toHost' = Tail(toHost) /\ UNCHANGED <<peer, arrived, builtin>>
             /\ OnJobFinished("external", ext.job, Head(toHost).what)
             /\ ext'.job = 0
    <3>1. ~Runs("external") \/ phase' = "finished"
      BY <1>0, <2>3 DEF Holder, OnJobFinished, FinishActive, Runs
    <3> QED BY <2>3, <3>1
  <2> QED BY <1>0, <1>9, <2>1, <2>2, <2>3 DEF HostReads, ExtType
<1> QED BY <1>1, <1>2, <1>3, <1>4, <1>5, <1>6, <1>7, <1>8, <1>9 DEF Next

\* The add-on holds the running job until the service stops waiting for it.
LEMMA HolderKept ==
  ASSUME IInv, JobsStep, HostStep, ext' \in ExtType PROVE Holder' /\ Held'
<1>0. /\ jobs \in Seq(JobRecord) /\ Active \in Nat /\ Active' \in Nat /\ Active <= Active'
      /\ Holder /\ Held /\ ext.job \in Nat /\ builtin \in Nat
  BY Facts, LogGrows DEF IInv, TypeOK
<1>1. Held'
  BY <1>0 DEF Held, HostStep
<1>2. ASSUME Runs("external")' PROVE ext'.here /\ ext'.job = Active'
  <2>1. CASE Quiet \/ Browses \/ Moves
    BY <1>0, <1>2, <2>1 DEF Quiet, Browses, Moves, Runs, Busy, Active, Job, Holder, HostStep
  <2>2. CASE Ends
    BY <1>2, <2>2 DEF Ends, Ended, Runs, Busy
  <2>3. ASSUME NEW p \in Providers, NEW c \in BOOLEAN, Given(p, c)
        PROVE ext'.here /\ ext'.job = Active'
    <3>1. Begins(p, c) /\ (p = "external" => ext'.here /\ ext'.job = Active + 1)
      BY <1>2, <2>3 DEF Given, BeginsAndEnds, Runs, Busy
    <3>2. Active' = Active + 1 /\ Job' = NewJob(p, c, "running")
      BY <1>0, <3>1 DEF Begins, Active, Job
    <3>3. NewJob(p, c, "running").place[2] = p
      BY DEF NewJob
    <3> QED BY <1>2, <3>1, <3>2, <3>3 DEF Runs
  <2> QED BY <2>1, <2>2, <2>3 DEF JobsStep
<1> QED BY <1>1, <1>2 DEF Holder

-----------------------------------------------------------------------------
(* The theorems.                                                           *)

\* The program starts with nothing to share and nobody to tell about it.
LEMMA Initially == Init => IInv
<1> SUFFICES ASSUME Init PROVE IInv
  OBVIOUS
<1> USE ShareServiceAssumption, ExternalAssumption
    DEF Init, ServiceInit, ExternalInit, Away, Asleep, Closed
<1>1. TypeOK
  <2>1. ServiceTypeOK
    BY DEF ServiceTypeOK
  <2>2. ext \in ExtType
    <3>1. Away \in ExtType
      BY DEF ExtType
    <3>2. [Away EXCEPT !.here = TRUE] \in ExtType
      BY <3>1 DEF ExtType
    <3> QED BY <3>2
  <2>3. peer \in PeerType
    BY DEF PeerType
  <2> QED BY <2>3, <2>1, <2>2 DEF TypeOK, ExtType, PeerType
<1>2. Journal /\ Holder /\ Held
  BY DEF Journal, Holder, Held, Runs, Busy, Active, Promise!MayHaveArrived
<1>3. RightCapture /\ Asked /\ TrueMessages /\ TrueLog
  BY DEF RightCapture, Asked, TrueMessages, TrueLog, Active
<1>4. Known
  BY DEF Known, PeerType, Active
<1> QED BY <1>1, <1>2, <1>3, <1>4 DEF IInv

\* The strengthening is preserved by every step of the user, the timers and the providers.
LEMMA Inductive == IInv /\ [Next]_vars => IInv'
<1> SUFFICES ASSUME IInv, [Next]_vars PROVE IInv'
  OBVIOUS
<1>0. /\ TypeOK /\ Journal /\ Held /\ Known /\ TrueMessages /\ TrueLog
      /\ Destinations /\ ext \in ExtType /\ Active \in Nat
  BY Facts DEF IInv, Destinations, TypeOK, ServiceTypeOK, SessionType, ExtType
<1>1. JobsStep /\ PipeStep /\ HostStep
  BY EveryStep, EveryProviderStep
<1>2. Destinations' /\ ext' \in ExtType
  BY <1>0, DestinationsKept
<1>3. /\ jobs' \in Seq(JobRecord) /\ Active' \in Nat /\ Active <= Active' /\ Active' <= MaxJobs
      /\ history' \in [Places -> Outcomes \cup {"none"}]
      /\ phase' \in {"idle", "choosing", "preparing", "transferring", "finished"}
  BY <1>0, <1>1, LogGrows
<1>4. Known' /\ TrueMessages' /\ Stands
  BY <1>0, <1>1, <1>3, ProgramKept
<1>5. Journal' /\ TrueLog'
  BY <1>0, <1>1, <1>4, JournalKept, LogKept
<1>6. Holder' /\ Held'
  BY <1>1, <1>2, HolderKept
<1>7. TypeOK'
  <2>1. ServiceTypeOK'
    BY <1>2, <1>3 DEF ServiceTypeOK, Destinations, SessionType, JobRecord, Active
  <2>a. MaxJobs \in Nat
    BY ShareServiceAssumption
  <2>b. 1..Active' \subseteq 1..MaxJobs
    BY <1>3, <2>a
  <2>2. arrived' \subseteq 1..MaxJobs /\ Len(toHost') <= MaxPipe /\ peer' \in PeerType
    BY <1>4, <2>b DEF Known
  <2>c. builtin \in Nat /\ builtin' \in {0, builtin, Active'} /\ builtin' <= Active'
    BY <1>0, <1>1, <1>6 DEF HostStep, Held, TypeOK
  <2>3. builtin' \in 0..MaxJobs
    <3>1. builtin' \in Nat
      BY <1>3, <2>c
    <3> QED BY <1>3, <2>a, <2>c, <3>1
  <2> QED BY <1>2, <2>1, <2>2, <2>3 DEF TypeOK, ExtType, PeerType
<1> QED BY <1>2, <1>4, <1>5, <1>6, <1>7 DEF IInv, Destinations

\* The strengthening holds in every reachable state of the composition.
THEOREM Invariant == Spec => []IInv
  BY Initially, Inductive, PTL DEF Spec

\* The session, the jobs, the connection and the program keep their types, within
\* every bound.
THEOREM TypeCorrect == Spec => []TypeOK
<1>1. IInv => TypeOK
  BY DEF IInv
<1> QED BY <1>1, Invariant, PTL

\* The destinations the dialog shows are those of the capture that is open, for any
\* captures and any order of queries, answers and losses.
THEOREM CaptureSafety == Spec => []RightCapture
<1>1. IInv => RightCapture
  BY DEF IInv
<1> QED BY <1>1, Invariant, PTL

\* No capture an add-on delivered is called failed, and what is called sent or handed
\* off was delivered.  A capture called cancelled may have been.
THEOREM TruthSafety == Spec => []ExternalTruth
<1>1. IInv => ExternalTruth
  BY DEF IInv, TrueLog, TrueEnd, Settled, ExternalTruth
<1> QED BY <1>1, Invariant, PTL

\* A job ends as sent, handed off or failed only in the step in which its own
\* provider lets go of it.
THEOREM OwnEnds == Spec => OwnVerdict
<1>1. ASSUME IInv, [Next]_vars, Busy, jobs'[Active].outcome \in {"sent", "handed_off", "failed"}
      PROVE LetsGo
  <2>0. /\ Journal /\ JobsStep /\ jobs \in Seq(JobRecord)
        /\ Active \in 1..Len(jobs) /\ Job \in JobRecord /\ Job.outcome = "running"
    BY <1>1, EveryStep, Facts DEF IInv, Journal
  <2>1. CASE Quiet \/ Browses \/ Moves
    BY <1>1, <2>0, <2>1 DEF Quiet, Browses, Moves, Job
  <2>2. ASSUME NEW o \in Outcomes, Ended(o) PROVE jobs'[Active].outcome = o
    BY <2>0, <2>2 DEF Ended, Active, Job, JobRecord
  <2>3. CASE Ends
    BY <1>1, <2>2, <2>3 DEF Ends, Outcomes
  <2>4. ~\E p \in Providers, c \in BOOLEAN : Given(p, c)
    BY <1>1 DEF Given, MayShare
  <2> QED BY <2>0, <2>1, <2>3, <2>4 DEF JobsStep
<1>2. IInv /\ [Next]_vars =>
        [Busy /\ jobs'[Active].outcome \in {"sent", "handed_off", "failed"} =>
           \/ Job.place[2] = "external" /\ ext.job = Active /\ ext.job' = 0
           \/ Job.place[2] = "builtin" /\ builtin = Active /\ builtin' = 0]_vars
  BY <1>1 DEF LetsGo, Runs
<1> QED BY <1>2, Invariant, PTL DEF Spec, OwnVerdict

\* The service implements ShareJobs: one job at a time, which ends once, and no second
\* sending to where the capture may have arrived without a confirmation.
THEOREM Refines == Spec => Promise!Init /\ [][Promise!Next]_jobs
<1>1. Init => Promise!Init
  BY DEF Init, ServiceInit, Promise!Init
<1>2. IInv /\ [Next]_vars => [Promise!Next]_jobs
  BY EveryStep, StepMaps DEF IInv
<1> QED BY <1>1, <1>2, Invariant, PTL DEF Spec
=============================================================================
