--------------------------- MODULE UpdateService ----------------------------
(***************************************************************************)
(* The update front end: UpdateService's state machine, the two capture    *)
(* services it has to quiet, and App's wiring between them, up to the      *)
(* hand-over to the updater helper.  Everything runs on the GUI thread; an *)
(* action is one event handler with every signal it emits.                 *)
(*                                                                         *)
(* The environment is the user (who can do what QML enables in a state),   *)
(* GitHub, the downloader and the capture work in flight.  The capture     *)
(* services are reduced to what they promise here: see ScreenshotService   *)
(* and FramePump for how.                                                  *)
(* Abstracted: a release is a value, with its channel; every release is    *)
(* newer than the installed one except Installed.  Left out: notes, the    *)
(* persisted ETag and snapshot, the first start after an update, which     *)
(* pauses capture until it is found healthy.                               *)
(***************************************************************************)
EXTENDS Naturals

CONSTANTS
  Releases,    \* releases newer than the installed one
  Betas,       \* those of them that are pre-releases
  Installed,   \* the answer "the newest release is the installed one"
  NoRelease

ASSUME UpdateServiceAssumption ==
  /\ Betas \subseteq Releases
  /\ Installed \notin Releases /\ NoRelease \notin Releases /\ Installed # NoRelease

VARIABLES
  state,        \* m_state
  release,      \* m_release
  verified,     \* m_verified
  channel,      \* the rest of the discovery: betas, skipped, cooldown, retried, checkFailed
  revalidating, \* m_revalidatingInstall
  requests,     \* unanswered requests at m_source: [check, revalidation]
  download,     \* the release the downloader is fetching
  shots,        \* ScreenshotService: preparing, busy, leaving, ready (App's flag)
  replay,       \* FramePumpService: preparing, busy, asked, ready (App's flag)
  timer         \* m_updatePreparationTimer is running

discovery == <<release, channel>>
capture == <<shots, replay, timer>>
vars == <<state, release, verified, channel, revalidating, requests, download,
          shots, replay, timer>>

State == {"Idle", "Checking", "UpToDate", "UpdateAvailable", "Downloading",
          "ReadyToInstall", "PreparingForUpdate", "Quiescent", "Installing", "Failed"}

\* Once the updater helper runs, the application quits.
Running == state # "Installing"

Accepts(r) == r \in Releases /\ (r \in Betas => channel.betas)

\* Mutant of FallbackAfterCheck: the skipped version is forgotten.
FallbackUnlessSkipped(r) ==
  IF r # NoRelease /\ Accepts(r) THEN "UpdateAvailable" ELSE "UpToDate"

FallbackAfterCheck(r) ==
  IF r # NoRelease /\ Accepts(r) /\ r # channel.skipped THEN "UpdateAvailable" ELSE "UpToDate"

-----------------------------------------------------------------------------
(* Discovery.                                                              *)

Ask(kind) == requests' = [requests EXCEPT ![kind] = @ + 1]

\* Mutant of CheckNow: a check may overlap the pre-install revalidation.
CheckNowOverlapping ==
  /\ state \notin {"Checking", "Downloading", "Installing"}
  /\ \/ /\ channel.cooldown
        /\ state' = FallbackAfterCheck(release)
        /\ UNCHANGED requests
     \/ /\ ~channel.cooldown
        /\ state' = "Checking"
        /\ Ask("check")
  /\ UNCHANGED <<discovery, verified, revalidating, download, capture>>

\* checkNow, from Settings (enabled but while checking or downloading), from About
\* or from the hourly timer.  Within the 5 seconds' debounce it does nothing.
CheckNow ==
  /\ state \notin {"Checking", "Downloading", "Installing"}
  /\ ~revalidating
  /\ \/ /\ channel.cooldown
        /\ state' = FallbackAfterCheck(release)
        /\ UNCHANGED requests
     \/ /\ ~channel.cooldown
        /\ state' = "Checking"
        /\ Ask("check")
  /\ UNCHANGED <<discovery, verified, revalidating, download, capture>>

\* applyRelease, for an answer that is not a draft.
ApplyRelease(r) ==
  IF r \in Betas /\ ~channel.betas
  THEN state' = "UpToDate" /\ UNCHANGED release
  ELSE IF r = Installed
  THEN state' = "UpToDate" /\ release' = NoRelease
  ELSE /\ release' = r
       /\ state' = IF r = channel.skipped THEN "UpToDate" ELSE "UpdateAvailable"

CancelPreparation ==
  state' = IF state \in {"PreparingForUpdate", "Quiescent"} THEN "ReadyToInstall" ELSE state

\* App's three failures after installApproved, and a timed-out preparation.
ResumeCapture ==
  /\ shots' = [shots EXCEPT !.preparing = FALSE]
  /\ replay' = [replay EXCEPT !.preparing = FALSE, !.asked = FALSE]

Answered(kind) ==
  /\ Running /\ requests[kind] > 0
  /\ requests' = [requests EXCEPT ![kind] = @ - 1]

\* installApproved: transaction, maintenance marker and helper, or the way back.
HandOver ==
  \/ /\ state' = IF state = "Quiescent" THEN "Installing" ELSE state
     /\ UNCHANGED <<shots, replay>>
  \/ CancelPreparation /\ ResumeCapture

\* A revalidated install whose release changed, or an ordinary check.
Offer(r, complete) ==
  IF ~complete /\ Accepts(r)
  THEN state' = FallbackAfterCheck(release) /\ UNCHANGED release
  ELSE ApplyRelease(r)

\* Mutant of Succeeded: the fresh answer is compared by version only.
SucceededAnyChannel(kind, r, complete) ==
  /\ Answered(kind)
  /\ channel' = [channel EXCEPT !.cooldown = FALSE, !.retried = FALSE]
  /\ revalidating' = FALSE
  /\ IF revalidating /\ r = release
     THEN HandOver /\ UNCHANGED release
     ELSE Offer(r, complete) /\ UNCHANGED <<shots, replay>>
  /\ UNCHANGED <<verified, download, timer>>

\* onSucceeded.  An offerable release without all its assets changes nothing;
\* only the release that was downloaded is handed over.
Succeeded(kind, r, complete) ==
  /\ Answered(kind)
  /\ channel' = [channel EXCEPT !.cooldown = FALSE, !.retried = FALSE]
  /\ revalidating' = FALSE
  /\ IF revalidating /\ r = release /\ Accepts(r)
     THEN HandOver /\ UNCHANGED release
     ELSE Offer(r, complete) /\ UNCHANGED <<shots, replay>>
  /\ UNCHANGED <<verified, download, timer>>

\* The four answers that authorise nothing, while an install is revalidated.
Refused(kind) ==
  /\ revalidating
  /\ Answered(kind)
  /\ revalidating' = FALSE
  /\ CancelPreparation
  /\ UNCHANGED <<discovery, verified, download, capture>>

\* onUnchanged: a 304 without a cached release is asked again once.
Unchanged(kind) ==
  /\ ~revalidating /\ requests[kind] > 0
  /\ IF release = NoRelease /\ ~channel.retried
     THEN channel' = [channel EXCEPT !.retried = TRUE] /\ UNCHANGED <<requests, state>>
     ELSE /\ Answered(kind)
          /\ channel' = [channel EXCEPT !.retried = FALSE, !.cooldown = FALSE]
          /\ state' = FallbackAfterCheck(release)
  /\ UNCHANGED <<release, verified, revalidating, download, capture>>

\* onNotFound leaves m_release alone.
NotFound(kind) ==
  /\ ~revalidating /\ Answered(kind)
  /\ channel' = [channel EXCEPT !.cooldown = FALSE]
  /\ state' = "UpToDate"
  /\ UNCHANGED <<release, verified, revalidating, download, capture>>

RateLimited(kind) ==
  /\ ~revalidating /\ Answered(kind)
  /\ channel' = [channel EXCEPT !.cooldown = TRUE]
  /\ state' = FallbackAfterCheck(release)
  /\ UNCHANGED <<release, verified, revalidating, download, capture>>

CheckFailed(kind) ==
  /\ ~revalidating /\ Answered(kind)
  /\ channel' = [channel EXCEPT !.checkFailed = @ \/ release = NoRelease]
  /\ state' = IF release = NoRelease THEN "Failed" ELSE FallbackAfterCheck(release)
  /\ UNCHANGED <<release, verified, revalidating, download, capture>>

\* m_source answers; a handler goes by m_revalidatingInstall, not by the request.
SourceAnswers(kind) ==
  \/ \E r \in Releases \cup {Installed}, complete \in BOOLEAN : Succeeded(kind, r, complete)
  \/ Refused(kind)
  \/ Unchanged(kind) \/ NotFound(kind) \/ RateLimited(kind) \/ CheckFailed(kind)

Resting == {"Idle", "UpToDate", "UpdateAvailable", "Failed"}

\* setIncludeBetas(false): only a beta that is merely offered disappears.
LeaveBetas ==
  LET withdrawn == release \in Betas /\ state \in Resting
  IN /\ Running /\ channel.betas
     /\ channel' = [channel EXCEPT !.betas = FALSE]
     /\ release' = IF withdrawn THEN NoRelease ELSE release
     /\ state' = IF withdrawn THEN "UpToDate" ELSE state
     /\ UNCHANGED <<verified, revalidating, requests, download, capture>>

\* setIncludeBetas(true), and App's check behind it unless an update is in hand.
\* Every release is accepted now; the debounce may swallow the check.
JoinBetas ==
  /\ Running /\ ~channel.betas
  /\ channel' = [channel EXCEPT !.betas = TRUE]
  /\ \/ /\ state \in Resting /\ channel.cooldown
        /\ state' = IF release \in {NoRelease, channel.skipped}
                    THEN "UpToDate" ELSE "UpdateAvailable"
        /\ UNCHANGED requests
     \/ /\ state \in Resting /\ ~channel.cooldown
        /\ state' = "Checking" /\ Ask("check")
     \/ /\ state \in Resting => ~channel.cooldown
        /\ UNCHANGED <<state, requests>>
  /\ UNCHANGED <<release, verified, revalidating, download, capture>>

SkipVersion ==
  /\ state = "UpdateAvailable" /\ release # NoRelease
  /\ channel' = [channel EXCEPT !.skipped = release]
  /\ state' = "UpToDate"
  /\ UNCHANGED <<release, verified, revalidating, requests, download, capture>>

-----------------------------------------------------------------------------
(* Download.                                                               *)

\* The preflight looks for a writable package root and enough space.
PreflightFails ==
  /\ state' = "Failed"
  /\ channel' = [channel EXCEPT !.checkFailed = FALSE]

DownloadUpdate ==
  /\ state = "UpdateAvailable" \/ (state = "Failed" /\ ~channel.checkFailed)
  /\ release # NoRelease /\ download = NoRelease
  /\ \/ PreflightFails /\ UNCHANGED download
     \/ state' = "Downloading" /\ download' = release /\ UNCHANGED channel
  /\ UNCHANGED <<release, verified, revalidating, requests, capture>>

\* Mutant of DownloadEnds: the transfer is not reset, so the downloader stays active.
DownloadEndsStaysActive ==
  /\ Running /\ download # NoRelease
  /\ \/ state' = "ReadyToInstall" /\ verified' = download /\ UNCHANGED channel
     \/ PreflightFails /\ UNCHANGED verified
     \/ state' = "UpdateAvailable" /\ UNCHANGED <<verified, channel>>
  /\ UNCHANGED <<release, download, revalidating, requests, capture>>

\* ready, failed and cancelled look at no state of their own.
DownloadEnds ==
  /\ Running /\ download # NoRelease
  /\ download' = NoRelease
  /\ \/ state' = "ReadyToInstall" /\ verified' = download /\ UNCHANGED channel
     \/ PreflightFails /\ UNCHANGED verified
     \/ state' = "UpdateAvailable" /\ UNCHANGED <<verified, channel>>
  /\ UNCHANGED <<release, revalidating, requests, capture>>

-----------------------------------------------------------------------------
(* The quiescence handshake.                                               *)

\* App's finishUpdatePreparation once a flag is set, and markQuiescent behind it.
Finish(shotsReady, replayReady) ==
  IF shotsReady /\ replayReady
  THEN /\ timer' = FALSE
       /\ IF state = "PreparingForUpdate"
          THEN state' = "Quiescent" /\ revalidating' = TRUE /\ Ask("revalidation")
          ELSE UNCHANGED <<state, revalidating, requests>>
  ELSE UNCHANGED <<timer, state, revalidating, requests>>

\* installAndRestart and App's prepareForUpdateRequested handler.  Screenshots
\* answer at once unless an encode is running; the pump asks its worker, unless
\* it is already preparing.  Replay cannot be ready yet, so nothing finishes here.
InstallAndRestart ==
  /\ state = "ReadyToInstall"
  /\ \/ PreflightFails /\ UNCHANGED capture
     \/ /\ state' = "PreparingForUpdate" /\ timer' = TRUE
        /\ shots' = [shots EXCEPT !.preparing = TRUE, !.ready = ~shots.busy]
        /\ replay' = [replay EXCEPT !.preparing = TRUE, !.ready = FALSE,
                                    !.asked = @ \/ ~replay.preparing]
        /\ UNCHANGED channel
  /\ UNCHANGED <<release, verified, revalidating, requests, download>>

ScreenshotTaken ==
  /\ Running /\ ~shots.preparing /\ ~shots.busy
  /\ shots' = [shots EXCEPT !.busy = TRUE]
  /\ UNCHANGED <<state, discovery, verified, revalidating, requests, download, replay, timer>>

\* The pending counter reaches zero, then the encoder looks for an update to
\* report to: two steps, so a screenshot may be accepted between them.  The next
\* one waits here for this one's look.
EncodeEnds ==
  /\ Running /\ shots.busy /\ ~shots.leaving
  /\ shots' = [shots EXCEPT !.busy = FALSE, !.leaving = TRUE]
  /\ UNCHANGED <<state, discovery, verified, revalidating, requests, download, replay, timer>>

EncoderLooks ==
  /\ Running /\ shots.leaving
  /\ shots' = [shots EXCEPT !.leaving = FALSE, !.ready = @ \/ shots.preparing]
  /\ IF shots.preparing THEN Finish(TRUE, replay.ready)
     ELSE UNCHANGED <<timer, state, revalidating, requests>>
  /\ UNCHANGED <<discovery, verified, download, replay>>

SaveStarts ==
  /\ Running /\ ~replay.preparing /\ ~replay.busy
  /\ replay' = [replay EXCEPT !.busy = TRUE]
  /\ UNCHANGED <<state, discovery, verified, revalidating, requests, download, shots, timer>>

ExportEnds ==
  /\ Running /\ replay.busy
  /\ replay' = [replay EXCEPT !.busy = FALSE]
  /\ UNCHANGED <<state, discovery, verified, revalidating, requests, download, shots, timer>>

\* Mutant of ReplayAnswers: an export in flight is not waited for.
ReplayAnswersAtOnce ==
  /\ Running /\ replay.asked
  /\ replay' = [replay EXCEPT !.asked = FALSE, !.ready = TRUE]
  /\ Finish(shots.ready, TRUE)
  /\ UNCHANGED <<discovery, verified, download, shots>>

\* FramePumpService::updateReady: the worker has stopped capturing.
ReplayAnswers ==
  /\ Running /\ replay.asked /\ ~replay.busy
  /\ replay' = [replay EXCEPT !.asked = FALSE, !.ready = TRUE]
  /\ Finish(shots.ready, TRUE)
  /\ UNCHANGED <<discovery, verified, download, shots>>

\* Mutant of PreparationTimesOut: the capture resumes, the update is not cancelled.
PreparationTimesOutSilently ==
  /\ Running /\ timer /\ timer' = FALSE
  /\ ResumeCapture
  /\ UNCHANGED <<state, discovery, verified, revalidating, requests, download>>

\* m_updatePreparationTimer, 30 seconds.
PreparationTimesOut ==
  /\ Running /\ timer /\ timer' = FALSE
  /\ ResumeCapture
  /\ CancelPreparation
  /\ UNCHANGED <<discovery, verified, revalidating, requests, download>>

CooldownEnds ==
  /\ Running /\ channel.cooldown
  /\ channel' = [channel EXCEPT !.cooldown = FALSE]
  /\ UNCHANGED <<state, release, verified, revalidating, requests, download, capture>>

-----------------------------------------------------------------------------
Init ==
  /\ state = "Idle" /\ release = NoRelease /\ verified = NoRelease
  /\ channel \in [betas : BOOLEAN, skipped : {NoRelease}, cooldown : BOOLEAN,
                  retried : {FALSE}, checkFailed : {FALSE}]
  /\ revalidating = FALSE /\ timer = FALSE
  /\ requests = [check |-> 0, revalidation |-> 0]
  /\ download = NoRelease
  /\ shots = [preparing |-> FALSE, busy |-> FALSE, leaving |-> FALSE, ready |-> FALSE]
  /\ replay = [preparing |-> FALSE, busy |-> FALSE, asked |-> FALSE, ready |-> FALSE]

Next ==
  \/ CheckNow \/ JoinBetas \/ LeaveBetas \/ SkipVersion
  \/ DownloadUpdate \/ DownloadEnds \/ InstallAndRestart
  \/ ScreenshotTaken \/ EncodeEnds \/ EncoderLooks
  \/ SaveStarts \/ ExportEnds \/ ReplayAnswers
  \/ PreparationTimesOut \/ CooldownEnds
  \/ \E kind \in {"check", "revalidation"} : SourceAnswers(kind)

\* What the code justifies: every request ends (a transfer timeout, a bounded
\* retry), the timer fires, the downloader reports, capture work completes.
Fairness ==
  /\ \A kind \in {"check", "revalidation"} : WF_vars(SourceAnswers(kind))
  /\ WF_vars(DownloadEnds) /\ WF_vars(EncodeEnds) /\ WF_vars(EncoderLooks) /\ WF_vars(ExportEnds)
  /\ WF_vars(ReplayAnswers) /\ WF_vars(PreparationTimesOut)

Spec == Init /\ [][Next]_vars /\ Fairness

-----------------------------------------------------------------------------
(* What must hold.                                                         *)

TypeOK ==
  /\ state \in State
  /\ {release, verified, download} \subseteq Releases \cup {NoRelease}
  /\ channel \in [betas : BOOLEAN, skipped : Releases \cup {NoRelease},
                  cooldown : BOOLEAN, retried : BOOLEAN, checkFailed : BOOLEAN]
  /\ revalidating \in BOOLEAN /\ timer \in BOOLEAN
  /\ requests \in [check : Nat, revalidation : Nat]
  /\ shots \in [preparing : BOOLEAN, busy : BOOLEAN, leaving : BOOLEAN, ready : BOOLEAN]
  /\ replay \in [preparing : BOOLEAN, busy : BOOLEAN, asked : BOOLEAN, ready : BOOLEAN]
  /\ state = "Downloading" <=> download # NoRelease

\* Answers carry no request id: the source has at most one request outstanding,
\* and it is the pre-install one exactly while onSucceeded takes it for that.
RequestsMatch ==
  /\ requests.check + requests.revalidation <= 1
  /\ revalidating <=> requests.revalidation = 1

\* Whatever checks, channel changes and downloads came between, what is handed to
\* the helper is the verified download of the release that is on offer.
InstallsVerified ==
  state = "Installing" => verified = release /\ Accepts(verified)

\* The helper is started only with both capture services refusing work and no
\* replay export running.  (An encode may be: ScreenshotService!QuiescentWhenReady.)
InstallsQuiet ==
  state = "Installing" => shots.preparing /\ replay.preparing /\ ~replay.busy

\* No check, answer, failed or cancelled download brings a skipped version back.
SkippedStaysSilent ==
  state = "UpdateAvailable" => release # channel.skipped

\* The user sees a check end, and an install preparation end within the timer.
WaitsEnd ==
  \A waiting \in {"Checking", "PreparingForUpdate"} : state = waiting ~> state # waiting

\* While capture is refused because of an update, something is still on its way
\* that either resumes it or ends the application.
PauseHasAnEnd ==
  shots.preparing \/ replay.preparing =>
    timer \/ revalidating \/ state = "Installing"
=============================================================================
