------------------------- MODULE UpdateServiceProofs --------------------------
(***************************************************************************)
(* For any releases, betas among them or not: the types of UpdateService,   *)
(* RequestsMatch, InstallsVerified, InstallsQuiet and SkippedStaysSilent.   *)
(*                                                                         *)
(* Each of them speaks of the moment of an installation or of an offer;     *)
(* inductive is what the states before it already know:                     *)
(*   Waiting    a request is out exactly in the state that waits for it;    *)
(*   InHand     from the download on, the release stays the one in hand,    *)
(*              verified and not skipped;                                   *)
(*   Quieting   a preparation keeps both capture services refusing work, and *)
(*              what was reported ready stays ready; its timer is stopped   *)
(*              before the state says quiescent.                            *)
(***************************************************************************)
EXTENDS UpdateService, TLAPS

Waiting ==
  /\ requests \in [check : {0, 1}, revalidation : {0, 1}]
  /\ requests.check = 1 <=> state = "Checking"
  /\ requests.revalidation = 1 <=> state = "Quiescent"
  /\ revalidating <=> state = "Quiescent"

InHand ==
  /\ state = "Downloading" => download = release
  /\ state \in {"ReadyToInstall", "PreparingForUpdate", "Quiescent"} => verified = release
  /\ state \in {"Downloading", "ReadyToInstall", "PreparingForUpdate", "Quiescent"} =>
       release # channel.skipped
  /\ state = "Failed" => channel.checkFailed \/ release # channel.skipped

Quieting ==
  /\ state \in {"PreparingForUpdate", "Quiescent"} => shots.preparing /\ replay.preparing
  /\ state = "PreparingForUpdate" /\ replay.ready => ~replay.busy
  /\ state = "Quiescent" => ~replay.busy /\ ~timer

IInv ==
  /\ TypeOK /\ Waiting /\ InHand /\ Quieting
  /\ InstallsVerified /\ InstallsQuiet /\ SkippedStaysSilent
-----------------------------------------------------------------------------
Channel == [betas : BOOLEAN, skipped : Releases \cup {NoRelease},
            cooldown : BOOLEAN, retried : BOOLEAN, checkFailed : BOOLEAN]
Shots == [preparing : BOOLEAN, busy : BOOLEAN, leaving : BOOLEAN, ready : BOOLEAN]
Replay == [preparing : BOOLEAN, busy : BOOLEAN, asked : BOOLEAN, ready : BOOLEAN]

Out(checks, revalidations) == [check |-> checks, revalidation |-> revalidations]

\* Nothing is out but in the two states that wait; an answer ends the one wait there is.
LEMMA Requests ==
  ASSUME Waiting
  PROVE /\ state \notin {"Checking", "Quiescent"} =>
             /\ requests = Out(0, 0)
             /\ Ask("check") => requests' = Out(1, 0)
             /\ Ask("revalidation") => requests' = Out(0, 1)
        /\ \A kind \in {"check", "revalidation"} :
             /\ requests[kind] > 0 =>
                  \/ kind = "check" /\ state = "Checking" /\ ~revalidating
                  \/ kind = "revalidation" /\ state = "Quiescent" /\ revalidating
             /\ Answered(kind) => requests' = Out(0, 0)
<1> USE DEF Waiting, Out, Ask, Answered
<1>1. CASE state \notin {"Checking", "Quiescent"}
  <2>1. requests = Out(0, 0)
    BY <1>1
  <2> QED BY <1>1, <2>1
<1>2. CASE state = "Checking"
  <2>1. requests = Out(1, 0)
    BY <1>2
  <2> QED BY <1>2, <2>1
<1>3. CASE state = "Quiescent"
  <2>1. requests = Out(0, 1)
    BY <1>3
  <2> QED BY <1>3, <2>1
<1> QED BY <1>1, <1>2, <1>3

\* Every variable keeps its type.
Typed ==
  /\ state \in State
  /\ release \in Releases \cup {NoRelease} /\ verified \in Releases \cup {NoRelease}
  /\ download \in Releases \cup {NoRelease}
  /\ channel \in Channel /\ shots \in Shots /\ replay \in Replay
  /\ revalidating \in BOOLEAN /\ timer \in BOOLEAN

\* A flag that completes a preparation stops the timer and asks for the release again.
LEMMA Finishing ==
  ASSUME NEW shotsReady, NEW replayReady, Finish(shotsReady, replayReady)
  PROVE \/ UNCHANGED <<state, revalidating, requests>> /\ (timer' = timer \/ timer' = FALSE)
        \/ /\ shotsReady /\ replayReady /\ timer' = FALSE
           /\ state = "PreparingForUpdate" /\ state' = "Quiescent"
           /\ revalidating' = TRUE /\ Ask("revalidation")
  BY DEF Finish

\* Every handler keeps the types.
LEMMA TypesKept == Typed /\ [Next]_vars => Typed'
<1> SUFFICES ASSUME Typed, [Next]_vars PROVE Typed'
  OBVIOUS
<1> USE DEF Typed, State, Channel, Shots, Replay, discovery, capture, FallbackAfterCheck
<1>1. CASE CheckNow
  BY <1>1 DEF CheckNow
<1>2. CASE JoinBetas
  <2>1. channel' \in Channel
    BY <1>2 DEF JoinBetas
  <2> QED BY <1>2, <2>1 DEF JoinBetas
<1>3. CASE LeaveBetas
  <2>1. channel' \in Channel
    BY <1>3 DEF LeaveBetas
  <2> QED BY <1>3, <2>1 DEF LeaveBetas
<1>4. CASE SkipVersion
  BY <1>4 DEF SkipVersion
<1>5. CASE DownloadUpdate
  <2>1. channel' \in Channel
    BY <1>5 DEF DownloadUpdate, PreflightFails
  <2> QED BY <1>5, <2>1 DEF DownloadUpdate, PreflightFails
<1>6. CASE DownloadEnds
  <2>1. channel' \in Channel
    BY <1>6 DEF DownloadEnds, PreflightFails
  <2> QED BY <1>6, <2>1 DEF DownloadEnds, PreflightFails
<1>7. CASE InstallAndRestart
  BY <1>7 DEF InstallAndRestart, PreflightFails
<1>8. CASE ScreenshotTaken
  <2>1. shots' \in Shots
    BY <1>8 DEF ScreenshotTaken
  <2> QED BY <1>8, <2>1 DEF ScreenshotTaken
<1>9. CASE EncodeEnds
  <2>1. shots' \in Shots
    BY <1>9 DEF EncodeEnds
  <2> QED BY <1>9, <2>1 DEF EncodeEnds
<1>10. CASE EncoderLooks
  <2>1. shots' \in Shots
    BY <1>10 DEF EncoderLooks
  <2>2. Finish(TRUE, replay.ready) \/ UNCHANGED <<timer, state, revalidating, requests>>
    BY <1>10 DEF EncoderLooks
  <2>3. state' \in State /\ revalidating' \in BOOLEAN /\ timer' \in BOOLEAN
    BY <2>2, Finishing
  <2> QED BY <1>10, <2>1, <2>3 DEF EncoderLooks
<1>11. CASE SaveStarts
  <2>1. replay' \in Replay
    BY <1>11 DEF SaveStarts
  <2> QED BY <1>11, <2>1 DEF SaveStarts
<1>12. CASE ExportEnds
  <2>1. replay' \in Replay
    BY <1>12 DEF ExportEnds
  <2> QED BY <1>12, <2>1 DEF ExportEnds
<1>13. CASE ReplayAnswers
  <2>1. replay' \in Replay
    BY <1>13 DEF ReplayAnswers
  <2>2. Finish(shots.ready, TRUE)
    BY <1>13 DEF ReplayAnswers
  <2>3. state' \in State /\ revalidating' \in BOOLEAN /\ timer' \in BOOLEAN
    BY <2>2, Finishing
  <2> QED BY <1>13, <2>1, <2>3 DEF ReplayAnswers
<1>14. CASE PreparationTimesOut
  <2>1. shots' \in Shots /\ replay' \in Replay
    BY <1>14 DEF PreparationTimesOut, ResumeCapture
  <2> QED BY <1>14, <2>1 DEF PreparationTimesOut, CancelPreparation
<1>15. CASE CooldownEnds
  <2>1. channel' \in Channel
    BY <1>15 DEF CooldownEnds
  <2> QED BY <1>15, <2>1 DEF CooldownEnds
<1>16. ASSUME NEW kind \in {"check", "revalidation"}, NEW r \in Releases \cup {Installed},
              NEW complete \in BOOLEAN, Succeeded(kind, r, complete)
       PROVE Typed'
  <2>1. channel' \in Channel
    BY <1>16 DEF Succeeded
  <2>2. shots' \in Shots /\ replay' \in Replay
    BY <1>16 DEF Succeeded, HandOver, ResumeCapture
  <2>3. state' \in State /\ release' \in Releases \cup {NoRelease}
    BY <1>16 DEF Succeeded, HandOver, CancelPreparation, Offer, ApplyRelease
  <2> QED BY <1>16, <2>1, <2>2, <2>3 DEF Succeeded
<1>17. ASSUME NEW kind \in {"check", "revalidation"}, Refused(kind) PROVE Typed'
  <2>1. UNCHANGED <<channel, shots, replay>>
    BY <1>17 DEF Refused
  <2> QED BY <1>17, <2>1 DEF Refused, CancelPreparation
<1>18. ASSUME NEW kind \in {"check", "revalidation"}, Unchanged(kind) PROVE Typed'
  <2>1. channel' \in Channel
    BY <1>18 DEF Unchanged
  <2> QED BY <1>18, <2>1 DEF Unchanged
<1>19. ASSUME NEW kind \in {"check", "revalidation"}, NotFound(kind) PROVE Typed'
  <2>1. channel' \in Channel
    BY <1>19 DEF NotFound
  <2> QED BY <1>19, <2>1 DEF NotFound
<1>20. ASSUME NEW kind \in {"check", "revalidation"}, RateLimited(kind) PROVE Typed'
  <2>1. channel' \in Channel
    BY <1>20 DEF RateLimited
  <2> QED BY <1>20, <2>1 DEF RateLimited
<1>21. ASSUME NEW kind \in {"check", "revalidation"}, CheckFailed(kind) PROVE Typed'
  <2>1. channel' \in Channel
    BY <1>21 DEF CheckFailed
  <2> QED BY <1>21, <2>1 DEF CheckFailed
<1>22. CASE UNCHANGED vars
  BY <1>22 DEF vars
<1> QED BY <1>1, <1>2, <1>3, <1>4, <1>5, <1>6, <1>7, <1>8, <1>9, <1>10, <1>11, <1>12, <1>13, <1>14,
           <1>15, <1>16, <1>17, <1>18, <1>19, <1>20, <1>21, <1>22
      DEF Next, SourceAnswers

\* A request goes out as its state is entered, and its answer leaves that state.
LEMMA WaitingKept == TypeOK /\ Waiting /\ Quieting /\ [Next]_vars => Waiting'
<1> SUFFICES ASSUME TypeOK, Waiting, Quieting, [Next]_vars PROVE Waiting'
  OBVIOUS
<1> DEFINE Waits == {"Checking", "Quiescent"}
<1>1. ASSUME state \notin Waits, state' \notin Waits, UNCHANGED <<requests, revalidating>> PROVE Waiting'
  BY <1>1 DEF Waiting
<1>2. ASSUME state' = state, UNCHANGED <<requests, revalidating>> PROVE Waiting'
  BY <1>2 DEF Waiting
<1>3. ASSUME state \notin Waits, state' = "Checking", Ask("check"), revalidating' = revalidating PROVE Waiting'
  BY <1>3, Requests DEF Waiting, Out
<1>4. ASSUME state' \notin Waits, requests' = Out(0, 0), revalidating' = FALSE PROVE Waiting'
  BY <1>4 DEF Waiting, Out
<1>5. ASSUME state = "PreparingForUpdate", state' = "Quiescent", Ask("revalidation"), revalidating' = TRUE
      PROVE Waiting'
  BY <1>5, Requests DEF Waiting, Out
<1>6. FallbackAfterCheck(release) \notin Waits
  BY DEF FallbackAfterCheck
<1>7. ASSUME NEW shotsReady, NEW replayReady, Finish(shotsReady, replayReady) PROVE Waiting'
  BY <1>2, <1>5, <1>7, Finishing
<1>8. CASE CheckNow
  <2>1. state \notin Waits
    BY <1>8 DEF CheckNow, Waiting
  <2> QED BY <1>1, <1>3, <1>6, <1>8, <2>1 DEF CheckNow
<1>9. CASE JoinBetas
  BY <1>1, <1>2, <1>3, <1>9 DEF JoinBetas, Resting
<1>10. CASE LeaveBetas
  BY <1>1, <1>2, <1>10 DEF LeaveBetas, Resting
<1>11. CASE SkipVersion \/ DownloadUpdate \/ InstallAndRestart
  BY <1>1, <1>11 DEF SkipVersion, DownloadUpdate, InstallAndRestart, PreflightFails
<1>12. CASE DownloadEnds
  <2>1. state \notin Waits
    BY <1>12 DEF DownloadEnds, TypeOK
  <2> QED BY <1>1, <1>12, <2>1 DEF DownloadEnds, PreflightFails
<1>13. CASE ScreenshotTaken \/ EncodeEnds \/ SaveStarts \/ ExportEnds \/ CooldownEnds
  BY <1>2, <1>13 DEF ScreenshotTaken, EncodeEnds, SaveStarts, ExportEnds, CooldownEnds
<1>14. CASE EncoderLooks \/ ReplayAnswers
  BY <1>2, <1>7, <1>14 DEF EncoderLooks, ReplayAnswers
<1>15. CASE PreparationTimesOut
  BY <1>1, <1>2, <1>15 DEF PreparationTimesOut, CancelPreparation, Quieting
<1>16. ASSUME NEW kind \in {"check", "revalidation"}, NEW r \in Releases \cup {Installed},
              NEW complete \in BOOLEAN, Succeeded(kind, r, complete)
       PROVE Waiting'
  <2>1. requests' = Out(0, 0) /\ revalidating' = FALSE
    BY <1>16, Requests DEF Succeeded
  <2>2. revalidating <=> state = "Quiescent"
    BY DEF Waiting
  <2>3. state' \notin Waits
    BY <1>6, <1>16, <2>2 DEF Succeeded, HandOver, Offer, ApplyRelease, CancelPreparation
  <2> QED BY <1>4, <2>1, <2>3
<1>17. ASSUME NEW kind \in {"check", "revalidation"}, Refused(kind) PROVE Waiting'
  <2>1. requests' = Out(0, 0) /\ revalidating' = FALSE /\ state = "Quiescent"
    BY <1>17, Requests DEF Refused, Waiting
  <2> QED BY <1>4, <1>17, <2>1 DEF Refused, CancelPreparation
<1>18. ASSUME NEW kind \in {"check", "revalidation"},
              Unchanged(kind) \/ NotFound(kind) \/ RateLimited(kind) \/ CheckFailed(kind)
       PROVE Waiting'
  <2>1. CASE UNCHANGED <<requests, state, revalidating>>
    BY <1>2, <2>1
  <2>2. CASE Answered(kind)
    <3>1. requests' = Out(0, 0)
      BY <2>2, Requests
    <3>2. revalidating' = FALSE /\ state' \notin Waits
      BY <1>6, <1>18, <2>2, <3>1 DEF Unchanged, NotFound, RateLimited, CheckFailed, Answered, TypeOK
    <3> QED BY <1>4, <3>1, <3>2
  <2> QED BY <1>18, <2>1, <2>2 DEF Unchanged, NotFound, RateLimited, CheckFailed
<1>19. CASE UNCHANGED vars
  BY <1>2, <1>19 DEF vars
<1> QED BY <1>8, <1>9, <1>10, <1>11, <1>12, <1>13, <1>14, <1>15, <1>16, <1>17, <1>18, <1>19
      DEF Next, SourceAnswers

\* Once the helper runs, nothing happens any more.
LEMMA Quits == state = "Installing" /\ Waiting /\ [Next]_vars => UNCHANGED vars
<1> SUFFICES ASSUME state = "Installing", Waiting, Next PROVE FALSE
  OBVIOUS
<1>1. ASSUME NEW kind \in {"check", "revalidation"}, SourceAnswers(kind) PROVE FALSE
  <2>1. ~(requests[kind] > 0)
    BY Requests
  <2> QED BY <1>1, <2>1 DEF SourceAnswers, Succeeded, Refused, Unchanged, NotFound, RateLimited,
                            CheckFailed, Answered
<1> QED BY <1>1 DEF Next, CheckNow, JoinBetas, LeaveBetas, SkipVersion, DownloadUpdate, DownloadEnds,
        InstallAndRestart, ScreenshotTaken, EncodeEnds, EncoderLooks, SaveStarts, ExportEnds,
        ReplayAnswers, PreparationTimesOut, CooldownEnds, Running

\* What the offer, the download and the installation know of the release in hand.
Fetching == state = "Downloading" <=> download # NoRelease
Held == InHand /\ InstallsVerified /\ SkippedStaysSilent /\ Fetching

\* The release in hand stays the verified, accepted and not skipped one.
LEMMA HeldKept == Typed /\ Waiting /\ Held /\ [Next]_vars => Held'
<1> SUFFICES ASSUME Typed, Waiting, Held, [Next]_vars, state # "Installing" PROVE Held'
  BY Quits DEF vars, Held, InHand, InstallsVerified, SkippedStaysSilent, Fetching, Accepts
<1> USE DEF Held, InHand, SkippedStaysSilent, Fetching, discovery, capture
<1>1. ASSUME UNCHANGED <<release, verified, download>>, channel'.skipped = channel.skipped,
             channel.checkFailed => channel'.checkFailed,
             \/ state' \in {state, "Checking", "UpToDate"} \/ state' = FallbackAfterCheck(release)
             \/ state \in {"PreparingForUpdate", "Quiescent"} /\ state' = "ReadyToInstall"
             \/ state = "PreparingForUpdate" /\ state' = "Quiescent"
             \/ state = "ReadyToInstall" /\ state' = "PreparingForUpdate",
             state # "Downloading"
      PROVE Held'
  BY <1>1, UpdateServiceAssumption DEF FallbackAfterCheck, InstallsVerified, Typed, State
<1>2. ASSUME UNCHANGED <<state, release, verified, download>>, channel'.skipped = channel.skipped,
             channel.checkFailed => channel'.checkFailed
      PROVE Held'
  BY <1>2 DEF InstallsVerified
<1>3. CASE CheckNow
  BY <1>1, <1>3 DEF CheckNow
<1>4. CASE JoinBetas
  <2>1. channel'.skipped = channel.skipped /\ channel'.checkFailed = channel.checkFailed
    BY <1>4 DEF JoinBetas, Typed, Channel
  <2>2. CASE UNCHANGED state
    BY <1>2, <1>4, <2>1, <2>2 DEF JoinBetas
  <2>3. CASE state \in Resting /\ state' = "Checking"
    BY <1>1, <1>4, <2>1, <2>3 DEF JoinBetas, Resting
  <2>4. CASE /\ state \in Resting
             /\ state' = IF release \in {NoRelease, channel.skipped} THEN "UpToDate" ELSE "UpdateAvailable"
    BY <1>4, <2>1, <2>4 DEF JoinBetas, Resting, InstallsVerified
  <2> QED BY <1>4, <2>2, <2>3, <2>4 DEF JoinBetas
<1>5. CASE LeaveBetas
  <2>1. channel'.skipped = channel.skipped /\ channel'.checkFailed = channel.checkFailed
    BY <1>5 DEF LeaveBetas, Typed, Channel
  <2>2. CASE release' = release /\ state' = state
    BY <1>2, <1>5, <2>1, <2>2 DEF LeaveBetas
  <2>3. CASE state \in Resting /\ state' = "UpToDate"
    BY <1>5, <2>3 DEF LeaveBetas, Resting, InstallsVerified
  <2> QED BY <1>5, <2>2, <2>3 DEF LeaveBetas
<1>6. CASE SkipVersion
  BY <1>6 DEF SkipVersion, InstallsVerified
<1>7. CASE DownloadUpdate
  <2>1. release # channel.skipped /\ release # NoRelease /\ download = NoRelease
    BY <1>7 DEF DownloadUpdate
  <2>2. CASE PreflightFails /\ UNCHANGED download
    <3>1. channel'.skipped = channel.skipped
      BY <2>2 DEF PreflightFails, Typed, Channel
    <3> QED BY <1>7, <2>1, <2>2, <3>1 DEF DownloadUpdate, PreflightFails, InstallsVerified
  <2>3. CASE state' = "Downloading" /\ download' = release /\ UNCHANGED channel
    BY <1>7, <2>1, <2>3 DEF DownloadUpdate, InstallsVerified
  <2> QED BY <1>7, <2>2, <2>3 DEF DownloadUpdate
<1>8. CASE DownloadEnds
  <2>1. download = release /\ release # channel.skipped
    BY <1>8 DEF DownloadEnds
  <2>2. channel'.skipped = channel.skipped
    BY <1>8 DEF DownloadEnds, PreflightFails, Typed, Channel
  <2> QED BY <1>8, <2>1, <2>2 DEF DownloadEnds, PreflightFails, InstallsVerified
<1>9. CASE InstallAndRestart
  <2>1. channel'.skipped = channel.skipped
    BY <1>9 DEF InstallAndRestart, PreflightFails, Typed, Channel
  <2> QED BY <1>9, <2>1 DEF InstallAndRestart, PreflightFails, InstallsVerified
<1>10. CASE ScreenshotTaken \/ EncodeEnds \/ SaveStarts \/ ExportEnds
  BY <1>2, <1>10 DEF ScreenshotTaken, EncodeEnds, SaveStarts, ExportEnds
<1>11. CASE EncoderLooks \/ ReplayAnswers
  <2>1. UNCHANGED <<release, verified, download, channel>>
    BY <1>11 DEF EncoderLooks, ReplayAnswers
  <2>2. state' = state \/ (state = "PreparingForUpdate" /\ state' = "Quiescent")
    <3>1. Finish(TRUE, replay.ready) \/ Finish(shots.ready, TRUE) \/ UNCHANGED state
      BY <1>11 DEF EncoderLooks, ReplayAnswers
    <3>2. CASE Finish(TRUE, replay.ready)
      BY <3>2, Finishing
    <3>3. CASE Finish(shots.ready, TRUE)
      BY <3>3, Finishing
    <3> QED BY <3>1, <3>2, <3>3
  <2> QED BY <1>1, <1>2, <2>1, <2>2
<1>12. CASE PreparationTimesOut
  BY <1>1, <1>2, <1>12 DEF PreparationTimesOut, CancelPreparation
<1>13. CASE CooldownEnds
  <2>1. channel'.skipped = channel.skipped /\ channel'.checkFailed = channel.checkFailed
    BY <1>13 DEF CooldownEnds, Typed, Channel
  <2> QED BY <1>2, <1>13, <2>1 DEF CooldownEnds
<1>14. ASSUME NEW kind \in {"check", "revalidation"}, NEW r \in Releases \cup {Installed},
              NEW complete \in BOOLEAN, Succeeded(kind, r, complete)
       PROVE Held'
  <2>1. /\ channel'.skipped = channel.skipped /\ channel'.checkFailed = channel.checkFailed
        /\ channel'.betas = channel.betas /\ UNCHANGED <<verified, download>>
    BY <1>14 DEF Succeeded, Typed, Channel
  <2>2. state \in {"Checking", "Quiescent"} /\ (revalidating => state = "Quiescent")
    BY <1>14, Requests DEF Succeeded, Answered
  <2>3. CASE r = release /\ Accepts(r) /\ HandOver /\ UNCHANGED release /\ state = "Quiescent"
    <3>1. state' = "Installing" \/ state' = "ReadyToInstall"
      BY <2>3 DEF HandOver, CancelPreparation
    <3> QED BY <2>1, <2>3, <3>1 DEF InstallsVerified, Accepts
  <2>4. CASE state' = FallbackAfterCheck(release) /\ UNCHANGED release
    BY <1>1, <2>1, <2>2, <2>4
  <2>5. CASE ApplyRelease(r)
    <3>1. \/ state' = "UpToDate"
          \/ state' = "UpdateAvailable" /\ release' = r /\ r # channel.skipped
      BY <2>5 DEF ApplyRelease
    <3> QED BY <2>1, <2>2, <3>1 DEF InstallsVerified
  <2> QED BY <1>14, <2>2, <2>3, <2>4, <2>5 DEF Succeeded, Offer
<1>15. ASSUME NEW kind \in {"check", "revalidation"}, Refused(kind) PROVE Held'
  <2>1. state = "Quiescent" /\ state' = "ReadyToInstall"
    BY <1>15 DEF Refused, CancelPreparation, Waiting
  <2> QED BY <1>1, <1>15, <2>1 DEF Refused
<1>16. ASSUME NEW kind \in {"check", "revalidation"}, Unchanged(kind) \/ NotFound(kind) \/ RateLimited(kind)
       PROVE Held'
  <2>1. channel'.skipped = channel.skipped /\ channel'.checkFailed = channel.checkFailed
    BY <1>16 DEF Unchanged, NotFound, RateLimited, Typed, Channel
  <2>2. state = "Checking"
    BY <1>16, Requests DEF Unchanged, NotFound, RateLimited, Answered
  <2>3. UNCHANGED <<release, verified, download>>
    BY <1>16 DEF Unchanged, NotFound, RateLimited
  <2> QED BY <1>1, <1>16, <2>1, <2>2, <2>3 DEF Unchanged, NotFound, RateLimited
<1>17. ASSUME NEW kind \in {"check", "revalidation"}, CheckFailed(kind) PROVE Held'
  <2>1. /\ channel'.skipped = channel.skipped
        /\ channel.checkFailed => channel'.checkFailed
        /\ release = NoRelease => channel'.checkFailed
    BY <1>17 DEF CheckFailed, Typed, Channel
  <2>2. state = "Checking"
    BY <1>17, Requests DEF CheckFailed, Answered
  <2>3. CASE release = NoRelease
    BY <1>17, <2>1, <2>2, <2>3 DEF CheckFailed, InstallsVerified
  <2>4. CASE release # NoRelease
    BY <1>1, <1>17, <2>1, <2>2, <2>4 DEF CheckFailed
  <2> QED BY <2>3, <2>4
<1>18. CASE UNCHANGED vars
  BY <1>2, <1>18 DEF vars
<1> QED BY <1>3, <1>4, <1>5, <1>6, <1>7, <1>8, <1>9, <1>10, <1>11, <1>12, <1>13, <1>14, <1>15, <1>16,
           <1>17, <1>18
      DEF Next, SourceAnswers
-----------------------------------------------------------------------------
Quiet == Quieting /\ InstallsQuiet

\* A preparation is left with its services refusing work only for the helper.
LEMMA QuietKept == Typed /\ Waiting /\ Quiet /\ [Next]_vars => Quiet'
<1> SUFFICES ASSUME Typed, Waiting, Quiet, [Next]_vars, state # "Installing" PROVE Quiet'
  BY Quits DEF vars, Quiet, Quieting, InstallsQuiet
<1> USE DEF Quiet, Quieting, InstallsQuiet, discovery, capture
<1> DEFINE Pausing == {"PreparingForUpdate", "Quiescent"}
<1>1. ASSUME state' \notin Pausing, state' # "Installing" PROVE Quiet'
  BY <1>1
<1>2. ASSUME state' = state, timer' = timer \/ timer' = FALSE,
             shots'.preparing = shots.preparing \/ state \notin Pausing,
             replay' = replay \/ state \notin Pausing
      PROVE Quiet'
  BY <1>2
<1>3. FallbackAfterCheck(release) \notin Pausing \cup {"Installing"}
  BY DEF FallbackAfterCheck
<1>4. CASE CheckNow \/ SkipVersion
  BY <1>1, <1>3, <1>4 DEF CheckNow, SkipVersion
<1>5. CASE JoinBetas \/ LeaveBetas
  BY <1>1, <1>2, <1>5 DEF JoinBetas, LeaveBetas
<1>6. CASE DownloadUpdate \/ DownloadEnds
  BY <1>1, <1>6 DEF DownloadUpdate, DownloadEnds, PreflightFails
<1>7. CASE InstallAndRestart
  <2>1. CASE PreflightFails
    BY <1>1, <2>1 DEF PreflightFails
  <2>2. CASE /\ state' = "PreparingForUpdate"
             /\ shots' = [shots EXCEPT !.preparing = TRUE, !.ready = ~shots.busy]
             /\ replay' = [replay EXCEPT !.preparing = TRUE, !.ready = FALSE,
                                         !.asked = @ \/ ~replay.preparing]
    <3>1. shots'.preparing
      BY <2>2 DEF Typed, Shots
    <3>2. replay'.preparing /\ ~replay'.ready
      BY <2>2 DEF Typed, Replay
    <3> QED BY <2>2, <3>1, <3>2
  <2> QED BY <1>7, <2>1, <2>2 DEF InstallAndRestart
<1>8. CASE ScreenshotTaken \/ EncodeEnds
  <2>1. shots'.preparing = shots.preparing
    BY <1>8 DEF ScreenshotTaken, EncodeEnds, Typed, Shots
  <2> QED BY <1>2, <1>8, <2>1 DEF ScreenshotTaken, EncodeEnds
<1>9. CASE EncoderLooks
  <2>1. shots'.preparing = shots.preparing
    BY <1>9 DEF EncoderLooks, Typed, Shots
  <2>2. CASE Finish(TRUE, replay.ready)
    BY <1>2, <1>9, <2>1, <2>2, Finishing DEF EncoderLooks
  <2>3. CASE UNCHANGED <<timer, state>>
    BY <1>2, <1>9, <2>1, <2>3 DEF EncoderLooks
  <2> QED BY <1>9, <2>2, <2>3 DEF EncoderLooks
<1>10. CASE SaveStarts
  BY <1>2, <1>10 DEF SaveStarts
<1>11. CASE ExportEnds
  <2>1. /\ replay'.preparing = replay.preparing /\ replay'.ready = replay.ready /\ ~replay'.busy
    BY <1>11 DEF ExportEnds, Typed, Replay
  <2> QED BY <1>11, <2>1 DEF ExportEnds
<1>12. CASE ReplayAnswers
  <2>1. replay'.preparing = replay.preparing /\ ~replay'.busy
    BY <1>12 DEF ReplayAnswers, Typed, Replay
  <2>2. Finish(shots.ready, TRUE) /\ UNCHANGED shots
    BY <1>12 DEF ReplayAnswers
  <2> QED BY <2>1, <2>2, Finishing
<1>13. CASE PreparationTimesOut
  BY <1>1, <1>13 DEF PreparationTimesOut, CancelPreparation
<1>14. CASE CooldownEnds
  BY <1>2, <1>14 DEF CooldownEnds
<1>15. ASSUME NEW kind \in {"check", "revalidation"}, NEW r \in Releases \cup {Installed},
              NEW complete \in BOOLEAN, Succeeded(kind, r, complete)
       PROVE Quiet'
  <2>1. state \in {"Checking", "Quiescent"} /\ (revalidating => state = "Quiescent")
    BY <1>15, Requests DEF Succeeded, Answered
  <2>2. CASE HandOver /\ state = "Quiescent"
    BY <1>1, <2>2 DEF HandOver, CancelPreparation
  <2>3. CASE Offer(r, complete)
    BY <1>1, <1>3, <2>3 DEF Offer, ApplyRelease
  <2> QED BY <1>15, <2>1, <2>2, <2>3 DEF Succeeded
<1>16. ASSUME NEW kind \in {"check", "revalidation"}, Refused(kind) PROVE Quiet'
  BY <1>1, <1>2, <1>16 DEF Refused, CancelPreparation
<1>17. ASSUME NEW kind \in {"check", "revalidation"},
              Unchanged(kind) \/ NotFound(kind) \/ RateLimited(kind) \/ CheckFailed(kind)
       PROVE Quiet'
  BY <1>1, <1>2, <1>3, <1>17 DEF Unchanged, NotFound, RateLimited, CheckFailed
<1>18. CASE UNCHANGED vars
  BY <1>2, <1>18 DEF vars
<1> QED BY <1>4, <1>5, <1>6, <1>7, <1>8, <1>9, <1>10, <1>11, <1>12, <1>13, <1>14, <1>15, <1>16, <1>17,
           <1>18
      DEF Next, SourceAnswers

-----------------------------------------------------------------------------
\* The types follow from what each variable may hold and when something is fetched or asked.
LEMMA TypeParts ==
  /\ TypeOK <=> Typed /\ Fetching /\ requests \in [check : Nat, revalidation : Nat]
  /\ Waiting => requests \in [check : Nat, revalidation : Nat]
<1>1. Waiting => requests \in [check : Nat, revalidation : Nat]
  BY DEF Waiting
<1>2. TypeOK <=> Typed /\ Fetching /\ requests \in [check : Nat, revalidation : Nat]
  BY DEF TypeOK, Typed, Fetching, Channel, Shots, Replay
<1> QED BY <1>1, <1>2

\* Nothing is known, asked, downloaded or captured at the start.
LEMMA Initially == Init => IInv
<1> SUFFICES ASSUME Init PROVE IInv
  OBVIOUS
<1>1. shots \in Shots /\ ~shots.preparing
  BY DEF Init, Shots
<1>2. replay \in Replay
  BY DEF Init, Replay
<1>3. channel \in Channel
  BY DEF Init, Channel
<1>4. Waiting
  BY DEF Init, Waiting
<1>5. TypeOK
  BY <1>1, <1>2, <1>3, <1>4, TypeParts DEF Init, Typed, Fetching, State
<1>6. InHand /\ Quieting /\ InstallsVerified /\ InstallsQuiet /\ SkippedStaysSilent
  BY DEF Init, InHand, Quieting, InstallsVerified, InstallsQuiet, SkippedStaysSilent
<1> QED BY <1>4, <1>5, <1>6 DEF IInv

\* Every handler preserves the invariant.
LEMMA Inductive == IInv /\ [Next]_vars => IInv'
<1> SUFFICES ASSUME IInv, [Next]_vars PROVE IInv'
  OBVIOUS
<1>1. Typed /\ Held /\ Quiet
  BY TypeParts DEF IInv, Held, Quiet
<1>2. Typed' /\ Waiting' /\ Held' /\ Quiet'
  BY <1>1, TypesKept, WaitingKept, HeldKept, QuietKept DEF IInv
<1>3. requests' \in [check : Nat, revalidation : Nat]
  BY <1>2 DEF Waiting
<1>4. TypeOK'
  BY <1>2, <1>3 DEF TypeOK, Typed, Held, Fetching, Channel, Shots, Replay
<1> QED BY <1>2, <1>4 DEF IInv, Held, Quiet

\* The inductive invariant.
THEOREM Invariant == Spec => []IInv
<1> QED BY Initially, Inductive, PTL DEF Spec

\* The types; a download is in flight exactly in the state that shows it.
THEOREM TypeCorrect == Spec => []TypeOK
<1>1. IInv => TypeOK
  BY DEF IInv
<1> QED BY <1>1, Invariant, PTL

\* The source never has two requests of this service, and an answer to the pre-install
\* one finds onSucceeded taking it for that (UpdateService.cpp, m_revalidatingInstall).
THEOREM RequestsSafety == Spec => []RequestsMatch
<1>1. IInv => RequestsMatch
  <2> SUFFICES ASSUME Waiting PROVE RequestsMatch
    BY DEF IInv
  <2>1. /\ requests.check \in {0, 1} /\ requests.revalidation \in {0, 1}
        /\ ~(requests.check = 1 /\ requests.revalidation = 1)
        /\ revalidating <=> requests.revalidation = 1
    BY DEF Waiting
  <2> QED BY <2>1 DEF RequestsMatch
<1> QED BY <1>1, Invariant, PTL

\* Whatever came between the download and the restart, the helper gets the verified
\* download of the release on offer, in a channel the user still accepts.
THEOREM VerifiedSafety == Spec => []InstallsVerified
<1>1. IInv => InstallsVerified
  BY DEF IInv
<1> QED BY <1>1, Invariant, PTL

\* The helper starts only while both capture services refuse work and no export runs.
THEOREM QuietSafety == Spec => []InstallsQuiet
<1>1. IInv => InstallsQuiet
  BY DEF IInv
<1> QED BY <1>1, Invariant, PTL

\* A skipped version is not offered again, whatever answers, fails or is cancelled.
THEOREM SkippedSafety == Spec => []SkippedStaysSilent
<1>1. IInv => SkippedStaysSilent
  BY DEF IInv
<1> QED BY <1>1, Invariant, PTL
=============================================================================
