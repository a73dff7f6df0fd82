# GameHQ in TLA+

GameHQ is a Windows tray application (C++/Qt) that records the running game into
a replay ring, takes screenshots, shows an in-game overlay driven by controllers,
shares captures, and updates itself with a separate helper process.  This
directory holds TLA+ models of its stateful core, TLC configurations that check
them on small instances, and TLAPS proofs of theorems about them.  Every
definition is translated from `src/src/`; `PROJECT.json` maps each one to its
lines, lists the hazards it is for, and records the disagreements between code
and documentation that the checks show.

    tlc -workers 2 -config SegmentRing.cfg SegmentRing
    tlapm FramePumpProofs.tla

and the same for `SegmentRingProofs`, `CapturePublisherProofs`,
`ScreenshotServiceProofs`, `UpdateServiceProofs`, `OverlayProofs`, `ShareProofs` and
`UpdaterProofs`.

Paths below are relative to `src/src/`; `docs/` is `src/docs/`.  The program is
the C++ and QML under `src/src/`.  The `.ts` files under `src/i18n/` are Qt
Linguist catalogues - translated strings in XML - and not code, so no definition
maps to them.

## 1. The system

| part | keeps | does | with whom |
|---|---|---|---|
| `capture/FramePumpService` (GUI thread) | shown state and generation (`ReplayBufferState`), owners of the session (`ReplayBufferOwners`), pending HDR request, preparing flag | start/stop, save, HDR screenshot, 1.5 s auto tick, update preparation | queued calls to and from the capture worker; App |
| `capture/FramePumpWorker` (capture thread) | pipeline and recorder, generation, export in flight, pending HDR request, pending restart | start/stop pump, poll, freeze a save, run an export, answer | `SegmentRecorder`, export thread |
| `capture/SegmentRecorder`, `SegmentLease` | ring list, open and prepared segment, failure counters; process-wide lease registry | restore, roll, discard, trim, snapshot | prep thread, export thread, disk |
| `capture/ReplayExporter` | - | concatenates leased segments into a clip | `CapturePublisher` |
| `capture/CapturePublisher` | reserved names, journal of `.part` files | reserve, publish by rename, discard, sweep at start | any capture thread, disk, other programs |
| `capture/ScreenshotService` | backlog counters, preparing flag | grab, encode on a pool of two, answer the update | `CapturePublisher`, App |
| `updates/*` | state, offered release, channel, skip, download | check, download, preflight, revalidate, install | GitHub, App, both capture services |
| `updater/*` (helper process) | `.update/` folder: phase, journal, backup, data snapshot, health token | swap, supervise, roll back, recover | the old and the new application |
| `gameinput/*`, `input/*` | devices, isolation policy, held controls, gestures, bindings | decode, arbitrate, recognise, dispatch, hand off to the game | Windows, overlay |
| `overlay/*` | visible, remembered game window, acquisition in progress, close under way | open, take the foreground, watch, close, hand pad and foreground back | Windows, `gameinput`, share hand-off |
| `storage/*` | SQLite rows, thumbnails | scan, watch, delete | disk, gallery |
| `share/ShareService` | open capture, targets and the query for them, the one active job, watchdog, history of outcomes | open, ask for targets, share, cancel, finish | every provider, by calls and signals |
| `share/external/*` | pipe, registration, job in hand, pending query, violations | register add-on programs, start and cancel a job, judge messages | add-on programs |
| `share/providers/*`, `telegram/*` | one job, the message it waits for | hand over or upload, confirm | Discord, Telegram Desktop, TDLib |
| `integration/*` | sessions, external game context | register, report a game, expire | launcher plug-ins (Playnite) |
| `config`, `core`, `launcher`, `localization`, `notify`, `sound`, `tray`, `ui`, `games`, `diagnostics` | settings, locks, models, presentation | | |

What is hard: the GUI and the worker exchange queued events and neither sees the
other's state (stale reports, unidentified answers, timers against late
answers); one file system is shared by the recorder, its preparation thread, the
exporter, both encoders, the user and other programs, and a crash may come
between any two operations; the update freezes all of this, replaces the program
with non-atomic moves, and decides after a crash from what is on disk.

What makes each part correct:

* recording: every accepted save or HDR request is answered once, in order; the
  shown state belongs to the session that was asked for; without owners nothing
  records; an update hears "ready" only from a quiet worker;
* ring: leased files stay, the list names existing files, the ring is bounded,
  a started export has video and whole segments only, a recorder that keeps
  failing stops, exports end;
* publishing: one owner per part file, nothing replaced, nothing partial under a
  final name, leftovers owned by the journal, foreign files untouched;
* updates: an answer goes to its question, only the revalidated release is
  installed, a skipped version stays silent, requests and preparations end;
* updater: the old version can always be rebuilt, mixtures are journaled and
  never started, a rollback restores program and data;
* overlay and handoff: the exclusive policy lasts as long as the overlay, a
  held control is not handed to the game before the bound, a request for the
  foreground ends with the window state it was made for, nothing is missed for
  good when Windows loses an event;
* sharing: targets belong to the open capture, one outcome per job and from its
  own provider, what is called sent, handed off or failed at an add-on is that,
  nothing that ended as sent or unconfirmed is sent again unasked;
* input (planned): no stuck control, no event for a released device.

## 2. Modules and how they correspond to the code

| module | models | composes |
|---|---|---|
| `SaveRequests` | what a user is promised: a save is accepted, then answered exactly once, first come first served | - |
| `FramePump` | both halves of the recording service, the two event queues and the export thread | `INSTANCE SaveRequests` with a refinement mapping |
| `FramePumpProofs` | theorems about `FramePump` | `EXTENDS FramePump, SequenceTheorems, TLAPS` |
| `SegmentRing` | recorder, preparation thread, lease registry, export thread, disk | - |
| `SegmentRingProofs` | theorems about `SegmentRing` | `EXTENDS SegmentRing, FiniteSetTheorems, TLAPS` |
| `CapturePublisher` | reservation, journal and publication | - |
| `CapturePublisherProofs` | theorems about `CapturePublisher` | `EXTENDS CapturePublisher, TLAPS` |
| `ScreenshotService` (`MCScreenshotService`) | encode backlog and update preparation | `EXTENDS CapturePublisher` |
| `ScreenshotServiceProofs` | theorems about `ScreenshotService` | `EXTENDS ScreenshotService, CapturePublisherProofs, FiniteSetTheorems` |
| `UpdateService` | the service, the release source, the downloader, App's preparation wiring and the two capture services as App sees them | - |
| `UpdateServiceProofs` | theorems about `UpdateService` | `EXTENDS UpdateService, TLAPS` |
| `NeutralHandoff` | focus policy, held controls, the bounded wait of a close | - |
| `Overlay` | showing, acquiring, watching and closing, with Windows and the game as environment | `EXTENDS NeutralHandoff` |
| `OverlayProofs` | theorems about `Overlay` | `EXTENDS Overlay, TLAPS` |
| `ShareJobs` | what sharing promises for its jobs, whatever a provider does | - |
| `ShareService` | the service's half of each handler | - |
| `ExternalProvider` | the add-on's connection, and the add-on program as environment | - |
| `Share` (`MCShare`) | the service with an add-on and a built-in provider | `EXTENDS ShareService, ExternalProvider`, `INSTANCE ShareJobs` |
| `ShareProofs` | theorems about `Share` | `EXTENDS Share, TLAPS` |
| `TelegramProvider` | the Telegram provider's job, with TDLib as environment | - |
| `ShareTelegram` (`MCShareTelegram`) | the service with that provider | `EXTENDS ShareService, TelegramProvider` |
| `Updater` (`MCUpdater`) | the helper, the application's start, and the package folder | - |
| `UpdaterProofs` | theorems about `Updater` | `EXTENDS Updater, TLAPS` |

**FramePump.**  GUI state: `gui` (shown state, generation, owners, target,
HDR slot, preparing).  Worker state: `worker` (session, generation, export, HDR
request, pending restart and update).
`toWorker` and `toGui` are the queued connections, in order; every GUI handler
(`DeliverState`, `DeliverClip`, ...) and every worker handler (`HandleStart`,
`HandleSave`, ...) is one action, because each runs to completion on its thread.
What Windows decides - whether a start succeeds, a segment closes, a frame
arrives, which game has focus - is a choice.  The `SavesAnsweredOnce` property
is the abstract specification `SaveRequests!Spec` under the mapping from owners
and queued events to outstanding requests: accepting a save is a `Dispatch`, the
handler of `saveRequestFinished` is an `Answer`, everything else stutters.
Left out: the capture border, audio, HDR tone mapping, destruction at exit.

**SegmentRing.**  A file is its creation index; the time-stamped names sort the
same way.  `content` is what a file's bytes mean to `restoreRing` and to
`remuxConcatImpl`.  `pc`, `task`, `todo` cut the worker's handlers exactly where
the export thread or the preparation thread can act between two steps:
`removeIfUnleased` locks per file, so a trim is a loop of `TrimFile`.
`Crash` loses everything in memory and leaves the open fragmented MP4 readable
or not.  `Age` makes files older than the stale limit.  Left out: deletions the
file system refuses, per-format cache folders, presentation times.  Two
constants stand for Media Foundation: `AudioMayVanish` (the encoder may refuse
a later segment's audio, which the code handles) and `AudioOnlyFinalizes`
(`Finalize` accepts a segment without a video sample).  Both are TRUE in
`segmentring`, so windows that mix segments with and without audio, and windows
that hold a segment of sound only, are frozen there; the exporter refuses the
former and may refuse the latter, and the save is then reported as failed.

**CapturePublisher / ScreenshotService.**  All captures carry the same time
stamp, so they compete for the same names; a name is its suffix number.
`Reserve`, `ProbeFinal`, `CreatePart`, `Record` are the steps of `reserve`
between which other threads run.  `Encode` may fail and leave a truncated part.
`ScreenshotService` wraps each capture's thread in a job that counts the
backlog, and the GUI's `prepareForUpdate` in two steps, setting the flag and
reading the counter.  Signals posted to the GUI arrive before its next timer or
key event.  The journal file can always be written.

**UpdateService.**  A release is a model value with a channel.  `requests` counts
the unanswered questions of each kind at the one release source; its answers are
the service's callbacks, which carry no request identity (`RequestsMatch` says
why that is enough).  The capture
services are what App sees: preparing, busy, about to answer, ready.  `Finish`
is `finishUpdatePreparation`; `PreparationTimesOut` the 30 s timer; `HandOver`
includes its three error paths.  Notes, ETags, persistence and the first start
after an update are left out; the debounce shows as a press that does nothing.

**Updater.**  The package folder is, for each owned path, which version lies in
the program, the backup, the staging and the failed folder; the data is one
value, as are the state files.  Every move, durable write and removal is an
atomic action and `Crash` may come before each; a move may be refused where the
code retries and gives up.  The helper, its `--recover` mode and the
application's start are modelled one at a time, as the instance mutex has it.
Left out: path validation, hashes (`Extract` succeeds or not), the mutex itself.

**NeutralHandoff / Overlay.**  `policy` is `GameInputFocusController` (attached,
mode), `pad` the controls that are down and what `HeldControlTracker` thinks of
them, `wait` the `NeutralHandoffRunner`.  `overlay`, `closing`, `acquirer`,
`raising` are the fields of `OverlayManager` and `ForegroundAcquirer`; `fg`,
`event` and `game` are Windows: who has the foreground, whether an event for it
is queued, and how the game's windows are.  Everything runs on one thread, but
`forceForeground` dispatches foreground events while it runs, so an attempt is
two actions (`Show` or `Retry`, then `AttemptReturns`) between which
`ForegroundEvent` may come and hide the overlay.  `Hide` is `hideInternal`,
`CompleteHide` everything from `onReleaseHandoffFinished` to the call for the
game.  `Decision` is the pure policy of `OverlayLifetimePolicy`.  A tick of the
probe is one action, and `Grace` counts ticks instead of 750 ms.

**ShareService / ExternalProvider / Share.**  `ShareService` and
`ExternalProvider` define operators for their half of a handler, `Share` joins
them into actions: providers call back from inside `start` and `cancel`, so an
action is one event with every such call.  Job ids are the positions in `jobs`,
the log of all jobs; the active one is the last while the phase says so.  A
write to the pipe arrives, is refused (the pipe is known to be gone) or breaks
the connection, whose loss is then noticed inside the write.  The add-on
program is environment: it tells the truth about deliveries, but may be silent,
late, repeat itself, speak of old jobs and disappear.  The built-in provider
does what `ShareProvider.h` allows any provider to do.  The targets of a
provider are one destination; the message queue, the reports and the jobs are
bounded by `MaxPipe`, `MaxReports`, `MaxJobs` and `Quota`.

**ShareJobs.**  The abstract specification has one variable, the log.  `Begin`
appends a job only when none runs and, if the last job to that place ended as
sent or unconfirmed, only a confirmed one; `End` ends the running one.  A job
that was cancelled or handed off asks no question, in the code as in the model.  `KeepsPromise` is
`ShareJobs!Spec` with `log <- jobs`, the liveness `Ends` included.

**TelegramProvider / ShareTelegram.**  `replies` are the requests at TDLib with
the answer each will get, `messages` what TDLib has, `updates` what it will
report.  TDLib answers and reports in any order.  Each request carries the job
that made it; the code's handlers do not look at it, and neither do the model's
(except `DeleteReply`, as in the code).  A lost account keeps its replies and
updates coming until its client is closed, which is when the next one starts
(`AccountReturns`).  Its `TypeOK` is asked by no run.

## 3. Runs

| run | asks | bounds |
|---|---|---|
| `framepump_saves` | saves, states, owners and the update, `SaveRequests` refined | 1 game, 2 saves, 3 external events, queues of 2 |
| `framepump_hdr` | is each HDR request answered, once, by the worker or the timer? | 2 games, 2 requests, 2 events, queue of 1 |
| `segmentring` | leases, list, bound, snapshots, giving up, end of exports | 5 files, lengths 1 and 2, 1 crash, give up after 2 failures |
| `segmentring_silent` | is audio ever silently dropped? (violated) | 6 files, no crash |
| `screenshots` | publishing and the backlog | 3 captures, 2 names, 2 threads, backlog 2, 1 preparation |
| `updates` | the whole update dialogue | one stable, one beta release |
| `updates_paused` | does the pause of captures end? (violated) | same |
| `updater` | swap, rollback, recovery | 3 owned paths: replaced, added, removed; any number of crashes |
| `updater_restart` | is recovery run only when it is needed? (violated) | same |
| `overlay` | policy, handoff, acquisition, lost events | a game with 2 windows, 1 control, 3 attempts, 2 probe ticks of grace |
| `share` | targets, outcomes, truth, `ShareJobs` refined, answers (liveness) | 2 captures, 2 jobs to an add-on or one to each provider, 2 violations, pipe of 1, 2 reports per job |
| `share_telegram` | is "sent" confirmed by Telegram? (violated) | 2 captures, 2 jobs |

Why these bounds are enough for the cases they are for: two saves are the
running one and one that meets it, three events reach a focus change, a settings
restart and a preparation around them; five files are a full window of two, an
open and a prepared segment and a restored one, so that a trim meets a lease;
two game windows are the remembered one and its replacement, and with the
overlay, the gallery, another application and no window at all they are every
case of `Decision`; three attempts are the code's own number; two jobs are the
one that is given up and the one its late messages meet, and two violations are
one that is tolerated and one that ends the connection (the code's
`kMaxViolations` only repeats the first);
two names make three captures collide and run out; three paths exercise every
branch of the swap loop and the crash at each of its operations.

Deadlock is checked for `Updater`, `Overlay`, `Share` and `ShareTelegram`, in
which the user can always do something.  The other models stop where a named
bound is used up (events, file names, captures), or where the program quits to
be replaced (`UpdateService`); their configurations say `CHECK_DEADLOCK FALSE`.

Every property of a passing run has a mutant in `PROJECT.json`: a definition of
the same module with a plausible bug (a release before the answer, a check
outside the lock, a trim forgotten, a timer that keeps its owner), which TLC
refutes under the run's own configuration.

## 4. Fairness

* `FramePump`: weak fairness of each event loop, of the export thread and of the
  five-second timer.  Both loops are Qt event loops whose handlers return; the
  export is bounded work.  Nothing is assumed of the user, of focus or of frames
  (`HdrAnsweredOnce` holds though no frame ever comes, thanks to the timer).
* `SegmentRing`: weak fairness of a handler that has started and of the two helper
  threads; strong fairness of the queued `finished` event, since the recorder's
  poll may be running whenever one looks, but the event queue is served in order.
* `UpdateService`: weak fairness of every answer of the source (a transfer
  timeout bounds each request), of the end of a download and of capture work,
  and of the timers.
* `Overlay`: weak fairness of the return of a call into Windows, of the retry and
  the probe timer, of the handoff's poll and of its clock.  Nothing is assumed of
  the user, the game, the pad or of Windows' events: `CloseEnds` holds though a
  button is never released, `WatchActs` though every event is lost.
* `Share`: weak fairness of the watchdog and of the ten seconds an add-on has for
  its targets.  The watchdog is restarted by each report of progress; it fires in
  the end because a provider reports a job finitely often (`MaxReports` in the
  model; the code's `jobTimeoutMs` bounds silence, not chatter).  Nothing is
  assumed of the add-on, the built-in provider or the user.
* `ShareTelegram`: weak fairness of the watchdog; its run asks for safety.
* `ScreenshotService` and `Updater`: safety only.

## 5. Proofs

Every safety invariant and safety action property that a passing run checks is
also a theorem: the run shows it on a small instance, the theorem for every value
of the constants.

`FramePumpProofs` proves, for any games and any `MaxSaves`, `MaxHdr`, `MaxEvents`
and `MaxQueue`, assuming `FramePumpAssumption` (types; the two special windows are
no games; `NoPipe` is no session):

* `TypeCorrect`: `Spec => []TypeOK`;
* `GenerationSafety`: `Spec => []ConfirmedByThisGeneration`;
* `QuiescenceSafety`: `Spec => []QuiescentWhenReady`;
* `OwnerSafety`: `Spec => []NoOwnerNoCapture`;
* `Implements`: `Spec => Requests!Init /\ [][Requests!Next]_<saves>`, the safety
  part of the refinement `SavesAnsweredOnce`;
* `HdrSafety`: an answered HDR request keeps its answer, the safety part of
  `HdrAnsweredOnce`.

None is inductive, since what the two threads know of each other is in the queues.
`IInv` is about the messages under way.  `Generations`: a `start` or `stop` on its
way is newer than the worker, younger ones are newer still, and no report is ahead
of the worker, so an accepted confirmation is the current session's.
`Quiescence`, `Prepared`: an answer to a preparation that the service would still
accept is true when it is read, because every start behind it has a newer
generation.  `Stopped`, `Unowned`: a session that is not wanted has its `stop` or
`prepare` under way with no start behind it.  `SaveFlow`: an accepted save is in
exactly one place - the command queue, the worker, the export, the report queue -
and its `clip` comes before its `finished`; this is what maps a step to
`SaveRequests`.  `HdrFlow`: the service's slot belongs to a requester that waits.
A handler is a chain of operators that post and assign; the conjuncts take the two
halves and the two queues as arguments, each operator has a lemma for what it keeps
of them, and a handler's lemma cites those of its links.

`SegmentRingProofs` proves, for all `Keeps`, `MaxFiles`, `MaxCrashes`, `MaxFailed`
and both audio flags, assuming only `SegmentRingAssumption` (their types):

* `TypeCorrect`: `Spec => []TypeOK`;
* `LeaseSafety`: `Spec => []LeasedFilesStay`;
* `RingSafety`: `Spec => []RingOnDisk`;
* `WindowSafety`: `Spec => []RingBounded`;
* `SnapshotSafety`: `Spec => []SnapshotIsWhole`, whatever the encoder and `Finalize`
  do.  It leaves out what is false of the code: a window that mixes segments with
  and without audio is frozen and refused by the exporter (`ReplayExporter.cpp:286`),
  and one without any is exported silent (run `segmentring_silent`);
* `RecordingSafety`: `Spec => []ActiveMeansRecording`.

None of the first three is inductive alone.  The invariant is

    IInv == TypeOK /\ LeasedFilesStay /\ RingOnDisk /\ Names /\ OpenSegments /\ Flow

`Names`: files on disk and the two open files carry names that were handed out, so
that a new name is neither leased nor listed.  `OpenSegments`: the open segment
exists and is not the prepared one; both are deleted without asking the lease
registry, so without it a discard could take a listed file.  `Flow`: which files
can be open at each point of a handler and what its loop still has to look at;
a restore only deletes files that are not listed yet, and there is no lease and
no list before the process has started.  `Inductive` proves `IInv /\ [Next]_vars => IInv'`, one step per
action, one sub-step per conjunct that the action can disturb; `NewestSubset` is
the lemma on the newest files of a set that the snapshot and trim steps use.
The last three theorems have invariants of their own on top of `IInv`.  `Bounded` says
how long the list is within a handler, or will be when its trim is done, and
`Exporting` where the lease that suspends the trim can exist; `NewestSize` bounds the
newest files by the pigeonhole principle.  `Whole`: a file with a hole is open and
has poisoned the recorder, so it is thrown away and never listed; `Frozen`: a lease
is the recorder's window until the export is handed over, and only with video in it.
`Counting`: whoever opens a segment has looked at the count of failed ones first.

`CapturePublisherProofs` proves, for any captures and any `MaxNames`, assuming
`CapturePublisherAssumption` (nobody and other programs are no captures; there is a
name):

* `TypeCorrect`: `Spec => []TypeOK`;
* `PublicationSafety`: `Spec => []PublishesItsOwn`, that is `OwnsItsFile` and
  `GalleryIsWhole`;
* `LeftoversSafety`: `Spec => []LeftoversOwned`;
* `OthersSafety`: `Spec => OthersUntouched`.

    IInv == TypeOK /\ OwnsItsFile /\ Whole /\ GalleryIsWhole /\ JournalOwn
            /\ PartMine /\ Leftovers

`Whole`: who is about to rename has encoded.  `JournalOwn`: the journal names no
other program's file, or the sweep would remove it.  `PartMine`: a file lies under
the name its capture still holds, so the name says whose it is.  `LeftoversOwned` is
not inductive: it excuses a thread that probes a name, and that thread then goes on
to create; `Leftovers` excuses it until the creation has failed or succeeded.

`ScreenshotServiceProofs` proves, for any captures, `Workers`, `Backlog` and
`MaxUpdates`, assuming `ScreenshotServiceAssumption` (types) and the publisher's:

* `Implements`: `ServiceSpec => Spec`, the service as a refinement of
  `CapturePublisher`, so that
* `PublisherSafety`: all four properties above hold under `ServiceSpec`;
* `AnswerSafety`: `ServiceSpec => []PreparationAnswered`.

`AnswerSafety` counts: the backlog counter is the number of jobs that hold a place,
so the set of them is finite, and the job whose leaving brings it to zero has to
see the flag (`Flagged`) or the preparing thread has to see zero (`Asking`).

`UpdateServiceProofs` proves, for any `Releases` and `Betas`, assuming
`UpdateServiceAssumption` (betas are releases; the installed version and "none"
are not on offer):

* `TypeCorrect`: `Spec => []TypeOK`;
* `RequestsSafety`: `Spec => []RequestsMatch`;
* `VerifiedSafety`: `Spec => []InstallsVerified`;
* `QuietSafety`: `Spec => []InstallsQuiet`;
* `SkippedSafety`: `Spec => []SkippedStaysSilent`.

The properties speak of the last state of a chain; inductive is what the states
before it hold ready.  `Waiting`: a request is out exactly in the state that waits
for it.  `InHand`: from the download to the installation the release stays the one
in hand, verified and not skipped.  `Quieting`: in a preparation both services refuse
work and what was reported ready stays ready; the timer that would give the
preparation up is off before the last revalidation is asked for.

`UpdaterProofs` proves, for any list `Owned` of paths and any versions `OldHas`
and `NewHas` of them, assuming `UpdaterAssumption` (`Owned` is a non-empty list
without repetition; both versions are made of its paths):

* `TypeCorrect`: `Spec => []TypeOK`;
* `FilesSafety`: `Spec => []OldKept`;
* `JournalSafety`: `Spec => []MixIsJournaled`;
* `VersionSafety`: `Spec => []VersionsWhole`.

    IInv == TypeOK /\ OnePlace /\ Journaled /\ Progress /\ Whole /\ Controls

A crash forgets the step and keeps the disk, so one half of the invariant is about
the disk alone: `OnePlace`, where each path's two contents may be, `Journaled`, a
mixture has a journal that tells the truth, and, in `Controls`, what the recorded phase,
the health token and the data say of each other.  The other half is how far a loop
has come: `Progress` splits the paths at the loop's index for the swap, its undoing
and the rollback; `Whole` is what is open.  The token is the delicate part
(`Tokens`): a recovery that finds one trusts the new version, so a token may
outlive the journal only with the data in place, and data half restored under a
token still have their journal.  The proof groups the actions by what they move:
`TypesKept`, `ControlsKept`, `FilesStay` and `FilesMove`.

`ShareProofs` proves, for any captures and any `DirectSend`, `Quota`, `MaxJobs`,
`MaxViolations`, `MaxPipe` and `MaxReports`, assuming `ShareServiceAssumption`,
`ExternalAssumption` (types) and `ProvidersAssumption` (the two providers that
are composed):

* `TypeCorrect`: `Spec => []TypeOK`;
* `CaptureSafety`: `Spec => []RightCapture`;
* `TruthSafety`: `Spec => []ExternalTruth`;
* `OwnEnds`: `Spec => OwnVerdict`;
* `Refines`: `Spec => Promise!Init /\ [][Promise!Next]_jobs`, the safety part of
  `KeepsPromise`.

The inductive invariant is

    IInv == TypeOK /\ Journal /\ Holder /\ Held /\ RightCapture /\ Asked
            /\ Known /\ TrueMessages /\ TrueLog

`Journal`: the service is busy exactly while the last job of the log runs, and
the history remembers every place that would need a confirmation; this is what
lets a step map to `ShareJobs`.  `Holder`: the add-on holds the job the service
waits for, so a loss leaves it unconfirmed and never failed.  `Asked`: a query
at the add-on is about the open capture, without which `RightCapture` is not
inductive.  `Known`: nobody knows a job that was not started, so a new number is
new to the program and the pipe as well.  `TrueMessages` and `TrueLog`: what is
said stays true, because a job that was called failed is settled - the program
works on something else or on nothing.  The proof goes through three views of a
step: `EveryStep` (the log changes in one of five ways), `EveryProviderStep`
(the pipe and the program in one of eight) and `DestinationsKept`; the actions
are opened in these three lemmas only.

`OverlayProofs` proves, for any `Controls`, `Games`, `MaxAttempts` and `Grace`,
assuming `OverlayAssumption` (their types, and that no game window is one of the
four other windows):

* `TypeCorrect`: `Spec => []TypeOK`;
* `PolicySafety`: `Spec => []PolicyScoped`;
* `AcquirerSafety`: `Spec => []AcquirerFollowsWindow`;
* `HeldSafety`: `Spec => HeldNotExposed`.

    IInv == TypeOK /\ PolicyScoped /\ AcquirerFollowsWindow /\ AsksHidden /\ Attempts
            /\ Remembers

`PolicyScoped` and `AcquirerFollowsWindow` need each other: a close may begin to
wait without stopping the acquirer because a policy in force means that no
acquisition is pending, and that holds because the policy is taken in the step
that settles the acquirer.  `Attempts`: a pending retry has an attempt left, so
the counter keeps its type, and a call under way has a target.  `AsksHidden`: as the
code closes, the window is down when the game is asked (the documents have it the
other way round, see section 6).  `Remembers`: the
overlay never returns to itself, so a hide cannot ask for the window it hides.
`HidingKeeps` and `ClosingKeeps` are the one argument for all ways of hiding;
`CoreKept` has one step per action.  `HeldSafety` follows from the invariant: out
of an exclusive session only a hide asks for the game, and one that does not wait
finds no control held (`HideExposesNothing`).

Only model-checked are the liveness properties, which hold under fairness and are
out of the prover's reach: `ExportEnds`, `WaitsEnd`, `CloseEnds`, `WatchActs`,
`ListArrives`, that saves and HDR requests are answered (in `SavesAnsweredOnce` and
`HdrAnsweredOnce`) and that jobs end (in `KeepsPromise`).  `TelegramProvider` and
`ShareTelegram` have no theorem: their one run is expected to be violated.

## 6. Findings

Four runs are expected to be violated; each quotes a sentence of the repository
that the code does not keep (`PROJECT.json`, "findings"): a silent clip after a
refused audio stream; captures that stay paused after a refused revalidation; a
start that opens nothing after every successful update; and a Telegram job that
is reported as sent through the confirmation of another job's message.

Disagreements without a run.  The modules state six more formulas next to the
properties they limit.  The code does not keep them: TLC refutes each when it is
asked under the constants of its module's passing run.  The first four contradict
a text of the repository.

* `Share!CancelledNeverArrives`: a job cancelled before the provider reports
  progress ends as cancelled at once (`ShareService.cpp:408-419`), but an add-on has
  the job, with the path of the capture, since `job.start`, and may deliver it.
  docs/share-platform.md:41 says of cancelled "Stopped before anything left GameHQ.",
  `ShareDialog.qml:194` says "Sharing cancelled. Nothing was sent.", and
  docs/share-provider-api-v1.md:276 has GameHQ keep "the job open until your result
  arrives or the timeout ends it".  The capture may then be sent again without a
  question.  `ExternalTruth` therefore speaks of sent, handed off and failed only.
* `Overlay!ForegroundBeforeHide`: at the end of a close the code restores the policy,
  hides the window (`OverlayManager_Close.cpp:212`) and then asks for the game (236).
  docs/overlay.md:93 says "the policy is restored, then the foreground goes back, then
  the window hides", docs/controller-input.md:233 the same.  The policy comes before
  the foreground in both; `AcquirerFollowsWindow` asks for what they share.
* `FramePump!ShownRecordingHasSession`: when the application gives up an update
  preparation (`App_UpdateWiring.cpp:150`) after the worker ended its session, the
  worker's `updateReady` is ignored and the user keeps seeing Recording without a
  recorder; docs/replay-buffer.md:60 has Recording mean "Capture session started and
  replay recorder is active".
* `Updater!ConfirmedIsWhole`: a health token published while the supervisor gives up
  lets the recovery of an interrupted rollback record a half rolled back program as
  healthy (`UpdaterRecovery.cpp:229`), where the comment at line 51 calls a matching
  token "proof the update itself succeeded".
* `CapturePublisher!ReservedNameStaysFree`: a reserved name may be taken before
  the part file exists; the rename still never replaces.
* `ScreenshotService!QuiescentWhenReady`: an encode may be running when the
  service says ready, if a preparation is repeated at the wrong moment.

Two more behaviours the models have and no formula states.  A Telegram job given up
before TDLib's reply is called cancelled though the message may still go out
(`TelegramIntegratedProvider.cpp:519`): when the user gave it up,
docs/share-platform.md:41 says nothing left GameHQ; when the watchdog did, lines
62-64 have it end as unconfirmed.  And an add-on that never answers a cancellation
refuses every later job until it reconnects (`ExternalProvider.cpp:137`), which no
text judges.

## 7. Not modelled, and the plan

In this order, with the property each is for:

1. `input`: `InputPatternRecognizer` (press, hold, double press and chords over
   small times, against a reference definition), `ControllerArbitration`; the
   bounded event queue of `gameinput` at its limit: every press is released once;
2. `integration`: sessions, the external game context and its expiry;
3. `storage`: scanner, watcher and deletion; `ui/CaptureLibraryService`;
4. `share`: several destinations per provider, a second claim of an identity and
   the handshake at `ExternalProviderHost`; the webhook upload;
5. `telegram` (authorisation, idle suspension), `config` (quarantine), `core`
   (handshake, mutexes), `launcher` (promotion of the staged updater, composed
   with `Updater`);
6. pure algorithms as operators: version order, update schedule, release
   manifest rules, audio/video rebase in `SegmentRecorder`.

Proofs to come: that the composition with Telegram keeps the types and steps as
`ShareJobs` does, as `Share` is proved to; a `Spec` of one abstract publication that
`CapturePublisher` and the exporter implement; and the safety properties of the
modules above as they are written.

Not planned: QML and presentation, media encoding, HID report decoding, SQL
migrations, network protocols of the concrete providers, logging, translation
and sound: data and I/O without control that another component depends on.
