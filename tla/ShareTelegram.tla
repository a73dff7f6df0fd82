----------------------------- MODULE ShareTelegram ----------------------------
(***************************************************************************)
(* Sharing to a Telegram account: the service (ShareService) composed with  *)
(* TelegramProvider.  Everything runs on the GUI thread; an action is one   *)
(* event with every call back from inside start and cancel.                *)
(***************************************************************************)
EXTENDS ShareService, TelegramProvider

\* The instance has one provider, "telegram", which declares DirectSend.

vars == <<serviceVars, telegramVars>>

Init == ServiceInit /\ TelegramInit

-----------------------------------------------------------------------------
(* The user.                                                               *)

UserOpens ==
  /\ phase = "idle"
  /\ \E c \in Captures : Open(c)
  /\ UNCHANGED telegramVars

UserCloses == Close /\ UNCHANGED telegramVars

\* requestTargets of Telegram, whose account may first have to resume.
AskTelegram ==
  /\ phase = "choosing"
  /\ Asks("telegram")
  /\ UNCHANGED <<phase, jobs, history, telegramVars>>

\* share to Telegram.  An account that is away, or a file it cannot take, fails
\* the job inside start.
ShareTelegram ==
  LET confirmed == NeedsConfirmation("telegram") IN
    /\ phase = "choosing" /\ MayShare("telegram", confirmed)
    /\ \/ /\ BeginsAndEnds("telegram", confirmed, "failed")
          /\ TgDone /\ UNCHANGED <<online, replies, messages, updates>>
       \/ /\ online
          /\ Begins("telegram", confirmed)
          /\ \E kind \in {"chat", "send"} : TgStart(Active + 1, kind)
    /\ UNCHANGED session

\* TelegramIntegratedProvider::cancel; before the message is queued the provider
\* reports the job cancelled itself, before the service can say anything.
CancelTelegram(end) ==
  /\ TgCancel(Active)
  /\ IF CancelEnds(Active) THEN FinishActive("cancelled")
     ELSE IF end = "none" THEN UNCHANGED <<phase, jobs, history>>
     ELSE FinishActive(end)
  /\ UNCHANGED session

\* cancel: at once if nothing is moving yet, else the provider has the word.
UserCancels ==
  /\ Runs("telegram")
  /\ CancelTelegram(IF phase = "transferring" THEN "none" ELSE "cancelled")

\* The watchdog: no result and no progress for ten minutes.
Watchdog == Runs("telegram") /\ CancelTelegram("unconfirmed")

-----------------------------------------------------------------------------
(* Telegram.                                                               *)

TdlibActs ==
  /\ \/ session.pending /\ AccountReturns
     \/ \E m \in messages, fate \in {"sent", "failed"} : TdlibSends(m.job, fate)
  /\ UNCHANGED serviceVars

\* What the provider reports as the end of its job.
TgEnds(outcome) == TgDone /\ OnJobFinished("telegram", tg.job, outcome)
TgKeeps == UNCHANGED <<tg, early, phase, jobs, history>>

\* createPrivateChat's reply: whatever job is active now is taken to be its own.
ChatReply(r) ==
  IF tg.job = 0 THEN TgKeeps /\ Dealt(r)
  ELSE IF ~r.ok THEN TgEnds("failed") /\ Dealt(r)
  ELSE /\ OnJobProgress("telegram", tg.job, FALSE)
       /\ \E ok \in BOOLEAN : RequestAfter(r, Call("send", r.call.job, 0), ok)
       /\ UNCHANGED <<tg, early>>

\* onSendReply; the confirmation may be there already.
SendReply(r) ==
  /\ IF tg.job = 0 THEN TgKeeps
     ELSE IF ~r.ok THEN TgEnds("failed")
     ELSE IF r.call.job \in early.ok THEN TgEnds("sent")
     ELSE IF r.call.job \in early.bad THEN TgEnds("failed")
     ELSE /\ tg' = [tg EXCEPT !.queued = TRUE, !.message = r.call.job]
          /\ OnJobProgress("telegram", tg.job, TRUE)
          /\ UNCHANGED early
  /\ Dealt(r)

\* The reply to deleteMessages does look at the job.
DeleteReply(r) ==
  /\ IF tg.job = r.call.job /\ r.ok THEN TgEnds("cancelled") ELSE TgKeeps
  /\ Dealt(r)

ReplyComes ==
  /\ \E r \in replies :
       CASE r.call.kind = "chat" -> ChatReply(r)
         [] r.call.kind = "send" -> SendReply(r)
         [] r.call.kind = "delete" -> DeleteReply(r)
  /\ UNCHANGED <<session, online, updates>>

\* onUpdate.
UpdateComes ==
  /\ \E u \in updates :
       /\ updates' = updates \ {u}
       /\ IF tg.job = 0 THEN TgKeeps
          ELSE IF tg.queued /\ tg.message = u.job THEN TgEnds(u.fate)
          ELSE /\ early' = IF u.fate = "sent" THEN [early EXCEPT !.ok = @ \cup {u.job}]
                           ELSE [early EXCEPT !.bad = @ \cup {u.job}]
               /\ UNCHANGED <<tg, phase, jobs, history>>
  /\ UNCHANGED <<session, online, replies, messages>>

\* The account leaves Connected; a query of targets is never answered then.
AccountLost ==
  /\ online
  /\ TgLost
  /\ IF tg.job # 0 THEN OnJobFinished("telegram", tg.job, "unconfirmed")
     ELSE UNCHANGED <<phase, jobs, history>>
  /\ UNCHANGED session

\* The list is there, or the account could not be resumed in time; an account lost
\* while the list is loaded never answers.
TelegramAnswers ==
  /\ session.pending
  /\ \E found \in BOOLEAN : (found => online) /\ OnTargetsReady("telegram", session.capture, found)
  /\ UNCHANGED <<phase, jobs, history, telegramVars>>

Next ==
  \/ UserOpens \/ UserCloses \/ AskTelegram \/ ShareTelegram
  \/ UserCancels \/ Watchdog
  \/ TdlibActs \/ ReplyComes \/ UpdateComes \/ AccountLost \/ TelegramAnswers

\* The watchdog fires; neither TDLib nor the user owes anything.
Spec == Init /\ [][Next]_vars /\ WF_vars(Watchdog)

-----------------------------------------------------------------------------
(* What must hold.                                                         *)

TypeOK ==
  /\ ServiceTypeOK
  /\ online \in BOOLEAN
  /\ tg \in [job : 0..MaxJobs, queued : BOOLEAN, message : 0..MaxJobs]
  /\ early \in [ok : SUBSET (1..MaxJobs), bad : SUBSET (1..MaxJobs)]
  /\ replies \subseteq [call : [kind : {"chat", "send", "delete"}, job : 1..MaxJobs,
                               message : 0..MaxJobs], ok : BOOLEAN]
  /\ messages \subseteq [job : 1..MaxJobs, fate : {"sending", "sent", "failed", "deleted"}]
  /\ updates \subseteq [job : 1..MaxJobs, fate : {"sent", "failed"}]

\* docs/share-platform.md: Sent is reported only after TDLib's
\* updateMessageSendSucceeded for that message.
SentIsConfirmed ==
  \A i \in 1..Active : jobs[i].place[2] = "telegram" /\ jobs[i].outcome = "sent" =>
    \E m \in messages : m.job = i /\ m.fate \in {"sent", "deleted"}
=============================================================================
