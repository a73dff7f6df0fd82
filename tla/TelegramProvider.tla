---------------------------- MODULE TelegramProvider ---------------------------
(***************************************************************************)
(* TelegramIntegratedProvider's job, the requests it has at TDLib through   *)
(* telegram::Account, and TDLib itself as environment.                     *)
(*                                                                         *)
(* A reply finds its handler by its request, not by the job it was made     *)
(* for, so every request and message here carries the number of the job    *)
(* that made it ("job"), which the code does not look at.  TDLib answers    *)
(* and reports in any order.  Left out: the login, idle suspension (an      *)
(* account that is away), file checks (a job refused on the spot).         *)
(***************************************************************************)
EXTENDS Naturals, FiniteSets

VARIABLES
  online,    \* the account is Connected
  tg,        \* m_job: id (0: not active), queued, message
  early,     \* m_earlySucceeded, m_earlyFailed
  replies,   \* the requests made of TDLib, with the reply that is on its way
  messages,  \* the messages it has: job that asked for it, "sending", "sent" ...
  updates    \* what it reports about them

telegramVars == <<online, tg, early, replies, messages, updates>>

NoTg == [job |-> 0, queued |-> FALSE, message |-> 0]
NoEarly == [ok |-> {}, bad |-> {}]

\* kind: "chat" is createPrivateChat, "send" sendMessage, "delete" deleteMessages.
Call(kind, j, m) == [kind |-> kind, job |-> j, message |-> m]

TelegramInit ==
  /\ online = FALSE /\ tg = NoTg /\ early = NoEarly
  /\ replies = {} /\ messages = {} /\ updates = {}

\* finishJob.
TgDone == tg' = NoTg /\ early' = NoEarly

Fate(j, fate) == [job |-> j, fate |-> fate]

-----------------------------------------------------------------------------
(* TDLib.                                                                  *)

\* request, made while replies w are still to come: TDLib creates a message under a
\* local id and begins its upload, deletes one, or refuses, and replies some time.
RequestBeside(w, c, ok) ==
  /\ replies' = w \cup {[call |-> c, ok |-> ok]}
  /\ messages' =
       IF ~ok \/ c.kind = "chat" THEN messages
       ELSE IF c.kind = "send" THEN messages \cup {Fate(c.job, "sending")}
       ELSE {m \in messages : m.job # c.message} \cup {Fate(c.message, "deleted")}

Request(c, ok) == RequestBeside(replies, c, ok)

\* The handler of reply r makes a request, or none.
RequestAfter(r, c, ok) == RequestBeside(replies \ {r}, c, ok)
Dealt(r) == replies' = replies \ {r} /\ UNCHANGED messages

\* updateMessageSendSucceeded or updateMessageSendFailed is on its way.
TdlibSends(j, fate) ==
  /\ Fate(j, "sending") \in messages
  /\ messages' = (messages \ {Fate(j, "sending")}) \cup {Fate(j, fate)}
  /\ updates' = IF online THEN updates \cup {Fate(j, fate)} ELSE updates
  /\ UNCHANGED <<online, tg, early, replies>>

\* whenConnected has asked the account to resume: a new client, which has nothing of
\* what the one before was asked.
AccountReturns ==
  /\ ~online /\ online' = TRUE
  /\ replies' = {} /\ updates' = {}
  /\ UNCHANGED <<tg, early, messages>>

-----------------------------------------------------------------------------
(* The provider's half of its handlers; each is completed by what the       *)
(* service does with the verdict (ShareTelegram).                           *)

\* start, up to the first request: a known chat, or a private chat to be opened.
TgStart(j, kind) ==
  /\ tg' = [NoTg EXCEPT !.job = j]
  /\ \E ok \in BOOLEAN : Request(Call(kind, j, 0), ok)
  /\ UNCHANGED <<online, early, updates>>

\* cancel on a queued message asks for its deletion; before that the job is over.
CancelDeletes(j) == tg.job = j /\ tg.queued
CancelEnds(j) == tg.job = j /\ ~tg.queued

TgCancel(j) ==
  /\ IF CancelEnds(j) THEN TgDone ELSE UNCHANGED <<tg, early>>
  /\ IF CancelDeletes(j) THEN \E ok \in BOOLEAN : Request(Call("delete", j, tg.message), ok)
     ELSE UNCHANGED <<replies, messages>>
  /\ UNCHANGED <<online, updates>>

\* onAccountStateChanged.  The client may go on for a while, and what it still
\* answers finds no job.
TgLost ==
  /\ online' = FALSE /\ TgDone
  /\ UNCHANGED <<replies, messages, updates>>
=============================================================================
