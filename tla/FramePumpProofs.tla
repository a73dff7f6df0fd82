--------------------------- MODULE FramePumpProofs ----------------------------
(***************************************************************************)
(* The replay buffer's safety, for every number of games, saves, HDR       *)
(* requests, outside events and queued messages.                           *)
(*                                                                         *)
(* The invariant speaks of what is in flight: of the commands the worker   *)
(* has not handled and of the reports the service has not seen.  Its parts *)
(* take the two halves and the two queues as arguments, because a handler  *)
(* is a chain of operators and every link of the chain must keep them; the *)
(* queue is then the one that the handler found with what it has posted.   *)
(*                                                                         *)
(* Queue lemmas come first: what posting or taking a message leaves of     *)
(* each part.  Then the operators of the service and its handlers, the     *)
(* operators of the worker and its handlers, and the theorems.             *)
(***************************************************************************)
EXTENDS FramePump, SequenceTheorems, TLAPS

\* How a request ends; a token is never 0, which stands for no request.
Verdict == {"saved", "failed"}
Token == Nat \ {0}

\* What the service posts to the worker, and the export thread behind it.
Command ==
  [type : {"start", "stop", "prepare"}, generation : Nat]
  \cup [type : {"save", "hdr"}, generation : Nat, token : Token]
  \cup [type : {"cancelHdr"}, token : Nat] \cup [type : {"cancel"}]
  \cup [type : {"exported"}, token : Token, verdict : Verdict]

\* What the worker signals to the service.
Report ==
  [type : {"state"}, generation : Nat, state : BufferState]
  \cup [type : {"restart", "updateReady"}, generation : Nat]
  \cup [type : {"clip"}, verdict : Verdict] \cup [type : {"finished"}, token : Token]
  \cup [type : {"hdrDone"}, token : Token, verdict : Verdict]

\* The two halves, in the middle of a handler too.
GuiType ==
  [state : BufferState, generation : Nat, hwnd : Window, game : Window,
   auto : BOOLEAN, manual : Nat, savePending : BOOLEAN, hdr : Nat,
   sequence : Nat, activeReplay : {0} \cup Save, activeHdr : {0} \cup Hdr,
   noGameTicks : Nat, preparing : BOOLEAN, sent : Seq(Command)]
WorkerType ==
  [generation : Nat, state : BufferState, pipe : {NoPipe} \cup PipeType, hdr : Nat,
   exportToken : Nat, updatePreparing : BOOLEAN, updateGeneration : Nat, emitted : Seq(Report)]
\* What the requesters have been told; entry 0 belongs to nobody.
SavesType == [{0} \cup Save -> {"idle", "rejected", "dispatched"} \cup Verdict]
HdrsType == [{0} \cup Hdr -> {"idle", "pending", "failed"} \cup Verdict]

\* A message of the type is on its way.
Has(queue, type) == \E k \in DOMAIN queue : queue[k].type = type

\* Some message of the queue has the type, and none of the types comes behind it.
LastOf(q, type, after) ==
  \E k \in DOMAIN q : /\ q[k].type = type
                      /\ \A j \in DOMAIN q : j > k => q[j].type \notin after

\* At most one message of the type is.
Once(queue, type) ==
  \A j, k \in DOMAIN queue : queue[j].type = type /\ queue[k].type = type => j = k

\* The commands that carry a new generation.
Switch == {"start", "stop"}

\* Generations only grow on their way to the worker, no report is ahead of it, and what
\* the service shows as running is what the worker has reached.
Generations(g, q, w, r) ==
  /\ w.generation <= g.generation
  /\ \A k \in DOMAIN q : q[k].type \in Switch =>
       /\ w.generation < q[k].generation /\ q[k].generation <= g.generation
       /\ \A j \in DOMAIN q : j > k /\ q[j].type \in Switch => q[k].generation < q[j].generation
  /\ \A k \in DOMAIN r : r[k].type = "state" => r[k].generation <= w.generation
  /\ CanSave(g.state) => w.generation = g.generation

\* Nothing records and nothing is exported.
NoSession(w) == w.pipe = NoPipe /\ w.exportToken = 0

\* A start that follows a preparation is newer than every answer to it; an answer that
\* the service would still accept tells the truth, and so does an accepted one.
Quiescence(g, q, w, r, a) ==
  /\ \A k \in DOMAIN q : q[k].type = "prepare" =>
       /\ q[k].generation <= g.generation
       /\ \A j \in DOMAIN q : j > k /\ q[j].type = "start" => q[k].generation < q[j].generation
  /\ w.updateGeneration <= g.generation
  /\ \A k \in DOMAIN q : q[k].type = "start" => w.updateGeneration < q[k].generation
  /\ \A k \in DOMAIN r : r[k].type = "updateReady" =>
       /\ r[k].generation <= g.generation
       /\ \A j \in DOMAIN q : q[j].type = "start" => r[k].generation < q[j].generation
       /\ r[k].generation = g.generation => NoSession(w)
  /\ a = "ready" => g.preparing /\ ~Has(q, "start") /\ NoSession(w)

\* A prepared service: the worker is told last, or knows and has no session but one that
\* an export holds.
Prepared(g, q, w) ==
  g.preparing =>
    \/ LastOf(q, "prepare", {"start", "cancel"})
    \/ /\ w.updatePreparing /\ ~Has(q, "start") /\ ~Has(q, "cancel")
       /\ w.pipe = NoPipe \/ w.exportToken # 0

\* The worker has no session, or will end it and open no other.
Halted(q, w) == (w.pipe = NoPipe /\ ~Has(q, "start")) \/ LastOf(q, "stop", {"start"})

\* A service that shows Stopped has stopped the worker, or told it to.
Stopped(g, q, w) == g.state = "Stopped" => Halted(q, w)

\* A session without an owner is on its way out.
Unowned(g, q, w) ==
  NeedsSession(g) \/ g.preparing \/ Halted(q, w) \/ LastOf(q, "prepare", {"start"})

\* Where an admitted save is: commanded, in the worker's hands (`hole`), exported, or
\* answered and not yet released; and whose it is.
SaveFlow(g, q, w, r, s, hole) ==
  /\ Once(q, "save") /\ Once(q, "exported") /\ Once(r, "clip") /\ Once(r, "finished")
  /\ Has(q, "exported") => w.exportToken # 0
  /\ g.savePending <=> hole \/ Has(q, "save") \/ w.exportToken # 0 \/ Has(r, "finished")
  /\ hole => ~Has(q, "save") /\ w.exportToken = 0 /\ ~Has(r, "finished")
  /\ Has(q, "save") => w.exportToken = 0 /\ ~Has(r, "finished")
  /\ w.exportToken # 0 => ~Has(r, "finished")
  /\ Has(r, "clip") => Has(r, "finished")
  /\ \A j, k \in DOMAIN r : r[j].type = "clip" /\ r[k].type = "finished" => j < k
  /\ \A k \in DOMAIN q : q[k].type \in {"save", "exported"} => q[k].token = g.manual
  /\ \A k \in DOMAIN r : r[k].type = "finished" => r[k].token = g.manual
  /\ w.exportToken \in {0, g.manual}
  /\ g.savePending => g.manual # 0 /\ g.activeReplay \in Save
  /\ \A p \in Save : s[p] = "dispatched" <=>
       g.savePending /\ p = g.activeReplay /\ (Has(r, "finished") => Has(r, "clip"))

\* An HDR owner stands for a requester that waits.
HdrFlow(g, hs) ==
  /\ g.hdr # 0 <=> g.activeHdr # 0
  /\ g.activeHdr # 0 => hs[g.activeHdr] = "pending"

\* All parts of the invariant but the owners' and the saves'.
Base(g, q, w, r, a) ==
  /\ g \in GuiType /\ w \in WorkerType /\ q \in Seq(Command) /\ r \in Seq(Report)
  /\ Generations(g, q, w, r) /\ Quiescence(g, q, w, r, a) /\ Prepared(g, q, w) /\ Stopped(g, q, w)

\* Without and with the owners' part: between two operators of one handler the owners'
\* part may not hold yet.
Semi(g, q, w, r, a, s) == Base(g, q, w, r, a) /\ SaveFlow(g, q, w, r, s, FALSE)
Good(g, q, w, r, a, s) == Semi(g, q, w, r, a, s) /\ Unowned(g, q, w)

\* The inductive invariant.
IInv ==
  /\ gui.sent = <<>> /\ worker.emitted = <<>>
  /\ Good(gui, toWorker, worker, toGui, app, saves)
  /\ HdrFlow(gui, hdrs)
  /\ saves \in SavesType /\ hdrs \in HdrsType /\ saves[0] = "idle" /\ hdrs[0] = "idle"
  /\ app \in {"idle", "preparing", "ready"} /\ events \in 0..MaxEvents
-----------------------------------------------------------------------------
\* What a message of a queue carries.
LEMMA Messages ==
  /\ \A m \in Command :
       /\ m.type \in {"start", "stop", "prepare", "save", "hdr", "cancelHdr", "cancel", "exported"}
       /\ m.type \in {"start", "stop", "prepare", "save", "hdr"} => m.generation \in Nat
       /\ m.type \in {"save", "hdr", "exported"} => m.token \in Token
       /\ m.type = "cancelHdr" => m.token \in Nat
       /\ m.type = "exported" => m.verdict \in Verdict
  /\ \A m \in Report :
       /\ m.type \in {"state", "restart", "updateReady", "clip", "finished", "hdrDone"}
       /\ m.type \in {"state", "restart", "updateReady"} => m.generation \in Nat
       /\ m.type = "state" => m.state \in BufferState
       /\ m.type \in {"clip", "hdrDone"} => m.verdict \in Verdict
       /\ m.type \in {"finished", "hdrDone"} => m.token \in Token
BY DEF Command, Report

\* Every element of a queue is a message, and its positions are numbers.
LEMMA Positions ==
  ASSUME NEW S, NEW q \in Seq(S)
  PROVE /\ Len(q) \in Nat /\ DOMAIN q = 1 .. Len(q)
        /\ \A k \in DOMAIN q : k \in Nat /\ q[k] \in S
<1>1. Len(q) \in Nat /\ DOMAIN q = 1 .. Len(q)
  BY LenProperties
<1>2. \A k \in DOMAIN q : q[k] \in S
  BY <1>1, ElementOfSeq
<1> QED BY <1>1, <1>2

\* A message that is queued comes after all others.
LEMMA Appended ==
  ASSUME NEW S, NEW q \in Seq(S), NEW m \in S
  PROVE /\ Append(q, m) \in Seq(S)
        /\ DOMAIN Append(q, m) = DOMAIN q \cup {Len(q) + 1}
        /\ Append(q, m)[Len(q) + 1] = m
        /\ \A k \in DOMAIN q : Append(q, m)[k] = q[k] /\ k < Len(q) + 1 /\ k \in Nat
        /\ Len(q) + 1 \in Nat
<1>1. Len(q) \in Nat /\ DOMAIN q = 1 .. Len(q)
  BY LenProperties
<1>2. /\ Append(q, m) \in Seq(S) /\ Len(Append(q, m)) = Len(q) + 1
      /\ \A k \in 1 .. Len(q) : Append(q, m)[k] = q[k]
      /\ Append(q, m)[Len(q) + 1] = m
  BY <1>1
<1>3. DOMAIN Append(q, m) = 1 .. (Len(q) + 1)
  BY <1>2, LenProperties
<1> QED BY <1>1, <1>2, <1>3

\* A message that is taken was the first; the others move up.
LEMMA Taken ==
  ASSUME NEW S, NEW q \in Seq(S), q # <<>>
  PROVE /\ Tail(q) \in Seq(S) /\ Head(q) \in S /\ Head(q) = q[1] /\ 1 \in DOMAIN q
        /\ \A k \in DOMAIN Tail(q) : k \in Nat /\ k + 1 \in DOMAIN q /\ Tail(q)[k] = q[k + 1]
        /\ \A k \in DOMAIN q : k \in Nat /\ k >= 1 /\ (k > 1 => k - 1 \in DOMAIN Tail(q) /\ Tail(q)[k - 1] = q[k])
<1>1. Len(q) \in Nat /\ DOMAIN q = 1 .. Len(q) /\ Len(q) # 0
  BY LenProperties, EmptySeq
<1>2. /\ Head(q) \in S /\ Tail(q) \in Seq(S) /\ Len(Tail(q)) = Len(q) - 1
      /\ \A k \in 1 .. Len(Tail(q)) : Tail(q)[k] = q[k + 1]
  BY HeadTailProperties
<1>3. DOMAIN Tail(q) = 1 .. (Len(q) - 1)
  BY <1>2, LenProperties
<1>4. Head(q) = q[1]
  OBVIOUS
<1> QED BY <1>1, <1>2, <1>3, <1>4

\* Posting is queuing, and a handler without a post queues nothing.
LEMMA Posting ==
  ASSUME NEW S, NEW b \in Seq(S), NEW s \in Seq(S), NEW m \in S
  PROVE /\ b \o s \in Seq(S) /\ b \o <<>> = b
        /\ b \o Append(s, m) = Append(b \o s, m)
<1>1. Append(s, m) = s \o <<m>> /\ <<m>> \in Seq(S)
  OBVIOUS
<1>2. b \o s \in Seq(S)
  BY ConcatProperties
<1>3. (b \o s) \o <<m>> = b \o (s \o <<m>>)
  BY <1>1, ConcatAssociative
<1>4. Append(b \o s, m) = (b \o s) \o <<m>>
  BY <1>2
<1>5. b \o <<>> = b
  BY ConcatEmptySeq
<1> QED BY <1>1, <1>2, <1>3, <1>4, <1>5
-----------------------------------------------------------------------------
\* What a queue's change means to each part of the invariant.  First, a command is posted.
LEMMA CommandPosted ==
  ASSUME NEW g \in GuiType, NEW w \in WorkerType, NEW q \in Seq(Command), NEW r \in Seq(Report),
         NEW a, NEW m \in Command, m.type \notin Switch
  PROVE /\ Generations(g, q, w, r) => Generations(g, Append(q, m), w, r)
        /\ Quiescence(g, q, w, r, a) /\ (m.type = "prepare" => m.generation = g.generation) =>
             Quiescence(g, Append(q, m), w, r, a)
        /\ Halted(q, w) => Halted(Append(q, m), w)
        /\ LastOf(q, "prepare", {"start"}) => LastOf(Append(q, m), "prepare", {"start"})
        /\ m.type # "cancel" /\ Prepared(g, q, w) => Prepared(g, Append(q, m), w)
        /\ m.type = "prepare" => /\ LastOf(Append(q, m), "prepare", {"start"})
                                 /\ Prepared(g, Append(q, m), w)
<1> DEFINE p == Append(q, m)
<1> DEFINE n == Len(q) + 1
<1>1. /\ DOMAIN p = DOMAIN q \cup {n} /\ p[n] = m /\ n \in Nat
      /\ \A k \in DOMAIN q : p[k] = q[k] /\ k < n /\ k \in Nat
  BY Appended
<1> HIDE DEF p, n
<1>2. Generations(g, q, w, r) => Generations(g, p, w, r)
  BY <1>1 DEF Generations
<1>3. ASSUME Quiescence(g, q, w, r, a), m.type = "prepare" => m.generation = g.generation
      PROVE Quiescence(g, p, w, r, a)
  <2>1. g.generation \in Nat
    BY DEF GuiType
  <2> QED BY <1>1, <1>3, <2>1 DEF Quiescence, Has, Switch
<1>4. \A type, after : LastOf(q, type, after) /\ m.type \notin after => LastOf(p, type, after)
  BY <1>1 DEF LastOf
<1>5. \A type : m.type # type => (Has(p, type) <=> Has(q, type))
  BY <1>1 DEF Has
<1>6. Halted(q, w) => Halted(p, w)
  BY <1>4, <1>5 DEF Halted, Switch
<1>7. m.type # "cancel" /\ Prepared(g, q, w) => Prepared(g, p, w)
  BY <1>4, <1>5 DEF Prepared, Switch
<1>8. \A after : m.type = "prepare" => LastOf(p, "prepare", after)
  BY <1>1 DEF LastOf
<1>9. LastOf(q, "prepare", {"start"}) => LastOf(p, "prepare", {"start"})
  BY <1>4 DEF Switch
<1>10. m.type = "prepare" => Prepared(g, p, w)
  BY <1>8 DEF Prepared
<1> QED BY <1>2, <1>3, <1>6, <1>7, <1>8, <1>9, <1>10 DEF p

\* A new generation, with the command that announces it or, for a target that is not
\* eligible, without one.
LEMMA GenerationPosted ==
  ASSUME NEW g \in GuiType, NEW h \in GuiType, NEW w \in WorkerType, NEW q \in Seq(Command),
         NEW r \in Seq(Report), NEW a, ~g.preparing, ~h.preparing,
         h.generation = g.generation + 1, ~CanSave(h.state),
         Generations(g, q, w, r), Quiescence(g, q, w, r, a), Prepared(g, q, w)
  PROVE /\ Generations(h, q, w, r) /\ Quiescence(h, q, w, r, a) /\ Prepared(h, q, w)
        /\ \A m \in Command : m.type \in Switch /\ m.generation = h.generation =>
             /\ Generations(h, Append(q, m), w, r) /\ Quiescence(h, Append(q, m), w, r, a)
             /\ Prepared(h, Append(q, m), w)
             /\ m.type = "stop" => Halted(Append(q, m), w)
<1>1. g.generation \in Nat /\ h.generation \in Nat /\ w.generation \in Nat /\ w.updateGeneration \in Nat
  BY DEF GuiType, WorkerType
<1>2. /\ \A k \in DOMAIN q : q[k] \in Command /\ k \in Nat
      /\ \A k \in DOMAIN r : r[k] \in Report
  BY Positions
<1>3. /\ \A k \in DOMAIN q : q[k].type \in Switch \cup {"prepare"} => q[k].generation \in Nat
      /\ \A k \in DOMAIN r : r[k].type \in {"state", "updateReady"} => r[k].generation \in Nat
  BY <1>2, Messages DEF Switch
<1>4. Prepared(h, q, w)
  BY DEF Prepared
<1>5. Generations(h, q, w, r)
  BY <1>1, <1>3 DEF Generations
<1>6. a # "ready"
  BY DEF Quiescence
<1>7. Quiescence(h, q, w, r, a)
  <2>1. \A k \in DOMAIN r : r[k].type = "updateReady" =>
          r[k].generation <= g.generation /\ r[k].generation \in Nat
    BY <1>3 DEF Quiescence
  <2>2. \A k \in DOMAIN q : q[k].type = "prepare" =>
          q[k].generation <= g.generation /\ q[k].generation \in Nat
    BY <1>3 DEF Quiescence
  <2> QED BY <1>1, <1>6, <2>1, <2>2 DEF Quiescence
<1>8. ASSUME NEW m \in Command, m.type \in Switch, m.generation = h.generation
      PROVE /\ Generations(h, Append(q, m), w, r) /\ Quiescence(h, Append(q, m), w, r, a)
            /\ Prepared(h, Append(q, m), w)
            /\ m.type = "stop" => Halted(Append(q, m), w)
  <2> DEFINE p == Append(q, m)
  <2> DEFINE n == Len(q) + 1
  <2>1. /\ DOMAIN p = DOMAIN q \cup {n} /\ p[n] = m /\ n \in Nat
        /\ \A k \in DOMAIN q : p[k] = q[k] /\ k < n /\ k \in Nat
    BY Appended
  <2> HIDE DEF p, n
  <2>2. \A k \in DOMAIN q : q[k].type \in Switch => q[k].generation < m.generation
    BY <1>1, <1>3, <1>8 DEF Generations
  <2>3. w.generation < m.generation
    BY <1>1, <1>8 DEF Generations
  <2>4. Generations(h, p, w, r)
    <3>1. ASSUME NEW k \in DOMAIN p, p[k].type \in Switch
          PROVE /\ w.generation < p[k].generation /\ p[k].generation <= h.generation
                /\ \A j \in DOMAIN p : j > k /\ p[j].type \in Switch => p[k].generation < p[j].generation
      <4>1. CASE k = n
        <5>1. \A j \in DOMAIN p : ~(j > k)
          BY <2>1, <4>1
        <5> QED BY <1>1, <1>8, <2>1, <2>3, <4>1, <5>1
      <4>2. CASE k \in DOMAIN q
        BY <1>5, <2>1, <2>2, <3>1, <4>2 DEF Generations
      <4> QED BY <2>1, <4>1, <4>2
    <3> QED BY <1>5, <3>1 DEF Generations
  <2>5. Quiescence(h, p, w, r, a)
    <3>1. \A k \in DOMAIN p : p[k].type = "start" =>
            p[k].generation = h.generation \/ (k \in DOMAIN q /\ q[k].type = "start" /\ p[k] = q[k])
      BY <1>8, <2>1
    <3>2. \A k \in DOMAIN p : p[k].type = "prepare" => k \in DOMAIN q /\ q[k] = p[k]
      BY <1>8, <2>1 DEF Switch
    <3>3. \A k \in DOMAIN q : q[k].type = "prepare" => q[k].generation < h.generation
      BY <1>1, <1>3 DEF Quiescence
    <3>4. \A k \in DOMAIN r : r[k].type = "updateReady" => r[k].generation < h.generation
      BY <1>1, <1>3 DEF Quiescence
    <3>5. w.updateGeneration < h.generation
      BY <1>1 DEF Quiescence
    <3> QED BY <1>6, <1>7, <3>1, <3>2, <3>3, <3>4, <3>5 DEF Quiescence
  <2>6. Prepared(h, p, w)
    BY DEF Prepared
  <2>7. m.type = "stop" => Halted(p, w)
    BY <2>1 DEF Halted, LastOf
  <2> QED BY <2>4, <2>5, <2>6, <2>7 DEF p
<1> QED BY <1>4, <1>5, <1>7, <1>8

\* The worker takes its first command: what depended on it is now up to its handler.
LEMMA CommandTaken ==
  ASSUME NEW g \in GuiType, NEW w \in WorkerType, NEW q \in Seq(Command), NEW r \in Seq(Report),
         NEW a, q # <<>>
  PROVE /\ Generations(g, q, w, r) => Generations(g, Tail(q), w, r)
        /\ Quiescence(g, q, w, r, a) => Quiescence(g, Tail(q), w, r, a)
        /\ Halted(q, w) => Halted(Tail(q), w) \/ (Head(q).type = "stop" /\ ~Has(Tail(q), "start"))
        /\ LastOf(q, "prepare", {"start"}) =>
             LastOf(Tail(q), "prepare", {"start"}) \/ (Head(q).type = "prepare" /\ ~Has(Tail(q), "start"))
        /\ Prepared(g, q, w) =>
             \/ Prepared(g, Tail(q), w)
             \/ Head(q).type = "prepare" /\ ~Has(Tail(q), "start") /\ ~Has(Tail(q), "cancel")
        /\ Generations(g, q, w, r) /\ Head(q).type \in Switch =>
             /\ w.generation < Head(q).generation /\ Head(q).generation <= g.generation
             /\ \A k \in DOMAIN Tail(q) : Tail(q)[k].type \in Switch => Head(q).generation < Tail(q)[k].generation
        /\ Quiescence(g, q, w, r, a) /\ Head(q).type = "prepare" =>
             /\ Head(q).generation <= g.generation
             /\ \A k \in DOMAIN Tail(q) : Tail(q)[k].type = "start" => Head(q).generation < Tail(q)[k].generation
        /\ Quiescence(g, q, w, r, a) /\ Head(q).type = "start" =>
             /\ w.updateGeneration < Head(q).generation /\ a # "ready"
             /\ \A k \in DOMAIN r : r[k].type = "updateReady" => r[k].generation < Head(q).generation
<1> DEFINE t == Tail(q)
<1>1. /\ Head(q) = q[1] /\ 1 \in DOMAIN q
      /\ \A k \in DOMAIN t : k \in Nat /\ k + 1 \in DOMAIN q /\ t[k] = q[k + 1]
      /\ \A k \in DOMAIN q : k \in Nat /\ k >= 1 /\ (k > 1 => k - 1 \in DOMAIN t /\ t[k - 1] = q[k])
  BY Taken
<1>0. \A k \in DOMAIN t : k \in Nat /\ k >= 1
  <2>1. t \in Seq(Command)
    BY Taken
  <2>2. DOMAIN t = 1 .. Len(t) /\ Len(t) \in Nat
    BY <2>1, Positions
  <2> QED BY <2>2
<1> HIDE DEF t
<1>2. Generations(g, q, w, r) => Generations(g, t, w, r)
  BY <1>1 DEF Generations
<1>3. \A type : Has(t, type) => Has(q, type)
  BY <1>1 DEF Has
<1>4. Quiescence(g, q, w, r, a) => Quiescence(g, t, w, r, a)
  BY <1>1, <1>3 DEF Quiescence
<1>5. \A type, after : LastOf(q, type, after) =>
        LastOf(t, type, after) \/ (Head(q).type = type /\ \A k \in DOMAIN t : t[k].type \notin after)
  <2> SUFFICES ASSUME NEW type, NEW after, NEW k \in DOMAIN q, q[k].type = type,
                      \A j \in DOMAIN q : j > k => q[j].type \notin after
               PROVE LastOf(t, type, after) \/ (Head(q).type = type /\ \A j \in DOMAIN t : t[j].type \notin after)
    BY DEF LastOf
  <2>1. CASE k = 1
    <3>1. \A j \in DOMAIN t : j + 1 > k
      BY <1>0, <2>1
    <3> QED BY <1>1, <2>1, <3>1
  <2>2. CASE k > 1
    <3>1. k - 1 \in DOMAIN t /\ t[k - 1].type = type
      BY <1>1, <2>2
    <3>2. \A j \in DOMAIN t : j > k - 1 => t[j].type \notin after
      BY <1>1
    <3> QED BY <3>1, <3>2 DEF LastOf
  <2> QED BY <1>1, <2>1, <2>2
<1>6. Halted(q, w) => Halted(t, w) \/ (Head(q).type = "stop" /\ ~Has(t, "start"))
  BY <1>3, <1>5 DEF Halted, Has
<1>7. LastOf(q, "prepare", {"start"}) => LastOf(t, "prepare", {"start"}) \/ (Head(q).type = "prepare" /\ ~Has(t, "start"))
  BY <1>5 DEF Has
<1>8. Prepared(g, q, w) => \/ Prepared(g, t, w)
                           \/ Head(q).type = "prepare" /\ ~Has(t, "start") /\ ~Has(t, "cancel")
  <2>1. LastOf(q, "prepare", {"start", "cancel"}) =>
          \/ LastOf(t, "prepare", {"start", "cancel"})
          \/ Head(q).type = "prepare" /\ \A k \in DOMAIN t : t[k].type \notin {"start", "cancel"}
    BY <1>5
  <2>2. (\A k \in DOMAIN t : t[k].type \notin {"start", "cancel"}) => ~Has(t, "start") /\ ~Has(t, "cancel")
    BY DEF Has
  <2> QED BY <1>3, <2>1, <2>2 DEF Prepared
<1>9. \A k \in DOMAIN t : k + 1 > 1 /\ k + 1 \in DOMAIN q /\ t[k] = q[k + 1]
  BY <1>0, <1>1
<1>10. Generations(g, q, w, r) /\ Head(q).type \in Switch =>
             /\ w.generation < Head(q).generation /\ Head(q).generation <= g.generation
             /\ \A k \in DOMAIN t : t[k].type \in Switch => Head(q).generation < t[k].generation
  BY <1>1, <1>9 DEF Generations
<1>11. Quiescence(g, q, w, r, a) /\ Head(q).type = "prepare" =>
             /\ Head(q).generation <= g.generation
             /\ \A k \in DOMAIN t : t[k].type = "start" => Head(q).generation < t[k].generation
  BY <1>1, <1>9 DEF Quiescence
<1>12. Quiescence(g, q, w, r, a) /\ Head(q).type = "start" =>
             /\ w.updateGeneration < Head(q).generation /\ a # "ready"
             /\ \A k \in DOMAIN r : r[k].type = "updateReady" => r[k].generation < Head(q).generation
  BY <1>1 DEF Quiescence, Has
<1> QED BY <1>2, <1>4, <1>6, <1>7, <1>8, <1>10, <1>11, <1>12 DEF t

\* The worker reports: a state for the generation it is at, readiness for an update only
\* without a session.
LEMMA Reported ==
  ASSUME NEW g \in GuiType, NEW w \in WorkerType, NEW q \in Seq(Command), NEW r \in Seq(Report),
         NEW a, NEW m \in Report
  PROVE /\ Generations(g, q, w, r) /\ (m.type = "state" => m.generation = w.generation) =>
             Generations(g, q, w, Append(r, m))
        /\ Quiescence(g, q, w, r, a)
           /\ (m.type = "updateReady" => m.generation = w.updateGeneration /\ NoSession(w)) =>
             Quiescence(g, q, w, Append(r, m), a)
<1> DEFINE p == Append(r, m)
<1>1. /\ DOMAIN p = DOMAIN r \cup {Len(r) + 1} /\ p[Len(r) + 1] = m
      /\ \A k \in DOMAIN r : p[k] = r[k]
  BY Appended
<1>2. w.generation \in Nat
  BY DEF WorkerType
<1> HIDE DEF p
<1>3. Generations(g, q, w, r) /\ (m.type = "state" => m.generation = w.generation) => Generations(g, q, w, p)
  BY <1>1, <1>2 DEF Generations
<1>4. Quiescence(g, q, w, r, a)
      /\ (m.type = "updateReady" => m.generation = w.updateGeneration /\ NoSession(w)) =>
        Quiescence(g, q, w, p, a)
  BY <1>1 DEF Quiescence
<1> QED BY <1>3, <1>4 DEF p

\* The service takes the first report.
LEMMA ReportTaken ==
  ASSUME NEW g \in GuiType, NEW w \in WorkerType, NEW q \in Seq(Command), NEW r \in Seq(Report),
         NEW a, r # <<>>
  PROVE /\ Generations(g, q, w, r) => Generations(g, q, w, Tail(r))
        /\ Quiescence(g, q, w, r, a) => Quiescence(g, q, w, Tail(r), a)
        /\ Generations(g, q, w, r) /\ Head(r).type = "state" => Head(r).generation <= w.generation
        /\ Quiescence(g, q, w, r, a) /\ Generations(g, q, w, r)
           /\ Head(r).type = "updateReady" /\ Head(r).generation = g.generation =>
             NoSession(w) /\ ~Has(q, "start")
<1>1. /\ Head(r) = r[1] /\ 1 \in DOMAIN r /\ Head(r) \in Report
      /\ \A k \in DOMAIN Tail(r) : k + 1 \in DOMAIN r /\ Tail(r)[k] = r[k + 1]
  BY Taken
<1>2. Generations(g, q, w, r) => Generations(g, q, w, Tail(r))
  BY <1>1 DEF Generations
<1>3. Quiescence(g, q, w, r, a) => Quiescence(g, q, w, Tail(r), a)
  BY <1>1 DEF Quiescence
<1>4. Generations(g, q, w, r) /\ Head(r).type = "state" => Head(r).generation <= w.generation
  BY <1>1 DEF Generations
<1>5. ASSUME Quiescence(g, q, w, r, a), Generations(g, q, w, r),
             Head(r).type = "updateReady", Head(r).generation = g.generation
      PROVE NoSession(w) /\ ~Has(q, "start")
  <2>1. NoSession(w) /\ \A k \in DOMAIN q : q[k].type = "start" => g.generation < q[k].generation
    BY <1>1, <1>5 DEF Quiescence
  <2>2. \A k \in DOMAIN q : q[k].type = "start" => q[k].generation <= g.generation
    BY <1>5 DEF Generations, Switch
  <2>3. g.generation \in Nat /\ \A k \in DOMAIN q : q[k].type = "start" => q[k].generation \in Nat
    BY Positions, Messages DEF GuiType
  <2> QED BY <2>1, <2>2, <2>3 DEF Has
<1> QED BY <1>2, <1>3, <1>4, <1>5

-----------------------------------------------------------------------------
\* The save's way.  Messages that are not about saves leave it alone.
LEMMA SaveUntouched ==
  ASSUME NEW g, NEW w, NEW q \in Seq(Command), NEW r \in Seq(Report), NEW s, NEW hole,
         SaveFlow(g, q, w, r, s, hole)
  PROVE /\ \A m \in Command : m.type \notin {"save", "exported"} => SaveFlow(g, Append(q, m), w, r, s, hole)
        /\ \A m \in Report : m.type \notin {"clip", "finished"} => SaveFlow(g, q, w, Append(r, m), s, hole)
        /\ q # <<>> /\ Head(q).type \notin {"save", "exported"} => SaveFlow(g, Tail(q), w, r, s, hole)
        /\ r # <<>> /\ Head(r).type \notin {"clip", "finished"} => SaveFlow(g, q, w, Tail(r), s, hole)
<1>1. ASSUME NEW m \in Command, m.type \notin {"save", "exported"}
      PROVE SaveFlow(g, Append(q, m), w, r, s, hole)
  <2> DEFINE p == Append(q, m)
  <2>1. /\ DOMAIN p = DOMAIN q \cup {Len(q) + 1} /\ p[Len(q) + 1] = m
        /\ \A k \in DOMAIN q : p[k] = q[k]
    BY Appended
  <2> HIDE DEF p
  <2>2. \A type \in {"save", "exported"} : (Has(p, type) <=> Has(q, type)) /\ (Once(q, type) => Once(p, type))
    BY <1>1, <2>1 DEF Has, Once
  <2>3. \A k \in DOMAIN p : p[k].type \in {"save", "exported"} => k \in DOMAIN q /\ p[k] = q[k]
    BY <1>1, <2>1
  <2>4. SaveFlow(g, p, w, r, s, hole)
    BY <2>2, <2>3 DEF SaveFlow
  <2> QED BY <2>4 DEF p
<1>2. ASSUME NEW m \in Report, m.type \notin {"clip", "finished"}
      PROVE SaveFlow(g, q, w, Append(r, m), s, hole)
  <2> DEFINE p == Append(r, m)
  <2>1. /\ DOMAIN p = DOMAIN r \cup {Len(r) + 1} /\ p[Len(r) + 1] = m
        /\ \A k \in DOMAIN r : p[k] = r[k]
    BY Appended
  <2> HIDE DEF p
  <2>2. \A type \in {"clip", "finished"} : (Has(p, type) <=> Has(r, type)) /\ (Once(r, type) => Once(p, type))
    BY <1>2, <2>1 DEF Has, Once
  <2>3. \A k \in DOMAIN p : p[k].type \in {"clip", "finished"} => k \in DOMAIN r /\ p[k] = r[k]
    BY <1>2, <2>1
  <2>4. SaveFlow(g, q, w, p, s, hole)
    BY <2>2, <2>3 DEF SaveFlow
  <2> QED BY <2>4 DEF p
<1>3. ASSUME q # <<>>, Head(q).type \notin {"save", "exported"}
      PROVE SaveFlow(g, Tail(q), w, r, s, hole)
  <2> DEFINE t == Tail(q)
  <2>1. /\ Head(q) = q[1]
        /\ \A k \in DOMAIN t : k \in Nat /\ k + 1 \in DOMAIN q /\ t[k] = q[k + 1]
        /\ \A k \in DOMAIN q : k \in Nat /\ k >= 1 /\ (k > 1 => k - 1 \in DOMAIN t /\ t[k - 1] = q[k])
    BY <1>3, Taken
  <2> HIDE DEF t
  <2>2. \A k \in DOMAIN q : q[k].type \in {"save", "exported"} => k > 1
    BY <1>3, <2>1
  <2>3. \A type \in {"save", "exported"} : (Has(t, type) <=> Has(q, type)) /\ (Once(q, type) => Once(t, type))
    BY <2>1, <2>2 DEF Has, Once
  <2>4. SaveFlow(g, t, w, r, s, hole)
    BY <2>1, <2>3 DEF SaveFlow
  <2> QED BY <2>4 DEF t
<1>4. ASSUME r # <<>>, Head(r).type \notin {"clip", "finished"}
      PROVE SaveFlow(g, q, w, Tail(r), s, hole)
  <2> DEFINE t == Tail(r)
  <2>1. /\ Head(r) = r[1]
        /\ \A k \in DOMAIN t : k \in Nat /\ k + 1 \in DOMAIN r /\ t[k] = r[k + 1]
        /\ \A k \in DOMAIN r : k \in Nat /\ k >= 1 /\ (k > 1 => k - 1 \in DOMAIN t /\ t[k - 1] = r[k])
    BY <1>4, Taken
  <2> HIDE DEF t
  <2>2. \A k \in DOMAIN r : r[k].type \in {"clip", "finished"} => k > 1
    BY <1>4, <2>1
  <2>3. \A type \in {"clip", "finished"} : (Has(t, type) <=> Has(r, type)) /\ (Once(r, type) => Once(t, type))
    BY <2>1, <2>2 DEF Has, Once
  <2>4. \A j, k \in DOMAIN t : t[j].type = "clip" /\ t[k].type = "finished" => j < k
    <3>1. \A j, k \in DOMAIN t : t[j].type = "clip" /\ t[k].type = "finished" => j + 1 < k + 1
      BY <2>1 DEF SaveFlow
    <3> QED BY <2>1, <3>1
  <2>5. SaveFlow(g, q, w, t, s, hole)
    BY <2>1, <2>3, <2>4 DEF SaveFlow
  <2> QED BY <2>5 DEF t
<1> QED BY <1>1, <1>2, <1>3, <1>4
-----------------------------------------------------------------------------
(* The service's operators.  `b` is the worker's queue before the handler: what the   *)
(* handler has posted so far comes behind it.                                         *)

\* What starts and stops leave alone.
Owners(g) == <<g.auto, g.manual, g.savePending, g.hdr, g.sequence, g.activeReplay, g.activeHdr,
               g.preparing>>

\* `h` is `g` after starts and stops: the owners are as before, and what has been posted
\* has nothing to do with saves.
Follows(g, h) ==
  /\ h \in GuiType /\ Owners(h) = Owners(g)
  /\ h.sent = g.sent \/ \E m \in Command : m.type \in Switch /\ h.sent = Append(g.sent, m)

\* Neither the owners nor the window matter to these parts.
LEMMA BaseView ==
  ASSUME NEW g, NEW h \in GuiType, NEW w, NEW q, NEW r, NEW a, Base(g, q, w, r, a),
         h.generation = g.generation, h.state = g.state, h.preparing = g.preparing
  PROVE Base(h, q, w, r, a)
BY DEF Base, Generations, Quiescence, Prepared, Stopped

\* setState keeps the types, whatever the state.
LEMMA StateSet ==
  ASSUME NEW g \in GuiType, NEW s \in BufferState
  PROVE /\ SetState(g, s) \in GuiType /\ Owners(SetState(g, s)) = Owners(g)
        /\ SetState(g, s).state = s /\ SetState(g, s).sent = g.sent
        /\ SetState(g, s).generation = g.generation
<1>1. NoWindow \in Window
  BY DEF Window
<1>2. SetState(g, s) \in GuiType
  BY <1>1 DEF SetState, GuiType
<1>3. /\ Owners(SetState(g, s)) = Owners(g)
      /\ SetState(g, s).state = s /\ SetState(g, s).sent = g.sent
      /\ SetState(g, s).generation = g.generation
  BY DEF SetState, GuiType, Owners
<1> QED BY <1>2, <1>3

\* A new generation in a state the worker has not confirmed.
LEMMA Requested ==
  ASSUME NEW g \in GuiType, NEW s \in BufferState
  PROVE LET h == SetState([g EXCEPT !.generation = @ + 1], s)
        IN /\ h \in GuiType /\ Owners(h) = Owners(g) /\ h.state = s /\ h.sent = g.sent
           /\ h.generation = g.generation + 1
<1> DEFINE i == [g EXCEPT !.generation = @ + 1]
<1>1. i \in GuiType /\ Owners(i) = Owners(g) /\ i.sent = g.sent /\ i.generation = g.generation + 1
  BY SMTT(30) DEF GuiType, Owners
<1> HIDE DEF i
<1>2. /\ SetState(i, s) \in GuiType /\ Owners(SetState(i, s)) = Owners(i)
      /\ SetState(i, s).state = s /\ SetState(i, s).sent = i.sent
      /\ SetState(i, s).generation = i.generation
  BY <1>1, StateSet
<1> QED BY <1>1, <1>2 DEF i

\* A start or a stop is announced with the generation it asks for.
LEMMA Announced ==
  ASSUME NEW b \in Seq(Command), NEW g, NEW i \in GuiType, NEW h \in GuiType, NEW w, NEW r, NEW a,
         NEW m \in Command, Base(g, b \o g.sent, w, r, a), ~g.preparing,
         Owners(i) = Owners(g), i.generation = g.generation + 1, i.sent = g.sent,
         i.state \notin {"Stopped", "Recording", "Ready"} \/ (i.state = "Stopped" /\ m.type = "stop"),
         m.type \in Switch, m.generation = i.generation,
         h.generation = i.generation, h.state = i.state, Owners(h) = Owners(i),
         h.sent = Append(i.sent, m)
  PROVE /\ Base(h, b \o h.sent, w, r, a) /\ Follows(g, h)
        /\ m.type = "stop" => Halted(b \o h.sent, w)
<1> DEFINE q == b \o g.sent
<1>1. g \in GuiType /\ w \in WorkerType /\ r \in Seq(Report) /\ g.sent \in Seq(Command)
  BY DEF Base, GuiType
<1>2. q \in Seq(Command) /\ b \o h.sent = Append(q, m) /\ Append(q, m) \in Seq(Command)
  <2>1. q \in Seq(Command)
    BY <1>1, Posting
  <2>2. b \o Append(g.sent, m) = Append(q, m)
    BY <1>1, Posting, SMTT(30)
  <2>3. Append(q, m) \in Seq(Command)
    BY <2>1, Appended
  <2> QED BY <2>1, <2>2, <2>3
<1>3. ~CanSave(h.state) /\ ~h.preparing
  BY DEF CanSave, Owners
<1>4. Generations(g, q, w, r) /\ Quiescence(g, q, w, r, a) /\ Prepared(g, q, w)
  BY DEF Base
<1> HIDE DEF q
<1>5. /\ Generations(h, Append(q, m), w, r) /\ Quiescence(h, Append(q, m), w, r, a)
      /\ Prepared(h, Append(q, m), w)
      /\ m.type = "stop" => Halted(Append(q, m), w)
  BY <1>1, <1>2, <1>3, <1>4, GenerationPosted
<1>6. Stopped(h, Append(q, m), w)
  BY <1>5 DEF Stopped
<1>7. Base(h, Append(q, m), w, r, a)
  BY <1>1, <1>2, <1>5, <1>6 DEF Base
<1>8. Follows(g, h)
  BY DEF Follows
<1> QED BY <1>2, <1>5, <1>7, <1>8

\* StopBuffer, when nobody needs the session, leaves a worker that is halted or will be.
LEMMA OwnersSettled ==
  ASSUME NEW b \in Seq(Command), NEW g, NEW w, NEW r, NEW a, Base(g, b \o g.sent, w, r, a)
  PROVE /\ Base(OwnersChanged(g), b \o OwnersChanged(g).sent, w, r, a)
        /\ Unowned(OwnersChanged(g), b \o OwnersChanged(g).sent, w)
        /\ Follows(g, OwnersChanged(g))
<1>1. g \in GuiType
  BY DEF Base
<1>2. CASE g.preparing \/ NeedsSession(g)
  <2>1. OwnersChanged(g) = g
    BY <1>2 DEF OwnersChanged
  <2> QED BY <1>1, <1>2, <2>1 DEF Unowned, Follows
<1>3. CASE ~g.preparing /\ ~NeedsSession(g) /\ g.state = "Stopped"
  <2>1. OwnersChanged(g) = g
    BY <1>3 DEF OwnersChanged, StopBuffer
  <2>2. Halted(b \o g.sent, w)
    BY <1>3 DEF Base, Stopped
  <2> QED BY <1>1, <2>1, <2>2 DEF Unowned, Follows
<1>4. CASE ~g.preparing /\ ~NeedsSession(g) /\ g.state # "Stopped"
  <2> DEFINE i == RequestStop(g)
  <2> DEFINE j == [i EXCEPT !.noGameTicks = 0]
  <2> DEFINE m == [type |-> "stop", generation |-> g.generation + 1]
  <2> DEFINE h == [j EXCEPT !.sent = Append(@, m)]
  <2>1. /\ i \in GuiType /\ Owners(i) = Owners(g) /\ i.state = "Stopped" /\ i.sent = g.sent
        /\ i.generation = g.generation + 1
    BY <1>1, Requested DEF RequestStop, BufferState
  <2>2. m \in Command /\ m.type = "stop" /\ m.type \in Switch /\ m.generation = i.generation
    BY <1>1, <2>1 DEF GuiType, Command, Switch
  <2>3. OwnersChanged(g) = h
    BY <1>4 DEF OwnersChanged, StopBuffer, Post
  <2> HIDE DEF i, m
  <2>4. j \in GuiType /\ Owners(j) = Owners(i) /\ j.state = i.state /\ j.sent = i.sent /\ j.generation = i.generation
    BY <2>1 DEF GuiType, Owners
  <2> HIDE DEF j
  <2>5. Append(j.sent, m) \in Seq(Command)
    <3>1. j.sent \in Seq(Command)
      BY <2>4 DEF GuiType
    <3> QED BY <2>2, <3>1, Appended
  <2>6. h \in GuiType /\ Owners(h) = Owners(i) /\ h.state = i.state /\ h.sent = Append(i.sent, m)
        /\ h.generation = i.generation
    BY <2>4, <2>5 DEF GuiType, Owners
  <2> HIDE DEF h
  <2>7. /\ Base(h, b \o h.sent, w, r, a) /\ Follows(g, h) /\ Halted(b \o h.sent, w)
    BY <1>4, <2>1, <2>2, <2>6, Announced
  <2> QED BY <2>3, <2>7 DEF Unowned
<1> QED BY <1>2, <1>3, <1>4

\* StartBuffer starts nothing without an owner.
LEMMA Started ==
  ASSUME NEW b \in Seq(Command), NEW g, NEW w, NEW r, NEW a, Base(g, b \o g.sent, w, r, a),
         NEW rearm \in BOOLEAN, NEW foreground \in Window
  PROVE LET h == StartBuffer(g, rearm, foreground)
        IN /\ Base(h, b \o h.sent, w, r, a) /\ Follows(g, h)
           /\ Unowned(g, b \o g.sent, w) => Unowned(h, b \o h.sent, w)
<1> DEFINE target == IF rearm /\ g.game # NoWindow THEN g.game ELSE foreground
<1> DEFINE i == RequestStart(g)
<1>1. g \in GuiType
  BY DEF Base
<1>2. /\ i \in GuiType /\ Owners(i) = Owners(g) /\ i.state = "Starting" /\ i.sent = g.sent
      /\ i.generation = g.generation + 1
  BY <1>1, Requested DEF RequestStart, BufferState
<1>3. CASE (~rearm /\ StartRequested(g.state)) \/ g.preparing \/ ~NeedsSession(g)
  <2>1. StartBuffer(g, rearm, foreground) = g
    BY <1>3 DEF StartBuffer
  <2> QED BY <1>1, <2>1 DEF Follows
<1>4. CASE /\ ~((~rearm /\ StartRequested(g.state)) \/ g.preparing \/ ~NeedsSession(g))
           /\ target \notin Games
  <2> DEFINE h == SetState(i, "Failed")
  <2>1. StartBuffer(g, rearm, foreground) = Confirm(i, i.generation, "Failed")
    BY <1>4 DEF StartBuffer
  <2>2. Confirm(i, i.generation, "Failed") = h
    BY <1>2 DEF Confirm, StartRequested, Allowed
  <2> HIDE DEF i
  <2>3. h \in GuiType /\ Owners(h) = Owners(i) /\ h.state = "Failed" /\ h.sent = i.sent
        /\ h.generation = i.generation
    BY <1>2, StateSet DEF BufferState
  <2> HIDE DEF h
  <2>4. ~h.preparing /\ ~CanSave(h.state) /\ ~g.preparing
    BY <1>2, <1>4, <2>3 DEF Owners, CanSave
  <2> DEFINE q == b \o g.sent
  <2>5. q \in Seq(Command) /\ w \in WorkerType /\ r \in Seq(Report)
        /\ Generations(g, q, w, r) /\ Quiescence(g, q, w, r, a) /\ Prepared(g, q, w)
    BY DEF Base
  <2> HIDE DEF q
  <2>6. Generations(h, q, w, r) /\ Quiescence(h, q, w, r, a) /\ Prepared(h, q, w)
    BY <1>1, <1>2, <2>3, <2>4, <2>5, GenerationPosted
  <2>7. Base(h, q, w, r, a)
    BY <2>3, <2>5, <2>6 DEF Base, Stopped
  <2>8. NeedsSession(h)
    BY <1>2, <1>4, <2>3 DEF NeedsSession, Owners
  <2>9. h.sent = g.sent /\ Owners(h) = Owners(g)
    BY <1>2, <2>3
  <2> QED BY <2>1, <2>2, <2>3, <2>7, <2>8, <2>9 DEF Follows, Unowned, q
<1>5. CASE /\ ~((~rearm /\ StartRequested(g.state)) \/ g.preparing \/ ~NeedsSession(g))
           /\ target \in Games
  <2> DEFINE j == [i EXCEPT !.game = target, !.hwnd = target, !.noGameTicks = 0]
  <2> DEFINE m == [type |-> "start", generation |-> i.generation]
  <2> DEFINE h == [j EXCEPT !.sent = Append(@, m)]
  <2>1. StartBuffer(g, rearm, foreground) = h
    BY <1>5 DEF StartBuffer, Post
  <2>2. m \in Command /\ m.type \in Switch /\ m.generation = i.generation
    BY <1>2 DEF GuiType, Command, Switch
  <2>3. target \in Window
    BY <1>5 DEF Window
  <2> HIDE DEF i, m, target
  <2>4. j \in GuiType /\ Owners(j) = Owners(i) /\ j.state = i.state /\ j.sent = i.sent /\ j.generation = i.generation
    BY <1>2, <2>3 DEF GuiType, Owners
  <2> HIDE DEF j
  <2>5. Append(j.sent, m) \in Seq(Command)
    <3>1. j.sent \in Seq(Command)
      BY <2>4 DEF GuiType
    <3> QED BY <2>2, <3>1, Appended
  <2>6. h \in GuiType /\ Owners(h) = Owners(i) /\ h.state = i.state /\ h.sent = Append(i.sent, m)
        /\ h.generation = i.generation
    BY <2>4, <2>5 DEF GuiType, Owners
  <2> HIDE DEF h
  <2>7. Base(h, b \o h.sent, w, r, a) /\ Follows(g, h)
    BY <1>2, <1>5, <2>2, <2>6, Announced
  <2>8. NeedsSession(h)
    BY <1>2, <1>5, <2>6 DEF NeedsSession, Owners
  <2> QED BY <2>1, <2>7, <2>8 DEF Unowned
<1> QED BY <1>3, <1>4, <1>5
-----------------------------------------------------------------------------
(* The steps of one save, from the press to the release of its owner.                 *)


\* Nothing but the token, the press it is for and the exporter's state matters.
LEMMA SaveView ==
  ASSUME NEW g, NEW h, NEW q, NEW w, NEW v, NEW r, NEW s, NEW hole, SaveFlow(g, q, w, r, s, hole),
         h.manual = g.manual, h.savePending = g.savePending, h.activeReplay = g.activeReplay,
         v.exportToken = w.exportToken
  PROVE SaveFlow(h, q, v, r, s, hole)
BY DEF SaveFlow

\* Without a save the manual owner comes and goes.
LEMMA SaveIdle ==
  ASSUME NEW g, NEW h, NEW q, NEW w, NEW r, NEW s, SaveFlow(g, q, w, r, s, FALSE),
         g.savePending = FALSE, h.savePending = FALSE
  PROVE SaveFlow(h, q, w, r, s, FALSE)
<1>1. /\ ~Has(q, "save") /\ ~Has(q, "exported") /\ ~Has(r, "finished") /\ ~Has(r, "clip")
      /\ w.exportToken = 0
  BY DEF SaveFlow
<1>2. /\ \A k \in DOMAIN q : q[k].type \notin {"save", "exported"}
      /\ \A k \in DOMAIN r : r[k].type # "finished"
  BY <1>1 DEF Has
<1> QED BY <1>1, <1>2 DEF SaveFlow

\* A press is turned down: nothing follows.
LEMMA SaveRejected ==
  ASSUME NEW g, NEW q, NEW w, NEW r, NEW s \in SavesType, NEW p \in Save, s[p] = "idle",
         SaveFlow(g, q, w, r, s, FALSE)
  PROVE SaveFlow(g, q, w, r, [s EXCEPT ![p] = "rejected"], FALSE)
<1>1. \A o \in Save : [s EXCEPT ![p] = "rejected"][o] = "dispatched" <=> s[o] = "dispatched"
  BY DEF SavesType
<1> QED BY <1>1 DEF SaveFlow

\* A press is admitted and the worker called.
LEMMA SavePosted ==
  ASSUME NEW g, NEW h, NEW q \in Seq(Command), NEW w, NEW r, NEW s \in SavesType, NEW p \in Save,
         NEW m \in Command, SaveFlow(g, q, w, r, s, FALSE), g.savePending = FALSE,
         h.savePending = TRUE, h.manual # 0, h.activeReplay = p, m.type = "save", m.token = h.manual
  PROVE SaveFlow(h, Append(q, m), w, r, [s EXCEPT ![p] = "dispatched"], FALSE)
<1> DEFINE t == Append(q, m)
<1>1. /\ ~Has(q, "save") /\ ~Has(q, "exported") /\ ~Has(r, "finished") /\ ~Has(r, "clip")
      /\ w.exportToken = 0 /\ Once(r, "clip") /\ Once(r, "finished")
      /\ \A o \in Save : s[o] # "dispatched"
  BY DEF SaveFlow
<1>2. /\ DOMAIN t = DOMAIN q \cup {Len(q) + 1} /\ t[Len(q) + 1] = m
      /\ \A k \in DOMAIN q : t[k] = q[k]
  BY Appended
<1> HIDE DEF t
<1>3. Has(t, "save") /\ ~Has(t, "exported") /\ Once(t, "save") /\ Once(t, "exported")
  BY <1>1, <1>2 DEF Has, Once
<1>4. \A k \in DOMAIN t : t[k].type \in {"save", "exported"} => t[k].token = h.manual
  BY <1>1, <1>2 DEF Has
<1>5. \A k \in DOMAIN r : r[k].type \notin {"finished", "clip"}
  BY <1>1 DEF Has
<1>6. \A o \in Save : [s EXCEPT ![p] = "dispatched"][o] = "dispatched" <=> o = p
  BY <1>1 DEF SavesType
<1>7. SaveFlow(h, t, w, r, [s EXCEPT ![p] = "dispatched"], FALSE)
  BY <1>1, <1>3, <1>4, <1>5, <1>6 DEF SaveFlow
<1> QED BY <1>7 DEF t

\* A message that occurs once is gone when it has been taken.
LEMMA TakenOnce ==
  ASSUME NEW S, NEW q \in Seq(S), q # <<>>
  PROVE /\ Once(q, Head(q).type) => ~Has(Tail(q), Head(q).type)
        /\ Has(q, Head(q).type)
        /\ \A type : type # Head(q).type => (Has(Tail(q), type) <=> Has(q, type))
        /\ \A type : Once(q, type) => Once(Tail(q), type)
        /\ \A k \in DOMAIN Tail(q) : k \in Nat /\ k + 1 \in DOMAIN q /\ Tail(q)[k] = q[k + 1]
        /\ 1 \in DOMAIN q /\ Head(q) = q[1]
<1> DEFINE t == Tail(q)
<1>1. /\ Head(q) = q[1] /\ 1 \in DOMAIN q /\ t \in Seq(S)
      /\ \A k \in DOMAIN t : k \in Nat /\ k + 1 \in DOMAIN q /\ t[k] = q[k + 1]
      /\ \A k \in DOMAIN q : k \in Nat /\ k >= 1 /\ (k > 1 => k - 1 \in DOMAIN t /\ t[k - 1] = q[k])
  BY Taken
<1>2. \A k \in DOMAIN t : k + 1 # 1
  BY <1>1, Positions
<1> HIDE DEF t
<1>3. Once(q, Head(q).type) => ~Has(t, Head(q).type)
  BY <1>1, <1>2 DEF Once, Has
<1>4. \A type : type # Head(q).type => (Has(t, type) <=> Has(q, type))
  <2>1. \A k \in DOMAIN q : k # 1 => k > 1
    BY <1>1
  <2> QED BY <1>1, <2>1 DEF Has
<1>5. \A type : Once(q, type) => Once(t, type)
  BY <1>1, SMTT(30) DEF Once
<1>6. Has(q, Head(q).type)
  BY <1>1 DEF Has
<1> QED BY <1>1, <1>3, <1>4, <1>5, <1>6 DEF t

\* The worker takes the save: until it answers or exports, the save is in its hands.
LEMMA SaveTaken ==
  ASSUME NEW g, NEW q \in Seq(Command), NEW w, NEW r, NEW s, q # <<>>, Head(q).type = "save",
         SaveFlow(g, q, w, r, s, FALSE)
  PROVE /\ SaveFlow(g, Tail(q), w, r, s, TRUE)
        /\ Head(q).token = g.manual
<1>1. /\ ~Has(Tail(q), "save") /\ Has(q, "save")
      /\ Has(Tail(q), "exported") => Has(q, "exported")
      /\ Once(Tail(q), "save") /\ Once(Tail(q), "exported")
      /\ \A k \in DOMAIN Tail(q) : k + 1 \in DOMAIN q /\ Tail(q)[k] = q[k + 1]
      /\ 1 \in DOMAIN q /\ Head(q) = q[1]
  BY TakenOnce DEF SaveFlow
<1> QED BY <1>1 DEF SaveFlow

\* The worker refuses the save in its hands: the verdict first, the release behind it.
LEMMA SaveRefused ==
  ASSUME NEW g, NEW q, NEW w, NEW r \in Seq(Report), NEW s, NEW m \in Report, NEW n \in Report,
         SaveFlow(g, q, w, r, s, TRUE), m.type = "clip", n.type = "finished", n.token = g.manual
  PROVE SaveFlow(g, q, w, Append(Append(r, m), n), s, FALSE)
<1> DEFINE t == Append(r, m)
<1> DEFINE u == Append(t, n)
<1>1. /\ t \in Seq(Report) /\ DOMAIN t = DOMAIN r \cup {Len(r) + 1} /\ t[Len(r) + 1] = m
      /\ \A k \in DOMAIN r : t[k] = r[k]
  BY Appended
<1> HIDE DEF t
<1>2. /\ DOMAIN u = DOMAIN t \cup {Len(t) + 1} /\ u[Len(t) + 1] = n
      /\ \A k \in DOMAIN t : u[k] = t[k] /\ k < Len(t) + 1
  BY <1>1, Appended
<1> HIDE DEF u
<1>3. ~Has(r, "clip") /\ ~Has(r, "finished") /\ ~Has(q, "save") /\ w.exportToken = 0 /\ ~Has(q, "exported")
  BY DEF SaveFlow
<1>4. /\ \A k \in DOMAIN u : u[k].type = "clip" => k = Len(r) + 1
      /\ \A k \in DOMAIN u : u[k].type = "finished" => k = Len(t) + 1 /\ u[k] = n
      /\ Has(u, "clip") /\ Has(u, "finished")
      /\ Len(r) + 1 < Len(t) + 1
  BY <1>1, <1>2, <1>3 DEF Has
<1>5. Once(u, "clip") /\ Once(u, "finished")
  BY <1>4 DEF Once
<1>6. SaveFlow(g, q, w, u, s, FALSE)
  BY <1>3, <1>4, <1>5 DEF SaveFlow
<1> QED BY <1>6 DEF t, u

\* The worker starts the export for the save in its hands.
LEMMA SaveExports ==
  ASSUME NEW g, NEW q, NEW w, NEW v, NEW r, NEW s, SaveFlow(g, q, w, r, s, TRUE),
         v.exportToken = g.manual
  PROVE SaveFlow(g, q, v, r, s, FALSE)
BY DEF SaveFlow

\* The export thread ends, for the save whose owner waits.
LEMMA SaveEnds ==
  ASSUME NEW g, NEW q \in Seq(Command), NEW w, NEW r, NEW s, NEW m \in Command,
         SaveFlow(g, q, w, r, s, FALSE), w.exportToken # 0, ~Has(q, "exported"),
         m.type = "exported", m.token = w.exportToken
  PROVE SaveFlow(g, Append(q, m), w, r, s, FALSE)
<1> DEFINE t == Append(q, m)
<1>1. /\ DOMAIN t = DOMAIN q \cup {Len(q) + 1} /\ t[Len(q) + 1] = m
      /\ \A k \in DOMAIN q : t[k] = q[k]
  BY Appended
<1> HIDE DEF t
<1>2. /\ ~Has(q, "save") /\ m.token = g.manual
  BY DEF SaveFlow
<1>3. ~Has(t, "save") /\ Has(t, "exported") /\ Once(t, "save") /\ Once(t, "exported")
  BY <1>1, <1>2 DEF Has, Once
<1>4. \A k \in DOMAIN t : t[k].type \in {"save", "exported"} => t[k].token = g.manual
  BY <1>1, <1>2 DEF SaveFlow
<1>5. SaveFlow(g, t, w, r, s, FALSE)
  BY <1>2, <1>3, <1>4 DEF SaveFlow
<1> QED BY <1>5 DEF t

\* The worker takes the end of the export: the save is in its hands again.
LEMMA SaveExported ==
  ASSUME NEW g, NEW q \in Seq(Command), NEW w, NEW v, NEW r, NEW s, q # <<>>,
         Head(q).type = "exported", SaveFlow(g, q, w, r, s, FALSE), v.exportToken = 0
  PROVE /\ SaveFlow(g, Tail(q), v, r, s, TRUE)
        /\ Head(q).token = g.manual
<1>1. /\ ~Has(Tail(q), "exported") /\ Has(q, "exported")
      /\ Has(Tail(q), "save") => Has(q, "save")
      /\ Once(Tail(q), "save") /\ Once(Tail(q), "exported")
      /\ \A k \in DOMAIN Tail(q) : k + 1 \in DOMAIN q /\ Tail(q)[k] = q[k + 1]
      /\ 1 \in DOMAIN q /\ Head(q) = q[1]
  BY TakenOnce DEF SaveFlow
<1> QED BY <1>1 DEF SaveFlow

\* The verdict reaches the press that is waiting for it.
LEMMA SaveAnswered ==
  ASSUME NEW g, NEW q, NEW w, NEW r \in Seq(Report), NEW s \in SavesType, r # <<>>,
         Head(r).type = "clip", SaveFlow(g, q, w, r, s, FALSE)
  PROVE /\ g.activeReplay \in Save /\ s[g.activeReplay] = "dispatched" /\ Head(r).verdict \in Verdict
        /\ SaveFlow(g, q, w, Tail(r), [s EXCEPT ![g.activeReplay] = Head(r).verdict], FALSE)
<1> DEFINE z == [s EXCEPT ![g.activeReplay] = Head(r).verdict]
<1>1. Head(r).verdict \in Verdict
  BY Taken, Messages
<1>2. /\ ~Has(Tail(r), "clip") /\ Has(r, "clip") /\ Has(r, "finished") /\ Has(Tail(r), "finished")
      /\ Once(Tail(r), "clip") /\ Once(Tail(r), "finished")
      /\ \A k \in DOMAIN Tail(r) : k \in Nat /\ k + 1 \in DOMAIN r /\ Tail(r)[k] = r[k + 1]
  BY TakenOnce DEF SaveFlow
<1>3. g.savePending /\ g.activeReplay \in Save /\ s[g.activeReplay] = "dispatched"
  BY <1>2 DEF SaveFlow
<1>4. \A p \in Save : z[p] # "dispatched"
  <2>1. \A p \in Save : p # g.activeReplay => s[p] # "dispatched"
    BY DEF SaveFlow
  <2> QED BY <1>1, <1>3, <2>1 DEF SavesType, Verdict
<1> HIDE DEF z
<1>5. \A j, k \in DOMAIN Tail(r) : Tail(r)[j].type = "clip" /\ Tail(r)[k].type = "finished" => j < k
  BY <1>2 DEF Has
<1>6. SaveFlow(g, q, w, Tail(r), z, FALSE)
  BY <1>2, <1>3, <1>4, <1>5 DEF SaveFlow
<1> QED BY <1>1, <1>3, <1>6 DEF z

\* The release comes behind the verdict and finds the owner it is for.
LEMMA SaveReleased ==
  ASSUME NEW g, NEW h, NEW q, NEW w, NEW r \in Seq(Report), NEW s, r # <<>>,
         Head(r).type = "finished", SaveFlow(g, q, w, r, s, FALSE), h.savePending = FALSE
  PROVE /\ g.savePending /\ g.manual # 0 /\ Head(r).token = g.manual
        /\ SaveFlow(h, q, w, Tail(r), s, FALSE)
<1>1. /\ ~Has(Tail(r), "finished") /\ Has(r, "finished")
      /\ Once(Tail(r), "clip") /\ Once(Tail(r), "finished")
      /\ Has(Tail(r), "clip") <=> Has(r, "clip")
      /\ 1 \in DOMAIN r /\ Head(r) = r[1]
  BY TakenOnce DEF SaveFlow
<1>2. ~Has(r, "clip")
  <2>1. \A k \in DOMAIN r : k \in Nat /\ k >= 1
    BY Positions
  <2>2. \A k \in DOMAIN r : r[k].type = "clip" => k < 1
    BY <1>1 DEF SaveFlow
  <2> QED BY <2>1, <2>2 DEF Has
<1>3. /\ g.savePending /\ g.manual # 0 /\ Head(r).token = g.manual
      /\ w.exportToken = 0 /\ ~Has(q, "save") /\ ~Has(q, "exported") /\ Once(q, "save") /\ Once(q, "exported")
      /\ \A p \in Save : s[p] # "dispatched"
  BY <1>1, <1>2 DEF SaveFlow
<1>4. /\ \A k \in DOMAIN q : q[k].type \notin {"save", "exported"}
      /\ \A k \in DOMAIN Tail(r) : Tail(r)[k].type \notin {"finished", "clip"}
  BY <1>1, <1>2, <1>3 DEF Has
<1>5. SaveFlow(h, q, w, Tail(r), s, FALSE)
  BY <1>1, <1>2, <1>3, <1>4 DEF SaveFlow
<1> QED BY <1>3, <1>5
-----------------------------------------------------------------------------
(* What a handler of the service must leave: Good, with the commands it posted.       *)


\* The fields these parts look at, and nothing else, must be the same.
LEMMA SemiView ==
  ASSUME NEW g, NEW h \in GuiType, NEW w, NEW q, NEW r, NEW a, NEW s, Semi(g, q, w, r, a, s),
         h.generation = g.generation, h.state = g.state, h.preparing = g.preparing,
         \/ h.manual = g.manual /\ h.savePending = g.savePending /\ h.activeReplay = g.activeReplay
         \/ g.savePending = FALSE /\ h.savePending = FALSE
  PROVE Semi(h, q, w, r, a, s)
<1>1. Base(h, q, w, r, a)
  BY BaseView DEF Semi
<1>2. SaveFlow(h, q, w, r, s, FALSE)
  BY SaveView, SaveIdle DEF Semi
<1> QED BY <1>1, <1>2 DEF Semi

\* Whoever needed the session needs it still.
LEMMA GoodView ==
  ASSUME NEW g, NEW h \in GuiType, NEW w, NEW q, NEW r, NEW a, NEW s, Good(g, q, w, r, a, s),
         h.generation = g.generation, h.state = g.state, h.preparing = g.preparing,
         \/ h.manual = g.manual /\ h.savePending = g.savePending /\ h.activeReplay = g.activeReplay
         \/ g.savePending = FALSE /\ h.savePending = FALSE,
         NeedsSession(g) => NeedsSession(h)
  PROVE Good(h, q, w, r, a, s)
<1>1. Semi(h, q, w, r, a, s)
  BY SemiView DEF Good
<1> QED BY <1>1 DEF Good, Unowned

\* A start or stop in between leaves the saves alone.
LEMMA SaveFollows ==
  ASSUME NEW b \in Seq(Command), NEW g, NEW h, NEW w, NEW r, NEW a, NEW s,
         Semi(g, b \o g.sent, w, r, a, s), Follows(g, h)
  PROVE SaveFlow(h, b \o h.sent, w, r, s, FALSE)
<1>1. /\ g.sent \in Seq(Command) /\ r \in Seq(Report)
      /\ SaveFlow(g, b \o g.sent, w, r, s, FALSE)
  BY DEF Semi, Base, GuiType
<1>2. h.manual = g.manual /\ h.savePending = g.savePending /\ h.activeReplay = g.activeReplay
  BY DEF Follows, Owners
<1>3. CASE h.sent = g.sent
  BY <1>1, <1>2, <1>3, SaveView
<1>4. CASE \E m \in Command : m.type \in Switch /\ h.sent = Append(g.sent, m)
  <2>1. PICK m \in Command : m.type \in Switch /\ h.sent = Append(g.sent, m)
    BY <1>4
  <2>2. b \o g.sent \in Seq(Command) /\ b \o h.sent = Append(b \o g.sent, m)
    BY <1>1, <2>1, Posting
  <2> DEFINE q == b \o g.sent
  <2>3. SaveFlow(g, q, w, r, s, FALSE) /\ q \in Seq(Command)
    BY <1>1, <2>2
  <2> HIDE DEF q
  <2>4. m.type \notin {"save", "exported"}
    BY <2>1 DEF Switch
  <2>5. SaveFlow(g, Append(q, m), w, r, s, FALSE)
    BY <1>1, <2>3, <2>4, SaveUntouched
  <2>6. SaveFlow(h, Append(q, m), w, r, s, FALSE)
    BY <1>2, <2>5, SaveView
  <2> QED BY <2>2, <2>6 DEF q
<1> QED BY <1>3, <1>4 DEF Follows

\* The owners' change ends every handler that takes an owner away.
LEMMA Settle ==
  ASSUME NEW b \in Seq(Command), NEW g, NEW w, NEW r, NEW a, NEW s, Semi(g, b \o g.sent, w, r, a, s)
  PROVE LET h == OwnersChanged(g) IN Good(h, b \o h.sent, w, r, a, s) /\ Follows(g, h)
<1> DEFINE h == OwnersChanged(g)
<1>1. Base(h, b \o h.sent, w, r, a) /\ Unowned(h, b \o h.sent, w) /\ Follows(g, h)
  BY OwnersSettled DEF Semi
<1> HIDE DEF h
<1>2. SaveFlow(h, b \o h.sent, w, r, s, FALSE)
  BY <1>1, SaveFollows
<1> QED BY <1>1, <1>2 DEF Good, Semi, h

\* A start keeps all of it.
LEMMA Start ==
  ASSUME NEW b \in Seq(Command), NEW g, NEW w, NEW r, NEW a, NEW s, Good(g, b \o g.sent, w, r, a, s),
         NEW rearm \in BOOLEAN, NEW foreground \in Window
  PROVE LET h == StartBuffer(g, rearm, foreground)
        IN Good(h, b \o h.sent, w, r, a, s) /\ Follows(g, h)
<1> DEFINE h == StartBuffer(g, rearm, foreground)
<1>1. Base(h, b \o h.sent, w, r, a) /\ Unowned(h, b \o h.sent, w) /\ Follows(g, h)
  BY Started DEF Good, Semi
<1> HIDE DEF h
<1>2. SaveFlow(h, b \o h.sent, w, r, s, FALSE)
  BY <1>1, SaveFollows DEF Good
<1> QED BY <1>1, <1>2 DEF Good, Semi, h

\* One after the other.
LEMMA Follow ==
  ASSUME NEW g, NEW h, NEW i, Follows(g, h), Owners(i) = Owners(h)
  PROVE Owners(i) = Owners(g) /\ i.manual = g.manual /\ i.hdr = g.hdr /\ i.savePending = g.savePending
        /\ i.activeReplay = g.activeReplay /\ i.activeHdr = g.activeHdr /\ i.preparing = g.preparing
BY DEF Follows, Owners

\* `h` is good, and the HDR owner is who it was.
KeepsHdr(g, h, b, w, r, a, s) ==
  Good(h, b \o h.sent, w, r, a, s) /\ h.hdr = g.hdr /\ h.activeHdr = g.activeHdr

\* A rebuild takes the detector's owner or gives it up; the others stay.
LEMMA Rebuild ==
  ASSUME NEW b \in Seq(Command), NEW g, NEW w, NEW r, NEW a, NEW s, Good(g, b \o g.sent, w, r, a, s),
         NEW autoEnabled, NEW foreground \in Window
  PROVE KeepsHdr(g, RestartBuffer(g, autoEnabled, foreground), b, w, r, a, s)
<1> DEFINE owned == [g EXCEPT !.auto = IF ~autoEnabled THEN FALSE
                                       ELSE IF foreground \in Games THEN TRUE ELSE @]
<1> DEFINE checked == OwnersChanged(owned)
<1> DEFINE started == StartBuffer(checked, checked.game # NoWindow, foreground)
<1>1. CASE g.preparing
  BY <1>1 DEF RestartBuffer, KeepsHdr
<1>2. CASE ~g.preparing
  <2>1. g \in GuiType
    BY DEF Good, Semi, Base
  <2>2. /\ owned \in GuiType /\ owned.sent = g.sent /\ owned.generation = g.generation
        /\ owned.state = g.state /\ owned.preparing = g.preparing /\ owned.manual = g.manual
        /\ owned.savePending = g.savePending /\ owned.activeReplay = g.activeReplay
        /\ owned.hdr = g.hdr /\ owned.activeHdr = g.activeHdr
    <3>1. (IF ~autoEnabled THEN FALSE ELSE IF foreground \in Games THEN TRUE ELSE g.auto) \in BOOLEAN
      BY <2>1 DEF GuiType
    <3> QED BY <2>1, <3>1 DEF GuiType
  <2>3. RestartBuffer(g, autoEnabled, foreground) = IF NeedsSession(checked) THEN started ELSE checked
    BY <1>2 DEF RestartBuffer
  <2> HIDE DEF owned
  <2>4. Semi(owned, b \o owned.sent, w, r, a, s)
    BY <2>2, SemiView DEF Good
  <2>5. Good(checked, b \o checked.sent, w, r, a, s) /\ Follows(owned, checked)
    BY <2>4, Settle
  <2> HIDE DEF checked
  <2>6. Good(started, b \o started.sent, w, r, a, s) /\ Follows(checked, started)
    <3>1. (checked.game # NoWindow) \in BOOLEAN
      OBVIOUS
    <3> QED BY <2>5, <3>1, Start
  <2> HIDE DEF started
  <2>7. started.hdr = g.hdr /\ started.activeHdr = g.activeHdr
        /\ checked.hdr = g.hdr /\ checked.activeHdr = g.activeHdr
    BY <2>2, <2>5, <2>6 DEF Follows, Owners
  <2> QED BY <2>3, <2>5, <2>6, <2>7 DEF KeepsHdr
<1> QED BY <1>1, <1>2

\* A command that neither starts nor stops is posted.
LEMMA Posted ==
  ASSUME NEW b \in Seq(Command), NEW g, NEW h \in GuiType, NEW w, NEW r, NEW a, NEW m \in Command,
         Base(g, b \o g.sent, w, r, a), h.generation = g.generation, h.state = g.state,
         h.preparing = g.preparing, h.sent = Append(g.sent, m), m.type \notin Switch \cup {"cancel", "prepare"}
  PROVE /\ Base(h, b \o h.sent, w, r, a)
        /\ Unowned(g, b \o g.sent, w) /\ (NeedsSession(g) => NeedsSession(h)) => Unowned(h, b \o h.sent, w)
        /\ b \o h.sent = Append(b \o g.sent, m) /\ b \o g.sent \in Seq(Command)
<1> DEFINE q == b \o g.sent
<1>1. /\ g \in GuiType /\ w \in WorkerType /\ r \in Seq(Report) /\ g.sent \in Seq(Command)
      /\ Generations(g, q, w, r) /\ Quiescence(g, q, w, r, a) /\ Prepared(g, q, w) /\ Stopped(g, q, w)
  BY DEF Base, GuiType
<1>2. q \in Seq(Command) /\ b \o h.sent = Append(q, m)
  <2>1. q \in Seq(Command)
    BY <1>1, Posting
  <2>2. b \o Append(g.sent, m) = Append(q, m)
    BY <1>1, Posting, SMTT(30)
  <2> QED BY <2>1, <2>2
<1> HIDE DEF q
<1>0. Append(q, m) \in Seq(Command)
  BY <1>2, Appended
<1>3. /\ Generations(g, Append(q, m), w, r) /\ Quiescence(g, Append(q, m), w, r, a)
      /\ Prepared(g, Append(q, m), w)
      /\ Halted(q, w) => Halted(Append(q, m), w)
      /\ LastOf(q, "prepare", {"start"}) => LastOf(Append(q, m), "prepare", {"start"})
  BY <1>1, <1>2, CommandPosted
<1>4. Base(g, Append(q, m), w, r, a)
  BY <1>0, <1>1, <1>3 DEF Base, Stopped
<1>5. Base(h, Append(q, m), w, r, a)
  BY <1>4, BaseView
<1>6. Unowned(g, q, w) /\ (NeedsSession(g) => NeedsSession(h)) => Unowned(h, Append(q, m), w)
  BY <1>3 DEF Unowned
<1> QED BY <1>2, <1>5, <1>6 DEF q
-----------------------------------------------------------------------------
(* How a handler of the service keeps the inductive invariant.                        *)

\* What a handler of the service starts from.
LEMMA FrontStarts ==
  ASSUME IInv
  PROVE /\ gui \in GuiType /\ toWorker \in Seq(Command) /\ worker \in WorkerType /\ toGui \in Seq(Report)
        /\ toWorker \o gui.sent = toWorker
        /\ Good(gui, toWorker \o gui.sent, worker, toGui, app, saves)
<1>1. /\ gui \in GuiType /\ toWorker \in Seq(Command) /\ worker \in WorkerType /\ toGui \in Seq(Report)
      /\ gui.sent = <<>>
  BY DEF IInv, Good, Semi, Base
<1>2. toWorker \o <<>> = toWorker
  BY <1>1, ConcatEmptySeq
<1> QED BY <1>1, <1>2 DEF IInv

\* What it must leave.
LEMMA FrontEnds ==
  ASSUME IInv, NEW h, GuiStep(h), worker' = worker,
         Good(h, toWorker \o h.sent, worker, toGui', app', saves'), HdrFlow(h, hdrs'),
         saves' \in SavesType, hdrs' \in HdrsType, saves'[0] = "idle", hdrs'[0] = "idle",
         app' \in {"idle", "preparing", "ready"}, events' \in 0..MaxEvents
  PROVE IInv'
<1> DEFINE i == [h EXCEPT !.sent = <<>>]
<1>1. gui' = i /\ toWorker' = toWorker \o h.sent
  BY DEF GuiStep
<1>2. h \in GuiType
  BY DEF Good, Semi, Base
<1>3. /\ i \in GuiType /\ i.sent = <<>> /\ i.generation = h.generation /\ i.state = h.state
      /\ i.preparing = h.preparing /\ i.manual = h.manual /\ i.savePending = h.savePending
      /\ i.activeReplay = h.activeReplay /\ i.auto = h.auto /\ i.hdr = h.hdr /\ i.activeHdr = h.activeHdr
  <2>1. <<>> \in Seq(Command)
    OBVIOUS
  <2> QED BY <1>2, <2>1 DEF GuiType
<1> HIDE DEF i
<1>4. Good(i, toWorker \o h.sent, worker, toGui', app', saves')
  BY <1>3, GoodView DEF NeedsSession
<1>5. HdrFlow(i, hdrs')
  BY <1>3 DEF HdrFlow
<1> QED BY <1>1, <1>3, <1>4, <1>5 DEF IInv

\* The bounds leave room for one more event.
LEMMA Room ==
  /\ MaxEvents \in Nat /\ 0 \notin Save /\ 0 \notin Hdr
  /\ IInv /\ Outside => events' \in 0..MaxEvents
BY FramePumpAssumption DEF Save, Hdr, IInv, Outside

\* A press may acquire the owner and arm the buffer before the save is admitted.
LEMMA KeepsSaveReplay == ASSUME IInv, NEW r \in Save, SaveReplay(r) PROVE IInv'
<1> DEFINE g == AcquireManual(gui)
<1> DEFINE owned == OwnersChanged(g)
<1>1. PICK foreground \in Window :
        LET armed == IF StartRequested(owned.state) THEN owned
                     ELSE StartBuffer(owned, owned.game # NoWindow, foreground)
            pending == [armed EXCEPT !.savePending = TRUE, !.activeReplay = r]
        IN /\ saves[r] = "idle"
           /\ \/ /\ gui.preparing \/ gui.savePending
                 /\ saves' = [saves EXCEPT ![r] = "rejected"]
                 /\ GuiStep(gui)
              \/ /\ ~gui.preparing /\ ~gui.savePending
                 /\ saves' = [saves EXCEPT ![r] = "rejected"]
                 /\ GuiStep(armed)
              \/ /\ ~gui.preparing /\ ~gui.savePending
                 /\ saves' = [saves EXCEPT ![r] = "dispatched"]
                 /\ GuiStep(Post(pending, [type |-> "save", generation |-> armed.generation,
                                           token |-> armed.manual]))
           /\ UNCHANGED <<worker, toGui, hdrs, app, events>>
  BY DEF SaveReplay
<1> DEFINE armed == IF StartRequested(owned.state) THEN owned
                    ELSE StartBuffer(owned, owned.game # NoWindow, foreground)
<1>2. /\ gui \in GuiType /\ toWorker \in Seq(Command) /\ worker \in WorkerType /\ toGui \in Seq(Report)
      /\ Good(gui, toWorker \o gui.sent, worker, toGui, app, saves)
  BY FrontStarts
<1>3. /\ saves \in SavesType /\ hdrs \in HdrsType /\ saves[0] = "idle" /\ hdrs[0] = "idle"
      /\ app \in {"idle", "preparing", "ready"} /\ events \in 0..MaxEvents /\ HdrFlow(gui, hdrs)
  BY DEF IInv
<1>4. /\ [saves EXCEPT ![r] = "rejected"] \in SavesType /\ [saves EXCEPT ![r] = "rejected"][0] = "idle"
      /\ [saves EXCEPT ![r] = "dispatched"] \in SavesType /\ [saves EXCEPT ![r] = "dispatched"][0] = "idle"
  BY <1>3, Room DEF SavesType
<1>5. ASSUME NEW h, Good(h, toWorker \o h.sent, worker, toGui, app, saves)
      PROVE Good(h, toWorker \o h.sent, worker, toGui, app, [saves EXCEPT ![r] = "rejected"])
  BY <1>1, <1>3, <1>5, SaveRejected DEF Good, Semi
<1>6. CASE /\ saves' = [saves EXCEPT ![r] = "rejected"]
           /\ GuiStep(gui)
  <2>1. Good(gui, toWorker \o gui.sent, worker, toGui', app', saves')
    BY <1>1, <1>2, <1>5, <1>6
  <2> QED BY <1>1, <1>3, <1>4, <1>6, <2>1, FrontEnds
<1>7. CASE ~gui.preparing /\ ~gui.savePending
  <2>1. /\ g \in GuiType /\ g.sent = gui.sent /\ g.generation = gui.generation /\ g.state = gui.state
        /\ g.preparing = gui.preparing /\ g.manual # 0 /\ g.savePending = FALSE
        /\ g.hdr = gui.hdr /\ g.activeHdr = gui.activeHdr
    <3>1. CASE gui.manual = 0
      <4>1. gui.sequence + 1 # 0 /\ gui.sequence + 1 \in Nat
        BY <1>2 DEF GuiType
      <4> QED BY <1>2, <1>7, <3>1, <4>1 DEF AcquireManual, GuiType
    <3>2. CASE gui.manual # 0
      BY <1>2, <1>7, <3>2 DEF AcquireManual, GuiType
    <3> QED BY <3>1, <3>2
  <2> HIDE DEF g
  <2>2. Semi(g, toWorker \o g.sent, worker, toGui, app, saves)
    <3>1. Semi(gui, toWorker \o gui.sent, worker, toGui, app, saves) /\ gui.savePending = FALSE
      BY <1>2, <1>7 DEF Good, GuiType
    <3> QED BY <2>1, <3>1, SemiView
  <2>3. Good(owned, toWorker \o owned.sent, worker, toGui, app, saves) /\ Follows(g, owned)
    BY <1>2, <2>2, Settle
  <2> HIDE DEF owned
  <2>4. /\ Good(armed, toWorker \o armed.sent, worker, toGui, app, saves)
        /\ armed \in GuiType /\ armed.manual # 0 /\ armed.savePending = FALSE
        /\ armed.hdr = gui.hdr /\ armed.activeHdr = gui.activeHdr
    <3>1. (owned.game # NoWindow) \in BOOLEAN
      OBVIOUS
    <3> DEFINE started == StartBuffer(owned, owned.game # NoWindow, foreground)
    <3>2. Good(started, toWorker \o started.sent, worker, toGui, app, saves) /\ Follows(owned, started)
      BY <1>2, <2>3, <3>1, Start
    <3> HIDE DEF started
    <3>3. Follows(owned, owned)
      BY <2>3 DEF Follows
    <3>4. Good(armed, toWorker \o armed.sent, worker, toGui, app, saves) /\ Follows(owned, armed)
      BY <2>3, <3>2, <3>3 DEF started
    <3> HIDE DEF armed
    <3> QED BY <2>1, <2>3, <3>4 DEF Follows, Owners
  <2> HIDE DEF armed
  <2>5. HdrFlow(armed, hdrs)
    BY <1>3, <2>4 DEF HdrFlow
  <2>6. CASE saves' = [saves EXCEPT ![r] = "rejected"] /\ GuiStep(armed)
    <3>1. Good(armed, toWorker \o armed.sent, worker, toGui', app', saves')
      BY <1>1, <1>5, <2>4, <2>6
    <3> QED BY <1>1, <1>3, <1>4, <2>5, <2>6, <3>1, FrontEnds
  <2>7. ASSUME saves' = [saves EXCEPT ![r] = "dispatched"],
               NEW pending, pending = [armed EXCEPT !.savePending = TRUE, !.activeReplay = r],
               NEW m, m = [type |-> "save", generation |-> armed.generation, token |-> armed.manual],
               GuiStep(Post(pending, m))
        PROVE IInv'
    <3> DEFINE h == Post(pending, m)
    <3>1. m \in Command /\ m.type = "save" /\ m.token = armed.manual
      BY <2>4, <2>7 DEF GuiType, Command, Token
    <3>2. /\ pending \in GuiType /\ pending.generation = armed.generation /\ pending.state = armed.state
          /\ pending.preparing = armed.preparing /\ pending.sent = armed.sent
          /\ pending.manual = armed.manual /\ pending.savePending = TRUE /\ pending.activeReplay = r
          /\ pending.hdr = armed.hdr /\ pending.activeHdr = armed.activeHdr
      BY <2>4, <2>7 DEF GuiType
    <3>3. Append(armed.sent, m) \in Seq(Command)
      <4>1. armed.sent \in Seq(Command)
        BY <2>4 DEF GuiType
      <4> QED BY <3>1, <4>1, Appended
    <3>4. /\ h \in GuiType /\ h.generation = armed.generation /\ h.state = armed.state
          /\ h.preparing = armed.preparing /\ h.sent = Append(armed.sent, m)
          /\ h.manual = armed.manual /\ h.savePending = TRUE /\ h.activeReplay = r
          /\ h.hdr = armed.hdr /\ h.activeHdr = armed.activeHdr
      BY <3>2, <3>3 DEF GuiType, Post
    <3> HIDE DEF h
    <3>5. Base(armed, toWorker \o armed.sent, worker, toGui, app) /\ Unowned(armed, toWorker \o armed.sent, worker)
          /\ SaveFlow(armed, toWorker \o armed.sent, worker, toGui, saves, FALSE)
      BY <2>4 DEF Good, Semi
    <3>6. m.type \notin Switch \cup {"cancel", "prepare"} /\ NeedsSession(h)
      BY <2>4, <3>1, <3>4 DEF Switch, NeedsSession
    <3>7. /\ Base(h, toWorker \o h.sent, worker, toGui, app)
          /\ Unowned(h, toWorker \o h.sent, worker)
          /\ toWorker \o h.sent = Append(toWorker \o armed.sent, m)
          /\ toWorker \o armed.sent \in Seq(Command)
      BY <1>2, <3>1, <3>4, <3>5, <3>6, Posted
    <3> DEFINE q == toWorker \o armed.sent
    <3>8. SaveFlow(armed, q, worker, toGui, saves, FALSE) /\ q \in Seq(Command)
      BY <3>5, <3>7
    <3> HIDE DEF q
    <3>9. SaveFlow(h, Append(q, m), worker, toGui, [saves EXCEPT ![r] = "dispatched"], FALSE)
      BY <1>3, <2>4, <3>1, <3>4, <3>8, SavePosted
    <3>10. Good(h, toWorker \o h.sent, worker, toGui', app', saves')
      BY <1>1, <2>7, <3>7, <3>9 DEF Good, Semi, q
    <3>11. HdrFlow(h, hdrs)
      BY <2>5, <3>4 DEF HdrFlow
    <3> QED BY <1>1, <1>3, <1>4, <2>7, <3>10, <3>11, FrontEnds DEF h
  <2> QED BY <1>1, <1>6, <2>6, <2>7 DEF armed
<1> QED BY <1>1, <1>6, <1>7

\* A release of the HDR owner, by an answer or without one.
LEMMA HdrReleased ==
  ASSUME IInv, NEW g, NEW r, Good(g, toWorker \o g.sent, worker, r, app, saves), NEW hs
  PROVE LET h == FinishHdr(g)
        IN Good(h, toWorker \o h.sent, worker, r, app, saves) /\ HdrFlow(h, hs)
<1> DEFINE i == [g EXCEPT !.hdr = 0, !.activeHdr = 0]
<1> DEFINE h == OwnersChanged(i)
<1>1. g \in GuiType /\ toWorker \in Seq(Command)
  BY FrontStarts DEF Good, Semi, Base
<1>2. /\ i \in GuiType /\ i.sent = g.sent /\ i.generation = g.generation /\ i.state = g.state
      /\ i.preparing = g.preparing /\ i.manual = g.manual /\ i.savePending = g.savePending
      /\ i.activeReplay = g.activeReplay /\ i.hdr = 0 /\ i.activeHdr = 0
  BY <1>1 DEF GuiType
<1>3. FinishHdr(g) = h
  BY DEF FinishHdr
<1> HIDE DEF i
<1>4. Semi(i, toWorker \o i.sent, worker, r, app, saves)
  BY <1>2, SemiView DEF Good
<1>5. Good(h, toWorker \o h.sent, worker, r, app, saves) /\ Follows(i, h)
  BY <1>1, <1>4, Settle
<1> HIDE DEF h
<1>6. HdrFlow(h, hs)
  BY <1>2, <1>5 DEF Follows, Owners, HdrFlow
<1> QED BY <1>3, <1>5, <1>6

\* A message about an HDR screenshot is posted.
LEMMA HdrPosted ==
  ASSUME NEW b \in Seq(Command), NEW g, NEW w, NEW r, NEW a, NEW s, Semi(g, b \o g.sent, w, r, a, s),
         NEW m \in Command, m.type \in {"hdr", "cancelHdr"}
  PROVE LET h == Post(g, m)
        IN /\ Semi(h, b \o h.sent, w, r, a, s)
           /\ Unowned(g, b \o g.sent, w) => Good(h, b \o h.sent, w, r, a, s)
           /\ h.hdr = g.hdr /\ h.activeHdr = g.activeHdr
<1> DEFINE h == Post(g, m)
<1> DEFINE q == b \o g.sent
<1>1. g \in GuiType /\ g.sent \in Seq(Command) /\ r \in Seq(Report)
  BY DEF Semi, Base, GuiType
<1>2. Append(g.sent, m) \in Seq(Command)
  BY <1>1, Appended
<1>3. /\ h \in GuiType /\ h.generation = g.generation /\ h.state = g.state
      /\ h.preparing = g.preparing /\ h.sent = Append(g.sent, m) /\ h.auto = g.auto
      /\ h.manual = g.manual /\ h.savePending = g.savePending
      /\ h.activeReplay = g.activeReplay /\ h.hdr = g.hdr /\ h.activeHdr = g.activeHdr
  BY <1>1, <1>2 DEF GuiType, Post
<1> HIDE DEF h
<1>4. Base(g, b \o g.sent, w, r, a) /\ SaveFlow(g, b \o g.sent, w, r, s, FALSE)
  BY DEF Semi
<1>5. m.type \notin Switch \cup {"cancel", "prepare"} /\ m.type \notin {"save", "exported"}
  BY DEF Switch
<1>6. NeedsSession(g) => NeedsSession(h)
  BY <1>3 DEF NeedsSession
<1>7. /\ Base(h, b \o h.sent, w, r, a)
      /\ Unowned(g, b \o g.sent, w) => Unowned(h, b \o h.sent, w)
      /\ b \o h.sent = Append(b \o g.sent, m) /\ b \o g.sent \in Seq(Command)
  <2>1. b \o g.sent \in Seq(Command) /\ b \o h.sent = Append(b \o g.sent, m)
    BY <1>1, <1>3, Posting
  <2>2. Base(h, b \o h.sent, w, r, a)
    BY <1>3, <1>4, <1>5, Posted
  <2>3. Unowned(g, b \o g.sent, w) => Unowned(h, b \o h.sent, w)
    BY <1>3, <1>4, <1>5, <1>6, Posted
  <2> QED BY <2>1, <2>2, <2>3
<1>8. SaveFlow(g, q, w, r, s, FALSE) /\ q \in Seq(Command)
  BY <1>4, <1>7
<1> HIDE DEF q
<1>9. SaveFlow(g, Append(q, m), w, r, s, FALSE)
  BY <1>1, <1>5, <1>8, SaveUntouched
<1>10. SaveFlow(h, Append(q, m), w, r, s, FALSE)
  BY <1>3, <1>9, SaveView
<1> QED BY <1>3, <1>7, <1>10 DEF Good, Semi, q, h

\* An HDR request may retarget the buffer, and releases its owner if that fails.
LEMMA KeepsCaptureHdr == ASSUME IInv, NEW n \in Hdr, CaptureHdrScreenshot(n) PROVE IInv'
<1> DEFINE owned == [AcquireHdr(gui) EXCEPT !.activeHdr = n]
<1>1. PICK hwnd \in Games, foreground \in Window :
        LET retargeted == IF owned.hwnd # hwnd /\ owned.manual = 0
                          THEN [owned EXCEPT !.game = foreground] ELSE owned
            armed == IF StartRequested(owned.state) /\ owned.hwnd = hwnd THEN owned
                     ELSE StartBuffer(retargeted, retargeted.game # NoWindow, foreground)
        IN /\ hdrs[n] = "idle"
           /\ \A q \in 1..(n - 1) : hdrs[q] # "idle"
           /\ \/ /\ HdrRefused(gui, hwnd)
                 /\ hdrs' = [hdrs EXCEPT ![n] = "failed"]
                 /\ GuiStep(gui)
              \/ /\ ~HdrRefused(gui, hwnd) /\ ~(StartRequested(armed.state) /\ armed.hwnd = hwnd)
                 /\ hdrs' = [hdrs EXCEPT ![n] = "failed"]
                 /\ GuiStep(FinishHdr(armed))
              \/ /\ ~HdrRefused(gui, hwnd) /\ StartRequested(armed.state) /\ armed.hwnd = hwnd
                 /\ hdrs' = [hdrs EXCEPT ![n] = "pending"]
                 /\ GuiStep(Post(armed, [type |-> "hdr", generation |-> armed.generation,
                                         token |-> armed.hdr]))
           /\ UNCHANGED <<worker, toGui, saves, app, events>>
  BY Zenon DEF CaptureHdrScreenshot
<1>0. ~HdrRefused(gui, hwnd) => gui.hdr = 0
  BY DEF HdrRefused
<1> DEFINE retargeted == IF owned.hwnd # hwnd /\ owned.manual = 0
                         THEN [owned EXCEPT !.game = foreground] ELSE owned
<1> DEFINE armed == IF StartRequested(owned.state) /\ owned.hwnd = hwnd THEN owned
                    ELSE StartBuffer(retargeted, retargeted.game # NoWindow, foreground)
<1>2. /\ gui \in GuiType /\ toWorker \in Seq(Command) /\ worker \in WorkerType /\ toGui \in Seq(Report)
      /\ Good(gui, toWorker \o gui.sent, worker, toGui, app, saves)
  BY FrontStarts
<1>3. /\ saves \in SavesType /\ hdrs \in HdrsType /\ saves[0] = "idle" /\ hdrs[0] = "idle"
      /\ app \in {"idle", "preparing", "ready"} /\ events \in 0..MaxEvents /\ HdrFlow(gui, hdrs)
  BY DEF IInv
<1>4. \A v \in {"failed", "pending"} :
        [hdrs EXCEPT ![n] = v] \in HdrsType /\ [hdrs EXCEPT ![n] = v][0] = "idle" /\ [hdrs EXCEPT ![n] = v][n] = v
  BY <1>3, Room DEF HdrsType
<1>5. CASE hdrs' = [hdrs EXCEPT ![n] = "failed"] /\ GuiStep(gui)
  <2>1. HdrFlow(gui, hdrs')
    BY <1>1, <1>2, <1>3, <1>5 DEF HdrFlow, HdrsType, GuiType
  <2> QED BY <1>1, <1>2, <1>3, <1>4, <1>5, <2>1, FrontEnds
<1>6. ASSUME gui.hdr = 0
      PROVE /\ Good(armed, toWorker \o armed.sent, worker, toGui, app, saves)
            /\ armed \in GuiType /\ armed.hdr # 0 /\ armed.activeHdr = n
  <2>1. /\ owned \in GuiType /\ owned.sent = gui.sent /\ owned.generation = gui.generation
        /\ owned.state = gui.state /\ owned.preparing = gui.preparing /\ owned.manual = gui.manual
        /\ owned.savePending = gui.savePending /\ owned.activeReplay = gui.activeReplay
        /\ owned.hdr # 0 /\ owned.activeHdr = n
    <3>1. gui.sequence + 1 # 0 /\ gui.sequence + 1 \in Nat
      BY <1>2 DEF GuiType
    <3> QED BY <1>2, <3>1 DEF AcquireHdr, GuiType
  <2> HIDE DEF owned
  <2>2. NeedsSession(owned)
    BY <2>1 DEF NeedsSession
  <2>3. Good(owned, toWorker \o owned.sent, worker, toGui, app, saves)
    BY <1>2, <2>1, <2>2, GoodView
  <2>4. /\ retargeted \in GuiType /\ retargeted.sent = owned.sent /\ retargeted.generation = owned.generation
        /\ retargeted.state = owned.state /\ retargeted.preparing = owned.preparing
        /\ retargeted.manual = owned.manual /\ retargeted.savePending = owned.savePending
        /\ retargeted.activeReplay = owned.activeReplay /\ retargeted.hdr = owned.hdr
        /\ retargeted.activeHdr = owned.activeHdr
    BY <2>1 DEF GuiType
  <2> HIDE DEF retargeted
  <2>5. Good(retargeted, toWorker \o retargeted.sent, worker, toGui, app, saves)
    <3>1. NeedsSession(retargeted)
      BY <2>1, <2>4 DEF NeedsSession
    <3> QED BY <2>3, <2>4, <3>1, GoodView
  <2> DEFINE started == StartBuffer(retargeted, retargeted.game # NoWindow, foreground)
  <2>6. Good(started, toWorker \o started.sent, worker, toGui, app, saves) /\ Follows(retargeted, started)
    <3>1. (retargeted.game # NoWindow) \in BOOLEAN
      OBVIOUS
    <3> QED BY <1>2, <2>5, <3>1, Start
  <2>7. armed = owned \/ armed = started
    OBVIOUS
  <2> HIDE DEF started, armed
  <2>8. started \in GuiType /\ started.hdr # 0 /\ started.activeHdr = n
    BY <2>1, <2>4, <2>6 DEF Follows, Owners
  <2> QED BY <2>1, <2>3, <2>6, <2>7, <2>8
<1> HIDE DEF armed, retargeted, owned
<1>7. CASE /\ gui.hdr = 0
           /\ hdrs' = [hdrs EXCEPT ![n] = "failed"]
           /\ GuiStep(FinishHdr(armed))
  <2> DEFINE h == FinishHdr(armed)
  <2>1. Good(h, toWorker \o h.sent, worker, toGui, app, saves) /\ HdrFlow(h, hdrs')
    BY <1>6, <1>7, HdrReleased
  <2> HIDE DEF h
  <2>2. GuiStep(h)
    BY <1>7 DEF h
  <2> QED BY <1>1, <1>3, <1>4, <1>7, <2>1, <2>2, FrontEnds
<1>8. ASSUME gui.hdr = 0, hdrs' = [hdrs EXCEPT ![n] = "pending"],
             NEW m, m = [type |-> "hdr", generation |-> armed.generation, token |-> armed.hdr],
             GuiStep(Post(armed, m))
      PROVE IInv'
  <2> DEFINE h == Post(armed, m)
  <2>1. /\ Good(armed, toWorker \o armed.sent, worker, toGui, app, saves)
        /\ armed \in GuiType /\ armed.hdr # 0 /\ armed.activeHdr = n
    BY <1>6, <1>8
  <2>2. m \in Command /\ m.type = "hdr"
    BY <1>8, <2>1 DEF GuiType, Command, Token
  <2>3. Good(h, toWorker \o h.sent, worker, toGui, app, saves) /\ h.hdr = armed.hdr /\ h.activeHdr = armed.activeHdr
    BY <1>2, <2>1, <2>2, HdrPosted DEF Good
  <2>4. GuiStep(h)
    BY <1>8
  <2> HIDE DEF h
  <2>5. HdrFlow(h, hdrs')
    BY <1>4, <1>8, <2>1, <2>3, Room DEF HdrFlow
  <2> QED BY <1>1, <1>3, <1>4, <1>8, <2>3, <2>4, <2>5, FrontEnds
<1> QED BY <1>0, <1>1, <1>5, <1>7, <1>8 DEF armed, retargeted

\* The backstop answers the requester, cancels in the worker and releases the owner.
LEMMA KeepsHdrTimeout == ASSUME IInv, HdrTimeout PROVE IInv'
<1> DEFINE g == [gui EXCEPT !.hdr = 0, !.activeHdr = 0]
<1> DEFINE m == [type |-> "cancelHdr", token |-> gui.hdr]
<1> DEFINE posted == Post(g, m)
<1> DEFINE h == OwnersChanged(posted)
<1>1. /\ gui \in GuiType /\ toWorker \in Seq(Command) /\ worker \in WorkerType /\ toGui \in Seq(Report)
      /\ Good(gui, toWorker \o gui.sent, worker, toGui, app, saves)
  BY FrontStarts
<1>2. /\ saves \in SavesType /\ hdrs \in HdrsType /\ saves[0] = "idle" /\ hdrs[0] = "idle"
      /\ app \in {"idle", "preparing", "ready"} /\ events \in 0..MaxEvents
  BY DEF IInv
<1>3. /\ gui.activeHdr # 0 /\ hdrs' = [hdrs EXCEPT ![gui.activeHdr] = "failed"]
      /\ GuiStep(h) /\ UNCHANGED <<worker, toGui, saves, app, events>>
  BY DEF HdrTimeout
<1>4. hdrs' \in HdrsType /\ hdrs'[0] = "idle"
  BY <1>1, <1>2, <1>3, Room DEF HdrsType, GuiType
<1>5. /\ g \in GuiType /\ g.sent = gui.sent /\ g.generation = gui.generation /\ g.state = gui.state
      /\ g.preparing = gui.preparing /\ g.manual = gui.manual /\ g.savePending = gui.savePending
      /\ g.activeReplay = gui.activeReplay /\ g.hdr = 0 /\ g.activeHdr = 0
  BY <1>1 DEF GuiType
<1>6. m \in Command /\ m.type = "cancelHdr"
  BY <1>1 DEF GuiType, Command
<1> HIDE DEF g, m
<1>7. Semi(g, toWorker \o g.sent, worker, toGui, app, saves)
  BY <1>1, <1>5, SemiView DEF Good
<1>8. /\ Semi(posted, toWorker \o posted.sent, worker, toGui, app, saves)
      /\ posted.hdr = 0 /\ posted.activeHdr = 0
  BY <1>1, <1>5, <1>6, <1>7, HdrPosted, ZenonT(60)
<1> HIDE DEF posted
<1>9. Good(h, toWorker \o h.sent, worker, toGui, app, saves) /\ Follows(posted, h)
  BY <1>1, <1>8, Settle
<1> HIDE DEF h
<1>10. HdrFlow(h, hdrs')
  BY <1>8, <1>9 DEF Follows, Owners, HdrFlow
<1> QED BY <1>2, <1>3, <1>4, <1>9, <1>10, FrontEnds

\* A tick may release a cold manual owner, then acquire or release the automatic one.
LEMMA KeepsAutoTick == ASSUME IInv, AutoTick PROVE IInv'
<1> DEFINE S(g) == Good(g, toWorker \o g.sent, worker, toGui, app, saves)
<1> DEFINE Hdrs(g) == g.hdr = gui.hdr /\ g.activeHdr = gui.activeHdr
<1>1. /\ gui \in GuiType /\ toWorker \in Seq(Command) /\ worker \in WorkerType /\ toGui \in Seq(Report)
      /\ S(gui)
  BY FrontStarts
<1>2. PICK foreground \in Window, expired \in BOOLEAN, autoEnabled \in BOOLEAN :
        LET idle == IF expired /\ gui.manual # 0 /\ ~gui.savePending
                    THEN OwnersChanged(ReleaseColdManual(gui)) ELSE gui
            acquired == [idle EXCEPT !.noGameTicks = 0, !.auto = TRUE]
            ticks == IF idle.auto THEN idle.noGameTicks + 1 ELSE idle.noGameTicks
            away == [idle EXCEPT !.noGameTicks = ticks]
            after == IF autoEnabled /\ foreground \in Games
                     THEN IF ~HasExplicitOwner(acquired)
                             /\ (~StartRequested(acquired.state) \/ acquired.hwnd # foreground)
                          THEN StartBuffer([acquired EXCEPT !.game = foreground], TRUE, foreground)
                          ELSE acquired
                     ELSE IF idle.auto /\ ticks >= 2
                     THEN OwnersChanged([away EXCEPT !.auto = FALSE])
                     ELSE away
        IN /\ ~gui.preparing
           /\ after # gui
           /\ Outside
           /\ GuiStep(after)
           /\ UNCHANGED <<worker, toGui, saves, hdrs, app>>
  BY ZenonT(60) DEF AutoTick
<1> DEFINE released == ReleaseColdManual(gui)
<1> DEFINE idle == IF expired /\ gui.manual # 0 /\ ~gui.savePending
                   THEN OwnersChanged(released) ELSE gui
<1> DEFINE acquired == [idle EXCEPT !.noGameTicks = 0, !.auto = TRUE]
<1> DEFINE ticks == IF idle.auto THEN idle.noGameTicks + 1 ELSE idle.noGameTicks
<1> DEFINE away == [idle EXCEPT !.noGameTicks = ticks]
<1> DEFINE aimed == [acquired EXCEPT !.game = foreground]
<1> DEFINE left == [away EXCEPT !.auto = FALSE]
<1> DEFINE after == IF autoEnabled /\ foreground \in Games
                    THEN IF ~HasExplicitOwner(acquired)
                            /\ (~StartRequested(acquired.state) \/ acquired.hwnd # foreground)
                         THEN StartBuffer(aimed, TRUE, foreground)
                         ELSE acquired
                    ELSE IF idle.auto /\ ticks >= 2
                    THEN OwnersChanged(left)
                    ELSE away
<1>3. Outside /\ GuiStep(after) /\ UNCHANGED <<worker, toGui, saves, hdrs, app>>
  BY <1>2
<1>4. idle \in GuiType /\ S(idle) /\ Hdrs(idle)
  <2>1. CASE ~gui.savePending
    <3>1. /\ released \in GuiType /\ released.sent = gui.sent /\ released.generation = gui.generation
          /\ released.state = gui.state /\ released.preparing = gui.preparing
          /\ released.savePending = FALSE /\ gui.savePending = FALSE /\ Hdrs(released)
      BY <1>1, <2>1 DEF ReleaseColdManual, GuiType
    <3> HIDE DEF released
    <3>2. Semi(released, toWorker \o released.sent, worker, toGui, app, saves)
      BY <1>1, <3>1, SemiView DEF Good
    <3> DEFINE h == OwnersChanged(released)
    <3>3. S(h) /\ Follows(released, h)
      BY <1>1, <3>2, Settle
    <3> HIDE DEF h
    <3>4. h \in GuiType /\ Hdrs(h)
      BY <3>1, <3>3 DEF Follows, Owners
    <3>5. idle = h \/ idle = gui
      BY DEF h
    <3> QED BY <1>1, <3>3, <3>4, <3>5
  <2>2. CASE gui.savePending
    BY <1>1, <2>2
  <2> QED BY <2>1, <2>2
<1> HIDE DEF released, idle
<1>5. acquired \in GuiType /\ S(acquired) /\ Hdrs(acquired)
  <2>1. /\ acquired \in GuiType /\ acquired.sent = idle.sent /\ acquired.generation = idle.generation
        /\ acquired.state = idle.state /\ acquired.preparing = idle.preparing
        /\ acquired.manual = idle.manual /\ acquired.savePending = idle.savePending
        /\ acquired.activeReplay = idle.activeReplay /\ acquired.auto = TRUE /\ Hdrs(acquired)
    BY <1>4 DEF GuiType
  <2> HIDE DEF acquired
  <2>2. NeedsSession(acquired)
    BY <2>1 DEF NeedsSession
  <2> QED BY <1>4, <2>1, <2>2, GoodView
<1>6. ticks \in Nat
  BY <1>4 DEF GuiType
<1> HIDE DEF ticks
<1>7. /\ away \in GuiType /\ away.sent = idle.sent /\ away.generation = idle.generation
      /\ away.state = idle.state /\ away.preparing = idle.preparing
      /\ away.manual = idle.manual /\ away.savePending = idle.savePending
      /\ away.activeReplay = idle.activeReplay /\ away.auto = idle.auto /\ Hdrs(away)
  BY <1>4, <1>6 DEF GuiType
<1> HIDE DEF away
<1>8. S(away)
  <2>1. NeedsSession(idle) => NeedsSession(away)
    BY <1>4, <1>7 DEF NeedsSession
  <2> QED BY <1>4, <1>7, <2>1, GoodView
<1>9. S(StartBuffer(aimed, TRUE, foreground)) /\ Hdrs(StartBuffer(aimed, TRUE, foreground))
  <2>1. /\ aimed \in GuiType /\ aimed.sent = acquired.sent /\ aimed.generation = acquired.generation
        /\ aimed.state = acquired.state /\ aimed.preparing = acquired.preparing
        /\ aimed.manual = acquired.manual /\ aimed.savePending = acquired.savePending
        /\ aimed.activeReplay = acquired.activeReplay /\ aimed.auto = acquired.auto
        /\ aimed.hdr = acquired.hdr /\ aimed.activeHdr = acquired.activeHdr
    <3> HIDE DEF acquired
    <3> QED BY <1>5 DEF GuiType
  <2> HIDE DEF acquired, aimed
  <2>2. NeedsSession(acquired) => NeedsSession(aimed)
    BY <2>1 DEF NeedsSession
  <2>3. S(aimed)
    BY <1>5, <2>1, <2>2, GoodView
  <2> DEFINE h == StartBuffer(aimed, TRUE, foreground)
  <2>4. S(h) /\ Follows(aimed, h)
    BY <1>1, <2>3, Start
  <2> HIDE DEF h
  <2>5. Hdrs(h)
    BY <1>5, <2>1, <2>4 DEF Follows, Owners
  <2> QED BY <2>4, <2>5 DEF h
<1> HIDE DEF acquired, aimed
<1>10. S(OwnersChanged(left)) /\ Hdrs(OwnersChanged(left))
  <2>1. /\ left \in GuiType /\ left.sent = away.sent /\ left.generation = away.generation
        /\ left.state = away.state /\ left.preparing = away.preparing
        /\ left.manual = away.manual /\ left.savePending = away.savePending
        /\ left.activeReplay = away.activeReplay /\ Hdrs(left)
    BY <1>7 DEF GuiType
  <2> HIDE DEF left
  <2>2. Semi(left, toWorker \o left.sent, worker, toGui, app, saves)
    BY <1>8, <2>1, SemiView DEF Good
  <2> DEFINE h == OwnersChanged(left)
  <2>3. S(h) /\ Follows(left, h)
    BY <1>1, <2>2, Settle
  <2> HIDE DEF h
  <2>4. Hdrs(h)
    BY <2>1, <2>3 DEF Follows, Owners
  <2> QED BY <2>3, <2>4 DEF h
<1> HIDE DEF left
<1>11. S(after) /\ Hdrs(after)
  BY <1>5, <1>7, <1>8, <1>9, <1>10
<1> HIDE DEF after
<1>12. HdrFlow(after, hdrs)
  BY <1>11 DEF HdrFlow, IInv
<1>13. /\ saves \in SavesType /\ hdrs \in HdrsType /\ saves[0] = "idle" /\ hdrs[0] = "idle"
       /\ app \in {"idle", "preparing", "ready"} /\ events' \in 0..MaxEvents
  BY <1>3, Room DEF IInv
<1> QED BY <1>3, <1>11, <1>12, <1>13, FrontEnds

\* A change of the settings rebuilds the buffer under the same owners.
LEMMA KeepsSettingsRestart == ASSUME IInv, SettingsRestart PROVE IInv'
<1>1. /\ toWorker \in Seq(Command)
      /\ Good(gui, toWorker \o gui.sent, worker, toGui, app, saves)
  BY FrontStarts
<1>2. PICK foreground \in Window, autoEnabled \in BOOLEAN :
        /\ Outside /\ GuiStep(RestartBuffer(gui, autoEnabled, foreground))
        /\ UNCHANGED <<worker, toGui, saves, hdrs, app>>
  BY DEF SettingsRestart
<1> DEFINE h == RestartBuffer(gui, autoEnabled, foreground)
<1>3. Good(h, toWorker \o h.sent, worker, toGui, app, saves) /\ h.hdr = gui.hdr /\ h.activeHdr = gui.activeHdr
  <2>1. KeepsHdr(gui, h, toWorker, worker, toGui, app, saves)
    BY <1>1, Rebuild
  <2> QED BY <2>1 DEF KeepsHdr
<1>4. GuiStep(h)
  BY <1>2
<1> HIDE DEF h
<1>5. HdrFlow(h, hdrs)
  BY <1>3 DEF HdrFlow, IInv
<1>6. /\ saves \in SavesType /\ hdrs \in HdrsType /\ saves[0] = "idle" /\ hdrs[0] = "idle"
      /\ app \in {"idle", "preparing", "ready"} /\ events' \in 0..MaxEvents
  BY <1>2, Room DEF IInv
<1> QED BY <1>2, <1>3, <1>4, <1>5, <1>6, FrontEnds

\* The preparation stops the buffer if nothing owns it, and is posted last.
LEMMA KeepsPrepareForUpdate == ASSUME IInv, PrepareForUpdate PROVE IInv'
<1>1. /\ gui \in GuiType /\ toWorker \in Seq(Command) /\ worker \in WorkerType /\ toGui \in Seq(Report)
      /\ toWorker \o gui.sent = toWorker
      /\ Good(gui, toWorker \o gui.sent, worker, toGui, app, saves)
  BY FrontStarts
<1>2. /\ saves \in SavesType /\ hdrs \in HdrsType /\ saves[0] = "idle" /\ hdrs[0] = "idle"
      /\ HdrFlow(gui, hdrs) /\ gui.sent = <<>>
  BY DEF IInv
<1>3. /\ Outside /\ app' = "preparing" /\ app = "idle" /\ UNCHANGED <<worker, toGui, saves, hdrs>>
      /\ events' \in 0..MaxEvents
  BY Room DEF PrepareForUpdate
<1>4. CASE gui.preparing
  <2>1. GuiStep(gui)
    BY <1>4 DEF PrepareForUpdate
  <2>2. Good(gui, toWorker \o gui.sent, worker, toGui, "preparing", saves)
    BY <1>1, <1>3 DEF Good, Semi, Base, Quiescence
  <2> QED BY <1>2, <1>3, <2>1, <2>2, FrontEnds
<1>5. CASE ~gui.preparing
  <2> DEFINE g == [gui EXCEPT !.preparing = TRUE, !.auto = FALSE]
  <2> DEFINE released == ReleaseColdManual(g)
  <2> DEFINE m == [type |-> "prepare", generation |-> gui.generation]
  <2> DEFINE h == Post(released, m)
  <2> DEFINE q == Append(toWorker, m)
  <2>1. /\ released \in GuiType /\ released.sent = <<>> /\ released.generation = gui.generation
        /\ released.state = gui.state /\ released.preparing = TRUE
        /\ released.savePending = gui.savePending /\ released.activeReplay = gui.activeReplay
        /\ released.hdr = gui.hdr /\ released.activeHdr = gui.activeHdr
        /\ gui.savePending = TRUE => released.manual = gui.manual
    <3>1. /\ g \in GuiType /\ g.sent = <<>> /\ g.generation = gui.generation
          /\ g.state = gui.state /\ g.preparing = TRUE /\ g.manual = gui.manual
          /\ g.savePending = gui.savePending /\ g.activeReplay = gui.activeReplay
          /\ g.hdr = gui.hdr /\ g.activeHdr = gui.activeHdr
      BY <1>1, <1>2 DEF GuiType
    <3> HIDE DEF g
    <3>2. CASE g.savePending
      BY <3>1, <3>2 DEF ReleaseColdManual
    <3>3. CASE ~g.savePending
      BY <3>1, <3>3 DEF ReleaseColdManual, GuiType
    <3> QED BY <3>2, <3>3
  <2>2. OwnersChanged(released) = released
    BY <2>1 DEF OwnersChanged
  <2>3. GuiStep(h)
    BY <1>5, <2>2 DEF PrepareForUpdate
  <2> HIDE DEF released, g
  <2>4. m \in Command /\ m.type = "prepare" /\ m.generation = gui.generation
    BY <1>1 DEF Command, GuiType
  <2> HIDE DEF m
  <2>5. q \in Seq(Command) /\ Append(<<>>, m) \in Seq(Command) /\ toWorker \o Append(<<>>, m) = q
    <3>1. <<>> \in Seq(Command) /\ toWorker \o <<>> = toWorker
      BY <1>1, <1>2
    <3> QED BY <1>1, <2>4, <3>1, Appended, Posting
  <2>6. /\ h \in GuiType /\ h.sent = Append(<<>>, m) /\ h.generation = gui.generation
        /\ h.state = gui.state /\ h.preparing = TRUE
        /\ h.savePending = gui.savePending /\ h.activeReplay = gui.activeReplay
        /\ h.hdr = gui.hdr /\ h.activeHdr = gui.activeHdr
        /\ gui.savePending = TRUE => h.manual = gui.manual
    BY <2>1, <2>5 DEF Post, GuiType
  <2> HIDE DEF h, q
  <2>7. /\ Generations(gui, toWorker, worker, toGui) /\ Quiescence(gui, toWorker, worker, toGui, app)
        /\ Stopped(gui, toWorker, worker) /\ SaveFlow(gui, toWorker, worker, toGui, saves, FALSE)
    BY <1>1 DEF Good, Semi, Base
  <2>8. /\ Generations(gui, q, worker, toGui) /\ Quiescence(gui, q, worker, toGui, app)
        /\ Halted(toWorker, worker) => Halted(q, worker)
    <3>1. m.type \notin Switch
      BY <2>4 DEF Switch
    <3> QED BY <1>1, <2>4, <2>7, <3>1, CommandPosted DEF q
  <2>9. Prepared(h, q, worker)
    <3>1. m.type \notin Switch
      BY <2>4 DEF Switch
    <3> QED BY <1>1, <2>4, <2>6, <3>1, CommandPosted DEF q
  <2>10. Base(h, q, worker, toGui, app')
    <3>1. Generations(h, q, worker, toGui) /\ Quiescence(h, q, worker, toGui, app')
      BY <1>3, <2>6, <2>8 DEF Generations, Quiescence
    <3>2. Stopped(h, q, worker)
      BY <2>6, <2>7, <2>8 DEF Stopped
    <3> QED BY <1>1, <2>5, <2>6, <2>9, <3>1, <3>2 DEF Base
  <2>11. SaveFlow(h, q, worker, toGui, saves, FALSE)
    <3>1. SaveFlow(gui, q, worker, toGui, saves, FALSE)
      BY <1>1, <2>4, <2>7, SaveUntouched DEF q
    <3>2. CASE gui.savePending = TRUE
      BY <2>6, <3>1, <3>2, SaveView
    <3>3. CASE gui.savePending = FALSE
      BY <2>6, <3>1, <3>3, SaveIdle
    <3> QED BY <1>1, <3>2, <3>3 DEF GuiType
  <2>12. Good(h, toWorker \o h.sent, worker, toGui', app', saves')
    BY <1>3, <2>5, <2>6, <2>10, <2>11 DEF Good, Semi, Unowned
  <2>13. HdrFlow(h, hdrs)
    BY <1>2, <2>6 DEF HdrFlow
  <2> QED BY <1>2, <1>3, <2>3, <2>12, <2>13, FrontEnds
<1> QED BY <1>4, <1>5

\* App alone gives the preparation up.
LEMMA KeepsRevalidationFails == ASSUME IInv, RevalidationFails PROVE IInv'
<1>1. app' = "idle" /\ UNCHANGED <<gui, worker, toWorker, toGui, saves, hdrs, events>>
  BY DEF RevalidationFails
<1>2. Good(gui, toWorker, worker, toGui, "idle", saves)
  BY DEF IInv, Good, Semi, Base, Quiescence
<1> QED BY <1>1, <1>2 DEF IInv

\* The preparation ends with nothing halted only when an export still runs, and then the
\* save's owner needs the session.
LEMMA KeepsCancelUpdatePreparation == ASSUME IInv, CancelUpdatePreparation PROVE IInv'
<1> DEFINE g == [gui EXCEPT !.preparing = FALSE]
<1> DEFINE m == [type |-> "cancel"]
<1> DEFINE h == Post(g, m)
<1> DEFINE q == Append(toWorker, m)
<1>1. /\ gui \in GuiType /\ toWorker \in Seq(Command) /\ worker \in WorkerType /\ toGui \in Seq(Report)
      /\ Good(gui, toWorker, worker, toGui, app, saves)
  BY FrontStarts
<1>2. /\ saves \in SavesType /\ hdrs \in HdrsType /\ saves[0] = "idle" /\ hdrs[0] = "idle"
      /\ HdrFlow(gui, hdrs) /\ gui.sent = <<>> /\ events \in 0..MaxEvents
  BY DEF IInv
<1>3. /\ app' = "idle" /\ gui.preparing /\ GuiStep(h)
      /\ UNCHANGED <<worker, toGui, saves, hdrs, events>>
  BY DEF CancelUpdatePreparation
<1>4. m \in Command /\ m.type = "cancel"
  BY DEF Command
<1>5. /\ g \in GuiType /\ g.sent = <<>> /\ g.generation = gui.generation /\ g.state = gui.state
      /\ g.preparing = FALSE /\ g.manual = gui.manual /\ g.auto = gui.auto
      /\ g.savePending = gui.savePending /\ g.activeReplay = gui.activeReplay
      /\ g.hdr = gui.hdr /\ g.activeHdr = gui.activeHdr
  BY <1>1, <1>2 DEF GuiType
<1> HIDE DEF g, m
<1>6. q \in Seq(Command) /\ Append(<<>>, m) \in Seq(Command) /\ toWorker \o Append(<<>>, m) = q
  <2>1. <<>> \in Seq(Command) /\ toWorker \o <<>> = toWorker
    BY <1>1, <1>2
  <2> QED BY <1>1, <1>4, <2>1, Appended, Posting
<1>7. /\ h \in GuiType /\ h.sent = Append(<<>>, m) /\ h.generation = gui.generation
      /\ h.state = gui.state /\ h.preparing = FALSE /\ h.manual = gui.manual /\ h.auto = gui.auto
      /\ h.savePending = gui.savePending /\ h.activeReplay = gui.activeReplay
      /\ h.hdr = gui.hdr /\ h.activeHdr = gui.activeHdr
  BY <1>5, <1>6 DEF Post, GuiType
<1> HIDE DEF h
<1>8. /\ Generations(gui, toWorker, worker, toGui) /\ Quiescence(gui, toWorker, worker, toGui, app)
      /\ Prepared(gui, toWorker, worker)
      /\ Stopped(gui, toWorker, worker) /\ SaveFlow(gui, toWorker, worker, toGui, saves, FALSE)
  BY <1>1 DEF Good, Semi, Base
<1>9. /\ Generations(gui, q, worker, toGui) /\ Quiescence(gui, q, worker, toGui, app)
      /\ Halted(toWorker, worker) => Halted(q, worker)
      /\ LastOf(toWorker, "prepare", {"start"}) => LastOf(q, "prepare", {"start"})
  <2>1. m.type \notin Switch
    BY <1>4 DEF Switch
  <2> QED BY <1>1, <1>4, <1>8, <2>1, CommandPosted
<1>10. SaveFlow(gui, q, worker, toGui, saves, FALSE)
  BY <1>1, <1>4, <1>8, SaveUntouched
<1> HIDE DEF q
<1>11. SaveFlow(h, q, worker, toGui, saves, FALSE)
  BY <1>7, <1>10, SaveView
<1>12. Base(h, q, worker, toGui, app')
  <2>1. Generations(h, q, worker, toGui) /\ Quiescence(h, q, worker, toGui, app')
    BY <1>3, <1>7, <1>9 DEF Generations, Quiescence
  <2>2. Stopped(h, q, worker) /\ Prepared(h, q, worker)
    BY <1>7, <1>8, <1>9 DEF Stopped, Prepared
  <2> QED BY <1>1, <1>6, <1>7, <2>1, <2>2 DEF Base
<1>13. Unowned(h, q, worker)
  <2>1. CASE LastOf(toWorker, "prepare", {"start", "cancel"})
    <3>1. LastOf(toWorker, "prepare", {"start"})
      BY <2>1 DEF LastOf
    <3> QED BY <1>9, <3>1 DEF Unowned
  <2>2. CASE worker.pipe = NoPipe /\ ~Has(toWorker, "start")
    <3>1. Halted(toWorker, worker)
      BY <2>2 DEF Halted
    <3> QED BY <1>9, <3>1 DEF Unowned
  <2>3. CASE worker.exportToken # 0
    <3>1. gui.manual # 0
      BY <1>8, <2>3 DEF SaveFlow
    <3> QED BY <1>7, <3>1 DEF Unowned, NeedsSession
  <2> QED BY <1>3, <1>8, <2>1, <2>2, <2>3 DEF Prepared
<1>14. Good(h, toWorker \o h.sent, worker, toGui', app', saves')
  BY <1>3, <1>6, <1>7, <1>11, <1>12, <1>13 DEF Good, Semi
<1>15. HdrFlow(h, hdrs)
  BY <1>2, <1>7 DEF HdrFlow
<1> QED BY <1>2, <1>3, <1>14, <1>15, FrontEnds
-----------------------------------------------------------------------------
(* The worker's reports reach the service.                                            *)

\* The rest of the reports is in order without the first.
LEMMA Delivered ==
  ASSUME IInv, toGui # <<>>
  PROVE /\ Base(gui, toWorker \o gui.sent, worker, Tail(toGui), app)
        /\ Head(toGui) \in Report /\ Tail(toGui) \in Seq(Report)
        /\ Head(toGui).type \notin {"clip", "finished"} =>
             Good(gui, toWorker \o gui.sent, worker, Tail(toGui), app, saves)
<1>1. /\ gui \in GuiType /\ toWorker \in Seq(Command) /\ worker \in WorkerType /\ toGui \in Seq(Report)
      /\ toWorker \o gui.sent = toWorker
      /\ Good(gui, toWorker, worker, toGui, app, saves)
  BY FrontStarts
<1>2. Base(gui, toWorker, worker, toGui, app) /\ SaveFlow(gui, toWorker, worker, toGui, saves, FALSE)
      /\ Unowned(gui, toWorker, worker)
  BY <1>1 DEF Good, Semi
<1>3. Head(toGui) \in Report /\ Tail(toGui) \in Seq(Report)
  BY <1>1, Taken
<1>4. /\ Generations(gui, toWorker, worker, Tail(toGui))
      /\ Quiescence(gui, toWorker, worker, Tail(toGui), app)
  BY <1>1, <1>2, ReportTaken DEF Base
<1>5. Base(gui, toWorker, worker, Tail(toGui), app)
  BY <1>2, <1>3, <1>4 DEF Base
<1>6. Head(toGui).type \notin {"clip", "finished"} =>
        SaveFlow(gui, toWorker, worker, Tail(toGui), saves, FALSE)
  BY <1>1, <1>2, SaveUntouched
<1> QED BY <1>1, <1>2, <1>3, <1>5, <1>6 DEF Good, Semi

\* A state is believed of the live generation only, and that is the worker's.
LEMMA KeepsDeliverState == ASSUME IInv, DeliverState PROVE IInv'
<1> DEFINE m == Head(toGui)
<1> DEFINE h == Confirm(gui, m.generation, m.state)
<1>1. /\ gui \in GuiType /\ toWorker \in Seq(Command) /\ worker \in WorkerType /\ toGui \in Seq(Report)
      /\ toWorker \o gui.sent = toWorker
  BY FrontStarts
<1>2. /\ saves \in SavesType /\ hdrs \in HdrsType /\ saves[0] = "idle" /\ hdrs[0] = "idle"
      /\ app \in {"idle", "preparing", "ready"} /\ events \in 0..MaxEvents /\ HdrFlow(gui, hdrs)
  BY DEF IInv
<1>3. /\ toGui # <<>> /\ m.type = "state" /\ GuiStep(h) /\ toGui' = Tail(toGui)
      /\ UNCHANGED <<worker, events, saves, hdrs, app>>
  BY DEF DeliverState, Arrived, Deliver
<1>4. Good(gui, toWorker \o gui.sent, worker, Tail(toGui), app, saves) /\ m \in Report
  BY <1>3, Delivered
<1>5. CASE h = gui
  BY <1>2, <1>3, <1>4, <1>5, FrontEnds
<1>6. CASE h # gui
  <2>1. /\ m.generation = gui.generation /\ StartRequested(gui.state) /\ Allowed(gui.state, m.state)
        /\ h = SetState(gui, m.state)
    BY <1>6 DEF Confirm
  <2>2. m.state \in BufferState /\ m.state # "Stopped"
    <3>1. m.state \in BufferState
      BY <1>3, <1>4, Messages
    <3> QED BY <2>1, <3>1 DEF Allowed
  <2>3. /\ h \in GuiType /\ Owners(h) = Owners(gui) /\ h.state = m.state /\ h.sent = gui.sent
        /\ h.generation = gui.generation
    BY <1>1, <2>1, <2>2, StateSet
  <2> HIDE DEF h
  <2>4. worker.generation = gui.generation
    <3>1. Base(gui, toWorker, worker, toGui, app)
      BY DEF IInv, Good, Semi
    <3>2. m.generation <= worker.generation /\ worker.generation <= gui.generation
      BY <1>1, <1>3, <3>1, ReportTaken DEF Base, Generations
    <3>3. m.generation \in Nat /\ gui.generation \in Nat /\ worker.generation \in Nat
      BY <1>1, <2>1 DEF GuiType, WorkerType
    <3> QED BY <2>1, <3>2, <3>3
  <2>5. h.preparing = gui.preparing /\ h.manual = gui.manual /\ h.savePending = gui.savePending
        /\ h.activeReplay = gui.activeReplay /\ h.hdr = gui.hdr /\ h.activeHdr = gui.activeHdr
        /\ h.auto = gui.auto
    BY <2>3 DEF Owners
  <2>6. Base(gui, toWorker, worker, Tail(toGui), app)
    BY <1>1, <1>4 DEF Good, Semi
  <2>7. Generations(h, toWorker, worker, Tail(toGui))
    BY <2>3, <2>4, <2>6 DEF Base, Generations
  <2>8. /\ Quiescence(h, toWorker, worker, Tail(toGui), app) /\ Prepared(h, toWorker, worker)
        /\ Stopped(h, toWorker, worker)
    BY <2>2, <2>3, <2>5, <2>6 DEF Base, Quiescence, Prepared, Stopped
  <2>9. Base(h, toWorker, worker, Tail(toGui), app)
    BY <2>3, <2>6, <2>7, <2>8 DEF Base
  <2>10. SaveFlow(h, toWorker, worker, Tail(toGui), saves, FALSE)
    <3>1. SaveFlow(gui, toWorker, worker, Tail(toGui), saves, FALSE)
      BY <1>1, <1>4 DEF Good, Semi
    <3> QED BY <2>5, <3>1, SaveView
  <2>11. Unowned(h, toWorker, worker)
    BY <1>1, <1>4, <2>5 DEF Good, Unowned, NeedsSession
  <2>12. Good(h, toWorker \o h.sent, worker, toGui', app', saves')
    BY <1>1, <1>3, <2>3, <2>9, <2>10, <2>11 DEF Good, Semi
  <2>13. HdrFlow(h, hdrs)
    BY <1>2, <2>5 DEF HdrFlow
  <2>14. GuiStep(h)
    BY <1>3
  <2> QED BY <1>2, <1>3, <2>12, <2>13, <2>14, FrontEnds
<1> QED BY <1>5, <1>6

\* A rebuild asked for by the live session is a rebuild like any other.
LEMMA KeepsDeliverRestart == ASSUME IInv, DeliverRestart PROVE IInv'
<1>1. toWorker \in Seq(Command)
  BY FrontStarts
<1>2. /\ saves \in SavesType /\ hdrs \in HdrsType /\ saves[0] = "idle" /\ hdrs[0] = "idle"
      /\ app \in {"idle", "preparing", "ready"} /\ events \in 0..MaxEvents /\ HdrFlow(gui, hdrs)
  BY DEF IInv
<1>3. PICK foreground \in Window, autoEnabled \in BOOLEAN :
        /\ toGui # <<>> /\ Head(toGui).type = "restart" /\ toGui' = Tail(toGui)
        /\ GuiStep(gui) \/ GuiStep(RestartBuffer(gui, autoEnabled, foreground))
        /\ UNCHANGED <<worker, events, saves, hdrs, app>>
  BY DEF DeliverRestart, Arrived, Deliver
<1>4. Good(gui, toWorker \o gui.sent, worker, Tail(toGui), app, saves)
  BY <1>3, Delivered
<1>5. CASE GuiStep(gui)
  BY <1>2, <1>3, <1>4, <1>5, FrontEnds
<1>6. CASE GuiStep(RestartBuffer(gui, autoEnabled, foreground))
  <2> DEFINE h == RestartBuffer(gui, autoEnabled, foreground)
  <2>1. KeepsHdr(gui, h, toWorker, worker, Tail(toGui), app, saves)
    BY <1>1, <1>4, Rebuild
  <2>2. GuiStep(h)
    BY <1>6
  <2> HIDE DEF h
  <2>3. HdrFlow(h, hdrs) /\ Good(h, toWorker \o h.sent, worker, toGui', app', saves')
    BY <1>2, <1>3, <2>1 DEF HdrFlow, KeepsHdr
  <2> QED BY <1>2, <1>3, <2>2, <2>3, FrontEnds
<1> QED BY <1>3, <1>5, <1>6

\* The one verdict on its way belongs to the active replay.
LEMMA KeepsDeliverClip == ASSUME IInv, DeliverClip PROVE IInv'
<1>1. /\ gui \in GuiType /\ toWorker \in Seq(Command) /\ worker \in WorkerType /\ toGui \in Seq(Report)
      /\ toWorker \o gui.sent = toWorker
      /\ Good(gui, toWorker \o gui.sent, worker, toGui, app, saves)
  BY FrontStarts
<1>2. /\ saves \in SavesType /\ hdrs \in HdrsType /\ saves[0] = "idle" /\ hdrs[0] = "idle"
      /\ app \in {"idle", "preparing", "ready"} /\ events \in 0..MaxEvents /\ HdrFlow(gui, hdrs)
  BY DEF IInv
<1>3. /\ toGui # <<>> /\ Head(toGui).type = "clip" /\ GuiStep(gui) /\ toGui' = Tail(toGui)
      /\ saves' = [saves EXCEPT ![gui.activeReplay] = Head(toGui).verdict]
      /\ UNCHANGED <<worker, events, hdrs, app>>
  BY DEF DeliverClip, Arrived, Deliver
<1>4. /\ gui.activeReplay \in Save /\ Head(toGui).verdict \in Verdict
      /\ SaveFlow(gui, toWorker, worker, Tail(toGui), saves', FALSE)
  <2>1. SaveFlow(gui, toWorker, worker, toGui, saves, FALSE)
    BY <1>1 DEF Good, Semi
  <2> QED BY <1>1, <1>2, <1>3, <2>1, SaveAnswered
<1>5. saves' \in SavesType /\ saves'[0] = "idle"
  BY <1>2, <1>3, <1>4, Room DEF SavesType
<1>6. Good(gui, toWorker \o gui.sent, worker, toGui', app', saves')
  <2>1. Base(gui, toWorker, worker, Tail(toGui), app)
    BY <1>1, <1>3, Delivered
  <2> QED BY <1>1, <1>3, <1>4, <2>1 DEF Good, Semi
<1> QED BY <1>2, <1>3, <1>5, <1>6, FrontEnds

\* The release that follows it carries the token of the manual owner.
LEMMA KeepsDeliverSaveFinished == ASSUME IInv, DeliverSaveFinished PROVE IInv'
<1> DEFINE g == [gui EXCEPT !.savePending = FALSE, !.manual = 0, !.activeReplay = 0]
<1> DEFINE h == OwnersChanged(g)
<1>1. /\ gui \in GuiType /\ toWorker \in Seq(Command) /\ worker \in WorkerType /\ toGui \in Seq(Report)
      /\ toWorker \o gui.sent = toWorker
      /\ Good(gui, toWorker \o gui.sent, worker, toGui, app, saves)
  BY FrontStarts
<1>2. /\ saves \in SavesType /\ hdrs \in HdrsType /\ saves[0] = "idle" /\ hdrs[0] = "idle"
      /\ app \in {"idle", "preparing", "ready"} /\ events \in 0..MaxEvents /\ HdrFlow(gui, hdrs)
  BY DEF IInv
<1>3. /\ toGui # <<>> /\ Head(toGui).type = "finished" /\ GuiStep(FinishSave(gui, Head(toGui).token))
      /\ toGui' = Tail(toGui) /\ UNCHANGED <<worker, events, saves, hdrs, app>>
  BY DEF DeliverSaveFinished, Arrived, Deliver
<1>4. /\ g \in GuiType /\ g.sent = gui.sent /\ g.generation = gui.generation /\ g.state = gui.state
      /\ g.preparing = gui.preparing /\ g.savePending = FALSE
      /\ g.hdr = gui.hdr /\ g.activeHdr = gui.activeHdr
  BY <1>1 DEF GuiType
<1>5. SaveFlow(gui, toWorker, worker, toGui, saves, FALSE)
  BY <1>1 DEF Good, Semi
<1> HIDE DEF g
<1>6. /\ gui.savePending /\ gui.manual # 0 /\ Head(toGui).token = gui.manual
      /\ SaveFlow(g, toWorker, worker, Tail(toGui), saves, FALSE)
  <2>1. SaveFlow(g, toWorker, worker, Tail(toGui), saves, FALSE)
    BY <1>1, <1>3, <1>4, <1>5, SaveReleased
  <2> QED BY <1>1, <1>3, <1>4, <1>5, <2>1, SaveReleased
<1>7. GuiStep(h)
  BY <1>3, <1>6 DEF FinishSave, g
<1>8. Base(g, toWorker, worker, Tail(toGui), app)
  <2>1. Base(gui, toWorker, worker, Tail(toGui), app)
    BY <1>1, <1>3, Delivered
  <2> QED BY <1>4, <2>1, BaseView
<1>9. Semi(g, toWorker \o g.sent, worker, Tail(toGui), app, saves)
  BY <1>1, <1>4, <1>6, <1>8 DEF Semi
<1>10. Good(h, toWorker \o h.sent, worker, Tail(toGui), app, saves) /\ Follows(g, h)
  BY <1>1, <1>9, Settle
<1> HIDE DEF h
<1>11. HdrFlow(h, hdrs)
  BY <1>2, <1>4, <1>10 DEF HdrFlow, Follows, Owners
<1>12. Good(h, toWorker \o h.sent, worker, toGui', app', saves')
  BY <1>3, <1>10
<1> QED BY <1>2, <1>3, <1>7, <1>11, <1>12, FrontEnds

\* An HDR answer counts only while its token owns the buffer.
LEMMA KeepsDeliverHdr == ASSUME IInv, DeliverHdr PROVE IInv'
<1> DEFINE m == Head(toGui)
<1>1. gui \in GuiType
  BY FrontStarts
<1>2. /\ saves \in SavesType /\ hdrs \in HdrsType /\ saves[0] = "idle" /\ hdrs[0] = "idle"
      /\ app \in {"idle", "preparing", "ready"} /\ events \in 0..MaxEvents /\ HdrFlow(gui, hdrs)
  BY DEF IInv
<1>3. /\ toGui # <<>> /\ m.type = "hdrDone" /\ toGui' = Tail(toGui)
      /\ UNCHANGED <<worker, events, saves, app>>
  BY DEF DeliverHdr, Arrived, Deliver
<1>4. Good(gui, toWorker \o gui.sent, worker, Tail(toGui), app, saves) /\ m \in Report
  BY <1>3, Delivered
<1>5. CASE m.token # gui.hdr
  <2>1. hdrs' = hdrs /\ GuiStep(gui)
    BY <1>5 DEF DeliverHdr
  <2> QED BY <1>2, <1>3, <1>4, <2>1, FrontEnds
<1>6. CASE m.token = gui.hdr
  <2> DEFINE h == FinishHdr(gui)
  <2>1. hdrs' = [hdrs EXCEPT ![gui.activeHdr] = m.verdict] /\ GuiStep(h)
    BY <1>6 DEF DeliverHdr
  <2>2. m.token # 0 /\ m.verdict \in Verdict
    BY <1>3, <1>4, Messages DEF Token
  <2>3. gui.activeHdr \in Hdr
    BY <1>1, <1>2, <1>6, <2>2 DEF HdrFlow, GuiType
  <2>4. hdrs' \in HdrsType /\ hdrs'[0] = "idle"
    BY <1>2, <2>1, <2>2, <2>3, Room DEF HdrsType
  <2>5. Good(h, toWorker \o h.sent, worker, Tail(toGui), app, saves) /\ HdrFlow(h, hdrs')
    BY <1>4, HdrReleased
  <2> HIDE DEF h
  <2>6. Good(h, toWorker \o h.sent, worker, toGui', app', saves')
    BY <1>3, <2>5
  <2> QED BY <1>2, <1>3, <2>1, <2>4, <2>5, <2>6, FrontEnds
<1> QED BY <1>5, <1>6

\* The worker is quiescent when its answer for the live generation arrives, so the service
\* may call the buffer stopped.
LEMMA KeepsDeliverUpdateReady == ASSUME IInv, DeliverUpdateReady PROVE IInv'
<1> DEFINE m == Head(toGui)
<1> DEFINE h == RequestStop(gui)
<1>1. /\ gui \in GuiType /\ toWorker \in Seq(Command) /\ worker \in WorkerType /\ toGui \in Seq(Report)
      /\ toWorker \o gui.sent = toWorker
  BY FrontStarts
<1>2. /\ saves \in SavesType /\ hdrs \in HdrsType /\ saves[0] = "idle" /\ hdrs[0] = "idle"
      /\ app \in {"idle", "preparing", "ready"} /\ events \in 0..MaxEvents /\ HdrFlow(gui, hdrs)
  BY DEF IInv
<1>3. /\ toGui # <<>> /\ m.type = "updateReady" /\ toGui' = Tail(toGui)
      /\ UNCHANGED <<worker, events, saves, hdrs>>
  BY DEF DeliverUpdateReady, Arrived, Deliver
<1>4. Good(gui, toWorker \o gui.sent, worker, Tail(toGui), app, saves) /\ m \in Report
  BY <1>3, Delivered
<1>5. CASE ~(gui.preparing /\ m.generation = gui.generation)
  <2>1. app' = app /\ GuiStep(gui)
    BY <1>5 DEF DeliverUpdateReady
  <2> QED BY <1>2, <1>3, <1>4, <2>1, FrontEnds
<1>6. CASE gui.preparing /\ m.generation = gui.generation
  <2>1. app' = "ready" /\ GuiStep(h)
    BY <1>6 DEF DeliverUpdateReady
  <2>2. /\ h \in GuiType /\ Owners(h) = Owners(gui) /\ h.state = "Stopped" /\ h.sent = gui.sent
        /\ h.generation = gui.generation + 1
    BY <1>1, Requested DEF RequestStop, BufferState
  <2> HIDE DEF h
  <2>3. h.preparing = gui.preparing /\ h.manual = gui.manual /\ h.savePending = gui.savePending
        /\ h.activeReplay = gui.activeReplay /\ h.hdr = gui.hdr /\ h.activeHdr = gui.activeHdr
        /\ h.auto = gui.auto
    BY <2>2 DEF Owners
  <2>4. NoSession(worker) /\ ~Has(toWorker, "start")
    <3>1. Base(gui, toWorker, worker, toGui, app)
      BY DEF IInv, Good, Semi
    <3> QED BY <1>1, <1>3, <1>6, <3>1, ReportTaken DEF Base
  <2>5. Base(gui, toWorker, worker, Tail(toGui), app)
    BY <1>1, <1>4 DEF Good, Semi
  <2>6. gui.generation \in Nat /\ worker.generation \in Nat /\ worker.updateGeneration \in Nat
    BY <1>1 DEF GuiType, WorkerType
  <2>7. Generations(h, toWorker, worker, Tail(toGui))
    <3>1. \A k \in DOMAIN toWorker : toWorker[k].type \in Switch => toWorker[k].generation \in Nat
      BY <1>1, Positions, Messages DEF Switch
    <3>2. ~CanSave(h.state)
      BY <2>2 DEF CanSave
    <3> QED BY <2>2, <2>5, <2>6, <3>1, <3>2 DEF Base, Generations
  <2>8. Quiescence(h, toWorker, worker, Tail(toGui), app')
    <3>1. /\ \A k \in DOMAIN toWorker : toWorker[k].type = "prepare" => toWorker[k].generation \in Nat
          /\ \A k \in DOMAIN Tail(toGui) :
               Tail(toGui)[k].type = "updateReady" => Tail(toGui)[k].generation \in Nat
      <4>1. Tail(toGui) \in Seq(Report)
        BY <1>3, Delivered
      <4> QED BY <1>1, <4>1, Positions, Messages
    <3>2. Quiescence(gui, toWorker, worker, Tail(toGui), app)
      BY <2>5 DEF Base
    <3> QED BY <1>6, <2>1, <2>2, <2>3, <2>4, <2>6, <3>1, <3>2, SMTT(30) DEF Quiescence
  <2>9. Prepared(h, toWorker, worker) /\ Stopped(h, toWorker, worker)
    BY <2>3, <2>4, <2>5 DEF Base, Prepared, Stopped, Halted, NoSession
  <2>10. SaveFlow(h, toWorker, worker, Tail(toGui), saves, FALSE)
    <3>1. SaveFlow(gui, toWorker, worker, Tail(toGui), saves, FALSE)
      BY <1>1, <1>4 DEF Good, Semi
    <3> QED BY <2>3, <3>1, SaveView
  <2>11. Base(h, toWorker, worker, Tail(toGui), app') /\ Unowned(h, toWorker, worker)
    BY <1>6, <2>2, <2>3, <2>5, <2>7, <2>8, <2>9 DEF Base, Unowned
  <2>12. Good(h, toWorker \o h.sent, worker, toGui', app', saves')
    BY <1>1, <1>3, <2>2, <2>10, <2>11 DEF Good, Semi
  <2>13. HdrFlow(h, hdrs)
    BY <1>2, <2>3 DEF HdrFlow
  <2> QED BY <1>2, <1>3, <2>1, <2>12, <2>13, FrontEnds
<1> QED BY <1>5, <1>6
-----------------------------------------------------------------------------
(* The worker's operators.  `c` is the service's queue before the handler, and `q` the *)
(* worker's own without the command in hand.                                          *)

\* What a handler of the worker keeps; with `hole`, while a save is in its hands.
Kept(g, q, w, r, a, s, hole) ==
  Base(g, q, w, r, a) /\ Unowned(g, q, w) /\ SaveFlow(g, q, w, r, s, hole)

\* The fields that the other thread's view of the worker rests on.
Standing(w) == <<w.generation, w.updateGeneration, w.updatePreparing, w.exportToken>>

\* `v` is `w` after a step that opens no session and speaks of neither saves nor updates.
Turns(w, v) ==
  /\ v \in WorkerType /\ Standing(v) = Standing(w)
  /\ v.pipe # NoPipe => w.pipe # NoPipe
  /\ \/ v.emitted = w.emitted
     \/ \E m \in Report : /\ m.type \in {"state", "restart", "hdrDone"}
                          /\ m.type = "state" => m.generation = w.generation
                          /\ v.emitted = Append(w.emitted, m)

\* The same, field by field.
LEMMA StandingFields ==
  ASSUME NEW w, NEW v, Standing(v) = Standing(w)
  PROVE /\ v.generation = w.generation /\ v.updateGeneration = w.updateGeneration
        /\ v.updatePreparing = w.updatePreparing /\ v.exportToken = w.exportToken
BY DEF Standing

\* Less of a session is never a problem.
LEMMA KeptView ==
  ASSUME NEW g, NEW q, NEW w, NEW v \in WorkerType, NEW r, NEW a, NEW s, NEW hole,
         Kept(g, q, w, r, a, s, hole), Standing(v) = Standing(w), v.pipe # NoPipe => w.pipe # NoPipe
  PROVE Kept(g, q, v, r, a, s, hole)
<1>1. /\ v.generation = w.generation /\ v.updateGeneration = w.updateGeneration
      /\ v.updatePreparing = w.updatePreparing /\ v.exportToken = w.exportToken
  BY StandingFields
<1>2. Base(g, q, w, r, a) /\ Unowned(g, q, w) /\ SaveFlow(g, q, w, r, s, hole)
  BY DEF Kept
<1>3. Generations(g, q, v, r)
  BY <1>1, <1>2 DEF Base, Generations
<1>4. Quiescence(g, q, v, r, a)
  BY <1>1, <1>2 DEF Base, Quiescence, NoSession
<1>5. Prepared(g, q, v)
  BY <1>1, <1>2 DEF Base, Prepared
<1>6. Halted(q, w) => Halted(q, v)
  BY DEF Halted
<1>7. Stopped(g, q, v) /\ Unowned(g, q, v)
  BY <1>2, <1>6 DEF Base, Stopped, Unowned
<1>8. SaveFlow(g, q, v, r, s, hole)
  BY <1>1, <1>2, SaveView
<1> QED BY <1>2, <1>3, <1>4, <1>5, <1>7, <1>8 DEF Kept, Base

\* A report that is not about saves.
LEMMA KeptReport ==
  ASSUME NEW g, NEW q, NEW w, NEW r, NEW a, NEW s, NEW hole, Kept(g, q, w, r, a, s, hole),
         NEW m \in Report, m.type \notin {"clip", "finished"},
         m.type = "state" => m.generation = w.generation,
         m.type = "updateReady" => m.generation = w.updateGeneration /\ NoSession(w)
  PROVE Kept(g, q, w, Append(r, m), a, s, hole)
<1>1. Base(g, q, w, r, a) /\ Unowned(g, q, w) /\ SaveFlow(g, q, w, r, s, hole)
  BY DEF Kept
<1>2. /\ g \in GuiType /\ w \in WorkerType /\ q \in Seq(Command) /\ r \in Seq(Report)
      /\ Generations(g, q, w, r) /\ Quiescence(g, q, w, r, a)
      /\ Prepared(g, q, w) /\ Stopped(g, q, w)
  BY <1>1 DEF Base
<1>3. Generations(g, q, w, Append(r, m)) /\ Quiescence(g, q, w, Append(r, m), a)
  BY <1>2, Reported
<1>4. Append(r, m) \in Seq(Report)
  BY <1>2, Appended
<1>5. SaveFlow(g, q, w, Append(r, m), s, hole)
  BY <1>1, <1>2, SaveUntouched
<1> QED BY <1>1, <1>2, <1>3, <1>4, <1>5 DEF Kept, Base

\* A turn keeps every part, in the hands of a handler too.
LEMMA Turn ==
  ASSUME NEW g, NEW q, NEW w, NEW v, NEW c \in Seq(Report), NEW a, NEW s, NEW hole,
         w \in WorkerType, Kept(g, q, w, c \o w.emitted, a, s, hole), Turns(w, v)
  PROVE Kept(g, q, v, c \o v.emitted, a, s, hole)
<1>1. v \in WorkerType /\ Standing(v) = Standing(w) /\ (v.pipe # NoPipe => w.pipe # NoPipe)
  BY DEF Turns
<1>2. Kept(g, q, v, c \o w.emitted, a, s, hole)
  BY <1>1, KeptView
<1>3. w.emitted \in Seq(Report)
  BY DEF WorkerType
<1>4. CASE v.emitted = w.emitted
  BY <1>2, <1>4
<1>5. ASSUME NEW m \in Report, m.type \in {"state", "restart", "hdrDone"},
             m.type = "state" => m.generation = w.generation, v.emitted = Append(w.emitted, m)
      PROVE Kept(g, q, v, c \o v.emitted, a, s, hole)
  <2>1. c \o v.emitted = Append(c \o w.emitted, m)
    BY <1>3, <1>5, Posting
  <2>2. m.type \notin {"clip", "finished"} /\ m.type # "updateReady"
    BY <1>5
  <2>3. m.type = "state" => m.generation = v.generation
    BY <1>1, <1>5, StandingFields
  <2>4. Kept(g, q, v, Append(c \o w.emitted, m), a, s, hole)
    BY <1>2, <2>2, <2>3, KeptReport
  <2> QED BY <2>1, <2>4
<1> QED BY <1>4, <1>5 DEF Turns

\* Reports of the buffer's state are turns.
LEMMA StateReported ==
  ASSUME NEW w \in WorkerType, NEW x \in BufferState
  PROVE /\ Turns(w, ReportBufferState(w, x)) /\ ReportBufferState(w, x) \in WorkerType
        /\ ReportBufferState(w, x).pipe = w.pipe /\ ReportBufferState(w, x).hdr = w.hdr
<1> DEFINE m == [type |-> "state", generation |-> w.generation, state |-> x]
<1> DEFINE i == [w EXCEPT !.state = x]
<1> DEFINE v == [i EXCEPT !.emitted = Append(@, m)]
<1>1. m \in Report /\ m.type = "state" /\ m.generation = w.generation
  BY DEF Report, WorkerType
<1>2. CASE w.state = x
  BY <1>2 DEF ReportBufferState, Turns
<1>3. CASE w.state # x
  <2>1. ReportBufferState(w, x) = v
    BY <1>3 DEF ReportBufferState, Emit
  <2> HIDE DEF m
  <2>2. i \in WorkerType /\ Standing(i) = Standing(w) /\ i.pipe = w.pipe /\ i.hdr = w.hdr /\ i.emitted = w.emitted
    BY DEF WorkerType, Standing
  <2> HIDE DEF i
  <2>3. Append(i.emitted, m) \in Seq(Report)
    <3>1. i.emitted \in Seq(Report)
      BY <2>2 DEF WorkerType
    <3> QED BY <1>1, <3>1, Appended
  <2>4. /\ v \in WorkerType /\ Standing(v) = Standing(w) /\ v.pipe = w.pipe /\ v.hdr = w.hdr
        /\ v.emitted = Append(w.emitted, m)
    BY <2>2, <2>3 DEF WorkerType, Standing
  <2> HIDE DEF v
  <2>5. Turns(w, v)
    BY <1>1, <2>4 DEF Turns
  <2> QED BY <2>1, <2>4, <2>5
<1> QED BY <1>2, <1>3

\* The readiness check is one of them, or nothing.
LEMMA ReadinessChecked ==
  ASSUME NEW w \in WorkerType
  PROVE /\ Turns(w, CheckReplayReadiness(w)) /\ CheckReplayReadiness(w) \in WorkerType
        /\ CheckReplayReadiness(w).pipe = w.pipe
<1>1. \A x \in {"Failed", "Ready", "Recording"} :
        /\ Turns(w, ReportBufferState(w, x)) /\ ReportBufferState(w, x) \in WorkerType
        /\ ReportBufferState(w, x).pipe = w.pipe
  BY StateReported DEF BufferState
<1>2. Turns(w, w)
  BY DEF Turns
<1>3. CheckReplayReadiness(w) \in
        {w, ReportBufferState(w, "Failed"), ReportBufferState(w, "Ready"), ReportBufferState(w, "Recording")}
  BY DEF CheckReplayReadiness
<1> QED BY <1>1, <1>2, <1>3

\* So is the end of a session.
LEMMA PumpStopped ==
  ASSUME NEW w \in WorkerType
  PROVE /\ Turns(w, StopPump(w)) /\ StopPump(w) \in WorkerType /\ StopPump(w).pipe = NoPipe
<1> DEFINE m == HdrAnswer(w.hdr, "failed")
<1> DEFINE i == [w EXCEPT !.state = "Stopped"]
<1> DEFINE j == [i EXCEPT !.pipe = NoPipe]
<1> DEFINE k == [i EXCEPT !.pipe = NoPipe, !.hdr = 0]
<1> DEFINE v == [k EXCEPT !.emitted = Append(@, m)]
<1>1. i \in WorkerType /\ Standing(i) = Standing(w) /\ i.pipe = w.pipe /\ i.emitted = w.emitted
  BY DEF WorkerType, Standing, BufferState
<1>2. j \in WorkerType /\ Standing(j) = Standing(w) /\ j.pipe = NoPipe /\ j.emitted = w.emitted
  <2> HIDE DEF i
  <2> QED BY <1>1 DEF WorkerType, Standing
<1>3. k \in WorkerType /\ Standing(k) = Standing(w) /\ k.pipe = NoPipe /\ k.emitted = w.emitted
  <2> HIDE DEF i
  <2> QED BY <1>1 DEF WorkerType, Standing
<1>4. CASE w.pipe = NoPipe
  BY <1>1, <1>4 DEF StopPump, Turns
<1>5. CASE w.pipe # NoPipe /\ w.hdr = 0
  BY <1>2, <1>5 DEF StopPump, Turns
<1>6. CASE w.pipe # NoPipe /\ w.hdr # 0
  <2>1. StopPump(w) = v
    BY <1>6 DEF StopPump, Emit
  <2>2. m \in Report /\ m.type = "hdrDone"
    BY <1>6 DEF HdrAnswer, Report, WorkerType, Token, Verdict
  <2> HIDE DEF m, k
  <2>3. Append(k.emitted, m) \in Seq(Report)
    <3>1. k.emitted \in Seq(Report)
      BY <1>3 DEF WorkerType
    <3> QED BY <2>2, <3>1, Appended
  <2>4. /\ v \in WorkerType /\ Standing(v) = Standing(w) /\ v.pipe = NoPipe
        /\ v.emitted = Append(w.emitted, m)
    BY <1>3, <2>3 DEF WorkerType, Standing
  <2> HIDE DEF v
  <2>5. Turns(w, v)
    BY <2>2, <2>4 DEF Turns
  <2> QED BY <2>1, <2>4, <2>5
<1> QED BY <1>4, <1>5, <1>6

\* RefuseSave and the answer to a finished export: the verdict, then the release.
LEMMA Answered ==
  ASSUME NEW g, NEW q, NEW w \in WorkerType, NEW c \in Seq(Report), NEW a, NEW s,
         Kept(g, q, w, c \o w.emitted, a, s, TRUE), NEW verdict \in Verdict
  PROVE LET v == Emit(Emit(w, [type |-> "clip", verdict |-> verdict]), [type |-> "finished", token |-> g.manual])
        IN /\ v \in WorkerType /\ Standing(v) = Standing(w) /\ v.pipe = w.pipe
           /\ Kept(g, q, v, c \o v.emitted, a, s, FALSE)
<1> DEFINE m == [type |-> "clip", verdict |-> verdict]
<1> DEFINE n == [type |-> "finished", token |-> g.manual]
<1> DEFINE i == [w EXCEPT !.emitted = Append(@, m)]
<1> DEFINE v == [i EXCEPT !.emitted = Append(@, n)]
<1> DEFINE r == c \o w.emitted
<1>1. /\ Base(g, q, w, r, a) /\ Unowned(g, q, w) /\ SaveFlow(g, q, w, r, s, TRUE)
      /\ w.emitted \in Seq(Report)
  BY DEF Kept, WorkerType
<1>2. g.manual \in Token
  BY <1>1 DEF Base, SaveFlow, GuiType, Token
<1>3. m \in Report /\ m.type = "clip" /\ n \in Report /\ n.type = "finished" /\ n.token = g.manual
  BY <1>2 DEF Report
<1>4. Emit(Emit(w, m), n) = v
  BY DEF Emit
<1> HIDE DEF m, n
<1>5. Append(w.emitted, m) \in Seq(Report) /\ c \o Append(w.emitted, m) = Append(r, m) /\ r \in Seq(Report)
  BY <1>1, <1>3, Appended, Posting
<1>6. i \in WorkerType /\ Standing(i) = Standing(w) /\ i.pipe = w.pipe /\ i.emitted = Append(w.emitted, m)
  BY <1>5 DEF WorkerType, Standing
<1> HIDE DEF i
<1>7. Append(i.emitted, n) \in Seq(Report) /\ c \o Append(i.emitted, n) = Append(c \o i.emitted, n)
  <2>1. i.emitted \in Seq(Report)
    BY <1>5, <1>6
  <2> QED BY <1>3, <2>1, Appended, Posting
<1>8. v \in WorkerType /\ Standing(v) = Standing(w) /\ v.pipe = w.pipe /\ v.emitted = Append(i.emitted, n)
  BY <1>6, <1>7 DEF WorkerType, Standing
<1> HIDE DEF v
<1>9. c \o v.emitted = Append(Append(r, m), n)
  BY <1>5, <1>6, <1>7, <1>8
<1> HIDE DEF r
<1>10. SaveFlow(g, q, w, Append(Append(r, m), n), s, FALSE)
  BY <1>1, <1>3, <1>5, SaveRefused
<1>11. Base(g, q, w, Append(Append(r, m), n), a)
  <2>1. Append(r, m) \in Seq(Report)
    BY <1>3, <1>5, Appended
  <2>2. Append(Append(r, m), n) \in Seq(Report)
    BY <1>3, <2>1, Appended
  <2>3. /\ g \in GuiType /\ w \in WorkerType /\ q \in Seq(Command)
        /\ Generations(g, q, w, r) /\ Quiescence(g, q, w, r, a)
        /\ Prepared(g, q, w) /\ Stopped(g, q, w)
    BY <1>1 DEF Base
  <2>4. Generations(g, q, w, Append(r, m)) /\ Quiescence(g, q, w, Append(r, m), a)
    BY <1>3, <1>5, <2>3, Reported
  <2>5. Generations(g, q, w, Append(Append(r, m), n)) /\ Quiescence(g, q, w, Append(Append(r, m), n), a)
    BY <1>3, <2>1, <2>3, <2>4, Reported
  <2> QED BY <2>2, <2>3, <2>5 DEF Base
<1>12. Kept(g, q, w, c \o v.emitted, a, s, FALSE)
  BY <1>1, <1>9, <1>10, <1>11 DEF Kept
<1>13. Kept(g, q, v, c \o v.emitted, a, s, FALSE)
  BY <1>8, <1>12, KeptView
<1> QED BY <1>4, <1>8, <1>13 DEF m, n

\* What the handler of a command may rely on when it takes it.
LEMMA LastTaken ==
  ASSUME NEW q \in Seq(Command), q # <<>>
  PROVE /\ \A type, after : LastOf(q, type, after) /\ Head(q).type # type => LastOf(Tail(q), type, after)
        /\ Has(q, Head(q).type)
        /\ \A type : Has(Tail(q), type) => Has(q, type)
<1>1. /\ Head(q) = q[1] /\ 1 \in DOMAIN q
      /\ \A k \in DOMAIN Tail(q) : k \in Nat /\ k + 1 \in DOMAIN q /\ Tail(q)[k] = q[k + 1]
      /\ \A k \in DOMAIN q : k \in Nat /\ k >= 1 /\ (k > 1 => k - 1 \in DOMAIN Tail(q) /\ Tail(q)[k - 1] = q[k])
  BY Taken
<1>2. ASSUME NEW type, NEW after, LastOf(q, type, after), Head(q).type # type
      PROVE LastOf(Tail(q), type, after)
  <2>1. PICK k \in DOMAIN q : q[k].type = type /\ \A j \in DOMAIN q : j > k => q[j].type \notin after
    BY <1>2 DEF LastOf
  <2>2. k > 1
    BY <1>1, <1>2, <2>1
  <2>3. k - 1 \in DOMAIN Tail(q) /\ Tail(q)[k - 1].type = type
    BY <1>1, <2>1, <2>2
  <2>4. \A j \in DOMAIN Tail(q) : j > k - 1 => Tail(q)[j].type \notin after
    <3>1. \A j \in DOMAIN Tail(q) : j > k - 1 => j + 1 > k
      BY <1>1
    <3> QED BY <1>1, <2>1, <3>1
  <2> QED BY <2>3, <2>4 DEF LastOf
<1> QED BY <1>1, <1>2 DEF Has

\* A command that neither starts, stops, saves nor prepares changes nothing when it is taken.
LEMMA PlainTaken ==
  ASSUME NEW g, NEW q, NEW w, NEW r, NEW a, NEW s, Kept(g, q, w, r, a, s, FALSE), q # <<>>,
         Head(q).type \in {"hdr", "cancelHdr"}
  PROVE Kept(g, Tail(q), w, r, a, s, FALSE)
<1>1. Base(g, q, w, r, a) /\ Unowned(g, q, w) /\ SaveFlow(g, q, w, r, s, FALSE)
  BY DEF Kept
<1>2. /\ g \in GuiType /\ w \in WorkerType /\ q \in Seq(Command) /\ r \in Seq(Report)
      /\ Generations(g, q, w, r) /\ Quiescence(g, q, w, r, a)
      /\ Prepared(g, q, w) /\ Stopped(g, q, w)
  BY <1>1 DEF Base
<1>3. /\ Generations(g, Tail(q), w, r) /\ Quiescence(g, Tail(q), w, r, a)
      /\ Prepared(g, Tail(q), w)
      /\ Halted(q, w) => Halted(Tail(q), w)
      /\ LastOf(q, "prepare", {"start"}) => LastOf(Tail(q), "prepare", {"start"})
  BY <1>2, CommandTaken
<1>4. Tail(q) \in Seq(Command)
  BY <1>2, Taken
<1>5. SaveFlow(g, Tail(q), w, r, s, FALSE)
  BY <1>1, <1>2, SaveUntouched
<1>6. Stopped(g, Tail(q), w) /\ Unowned(g, Tail(q), w)
  BY <1>1, <1>2, <1>3 DEF Stopped, Unowned
<1> QED BY <1>2, <1>3, <1>4, <1>5, <1>6 DEF Kept, Base

\* A new generation begins with a session or without one; it has none while an update is
\* prepared.
LEMMA SwitchTaken ==
  ASSUME NEW g, NEW q, NEW w, NEW v \in WorkerType, NEW r, NEW a, NEW s, q # <<>>,
         Kept(g, q, w, r, a, s, FALSE), Head(q).type \in Switch,
         v.generation = Head(q).generation, v.updateGeneration = w.updateGeneration,
         v.updatePreparing = w.updatePreparing, v.exportToken = w.exportToken,
         Head(q).type = "stop" \/ v.updatePreparing => v.pipe = NoPipe
  PROVE Kept(g, Tail(q), v, r, a, s, FALSE)
<1> DEFINE m == Head(q)
<1> DEFINE t == Tail(q)
<1>1. Base(g, q, w, r, a) /\ Unowned(g, q, w) /\ SaveFlow(g, q, w, r, s, FALSE)
  BY DEF Kept
<1>2. /\ g \in GuiType /\ w \in WorkerType /\ q \in Seq(Command) /\ r \in Seq(Report)
      /\ Generations(g, q, w, r) /\ Quiescence(g, q, w, r, a)
      /\ Prepared(g, q, w) /\ Stopped(g, q, w)
  BY <1>1 DEF Base
<1>3. /\ t \in Seq(Command) /\ m \in Command
      /\ \A type, after : LastOf(q, type, after) /\ m.type # type => LastOf(t, type, after)
      /\ Has(q, m.type)
      /\ \A type : Has(t, type) => Has(q, type)
  BY <1>2, Taken, LastTaken
<1>4. /\ Generations(g, t, w, r) /\ Quiescence(g, t, w, r, a) /\ Prepared(g, t, w)
      /\ w.generation < m.generation /\ m.generation <= g.generation
      /\ \A k \in DOMAIN t : t[k].type \in Switch => m.generation < t[k].generation
  BY <1>2, CommandTaken DEF Switch
<1>5. w.generation \in Nat /\ g.generation \in Nat /\ m.generation \in Nat
  BY <1>2, <1>3, Messages DEF WorkerType, GuiType, Switch
<1>6. m.type = "start" => /\ a # "ready"
                          /\ \A k \in DOMAIN r : r[k].type = "updateReady" => r[k].generation < m.generation
  BY <1>2, CommandTaken
<1> HIDE DEF m, t
<1>7. Generations(g, t, v, r)
  <2>1. \A k \in DOMAIN r : r[k].type = "state" => r[k].generation <= m.generation
    <3>1. \A k \in DOMAIN r : r[k].type = "state" => r[k].generation \in Nat
      BY <1>2, Positions, Messages
    <3> QED BY <1>2, <1>4, <1>5, <3>1 DEF Generations
  <2>2. ~CanSave(g.state)
    BY <1>2, <1>4, <1>5 DEF Generations
  <2> QED BY <1>2, <1>4, <2>1, <2>2 DEF Generations, m
<1>8. Quiescence(g, t, v, r, a)
  <2>1. CASE m.type = "stop"
    <3>1. NoSession(w) => NoSession(v)
      BY <2>1 DEF NoSession, m
    <3> QED BY <1>4, <3>1 DEF Quiescence
  <2>2. CASE m.type = "start"
    <3>1. \A k \in DOMAIN r : r[k].type = "updateReady" => r[k].generation # g.generation
      <4>1. \A k \in DOMAIN r : r[k].type = "updateReady" => r[k].generation \in Nat
        BY <1>2, Positions, Messages
      <4> QED BY <1>4, <1>5, <1>6, <2>2, <4>1
    <3> QED BY <1>4, <1>6, <2>2, <3>1 DEF Quiescence
  <2> QED BY <2>1, <2>2 DEF Switch, m
<1>9. Prepared(g, t, v)
  BY <1>4 DEF Prepared
<1>10. Halted(q, w) => Halted(t, v)
  <2>1. CASE m.type = "stop"
    <3>1. Halted(q, w) => Halted(t, w) \/ ~Has(t, "start")
      BY <1>2, CommandTaken DEF t
    <3> QED BY <2>1, <3>1 DEF Halted, m
  <2>2. CASE m.type = "start"
    BY <1>3, <2>2 DEF Halted
  <2> QED BY <2>1, <2>2 DEF Switch, m
<1>11. Stopped(g, t, v)
  BY <1>2, <1>10 DEF Stopped
<1>12. Unowned(g, t, v)
  <2>1. LastOf(q, "prepare", {"start"}) => LastOf(t, "prepare", {"start"})
    BY <1>3 DEF Switch, m
  <2> QED BY <1>1, <1>10, <2>1 DEF Unowned
<1>13. SaveFlow(g, t, v, r, s, FALSE)
  <2>1. SaveFlow(g, t, w, r, s, FALSE)
    BY <1>1, <1>2, SaveUntouched DEF Switch, t
  <2> QED BY <2>1, SaveView
<1> QED BY <1>2, <1>3, <1>7, <1>8, <1>9, <1>11, <1>12, <1>13 DEF Kept, Base, t

\* The preparation waits for a running export and otherwise has ended the session.
LEMMA PrepareTaken ==
  ASSUME NEW g, NEW q, NEW w, NEW v \in WorkerType, NEW r, NEW a, NEW s, q # <<>>,
         Kept(g, q, w, r, a, s, FALSE), Head(q).type = "prepare",
         v.generation = w.generation, v.updateGeneration = Head(q).generation,
         v.updatePreparing = TRUE, v.exportToken = w.exportToken,
         v.pipe = NoPipe \/ (v.pipe = w.pipe /\ w.exportToken # 0)
  PROVE Kept(g, Tail(q), v, r, a, s, FALSE)
<1> DEFINE m == Head(q)
<1> DEFINE t == Tail(q)
<1>1. Base(g, q, w, r, a) /\ Unowned(g, q, w) /\ SaveFlow(g, q, w, r, s, FALSE)
  BY DEF Kept
<1>2. /\ g \in GuiType /\ w \in WorkerType /\ q \in Seq(Command) /\ r \in Seq(Report)
      /\ Generations(g, q, w, r) /\ Quiescence(g, q, w, r, a)
      /\ Prepared(g, q, w) /\ Stopped(g, q, w)
  BY <1>1 DEF Base
<1>3. /\ Generations(g, t, w, r) /\ Quiescence(g, t, w, r, a)
      /\ Prepared(g, t, w) \/ (~Has(t, "start") /\ ~Has(t, "cancel"))
      /\ Halted(q, w) => Halted(t, w)
      /\ LastOf(q, "prepare", {"start"}) => LastOf(t, "prepare", {"start"}) \/ ~Has(t, "start")
      /\ m.generation <= g.generation
      /\ \A k \in DOMAIN t : t[k].type = "start" => m.generation < t[k].generation
  BY <1>2, CommandTaken
<1>4. t \in Seq(Command)
  BY <1>2, Taken
<1> HIDE DEF m, t
<1>5. NoSession(w) => NoSession(v)
  BY DEF NoSession
<1>6. Generations(g, t, v, r)
  BY <1>3 DEF Generations
<1>7. Quiescence(g, t, v, r, a)
  BY <1>3, <1>5 DEF Quiescence, m
<1>8. Prepared(g, t, v)
  BY <1>3 DEF Prepared
<1>9. Halted(q, w) => Halted(t, v)
  BY <1>3 DEF Halted
<1>10. Stopped(g, t, v)
  BY <1>2, <1>9 DEF Stopped
<1>11. Unowned(g, t, v)
  <2>1. w.exportToken # 0 => g.manual # 0
    BY <1>1 DEF SaveFlow
  <2>2. ~Has(t, "start") => NeedsSession(g) \/ Halted(t, v)
    BY <2>1 DEF NeedsSession, Halted
  <2> QED BY <1>1, <1>3, <1>9, <2>2 DEF Unowned
<1>12. SaveFlow(g, t, v, r, s, FALSE)
  <2>1. SaveFlow(g, t, w, r, s, FALSE)
    BY <1>1, <1>2, SaveUntouched DEF t
  <2> QED BY <2>1, SaveView
<1> QED BY <1>2, <1>4, <1>6, <1>7, <1>8, <1>10, <1>11, <1>12 DEF Kept, Base, t

\* The preparation is over for the worker only when it is over for the service, or another
\* one is on its way.
LEMMA CancelTaken ==
  ASSUME NEW g, NEW q, NEW w, NEW v \in WorkerType, NEW r, NEW a, NEW s, q # <<>>,
         Kept(g, q, w, r, a, s, FALSE), Head(q).type = "cancel",
         v.generation = w.generation, v.updateGeneration = w.updateGeneration,
         v.exportToken = w.exportToken, v.pipe = w.pipe
  PROVE Kept(g, Tail(q), v, r, a, s, FALSE)
<1> DEFINE t == Tail(q)
<1>1. Base(g, q, w, r, a) /\ Unowned(g, q, w) /\ SaveFlow(g, q, w, r, s, FALSE)
  BY DEF Kept
<1>2. /\ g \in GuiType /\ w \in WorkerType /\ q \in Seq(Command) /\ r \in Seq(Report)
      /\ Generations(g, q, w, r) /\ Quiescence(g, q, w, r, a)
      /\ Prepared(g, q, w) /\ Stopped(g, q, w)
  BY <1>1 DEF Base
<1>3. /\ Generations(g, t, w, r) /\ Quiescence(g, t, w, r, a)
      /\ Halted(q, w) => Halted(t, w)
      /\ LastOf(q, "prepare", {"start"}) => LastOf(t, "prepare", {"start"})
  BY <1>2, CommandTaken
<1>4. /\ t \in Seq(Command) /\ Has(q, "cancel")
      /\ LastOf(q, "prepare", {"start", "cancel"}) => LastOf(t, "prepare", {"start", "cancel"})
  BY <1>2, Taken, LastTaken
<1> HIDE DEF t
<1>5. Generations(g, t, v, r)
  BY <1>3 DEF Generations
<1>6. Quiescence(g, t, v, r, a)
  BY <1>3 DEF Quiescence, NoSession
<1>7. Prepared(g, t, v)
  BY <1>2, <1>4 DEF Prepared
<1>8. Halted(q, w) => Halted(t, v)
  BY <1>3 DEF Halted
<1>9. Stopped(g, t, v) /\ Unowned(g, t, v)
  BY <1>1, <1>2, <1>3, <1>8 DEF Stopped, Unowned
<1>10. SaveFlow(g, t, v, r, s, FALSE)
  <2>1. SaveFlow(g, t, w, r, s, FALSE)
    BY <1>1, <1>2, SaveUntouched DEF t
  <2> QED BY <2>1, SaveView
<1> QED BY <1>2, <1>4, <1>5, <1>6, <1>7, <1>9, <1>10 DEF Kept, Base, t

\* The worker takes a save, or the end of its export, in hand.
LEMMA SaveInHand ==
  ASSUME NEW g, NEW q, NEW w, NEW v \in WorkerType, NEW r, NEW a, NEW s, q # <<>>,
         Kept(g, q, w, r, a, s, FALSE), v.generation = w.generation,
         v.updateGeneration = w.updateGeneration, v.updatePreparing = w.updatePreparing,
         v.exportToken = 0, v.pipe # NoPipe => w.pipe # NoPipe,
         \/ Head(q).type = "save"
         \/ Head(q).type = "exported" /\ (w.updatePreparing => v.pipe = NoPipe)
  PROVE Kept(g, Tail(q), v, r, a, s, TRUE) /\ Head(q).token = g.manual
<1> DEFINE t == Tail(q)
<1>1. Base(g, q, w, r, a) /\ Unowned(g, q, w) /\ SaveFlow(g, q, w, r, s, FALSE)
  BY DEF Kept
<1>2. /\ g \in GuiType /\ w \in WorkerType /\ q \in Seq(Command) /\ r \in Seq(Report)
      /\ Generations(g, q, w, r) /\ Quiescence(g, q, w, r, a)
      /\ Prepared(g, q, w) /\ Stopped(g, q, w)
  BY <1>1 DEF Base
<1>3. /\ Generations(g, t, w, r) /\ Quiescence(g, t, w, r, a)
      /\ Prepared(g, t, w)
      /\ Halted(q, w) => Halted(t, w)
      /\ LastOf(q, "prepare", {"start"}) => LastOf(t, "prepare", {"start"})
  BY <1>2, CommandTaken
<1>4. t \in Seq(Command)
  BY <1>2, Taken
<1>5. SaveFlow(g, t, v, r, s, TRUE) /\ Head(q).token = g.manual
  <2>1. CASE Head(q).type = "save"
    <3>1. SaveFlow(g, t, w, r, s, TRUE) /\ Head(q).token = g.manual
      BY <1>1, <1>2, <2>1, SaveTaken
    <3>2. w.exportToken = 0
      BY <3>1 DEF SaveFlow
    <3> QED BY <3>1, <3>2, SaveView
  <2>2. CASE Head(q).type = "exported"
    BY <1>1, <1>2, <2>2, SaveExported
  <2> QED BY <2>1, <2>2
<1> HIDE DEF t
<1>6. Generations(g, t, v, r)
  BY <1>3 DEF Generations
<1>7. Quiescence(g, t, v, r, a)
  <2>1. NoSession(w) => NoSession(v)
    BY DEF NoSession
  <2> QED BY <1>3, <2>1 DEF Quiescence
<1>8. Prepared(g, t, v)
  <2>1. CASE Head(q).type = "save"
    <3>1. w.exportToken = 0
      <4>1. Has(q, "save")
        BY <1>2, <2>1, LastTaken
      <4> QED BY <1>1, <4>1 DEF SaveFlow
    <3> QED BY <1>3, <3>1 DEF Prepared
  <2>2. CASE w.updatePreparing => v.pipe = NoPipe
    BY <1>3, <2>2 DEF Prepared
  <2> QED BY <2>1, <2>2
<1>9. Halted(q, w) => Halted(t, v)
  BY <1>3 DEF Halted
<1>10. Stopped(g, t, v) /\ Unowned(g, t, v)
  BY <1>1, <1>2, <1>3, <1>9 DEF Stopped, Unowned
<1> QED BY <1>2, <1>4, <1>5, <1>6, <1>7, <1>8, <1>10 DEF Kept, Base, t

\* An export begins inside a session.
LEMMA ExportBegins ==
  ASSUME NEW g, NEW q, NEW w, NEW v \in WorkerType, NEW r, NEW a, NEW s,
         Kept(g, q, w, r, a, s, TRUE), w.pipe # NoPipe, v.generation = w.generation,
         v.updateGeneration = w.updateGeneration, v.updatePreparing = w.updatePreparing,
         v.exportToken = g.manual, v.pipe = w.pipe
  PROVE Kept(g, q, v, r, a, s, FALSE)
<1>1. Base(g, q, w, r, a) /\ Unowned(g, q, w) /\ SaveFlow(g, q, w, r, s, TRUE)
  BY DEF Kept
<1>2. g.manual # 0
  BY <1>1 DEF SaveFlow
<1>3. Generations(g, q, v, r)
  BY <1>1 DEF Base, Generations
<1>4. Quiescence(g, q, v, r, a)
  BY <1>1 DEF Base, Quiescence, NoSession
<1>5. Prepared(g, q, v) /\ Stopped(g, q, v)
  BY <1>1, <1>2 DEF Base, Prepared, Stopped, Halted
<1>6. Unowned(g, q, v)
  BY <1>1 DEF Unowned, Halted
<1>7. SaveFlow(g, q, v, r, s, FALSE)
  BY <1>1, SaveExports
<1> QED BY <1>1, <1>3, <1>4, <1>5, <1>6, <1>7 DEF Kept, Base

\* "updateReady" leaves a worker without a session.
LEMMA ReadyReported ==
  ASSUME NEW g, NEW q, NEW w \in WorkerType, NEW c \in Seq(Report), NEW a, NEW s,
         Kept(g, q, w, c \o w.emitted, a, s, FALSE), NoSession(w)
  PROVE LET v == Emit(w, [type |-> "updateReady", generation |-> w.updateGeneration])
        IN Kept(g, q, v, c \o v.emitted, a, s, FALSE)
<1> DEFINE m == [type |-> "updateReady", generation |-> w.updateGeneration]
<1> DEFINE v == [w EXCEPT !.emitted = Append(@, m)]
<1>1. m \in Report /\ m.type = "updateReady" /\ m.generation = w.updateGeneration
  BY DEF Report, WorkerType
<1>2. Emit(w, m) = v
  BY DEF Emit
<1> HIDE DEF m
<1>3. w.emitted \in Seq(Report)
  BY DEF WorkerType
<1>4. Append(w.emitted, m) \in Seq(Report) /\ c \o Append(w.emitted, m) = Append(c \o w.emitted, m)
  BY <1>1, <1>3, Appended, Posting
<1>5. v \in WorkerType /\ Standing(v) = Standing(w) /\ v.pipe = w.pipe /\ v.emitted = Append(w.emitted, m)
  BY <1>4 DEF WorkerType, Standing
<1> HIDE DEF v
<1>6. Kept(g, q, w, Append(c \o w.emitted, m), a, s, FALSE)
  BY <1>1, KeptReport
<1>7. Kept(g, q, v, Append(c \o w.emitted, m), a, s, FALSE)
  BY <1>5, <1>6, KeptView
<1> QED BY <1>2, <1>4, <1>5, <1>7 DEF m
-----------------------------------------------------------------------------
(* The worker's handlers and timers.                                                  *)

\* What a handler of the worker starts from.
LEMMA WorkerStarts ==
  ASSUME IInv
  PROVE /\ worker \in WorkerType /\ toWorker \in Seq(Command) /\ toGui \in Seq(Report)
        /\ worker.emitted = <<>> /\ toGui \o worker.emitted = toGui
        /\ Kept(gui, toWorker, worker, toGui \o worker.emitted, app, saves, FALSE)
<1>1. /\ worker \in WorkerType /\ toWorker \in Seq(Command) /\ toGui \in Seq(Report)
      /\ worker.emitted = <<>>
      /\ Kept(gui, toWorker, worker, toGui, app, saves, FALSE)
  BY DEF IInv, Good, Semi, Base, Kept
<1>2. toGui \o <<>> = toGui
  BY <1>1, ConcatEmptySeq
<1> QED BY <1>1, <1>2

\* What it must leave.
LEMMA WorkerEnds ==
  ASSUME IInv, NEW v, WorkerStep(v), Kept(gui, toWorker', v, toGui \o v.emitted, app, saves, FALSE),
         events' \in 0..MaxEvents
  PROVE IInv'
<1> DEFINE i == [v EXCEPT !.emitted = <<>>]
<1>1. worker' = i /\ toGui' = toGui \o v.emitted /\ UNCHANGED <<gui, saves, hdrs, app>>
  BY DEF WorkerStep
<1>2. v \in WorkerType
  BY DEF Kept, Base
<1>3. i \in WorkerType /\ Standing(i) = Standing(v) /\ i.pipe = v.pipe /\ i.emitted = <<>>
  <2>1. <<>> \in Seq(Report)
    OBVIOUS
  <2> QED BY <1>2, <2>1 DEF WorkerType, Standing
<1> HIDE DEF i
<1>4. Kept(gui, toWorker', i, toGui \o v.emitted, app, saves, FALSE)
  BY <1>3, KeptView
<1>5. Good(gui, toWorker', i, toGui \o v.emitted, app, saves)
  BY <1>4 DEF Good, Semi, Kept
<1> QED BY <1>1, <1>3, <1>5 DEF IInv

\* A handler without a command behind it is a turn.
LEMMA TimerTurns ==
  ASSUME IInv, NEW v, WorkerStep(v), toWorker' = toWorker, Turns(worker, v), events' \in 0..MaxEvents
  PROVE IInv'
<1>1. Kept(gui, toWorker, v, toGui \o v.emitted, app, saves, FALSE)
  BY WorkerStarts, Turn
<1> QED BY <1>1, WorkerEnds

\* A start ends the session before it and reaches a newer generation.
LEMMA KeepsHandleStart == ASSUME IInv, HandleStart PROVE IInv'
<1> DEFINE m == Head(toWorker)
<1>1. PICK pipe \in StartResult :
        /\ toWorker # <<>> /\ m.type = "start" /\ toWorker' = Tail(toWorker) /\ events' = events
        /\ WorkerStep(StartPump(worker, m.generation, pipe))
  BY DEF HandleStart, Called, Handled
<1>2. /\ worker \in WorkerType /\ toWorker \in Seq(Command) /\ toGui \in Seq(Report)
      /\ toGui \o worker.emitted = toGui
      /\ Kept(gui, toWorker, worker, toGui \o worker.emitted, app, saves, FALSE)
  BY WorkerStarts
<1>3. /\ m \in Command /\ m.generation \in Nat /\ m.type \in Switch
      /\ worker.generation < m.generation /\ worker.generation \in Nat
  <2>1. m \in Command /\ m.type \in Switch
    BY <1>1, <1>2, Taken DEF Switch
  <2>2. Generations(gui, toWorker, worker, toGui) /\ gui \in GuiType
    BY <1>2 DEF Kept, Base
  <2>3. worker.generation < m.generation
    BY <1>1, <1>2, <2>1, <2>2, CommandTaken
  <2> QED BY <1>1, <1>2, <2>1, <2>3, Messages DEF WorkerType
<1>4. pipe \in {NoPipe} \cup PipeType
  BY FramePumpAssumption DEF StartResult, PipeType
<1> DEFINE p == StopPump(worker)
<1>5. /\ p \in WorkerType /\ Standing(p) = Standing(worker) /\ p.pipe = NoPipe
      /\ Kept(gui, toWorker, p, toGui \o p.emitted, app, saves, FALSE)
  <2>1. Turns(worker, p) /\ p \in WorkerType /\ p.pipe = NoPipe
    BY <1>2, PumpStopped
  <2> HIDE DEF p
  <2>2. Kept(gui, toWorker, p, toGui \o p.emitted, app, saves, FALSE)
    BY <1>2, <2>1, Turn
  <2> QED BY <2>1, <2>2 DEF Turns
<1> DEFINE fresh == [p EXCEPT !.generation = m.generation, !.state = "Starting"]
<1> DEFINE failed == ReportBufferState(fresh, "Failed")
<1> DEFINE x == [fresh EXCEPT !.pipe = pipe]
<1> DEFINE y == [failed EXCEPT !.pipe = pipe]
<1> DEFINE up == IF pipe # NoPipe /\ pipe.recorder THEN ReportBufferState(x, "Recording") ELSE y
<1>6. StartPump(worker, m.generation, pipe) =
        IF worker.updatePreparing THEN failed ELSE CheckReplayReadiness(up)
  <2>1. ~(m.generation <= worker.generation)
    BY <1>3
  <2> QED BY <2>1 DEF StartPump
<1> HIDE DEF p, m
<1>7. /\ p.updateGeneration = worker.updateGeneration /\ p.updatePreparing = worker.updatePreparing
      /\ p.exportToken = worker.exportToken
  BY <1>5, StandingFields
<1>8. /\ fresh \in WorkerType /\ fresh.generation = m.generation /\ fresh.pipe = NoPipe
      /\ fresh.updateGeneration = p.updateGeneration /\ fresh.updatePreparing = p.updatePreparing
      /\ fresh.exportToken = p.exportToken /\ fresh.emitted = p.emitted
  BY <1>3, <1>5 DEF WorkerType, BufferState
<1> HIDE DEF fresh
<1>9. /\ x \in WorkerType /\ x.generation = m.generation /\ x.pipe = pipe
      /\ x.updateGeneration = p.updateGeneration /\ x.updatePreparing = p.updatePreparing
      /\ x.exportToken = p.exportToken /\ x.emitted = p.emitted
  BY <1>4, <1>8 DEF WorkerType
<1> HIDE DEF x
<1>10. /\ Turns(fresh, failed) /\ failed \in WorkerType
  BY <1>8, StateReported DEF BufferState
<1>11. CASE worker.updatePreparing
  <2>1. Kept(gui, toWorker', fresh, toGui \o fresh.emitted, app, saves, FALSE)
    BY <1>1, <1>3, <1>5, <1>8, SwitchTaken DEF m
  <2>2. Kept(gui, toWorker', failed, toGui \o failed.emitted, app, saves, FALSE)
    <3> HIDE DEF failed
    <3> QED BY <1>2, <1>8, <1>10, <2>1, Turn
  <2>3. WorkerStep(failed)
    BY <1>1, <1>6, <1>11 DEF m
  <2>4. events' \in 0..MaxEvents
    BY <1>1 DEF IInv
  <2> HIDE DEF failed
  <2> QED BY <2>2, <2>3, <2>4, WorkerEnds
<1>12. CASE ~worker.updatePreparing
  <2>1. Kept(gui, toWorker', x, toGui \o x.emitted, app, saves, FALSE)
    <3>1. ~x.updatePreparing /\ m.type # "stop"
      BY <1>1, <1>7, <1>9, <1>12 DEF m
    <3> QED BY <1>1, <1>3, <1>5, <1>9, <3>1, SwitchTaken DEF m
  <2>2. up \in WorkerType /\ Turns(x, up)
    <3>1. CASE pipe # NoPipe /\ pipe.recorder
      BY <1>9, <3>1, StateReported DEF BufferState
    <3>2. CASE ~(pipe # NoPipe /\ pipe.recorder)
      <4>1. /\ y \in WorkerType /\ y.pipe = pipe /\ y.emitted = failed.emitted
            /\ y.generation = failed.generation /\ y.updateGeneration = failed.updateGeneration
            /\ y.updatePreparing = failed.updatePreparing /\ y.exportToken = failed.exportToken
        <5> HIDE DEF failed
        <5> QED BY <1>4, <1>10 DEF WorkerType
      <4>2. /\ failed.generation = fresh.generation /\ failed.updateGeneration = fresh.updateGeneration
            /\ failed.updatePreparing = fresh.updatePreparing /\ failed.exportToken = fresh.exportToken
        BY <1>10, StandingFields DEF Turns
      <4> HIDE DEF failed, y
      <4>3. Standing(y) = Standing(x) /\ y.pipe = x.pipe /\ x.emitted = fresh.emitted /\ x.generation = fresh.generation
        BY <1>8, <1>9, <4>1, <4>2 DEF Standing
      <4>4. Turns(x, y)
        BY <1>10, <4>1, <4>3 DEF Turns
      <4> QED BY <3>2, <4>1, <4>4
    <3> QED BY <3>1, <3>2
  <2> HIDE DEF up
  <2>3. Kept(gui, toWorker', up, toGui \o up.emitted, app, saves, FALSE)
    BY <1>2, <1>9, <2>1, <2>2, Turn
  <2> DEFINE z == CheckReplayReadiness(up)
  <2>4. Turns(up, z)
    BY <2>2, ReadinessChecked
  <2>5. WorkerStep(z)
    BY <1>1, <1>6, <1>12 DEF m
  <2>6. events' \in 0..MaxEvents
    BY <1>1 DEF IInv
  <2> HIDE DEF z
  <2>7. Kept(gui, toWorker', z, toGui \o z.emitted, app, saves, FALSE)
    BY <1>2, <2>2, <2>3, <2>4, Turn
  <2> QED BY <2>5, <2>6, <2>7, WorkerEnds
<1> QED BY <1>11, <1>12

\* So does a stop, and it leaves no session.
LEMMA KeepsHandleStop == ASSUME IInv, HandleStop PROVE IInv'
<1> DEFINE m == Head(toWorker)
<1>1. /\ toWorker # <<>> /\ m.type = "stop" /\ toWorker' = Tail(toWorker) /\ events' = events
      /\ WorkerStep(StopPumpForGeneration(worker, m.generation))
  BY DEF HandleStop, Called, Handled
<1>2. /\ worker \in WorkerType /\ toWorker \in Seq(Command) /\ toGui \in Seq(Report)
      /\ toGui \o worker.emitted = toGui
      /\ Kept(gui, toWorker, worker, toGui \o worker.emitted, app, saves, FALSE)
  BY WorkerStarts
<1>3. /\ m \in Command /\ m.generation \in Nat /\ m.type \in Switch
      /\ worker.generation < m.generation /\ worker.generation \in Nat
  <2>1. m \in Command /\ m.type \in Switch
    BY <1>1, <1>2, Taken DEF Switch
  <2>2. Generations(gui, toWorker, worker, toGui) /\ gui \in GuiType
    BY <1>2 DEF Kept, Base
  <2>3. worker.generation < m.generation
    BY <1>1, <1>2, <2>1, <2>2, CommandTaken
  <2> QED BY <1>1, <1>2, <2>1, <2>3, Messages DEF WorkerType
<1> DEFINE p == StopPump(worker)
<1> DEFINE v == [p EXCEPT !.generation = m.generation]
<1>4. /\ p \in WorkerType /\ Standing(p) = Standing(worker) /\ p.pipe = NoPipe
      /\ Kept(gui, toWorker, p, toGui \o p.emitted, app, saves, FALSE)
  <2>1. Turns(worker, p) /\ p \in WorkerType /\ p.pipe = NoPipe
    BY <1>2, PumpStopped
  <2> HIDE DEF p
  <2>2. Kept(gui, toWorker, p, toGui \o p.emitted, app, saves, FALSE)
    BY <1>2, <2>1, Turn
  <2> QED BY <2>1, <2>2 DEF Turns
<1>5. WorkerStep(v)
  <2>1. ~(m.generation <= worker.generation)
    BY <1>3
  <2> QED BY <1>1, <2>1 DEF StopPumpForGeneration
<1> HIDE DEF p, m
<1>6. /\ v \in WorkerType /\ v.generation = m.generation /\ v.pipe = NoPipe
      /\ v.updateGeneration = p.updateGeneration /\ v.updatePreparing = p.updatePreparing
      /\ v.exportToken = p.exportToken /\ v.emitted = p.emitted
  BY <1>3, <1>4 DEF WorkerType
<1> HIDE DEF v
<1>7. Kept(gui, toWorker', v, toGui \o v.emitted, app, saves, FALSE)
  BY <1>1, <1>3, <1>4, <1>6, SwitchTaken DEF m
<1>8. events' \in 0..MaxEvents
  BY <1>1 DEF IInv
<1> QED BY <1>5, <1>7, <1>8, WorkerEnds

\* A save is refused and released, or it reserves the exporter.
LEMMA KeepsHandleSave == ASSUME IInv, HandleSave PROVE IInv'
<1> DEFINE m == Head(toWorker)
<1> DEFINE checked == CheckReplayReadiness(worker)
<1> DEFINE K(v, hole) == Kept(gui, Tail(toWorker), v, toGui \o v.emitted, app, saves, hole)
<1>1. PICK active \in BOOLEAN, media \in BOOLEAN, exportable \in BOOLEAN :
        /\ toWorker # <<>> /\ m.type = "save" /\ toWorker' = Tail(toWorker) /\ events' = events
        /\ LET frozen == IF worker.pipe = NoPipe THEN NoPipe
                         ELSE [worker.pipe EXCEPT !.recorder = @ /\ active, !.media = @ \/ media]
           IN WorkerStep(SaveReplayOnWorker(worker, m, frozen, exportable))
  BY DEF HandleSave, Called, Handled
<1> DEFINE frozen == IF worker.pipe = NoPipe THEN NoPipe
                     ELSE [worker.pipe EXCEPT !.recorder = @ /\ active, !.media = @ \/ media]
<1> DEFINE x == [checked EXCEPT !.pipe = frozen]
<1> DEFINE ring == CheckReplayReadiness(x)
<1> DEFINE v == SaveReplayOnWorker(worker, m, frozen, exportable)
<1>2. WorkerStep(v)
  BY <1>1
<1>3. /\ worker \in WorkerType /\ toWorker \in Seq(Command) /\ toGui \in Seq(Report)
      /\ toGui \o worker.emitted = toGui
      /\ Kept(gui, toWorker, worker, toGui \o worker.emitted, app, saves, FALSE)
  BY WorkerStarts
<1>4. K(worker, TRUE) /\ m.token = gui.manual /\ worker.exportToken = 0
  <2>1. worker.exportToken = 0
    <3>1. Has(toWorker, "save")
      BY <1>1, <1>3, LastTaken
    <3> QED BY <1>3, <3>1 DEF Kept, SaveFlow
  <2> QED BY <1>1, <1>3, <2>1, SaveInHand
<1>5. checked \in WorkerType /\ K(checked, TRUE) /\ checked.pipe = worker.pipe
  <2>1. Turns(worker, checked) /\ checked \in WorkerType /\ checked.pipe = worker.pipe
    BY <1>3, ReadinessChecked
  <2> HIDE DEF checked
  <2>2. K(checked, TRUE)
    BY <1>3, <1>4, <2>1, Turn
  <2> QED BY <2>1, <2>2
<1>6. frozen \in {NoPipe} \cup PipeType /\ (frozen = NoPipe <=> worker.pipe = NoPipe)
  <2>1. CASE worker.pipe = NoPipe
    BY <2>1
  <2>2. CASE worker.pipe # NoPipe
    <3>1. worker.pipe \in PipeType
      BY <1>3, <2>2 DEF WorkerType
    <3>2. [worker.pipe EXCEPT !.recorder = @ /\ active, !.media = @ \/ media] \in PipeType
      <4>1. (worker.pipe.recorder /\ active) \in BOOLEAN /\ (worker.pipe.media \/ media) \in BOOLEAN
        OBVIOUS
      <4> QED BY <3>1, <4>1 DEF PipeType
    <3> QED BY <2>2, <3>2, FramePumpAssumption
  <2> QED BY <2>1, <2>2
<1>7. v \in {RefuseSave(worker, m.token), RefuseSave(checked, m.token), RefuseSave(ring, m.token)}
      \/ (v = [ring EXCEPT !.exportToken = m.token] /\ checked.pipe # NoPipe)
  BY DEF SaveReplayOnWorker, RecorderActive
<1> HIDE DEF checked, frozen, v
<1>8. x \in WorkerType /\ Turns(checked, x) /\ x.pipe = frozen
  <2>1. x \in WorkerType /\ Standing(x) = Standing(checked) /\ x.pipe = frozen /\ x.emitted = checked.emitted
    BY <1>5, <1>6 DEF WorkerType, Standing
  <2> QED BY <1>5, <1>6, <2>1 DEF Turns
<1> HIDE DEF x
<1>9. K(x, TRUE)
  BY <1>3, <1>5, <1>8, Turn
<1>10. ring \in WorkerType /\ K(ring, TRUE) /\ ring.pipe = frozen
  <2>1. Turns(x, ring) /\ ring \in WorkerType /\ ring.pipe = frozen
    BY <1>8, ReadinessChecked
  <2> HIDE DEF ring
  <2>2. K(ring, TRUE)
    BY <1>3, <1>8, <1>9, <2>1, Turn
  <2> QED BY <2>1, <2>2
<1> HIDE DEF ring
<1>11. ASSUME NEW w \in WorkerType, K(w, TRUE) PROVE K(RefuseSave(w, m.token), FALSE)
  <2>1. "failed" \in Verdict
    BY DEF Verdict
  <2> QED BY <1>3, <1>4, <1>11, <2>1, Answered DEF RefuseSave
<1>12. K(v, FALSE)
  <2>1. CASE v = [ring EXCEPT !.exportToken = m.token] /\ checked.pipe # NoPipe
    <3>1. gui.manual \in Nat
      BY <1>3 DEF Kept, Base, GuiType
    <3>2. /\ v \in WorkerType /\ v.generation = ring.generation /\ v.updateGeneration = ring.updateGeneration
          /\ v.updatePreparing = ring.updatePreparing /\ v.exportToken = gui.manual /\ v.pipe = ring.pipe
          /\ v.emitted = ring.emitted
      BY <1>4, <1>10, <2>1, <3>1 DEF WorkerType
    <3>3. ring.pipe # NoPipe
      BY <1>5, <1>6, <1>10, <2>1
    <3> QED BY <1>10, <3>2, <3>3, ExportBegins
  <2> QED BY <1>3, <1>4, <1>5, <1>7, <1>10, <1>11, <2>1
<1>13. events' \in 0..MaxEvents
  BY <1>1 DEF IInv
<1> QED BY <1>1, <1>2, <1>12, <1>13, WorkerEnds

\* A preparation waits for the export, or ends the session and says so.
LEMMA KeepsHandlePrepare == ASSUME IInv, HandlePrepare PROVE IInv'
<1> DEFINE m == Head(toWorker)
<1> DEFINE preparing == [worker EXCEPT !.updateGeneration = m.generation, !.updatePreparing = TRUE]
<1>1. /\ toWorker # <<>> /\ m.type = "prepare" /\ toWorker' = Tail(toWorker) /\ events' = events
      /\ WorkerStep(WorkerPrepare(worker, m.generation))
  BY DEF HandlePrepare, Called, Handled
<1>2. /\ worker \in WorkerType /\ toWorker \in Seq(Command) /\ toGui \in Seq(Report)
      /\ Kept(gui, toWorker, worker, toGui \o worker.emitted, app, saves, FALSE)
  BY WorkerStarts
<1>3. m.generation \in Nat
  <2>1. m \in Command
    BY <1>1, <1>2, Taken
  <2> QED BY <1>1, <2>1, Messages
<1>4. /\ preparing \in WorkerType /\ preparing.generation = worker.generation
      /\ preparing.updateGeneration = m.generation /\ preparing.updatePreparing = TRUE
      /\ preparing.exportToken = worker.exportToken /\ preparing.pipe = worker.pipe
      /\ preparing.emitted = worker.emitted
  BY <1>2, <1>3 DEF WorkerType
<1>5. events' \in 0..MaxEvents
  BY <1>1 DEF IInv
<1>6. CASE worker.exportToken # 0
  <2>1. WorkerStep(preparing)
    BY <1>1, <1>6 DEF WorkerPrepare
  <2> HIDE DEF preparing
  <2>2. Kept(gui, Tail(toWorker), preparing, toGui \o worker.emitted, app, saves, FALSE)
    BY <1>1, <1>2, <1>4, <1>6, PrepareTaken
  <2> QED BY <1>1, <1>4, <1>5, <2>1, <2>2, WorkerEnds
<1>7. CASE worker.exportToken = 0
  <2> DEFINE p == StopPump(preparing)
  <2> DEFINE v == Emit(p, [type |-> "updateReady", generation |-> p.updateGeneration])
  <2> DEFINE x == [preparing EXCEPT !.pipe = NoPipe]
  <2>1. Turns(preparing, p) /\ p \in WorkerType /\ p.pipe = NoPipe
    BY <1>4, PumpStopped
  <2>2. WorkerStep(Emit(p, [type |-> "updateReady", generation |-> m.generation]))
    BY <1>1, <1>7 DEF WorkerPrepare
  <2> HIDE DEF preparing, p
  <2>3. /\ x \in WorkerType /\ x.generation = worker.generation
        /\ x.updateGeneration = m.generation /\ x.updatePreparing = TRUE
        /\ x.exportToken = worker.exportToken /\ x.pipe = NoPipe
        /\ x.emitted = worker.emitted /\ Standing(x) = Standing(preparing)
    BY <1>4 DEF WorkerType, Standing
  <2> HIDE DEF x
  <2>4. Kept(gui, Tail(toWorker), x, toGui \o x.emitted, app, saves, FALSE)
    <3>1. Kept(gui, Tail(toWorker), x, toGui \o worker.emitted, app, saves, FALSE)
      BY <1>1, <1>2, <2>3, PrepareTaken
    <3> QED BY <2>3, <3>1
  <2>5. Turns(x, p)
    <3>1. Standing(preparing) = Standing(x) /\ preparing.emitted = x.emitted /\ preparing.generation = x.generation
      BY <1>4, <2>3
    <3> QED BY <2>1, <3>1 DEF Turns
  <2>6. Kept(gui, Tail(toWorker), p, toGui \o p.emitted, app, saves, FALSE)
    BY <1>2, <2>3, <2>4, <2>5, Turn
  <2>7. p.updateGeneration = m.generation /\ NoSession(p)
    <3>1. p.updateGeneration = x.updateGeneration /\ p.exportToken = x.exportToken
      BY <2>5, StandingFields DEF Turns
    <3> QED BY <1>7, <2>1, <2>3, <3>1 DEF NoSession
  <2>8. Kept(gui, Tail(toWorker), v, toGui \o v.emitted, app, saves, FALSE)
    BY <1>2, <2>1, <2>6, <2>7, ReadyReported
  <2>9. WorkerStep(v)
    BY <2>2, <2>7
  <2> HIDE DEF v
  <2> QED BY <1>1, <1>5, <2>8, <2>9, WorkerEnds
<1> QED BY <1>6, <1>7

\* A service that is still prepared has another preparation queued behind the cancel.
LEMMA KeepsHandleCancel == ASSUME IInv, HandleCancel PROVE IInv'
<1> DEFINE v == [worker EXCEPT !.updatePreparing = FALSE]
<1>1. /\ toWorker # <<>> /\ Head(toWorker).type = "cancel" /\ toWorker' = Tail(toWorker) /\ events' = events
      /\ WorkerStep(v)
  BY DEF HandleCancel, Called, Handled
<1>2. /\ worker \in WorkerType /\ toWorker \in Seq(Command)
      /\ Kept(gui, toWorker, worker, toGui \o worker.emitted, app, saves, FALSE)
  BY WorkerStarts
<1>3. /\ v \in WorkerType /\ v.generation = worker.generation /\ v.updateGeneration = worker.updateGeneration
      /\ v.exportToken = worker.exportToken /\ v.pipe = worker.pipe /\ v.emitted = worker.emitted
  BY <1>2 DEF WorkerType
<1> HIDE DEF v
<1>4. Kept(gui, Tail(toWorker), v, toGui \o worker.emitted, app, saves, FALSE)
  BY <1>1, <1>2, <1>3, CancelTaken
<1>5. events' \in 0..MaxEvents
  BY <1>1 DEF IInv
<1> QED BY <1>1, <1>3, <1>4, <1>5, WorkerEnds

\* A message about HDR screenshots is handled without a word on sessions.
LEMMA HdrTurns ==
  ASSUME IInv, NEW v, WorkerStep(v), toWorker # <<>>, Head(toWorker).type \in {"hdr", "cancelHdr"},
         toWorker' = Tail(toWorker), events' = events, Turns(worker, v)
  PROVE IInv'
<1>1. /\ worker \in WorkerType /\ toGui \in Seq(Report)
      /\ Kept(gui, toWorker, worker, toGui \o worker.emitted, app, saves, FALSE)
  BY WorkerStarts
<1>2. Kept(gui, Tail(toWorker), worker, toGui \o worker.emitted, app, saves, FALSE)
  BY <1>1, PlainTaken
<1>3. Kept(gui, Tail(toWorker), v, toGui \o v.emitted, app, saves, FALSE)
  BY <1>1, <1>2, Turn
<1>4. events' \in 0..MaxEvents
  BY DEF IInv
<1> QED BY <1>3, <1>4, WorkerEnds

\* An HDR request is answered.
LEMMA HdrAnswers ==
  ASSUME NEW w \in WorkerType, NEW v \in WorkerType, NEW token \in Token, NEW verdict \in Verdict,
         Standing(v) = Standing(w), v.pipe = w.pipe, v.emitted = w.emitted
  PROVE Turns(w, Emit(v, HdrAnswer(token, verdict)))
<1> DEFINE m == HdrAnswer(token, verdict)
<1> DEFINE x == [v EXCEPT !.emitted = Append(@, m)]
<1>1. m \in Report /\ m.type = "hdrDone"
  BY DEF HdrAnswer, Report
<1>2. Emit(v, m) = x
  BY DEF Emit
<1> HIDE DEF m
<1>3. Append(v.emitted, m) \in Seq(Report)
  <2>1. v.emitted \in Seq(Report)
    BY DEF WorkerType
  <2> QED BY <1>1, <2>1, Appended
<1>4. x \in WorkerType /\ Standing(x) = Standing(w) /\ x.pipe = w.pipe /\ x.emitted = Append(w.emitted, m)
  BY <1>3 DEF WorkerType, Standing
<1> HIDE DEF x
<1>5. Turns(w, x)
  BY <1>1, <1>4 DEF Turns
<1> QED BY <1>2, <1>5 DEF m

\* An HDR request is refused or taken; it never touches the session.
LEMMA KeepsHandleHdr == ASSUME IInv, HandleHdr PROVE IInv'
<1> DEFINE m == Head(toWorker)
<1> DEFINE taken == [worker EXCEPT !.hdr = m.token]
<1>1. /\ toWorker # <<>> /\ m.type = "hdr" /\ toWorker' = Tail(toWorker) /\ events' = events
      /\ WorkerStep(WorkerHdr(worker, m))
  BY DEF HandleHdr, Called, Handled
<1>2. worker \in WorkerType /\ toWorker \in Seq(Command)
  BY WorkerStarts
<1>3. m.token \in Token
  <2>1. m \in Command
    BY <1>1, <1>2, Taken
  <2> QED BY <1>1, <2>1, Messages
<1>4. Turns(worker, Emit(worker, HdrAnswer(m.token, "failed")))
  <2>1. "failed" \in Verdict
    BY DEF Verdict
  <2> QED BY <1>2, <1>3, <2>1, HdrAnswers
<1>5. Turns(worker, taken)
  <2>1. taken \in WorkerType /\ Standing(taken) = Standing(worker) /\ taken.pipe = worker.pipe
        /\ taken.emitted = worker.emitted
    BY <1>2, <1>3 DEF WorkerType, Standing, Token
  <2> QED BY <2>1 DEF Turns
<1>6. WorkerHdr(worker, m) = taken \/ WorkerHdr(worker, m) = Emit(worker, HdrAnswer(m.token, "failed"))
  BY DEF WorkerHdr
<1>7. Turns(worker, WorkerHdr(worker, m))
  BY <1>4, <1>5, <1>6
<1> QED BY <1>1, <1>7, HdrTurns

\* A cancelled one is forgotten.
LEMMA KeepsHandleCancelHdr == ASSUME IInv, HandleCancelHdr PROVE IInv'
<1> DEFINE v == [worker EXCEPT !.hdr = IF @ = Head(toWorker).token THEN 0 ELSE @]
<1>1. /\ toWorker # <<>> /\ Head(toWorker).type = "cancelHdr" /\ toWorker' = Tail(toWorker) /\ events' = events
      /\ WorkerStep(v)
  BY DEF HandleCancelHdr, Called, Handled
<1>2. worker \in WorkerType
  BY WorkerStarts
<1>3. v \in WorkerType /\ Standing(v) = Standing(worker) /\ v.pipe = worker.pipe /\ v.emitted = worker.emitted
  BY <1>2 DEF WorkerType, Standing
<1> HIDE DEF v
<1>4. Turns(worker, v)
  BY <1>3 DEF Turns
<1> QED BY <1>1, <1>4, HdrTurns

\* The answer of a finished export, and the end of the session if an update waited for it.
LEMMA KeepsHandleExported == ASSUME IInv, HandleExported PROVE IInv'
<1> DEFINE m == Head(toWorker)
<1> DEFINE idle == [worker EXCEPT !.exportToken = 0]
<1> DEFINE Answer(w) == Emit(Emit(w, [type |-> "clip", verdict |-> m.verdict]),
                             [type |-> "finished", token |-> gui.manual])
<1> DEFINE K(v, hole) == Kept(gui, Tail(toWorker), v, toGui \o v.emitted, app, saves, hole)
<1>1. /\ toWorker # <<>> /\ m.type = "exported" /\ toWorker' = Tail(toWorker) /\ events' = events
      /\ WorkerStep(FinishedExport(worker, m))
  BY DEF HandleExported, Called, Handled
<1>2. /\ worker \in WorkerType /\ toWorker \in Seq(Command) /\ toGui \in Seq(Report)
      /\ Kept(gui, toWorker, worker, toGui \o worker.emitted, app, saves, FALSE)
  BY WorkerStarts
<1>3. m.verdict \in Verdict
  <2>1. m \in Command
    BY <1>1, <1>2, Taken
  <2> QED BY <1>1, <2>1, Messages
<1>4. /\ idle \in WorkerType /\ idle.generation = worker.generation /\ idle.pipe = worker.pipe
      /\ idle.updateGeneration = worker.updateGeneration /\ idle.updatePreparing = worker.updatePreparing
      /\ idle.exportToken = 0 /\ idle.emitted = worker.emitted
  BY <1>2 DEF WorkerType
<1>5. events' \in 0..MaxEvents
  BY <1>1 DEF IInv
<1>6. m.token = gui.manual
  <2>1. SaveFlow(gui, toWorker, worker, toGui \o worker.emitted, saves, FALSE)
    BY <1>2 DEF Kept
  <2>2. 1 \in DOMAIN toWorker /\ m = toWorker[1]
    BY <1>1, <1>2, Taken
  <2> QED BY <1>1, <2>1, <2>2 DEF SaveFlow
<1>7. CASE ~worker.updatePreparing
  <2> DEFINE v == Answer(idle)
  <2>1. WorkerStep(v)
    BY <1>1, <1>6, <1>7 DEF FinishedExport
  <2> HIDE DEF idle, m
  <2>2. K(idle, TRUE)
    <3>1. Kept(gui, Tail(toWorker), idle, toGui \o worker.emitted, app, saves, TRUE)
      BY <1>1, <1>2, <1>4, <1>7, SaveInHand DEF m
    <3> QED BY <1>4, <3>1
  <2>3. K(v, FALSE)
    BY <1>2, <1>3, <1>4, <2>2, Answered
  <2> HIDE DEF v
  <2> QED BY <1>1, <1>5, <2>1, <2>3, WorkerEnds
<1>8. CASE worker.updatePreparing
  <2> DEFINE x == [idle EXCEPT !.pipe = NoPipe]
  <2> DEFINE y == Answer(x)
  <2> DEFINE answered == Answer(idle)
  <2> DEFINE p == StopPump(answered)
  <2> DEFINE v == Emit(p, [type |-> "updateReady", generation |-> p.updateGeneration])
  <2>1. WorkerStep(Emit(p, [type |-> "updateReady", generation |-> worker.updateGeneration]))
    BY <1>1, <1>6, <1>8 DEF FinishedExport
  <2> HIDE DEF idle, m
  <2>2. /\ x \in WorkerType /\ x.generation = worker.generation /\ x.pipe = NoPipe
        /\ x.updateGeneration = worker.updateGeneration /\ x.updatePreparing = worker.updatePreparing
        /\ x.exportToken = 0 /\ x.emitted = worker.emitted /\ Standing(x) = Standing(idle)
    BY <1>4 DEF WorkerType, Standing
  <2> HIDE DEF x
  <2>3. K(x, TRUE)
    <3>1. Kept(gui, Tail(toWorker), x, toGui \o worker.emitted, app, saves, TRUE)
      BY <1>1, <1>2, <2>2, SaveInHand DEF m
    <3> QED BY <2>2, <3>1
  <2>4. y \in WorkerType /\ Standing(y) = Standing(x) /\ y.pipe = NoPipe /\ K(y, FALSE)
    BY <1>2, <1>3, <2>2, <2>3, Answered, ZenonT(60)
  <2>5. /\ answered \in WorkerType /\ Standing(answered) = Standing(idle)
        /\ answered.emitted = y.emitted
    <3> DEFINE a == [type |-> "clip", verdict |-> m.verdict]
    <3> DEFINE b == [type |-> "finished", token |-> gui.manual]
    <3>1. a \in Report /\ b \in Report
      <4>1. gui.manual \in Token
        <5>1. SaveFlow(gui, Tail(toWorker), x, toGui \o x.emitted, saves, TRUE) /\ gui \in GuiType
          BY <2>3 DEF Kept, Base
        <5> QED BY <5>1 DEF SaveFlow, GuiType, Token
      <4> QED BY <1>3, <4>1 DEF Report
    <3> HIDE DEF a, b
    <3> DEFINE e == Append(Append(worker.emitted, a), b)
    <3>2. e \in Seq(Report)
      <4>1. worker.emitted \in Seq(Report)
        BY <1>2 DEF WorkerType
      <4>2. Append(worker.emitted, a) \in Seq(Report)
        BY <3>1, <4>1, Appended
      <4> QED BY <3>1, <4>2, Appended
    <3>3. answered = [idle EXCEPT !.emitted = e] /\ y = [x EXCEPT !.emitted = e]
      BY <1>4, <2>2 DEF Emit, WorkerType, a, b
    <3> HIDE DEF answered, y, e
    <3>4. answered \in WorkerType /\ Standing(answered) = Standing(idle) /\ answered.emitted = e
      BY <1>4, <3>2, <3>3 DEF WorkerType, Standing
    <3>5. y.emitted = e
      BY <2>2, <3>3 DEF WorkerType
    <3> QED BY <3>4, <3>5
  <2> HIDE DEF answered, y
  <2>6. Turns(answered, p) /\ p \in WorkerType /\ p.pipe = NoPipe
    BY <2>5, PumpStopped
  <2> HIDE DEF p
  <2>7. Turns(y, p)
    <3>1. Standing(answered) = Standing(y) /\ answered.generation = y.generation
      <4>1. Standing(answered) = Standing(y)
        BY <2>2, <2>4, <2>5
      <4> QED BY <4>1, StandingFields
    <3> QED BY <2>5, <2>6, <3>1 DEF Turns
  <2>8. K(p, FALSE)
    BY <1>2, <2>4, <2>7, Turn
  <2>9. p.updateGeneration = worker.updateGeneration /\ NoSession(p)
    <3>1. p.updateGeneration = y.updateGeneration /\ p.exportToken = y.exportToken
      BY <2>7, StandingFields DEF Turns
    <3>2. y.updateGeneration = x.updateGeneration /\ y.exportToken = x.exportToken
      BY <2>4, StandingFields
    <3> QED BY <2>2, <2>6, <3>1, <3>2 DEF NoSession
  <2>10. K(v, FALSE)
    BY <1>2, <2>6, <2>8, <2>9, ReadyReported
  <2>11. WorkerStep(v)
    BY <2>1, <2>9
  <2> HIDE DEF v
  <2> QED BY <1>1, <1>5, <2>10, <2>11, WorkerEnds
<1> QED BY <1>7, <1>8

\* What a timer of the worker finds.
LEMMA TimerStarts ==
  ASSUME IInv, TimerTurn
  PROVE worker \in WorkerType /\ worker.pipe \in PipeType /\ worker.pipe # NoPipe /\ toWorker' = toWorker
<1>1. worker \in WorkerType
  BY WorkerStarts
<1> QED BY <1>1 DEF TimerTurn, WorkerType

\* A change within the session is a turn.
LEMMA PipeChanged ==
  ASSUME NEW w \in WorkerType, w.pipe # NoPipe, NEW pipe \in PipeType
  PROVE LET v == [w EXCEPT !.pipe = pipe]
        IN v \in WorkerType /\ Turns(w, v) /\ Standing(v) = Standing(w) /\ v.pipe = pipe
           /\ v.emitted = w.emitted /\ v.generation = w.generation /\ pipe # NoPipe
<1> DEFINE v == [w EXCEPT !.pipe = pipe]
<1>1. v \in WorkerType /\ Standing(v) = Standing(w) /\ v.pipe = pipe /\ v.emitted = w.emitted
      /\ v.generation = w.generation
  BY DEF WorkerType, Standing
<1> HIDE DEF v
<1>2. Turns(w, v)
  BY <1>1 DEF Turns
<1>3. pipe # NoPipe
  BY FramePumpAssumption
<1> QED BY <1>1, <1>2, <1>3 DEF v

\* So is the request for a rebuild.
LEMMA RestartAsked ==
  ASSUME NEW w \in WorkerType, w.pipe # NoPipe
  PROVE Turns(w, Restart(w)) /\ Restart(w) \in WorkerType
<1> DEFINE v == [w EXCEPT !.pipe = [w.pipe EXCEPT !.polling = FALSE]]
<1> DEFINE m == [type |-> "restart", generation |-> w.generation]
<1> DEFINE x == [v EXCEPT !.emitted = Append(@, m)]
<1>1. [w.pipe EXCEPT !.polling = FALSE] \in PipeType
  BY DEF WorkerType, PipeType
<1>2. /\ v \in WorkerType /\ Standing(v) = Standing(w) /\ v.emitted = w.emitted /\ w.pipe # NoPipe
  BY <1>1, PipeChanged
<1>3. m \in Report /\ m.type = "restart"
  BY DEF Report, WorkerType
<1>4. Restart(w) = x
  BY DEF Restart, Emit
<1> HIDE DEF v, m
<1>5. Append(v.emitted, m) \in Seq(Report)
  <2>1. v.emitted \in Seq(Report)
    BY <1>2 DEF WorkerType
  <2> QED BY <1>3, <2>1, Appended
<1>6. x \in WorkerType /\ Standing(x) = Standing(w) /\ x.emitted = Append(w.emitted, m)
  BY <1>2, <1>5 DEF WorkerType, Standing
<1> HIDE DEF x
<1>7. Turns(w, x)
  BY <1>3, <1>6 DEF Turns
<1> QED BY <1>4, <1>6, <1>7

\* Rolling segments change the session only.
LEMMA KeepsSegmentRolls == ASSUME IInv, SegmentRolls PROVE IInv'
<1>1. PICK media \in BOOLEAN, active \in BOOLEAN :
        /\ TimerTurn /\ Outside
        /\ WorkerStep([worker EXCEPT !.pipe.media = media, !.pipe.recorder = active])
  BY DEF SegmentRolls
<1>2. worker \in WorkerType /\ worker.pipe \in PipeType /\ worker.pipe # NoPipe /\ toWorker' = toWorker
  BY <1>1, TimerStarts
<1> DEFINE pipe == [worker.pipe EXCEPT !.media = media, !.recorder = active]
<1> DEFINE v == [worker EXCEPT !.pipe = pipe]
<1>3. pipe \in PipeType
  BY <1>2 DEF PipeType
<1>4. [worker EXCEPT !.pipe.media = media, !.pipe.recorder = active] = v
  BY <1>2 DEF WorkerType
<1> HIDE DEF pipe
<1>5. Turns(worker, v)
  BY <1>2, <1>3, PipeChanged
<1> HIDE DEF v
<1>6. events' \in 0..MaxEvents
  BY <1>1, Room
<1> QED BY <1>1, <1>2, <1>4, <1>5, <1>6, TimerTurns

\* The readiness timer reports, at most.
LEMMA KeepsReadinessTimer == ASSUME IInv, ReadinessTimer PROVE IInv'
<1>1. TimerTurn /\ WorkerStep(CheckReplayReadiness(worker)) /\ events' = events
  BY DEF ReadinessTimer
<1>2. worker \in WorkerType /\ toWorker' = toWorker
  BY <1>1, TimerStarts
<1>3. Turns(worker, CheckReplayReadiness(worker))
  BY <1>2, ReadinessChecked
<1>4. events' \in 0..MaxEvents
  BY <1>1 DEF IInv
<1> QED BY <1>1, <1>2, <1>3, <1>4, TimerTurns

\* A failing poll reports, asks for a rebuild, or both.
LEMMA KeepsPollFails == ASSUME IInv, PollFails PROVE IInv'
<1> DEFINE quiet == [worker EXCEPT !.pipe = [worker.pipe EXCEPT !.polling = FALSE]]
<1> DEFINE failed == ReportBufferState(worker, "Failed")
<1>1. /\ TimerTurn /\ Outside
      /\ \/ WorkerStep(Restart(worker))
         \/ WorkerStep(ReportBufferState(quiet, "Failed"))
         \/ WorkerStep(Restart(failed))
  BY DEF PollFails
<1>2. worker \in WorkerType /\ worker.pipe \in PipeType /\ worker.pipe # NoPipe /\ toWorker' = toWorker
  BY <1>1, TimerStarts
<1>3. /\ toGui \in Seq(Report)
      /\ Kept(gui, toWorker, worker, toGui \o worker.emitted, app, saves, FALSE)
  BY WorkerStarts
<1>4. events' \in 0..MaxEvents
  BY <1>1, Room
<1>5. "Failed" \in BufferState
  BY DEF BufferState
<1>6. CASE WorkerStep(Restart(worker))
  <2>1. Turns(worker, Restart(worker))
    BY <1>2, RestartAsked
  <2> QED BY <1>2, <1>4, <1>6, <2>1, TimerTurns
<1>7. CASE WorkerStep(ReportBufferState(quiet, "Failed"))
  <2>1. [worker.pipe EXCEPT !.polling = FALSE] \in PipeType
    BY <1>2 DEF PipeType
  <2>2. quiet \in WorkerType /\ Turns(worker, quiet)
    BY <1>2, <2>1, PipeChanged
  <2> HIDE DEF quiet
  <2> DEFINE v == ReportBufferState(quiet, "Failed")
  <2>3. Kept(gui, toWorker, quiet, toGui \o quiet.emitted, app, saves, FALSE)
    BY <1>2, <1>3, <2>2, Turn
  <2>4. Turns(quiet, v)
    BY <1>5, <2>2, StateReported
  <2>5. WorkerStep(v)
    BY <1>7
  <2> HIDE DEF v
  <2>6. Kept(gui, toWorker, v, toGui \o v.emitted, app, saves, FALSE)
    BY <1>3, <2>2, <2>3, <2>4, Turn
  <2> QED BY <1>2, <1>4, <2>5, <2>6, WorkerEnds
<1>8. CASE WorkerStep(Restart(failed))
  <2> DEFINE v == Restart(failed)
  <2>1. failed \in WorkerType /\ Turns(worker, failed) /\ failed.pipe = worker.pipe
    BY <1>2, <1>5, StateReported
  <2> HIDE DEF failed
  <2>2. Kept(gui, toWorker, failed, toGui \o failed.emitted, app, saves, FALSE)
    BY <1>2, <1>3, <2>1, Turn
  <2>3. Turns(failed, v)
    BY <1>2, <2>1, RestartAsked
  <2>4. WorkerStep(v)
    BY <1>8
  <2> HIDE DEF v
  <2>5. Kept(gui, toWorker, v, toGui \o v.emitted, app, saves, FALSE)
    BY <1>3, <2>1, <2>2, <2>3, Turn
  <2> QED BY <1>2, <1>4, <2>4, <2>5, WorkerEnds
<1> QED BY <1>1, <1>6, <1>7, <1>8

\* A frame answers the pending HDR request.
LEMMA KeepsPollAnswersHdr == ASSUME IInv, PollAnswersHdr PROVE IInv'
<1> DEFINE v == [worker EXCEPT !.hdr = 0]
<1>1. PICK verdict \in Verdict : WorkerStep(Emit(v, HdrAnswer(worker.hdr, verdict)))
  BY DEF PollAnswersHdr, Verdict
<1>2. TimerTurn /\ worker.hdr # 0 /\ events' = events
  BY DEF PollAnswersHdr
<1>3. worker \in WorkerType /\ toWorker' = toWorker
  BY <1>2, TimerStarts
<1>4. worker.hdr \in Token
  BY <1>2, <1>3 DEF WorkerType, Token
<1>5. v \in WorkerType /\ Standing(v) = Standing(worker) /\ v.pipe = worker.pipe /\ v.emitted = worker.emitted
  BY <1>3 DEF WorkerType, Standing
<1> HIDE DEF v
<1>6. Turns(worker, Emit(v, HdrAnswer(worker.hdr, verdict)))
  BY <1>3, <1>4, <1>5, HdrAnswers
<1>7. events' \in 0..MaxEvents
  BY <1>2 DEF IInv
<1> QED BY <1>1, <1>3, <1>6, <1>7, TimerTurns

\* The export thread posts one result, and only while the worker waits for one.
LEMMA KeepsExportEnds == ASSUME IInv, ExportEnds PROVE IInv'
<1>1. PICK verdict \in Verdict :
        toWorker' = Append(toWorker, [type |-> "exported", token |-> worker.exportToken, verdict |-> verdict])
  BY DEF ExportEnds, Verdict
<1> DEFINE m == [type |-> "exported", token |-> worker.exportToken, verdict |-> verdict]
<1>2. /\ worker.exportToken # 0 /\ ~Has(toWorker, "exported")
      /\ UNCHANGED <<gui, worker, toGui, saves, hdrs, app, events>>
  BY DEF ExportEnds, Has
<1>3. /\ Base(gui, toWorker, worker, toGui, app) /\ Unowned(gui, toWorker, worker)
      /\ SaveFlow(gui, toWorker, worker, toGui, saves, FALSE)
  BY DEF IInv, Good, Semi
<1>4. /\ gui \in GuiType /\ worker \in WorkerType /\ toWorker \in Seq(Command) /\ toGui \in Seq(Report)
      /\ Generations(gui, toWorker, worker, toGui) /\ Quiescence(gui, toWorker, worker, toGui, app)
      /\ Prepared(gui, toWorker, worker) /\ Stopped(gui, toWorker, worker)
  BY <1>3 DEF Base
<1>5. m \in Command /\ m.type = "exported" /\ m.token = worker.exportToken
  BY <1>2, <1>4 DEF Command, WorkerType, Token
<1>6. m.type \notin Switch /\ m.type # "prepare" /\ m.type # "cancel"
  BY <1>5 DEF Switch
<1> DEFINE q == Append(toWorker, m)
<1>7. toWorker' = q
  BY <1>1
<1> HIDE DEF m
<1>8. /\ Generations(gui, q, worker, toGui) /\ Quiescence(gui, q, worker, toGui, app)
      /\ Prepared(gui, q, worker)
      /\ Halted(toWorker, worker) => Halted(q, worker)
      /\ LastOf(toWorker, "prepare", {"start"}) => LastOf(q, "prepare", {"start"})
  BY <1>4, <1>5, <1>6, CommandPosted
<1>9. SaveFlow(gui, q, worker, toGui, saves, FALSE)
  BY <1>2, <1>3, <1>4, <1>5, SaveEnds
<1>10. q \in Seq(Command)
  BY <1>4, <1>5, Appended
<1> HIDE DEF q
<1>11. Stopped(gui, q, worker) /\ Unowned(gui, q, worker)
  BY <1>3, <1>4, <1>8 DEF Stopped, Unowned
<1>12. Good(gui, q, worker, toGui, app, saves)
  BY <1>4, <1>8, <1>9, <1>10, <1>11 DEF Good, Semi, Base
<1> QED BY <1>2, <1>7, <1>12 DEF IInv
-----------------------------------------------------------------------------
(* The theorems.                                                                      *)

\* The program starts in the invariant.
LEMMA Initial == Init => IInv
<1> SUFFICES ASSUME Init PROVE IInv
  OBVIOUS
<1>1. /\ toWorker = <<>> /\ toGui = <<>> /\ app = "idle" /\ events = 0
      /\ gui.state = "Stopped" /\ gui.generation = 0 /\ ~gui.savePending /\ gui.manual = 0
      /\ gui.hdr = 0 /\ gui.activeHdr = 0 /\ ~gui.preparing /\ gui.sent = <<>>
      /\ worker.generation = 0 /\ worker.pipe = NoPipe /\ worker.exportToken = 0
      /\ worker.updateGeneration = 0 /\ worker.emitted = <<>>
  BY DEF Init
<1>2. gui \in GuiType /\ worker \in WorkerType
  <2>1. <<>> \in Seq(Command) /\ <<>> \in Seq(Report)
    OBVIOUS
  <2> QED BY <2>1 DEF Init, GuiType, WorkerType, BufferState, Window
<1>3. toWorker \in Seq(Command) /\ toGui \in Seq(Report) /\ DOMAIN toWorker = {} /\ DOMAIN toGui = {}
  BY <1>1
<1>4. Generations(gui, toWorker, worker, toGui)
  BY <1>1, <1>3 DEF Generations, CanSave
<1>5. Quiescence(gui, toWorker, worker, toGui, app)
  BY <1>1, <1>3 DEF Quiescence
<1>6. Halted(toWorker, worker) /\ Prepared(gui, toWorker, worker)
  BY <1>1, <1>3 DEF Halted, Has, Prepared
<1>7. saves \in SavesType /\ hdrs \in HdrsType /\ saves[0] = "idle" /\ hdrs[0] = "idle"
      /\ \A p \in Save : saves[p] = "idle"
  BY DEF Init, SavesType, HdrsType
<1>8. SaveFlow(gui, toWorker, worker, toGui, saves, FALSE)
  BY <1>1, <1>3, <1>7 DEF SaveFlow, Once, Has
<1>9. Good(gui, toWorker, worker, toGui, app, saves)
  BY <1>2, <1>3, <1>4, <1>5, <1>6, <1>8 DEF Good, Semi, Base, Stopped, Unowned
<1>10. HdrFlow(gui, hdrs)
  BY <1>1 DEF HdrFlow
<1>11. app \in {"idle", "preparing", "ready"} /\ events \in 0..MaxEvents
  BY <1>1, FramePumpAssumption
<1> QED BY <1>1, <1>7, <1>9, <1>10, <1>11 DEF IInv

\* Every step keeps it.
LEMMA Step == IInv /\ [Next]_vars => IInv'
<1> SUFFICES ASSUME IInv, [Next]_vars PROVE IInv'
  OBVIOUS
<1>1. CASE UNCHANGED vars
  BY <1>1 DEF vars, IInv
<1>2. ASSUME NEW r \in Save, SaveReplay(r) PROVE IInv'
  BY <1>2, KeepsSaveReplay
<1>3. ASSUME NEW h \in Hdr, CaptureHdrScreenshot(h) PROVE IInv'
  BY <1>3, KeepsCaptureHdr
<1>4. CASE HdrTimeout \/ AutoTick \/ SettingsRestart
  BY <1>4, KeepsHdrTimeout, KeepsAutoTick, KeepsSettingsRestart
<1>5. CASE PrepareForUpdate \/ RevalidationFails \/ CancelUpdatePreparation
  BY <1>5, KeepsPrepareForUpdate, KeepsRevalidationFails, KeepsCancelUpdatePreparation
<1>6. CASE GuiDeliver
  BY <1>6, KeepsDeliverState, KeepsDeliverRestart, KeepsDeliverClip, KeepsDeliverSaveFinished,
     KeepsDeliverHdr, KeepsDeliverUpdateReady DEF GuiDeliver
<1>7. CASE WorkerHandle
  BY <1>7, KeepsHandleStart, KeepsHandleStop, KeepsHandleSave, KeepsHandlePrepare, KeepsHandleCancel,
     KeepsHandleHdr, KeepsHandleCancelHdr, KeepsHandleExported DEF WorkerHandle
<1>8. CASE SegmentRolls \/ ReadinessTimer \/ PollFails \/ PollAnswersHdr \/ ExportEnds
  BY <1>8, KeepsSegmentRolls, KeepsReadinessTimer, KeepsPollFails, KeepsPollAnswersHdr, KeepsExportEnds
<1> QED BY <1>1, <1>2, <1>3, <1>4, <1>5, <1>6, <1>7, <1>8 DEF Next

\* Every behaviour stays in the inductive invariant.
THEOREM Invariant == Spec => []IInv
<1>1. Init => IInv
  BY Initial
<1>2. IInv /\ [Next]_vars => IInv'
  BY Step
<1> QED BY <1>1, <1>2, PTL DEF Spec

\* Every variable has its type.
THEOREM TypeCorrect == Spec => []TypeOK
<1>1. IInv => TypeOK
  <2> SUFFICES ASSUME IInv PROVE TypeOK
    OBVIOUS
  <2>1. /\ gui \in GuiType /\ worker \in WorkerType /\ gui.sent = <<>> /\ worker.emitted = <<>>
        /\ saves[0] = "idle" /\ hdrs[0] = "idle"
        /\ app \in {"idle", "preparing", "ready"} /\ events \in 0..MaxEvents
    BY DEF IInv, Good, Semi, Base
  <2>2. gui \in [state : BufferState, generation : Nat, hwnd : Window, game : Window,
                  auto : BOOLEAN, manual : Nat, savePending : BOOLEAN, hdr : Nat,
                  sequence : Nat, activeReplay : {0} \cup Save, activeHdr : {0} \cup Hdr,
                  noGameTicks : Nat, preparing : BOOLEAN, sent : {<<>>}]
    BY <2>1 DEF GuiType
  <2>3. /\ worker.state \in BufferState /\ worker.pipe \in {NoPipe} \cup PipeType
        /\ {worker.generation, worker.hdr, worker.exportToken, worker.updateGeneration} \subseteq Nat
        /\ worker.updatePreparing \in BOOLEAN
    BY <2>1 DEF WorkerType
  <2> QED BY <2>1, <2>2, <2>3 DEF TypeOK
<1> QED BY <1>1, Invariant, PTL

\* A shown Recording or Ready was confirmed by the session of the shown generation.
THEOREM GenerationSafety == Spec => []ConfirmedByThisGeneration
<1>1. IInv => ConfirmedByThisGeneration
  BY DEF IInv, Good, Semi, Base, Generations, ConfirmedByThisGeneration
<1> QED BY <1>1, Invariant, PTL

\* While the app believes the capture is ready for an update, nothing records or exports.
THEOREM QuiescenceSafety == Spec => []QuiescentWhenReady
<1>1. IInv => QuiescentWhenReady
  BY DEF IInv, Good, Semi, Base, Quiescence, NoSession, QuiescentWhenReady
<1> QED BY <1>1, Invariant, PTL

\* Once both queues are drained, no session runs without an owner.
THEOREM OwnerSafety == Spec => []NoOwnerNoCapture
<1>1. IInv => NoOwnerNoCapture
  <2> SUFFICES ASSUME IInv, Settled, ~NeedsSession(gui), ~gui.preparing PROVE worker.pipe = NoPipe
    BY DEF NoOwnerNoCapture
  <2>1. DOMAIN toWorker = {}
    BY DEF Settled
  <2>2. Unowned(gui, toWorker, worker)
    BY DEF IInv, Good
  <2> QED BY <2>1, <2>2 DEF Unowned, Halted, LastOf
<1> QED BY <1>1, Invariant, PTL

\* A press is answered once: every step of the two halves is a step of SaveRequests, or
\* does not touch what the pressers have been told.
LEMMA SaveStep == IInv /\ [Next]_vars => [Requests!Next]_[r \in Save |-> saves[r]]
<1> DEFINE told == [r \in Save |-> saves[r]]
<1> SUFFICES ASSUME IInv, [Next]_vars PROVE Requests!Next \/ told' = told
  OBVIOUS
<1>1. saves \in SavesType
  BY DEF IInv
<1>2. \A v : \A p \in Save : saves' = [saves EXCEPT ![p] = v] => told' = [told EXCEPT ![p] = v]
  BY <1>1 DEF SavesType
<1>3. \A p \in Save : told[p] = saves[p]
  OBVIOUS
<1>4. SaveFlow(gui, toWorker, worker, toGui, saves, FALSE)
  BY DEF IInv, Good, Semi
<1>5. CASE saves' = saves
  BY <1>5
<1>6. ASSUME NEW r \in Save, SaveReplay(r) PROVE Requests!Next
  <2>1. saves[r] = "idle"
    BY <1>6 DEF SaveReplay
  <2>2. \/ saves' = [saves EXCEPT ![r] = "rejected"]
        \/ ~gui.savePending /\ saves' = [saves EXCEPT ![r] = "dispatched"]
    BY <1>6 DEF SaveReplay
  <2>3. CASE saves' = [saves EXCEPT ![r] = "rejected"]
    <3>1. told' = [told EXCEPT ![r] = "rejected"] /\ told[r] = "idle"
      BY <1>2, <1>3, <2>1, <2>3
    <3> QED BY <3>1 DEF Requests!Next, Requests!Reject
  <2>4. CASE ~gui.savePending /\ saves' = [saves EXCEPT ![r] = "dispatched"]
    <3>1. told' = [told EXCEPT ![r] = "dispatched"] /\ told[r] = "idle"
      BY <1>2, <1>3, <2>1, <2>4
    <3>2. \A p \in Save : told[p] # "dispatched"
      BY <1>3, <1>4, <2>4 DEF SaveFlow
    <3> QED BY <3>1, <3>2 DEF Requests!Next, Requests!Dispatch
  <2> QED BY <2>2, <2>3, <2>4
<1>7. CASE DeliverClip
  <2>1. /\ toGui # <<>> /\ Head(toGui).type = "clip"
        /\ saves' = [saves EXCEPT ![gui.activeReplay] = Head(toGui).verdict]
    BY <1>7 DEF DeliverClip, Arrived
  <2>2. /\ gui.activeReplay \in Save /\ saves[gui.activeReplay] = "dispatched"
        /\ Head(toGui).verdict \in Verdict
    <3>1. toGui \in Seq(Report)
      BY FrontStarts
    <3> QED BY <1>1, <1>4, <2>1, <3>1, SaveAnswered
  <2> DEFINE p == gui.activeReplay
  <2> DEFINE v == Head(toGui).verdict
  <2>3. told' = [told EXCEPT ![p] = v] /\ told[p] = "dispatched" /\ p \in Save /\ v \in {"saved", "failed"}
    BY <1>2, <1>3, <2>1, <2>2 DEF Verdict
  <2> HIDE DEF p, v
  <2> QED BY <2>3 DEF Requests!Next, Requests!Answer, Requests!Verdict
<1>8. saves' = saves \/ (\E r \in Save : SaveReplay(r)) \/ DeliverClip
  <2>1. CASE UNCHANGED vars
    BY <2>1 DEF vars
  <2>2. CASE (\E h \in Hdr : CaptureHdrScreenshot(h)) \/ HdrTimeout \/ AutoTick \/ SettingsRestart
    <3>1. ASSUME NEW h \in Hdr, CaptureHdrScreenshot(h) PROVE saves' = saves
      <4>1. \E hwnd \in Games, foreground \in Window : UNCHANGED <<worker, toGui, saves, app, events>>
        BY <3>1, ZenonT(30) DEF CaptureHdrScreenshot
      <4> QED BY <4>1
    <3>2. AutoTick => saves' = saves
      BY ZenonT(60) DEF AutoTick
    <3> QED BY <2>2, <3>1, <3>2 DEF HdrTimeout, SettingsRestart
  <2>3. CASE PrepareForUpdate \/ RevalidationFails \/ CancelUpdatePreparation
    BY <2>3 DEF PrepareForUpdate, RevalidationFails, CancelUpdatePreparation
  <2>4. CASE GuiDeliver
    BY <2>4 DEF GuiDeliver, DeliverState, DeliverRestart, DeliverSaveFinished, DeliverHdr, DeliverUpdateReady
  <2>5. CASE WorkerHandle
    BY <2>5 DEF WorkerHandle, HandleStart, HandleStop, HandleSave, HandlePrepare, HandleCancel,
       HandleHdr, HandleCancelHdr, HandleExported, Handled, WorkerStep
  <2>6. CASE SegmentRolls \/ ReadinessTimer \/ PollFails \/ PollAnswersHdr \/ ExportEnds
    BY <2>6 DEF SegmentRolls, ReadinessTimer, PollFails, PollAnswersHdr, ExportEnds, WorkerStep
  <2> QED BY <2>1, <2>2, <2>3, <2>4, <2>5, <2>6 DEF Next
<1> QED BY <1>5, <1>6, <1>7, <1>8

\* The safety part of SavesAnsweredOnce: the two halves implement SaveRequests.
THEOREM Implements == Spec => Requests!Init /\ [][Requests!Next]_[r \in Save |-> saves[r]]
<1>1. Init => Requests!Init
  BY DEF Init, Requests!Init
<1>2. IInv /\ [Next]_vars => [Requests!Next]_[r \in Save |-> saves[r]]
  BY SaveStep
<1> QED BY <1>1, <1>2, Invariant, PTL DEF Spec

\* An HDR requester is answered once: no later step changes what it has been told.
THEOREM HdrSafety == Spec => [][\A h \in Hdr : hdrs[h] \in Verdict => hdrs'[h] = hdrs[h]]_vars
<1>1. IInv /\ [Next]_vars => [\A h \in Hdr : hdrs[h] \in Verdict => hdrs'[h] = hdrs[h]]_vars
  <2> SUFFICES ASSUME IInv, Next, NEW h \in Hdr, hdrs[h] \in Verdict PROVE hdrs'[h] = hdrs[h]
    OBVIOUS
  <2>1. hdrs \in HdrsType /\ HdrFlow(gui, hdrs) /\ gui \in GuiType /\ toGui \in Seq(Report)
    BY FrontStarts DEF IInv
  <2>2. hdrs[h] # "idle" /\ hdrs[h] # "pending"
    BY DEF Verdict
  <2>3. CASE hdrs' = hdrs
    BY <2>3
  <2>4. ASSUME NEW n \in Hdr, CaptureHdrScreenshot(n) PROVE hdrs'[h] = hdrs[h]
    <3>1. hdrs[n] = "idle"
      BY <2>4 DEF CaptureHdrScreenshot
    <3>2. hdrs' = [hdrs EXCEPT ![n] = "failed"] \/ hdrs' = [hdrs EXCEPT ![n] = "pending"]
      BY <2>4, ZenonT(60) DEF CaptureHdrScreenshot
    <3> QED BY <2>1, <2>2, <3>1, <3>2 DEF HdrsType
  <2>5. CASE HdrTimeout
    <3>1. hdrs[gui.activeHdr] = "pending" /\ hdrs' = [hdrs EXCEPT ![gui.activeHdr] = "failed"]
      BY <2>1, <2>5 DEF HdrTimeout, HdrFlow
    <3> QED BY <2>1, <2>2, <3>1 DEF HdrsType
  <2>6. CASE DeliverHdr
    <3> DEFINE m == Head(toGui)
    <3>1. toGui # <<>> /\ m.type = "hdrDone"
      BY <2>6 DEF DeliverHdr, Arrived
    <3>2. m.token # 0
      <4>1. m \in Report
        BY <2>1, <3>1, Taken
      <4> QED BY <3>1, <4>1, Messages DEF Token
    <3>3. hdrs' = hdrs \/ (m.token = gui.hdr /\ hdrs' = [hdrs EXCEPT ![gui.activeHdr] = m.verdict])
      BY <2>6 DEF DeliverHdr
    <3>4. CASE m.token = gui.hdr
      <4>1. hdrs[gui.activeHdr] = "pending"
        BY <2>1, <3>2, <3>4 DEF HdrFlow
      <4> HIDE DEF m
      <4> QED BY <2>1, <2>2, <3>3, <4>1 DEF HdrsType
    <3> QED BY <3>3, <3>4
  <2>7. hdrs' = hdrs \/ (\E n \in Hdr : CaptureHdrScreenshot(n)) \/ HdrTimeout \/ DeliverHdr
    <3>1. CASE (\E r \in Save : SaveReplay(r)) \/ AutoTick \/ SettingsRestart
      <4>1. \A r \in Save : SaveReplay(r) => hdrs' = hdrs
        BY ZenonT(60) DEF SaveReplay
      <4>2. AutoTick => hdrs' = hdrs
        BY ZenonT(60) DEF AutoTick
      <4> QED BY <3>1, <4>1, <4>2 DEF SettingsRestart
    <3>2. CASE PrepareForUpdate \/ RevalidationFails \/ CancelUpdatePreparation
      BY <3>2 DEF PrepareForUpdate, RevalidationFails, CancelUpdatePreparation
    <3>3. CASE GuiDeliver
      BY <3>3 DEF GuiDeliver, DeliverState, DeliverRestart, DeliverClip, DeliverSaveFinished, DeliverUpdateReady
    <3>4. CASE WorkerHandle
      BY <3>4 DEF WorkerHandle, HandleStart, HandleStop, HandleSave, HandlePrepare, HandleCancel,
         HandleHdr, HandleCancelHdr, HandleExported, Handled, WorkerStep
    <3>5. CASE SegmentRolls \/ ReadinessTimer \/ PollFails \/ PollAnswersHdr \/ ExportEnds
      BY <3>5 DEF SegmentRolls, ReadinessTimer, PollFails, PollAnswersHdr, ExportEnds, WorkerStep
    <3> QED BY <3>1, <3>2, <3>3, <3>4, <3>5 DEF Next
  <2> QED BY <2>3, <2>4, <2>5, <2>6, <2>7
<1> QED BY <1>1, Invariant, PTL DEF Spec
===============================================================================
