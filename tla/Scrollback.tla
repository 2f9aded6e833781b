----------------------------- MODULE Scrollback -----------------------------
(***************************************************************************)
(* What the browser shows of the transcript (Transcript): live replies as   *)
(* they are broadcast, and the stored rows that it is sent as it connects,  *)
(* scrolls back (useHistoryScrollback.ts) or jumps to a date, a day or a    *)
(* range of days at a time (message_store.py), while requests go on.        *)
(*                                                                          *)
(* Of the channels, the chat's.  A row is appended once, so that it stands  *)
(* for its id.  The messages of a batch are sorted into place as they come, *)
(* and its cursor closes it: one step.  The browser's clock is the          *)
(* server's, and the page that clears stays until the clear is over.        *)
(***************************************************************************)
EXTENDS Transcript

CONSTANTS Pages,       \* whether a browser looks on (a subset of BOOLEAN)
          Order,       \* the requests, as they are started
          PastLength,  \* how many of them are over as the browser comes
          BusyTimes,   \* bound: the times of their rows, where more follow
          DayLength,   \* of a day, in clock ticks
          FirstTime,   \* bounds: when the browser comes, the last tick, how
          LastTime,    \* often it connects and how many asks a jump finds
          MaxConnects,
          MaxAsks

ASSUME ScrollbackAssumption ==
  /\ Pages \subseteq BOOLEAN
  /\ Order \in Seq(Req)
  /\ \A i, j \in 1 .. Len(Order) : Order[i] = Order[j] => i = j
  /\ PastLength \in 0 .. MaxTurns /\ PastLength <= Len(Order)
  /\ BusyTimes \subseteq [1 .. 2 * PastLength -> 0 .. FirstTime]
  /\ DayLength \in Nat \ {0}
  /\ FirstTime \in Nat /\ LastTime \in Nat /\ FirstTime <= LastTime
  /\ MaxLives > 1 /\ MaxConnects \in Nat \ {0} /\ MaxAsks \in Nat

VARIABLES
  paged,    \* whether a browser looks on in this behaviour
  now,      \* the clock
  started,  \* when each request was started
  stored,   \* ws_messages: the rows with their times
  airing,   \* replies appended whose broadcast waits for the event loop
  page,     \* the browser is connected, and one of ws_clients
  connects, \* how often it has been
  asks,     \* what it waits to be sent, in order
  batch,    \* what has been read for it and is not yet delivered
  shown,    \* its chat
  loading,  \* loadingRef: a scroll has asked
  reached,  \* reachedBeginningByChannel
  owed      \* the rows that were stored as it connected

clock == <<now, started>>
store == <<stored, airing>>
queue == <<asks, batch>>
chat == <<shown, loading, reached>>
browser == <<page, connects, queue, chat, owed>>
scrollback == <<paged, clock, store, browser>>
all == <<vars, scrollback>>

Nothing == [kind |-> "nothing"]
Day(t) == t \div DayLength
DayStart(t) == DayLength * Day(t)
Times == 0 .. LastTime

Stored(row, t) == [row |-> row, at |-> t]
Live(row, t) == [row |-> row, at |-> t, live |-> TRUE]
Historical(s) == [row |-> s.row, at |-> s.at, live |-> FALSE]

Newest(ms) == CHOOSE t \in {m.at : m \in ms} : \A m \in ms : m.at <= t
Oldest(ms) == CHOOSE t \in {m.at : m \in ms} : \A m \in ms : t <= m.at

-----------------------------------------------------------------------------
(* The store.                                                                *)

Between(start, end) == {s \in stored : s.at >= start /\ s.at < end}
UpTo(t) == Between(0, t + 1)
Batch(start, end) ==
  [kind |-> "batch", messages |-> Between(start, end),
   older |-> Between(0, start) # {}, cursor |-> TRUE]
NoRows == [kind |-> "batch", messages |-> {}, older |-> FALSE, cursor |-> TRUE]

\* Mutant: the day of the cursor, be it empty.
LoadThatDay(before) == Batch(DayStart(before), DayStart(before) + DayLength)

\* load_day: the most recent day that has rows, all of it.
LoadDay(before) ==
  IF UpTo(before) = {} THEN NoRows
  ELSE LET start == DayStart(Newest(UpTo(before)))
       IN Batch(start, start + DayLength)

\* Mutant: a jump loads the day it goes to.
LoadRangeDay(start, end) == Batch(start, start + DayLength)

\* load_range.
LoadRange(start, end) == Batch(start, end)

-----------------------------------------------------------------------------
(* Start: nothing, or the rows of requests that are over.  A question has   *)
(* the time its request began at.                                           *)

PastRow(i) == IF i % 2 = 1 THEN User(Order[(i + 1) \div 2])
              ELSE Reply(Order[i \div 2])
Past == {Order[i] : i \in 1 .. PastLength}
PastTimes ==
  {t \in [1 .. 2 * PastLength -> 0 .. FirstTime] :
     \A i, j \in 1 .. 2 * PastLength : i < j => t[i] <= t[j]}

\* What is left of the bounds goes to the browser alone, or, while a request is
\* run, to a clear as time goes by, or to a restart and to reconnects.
PagedInit ==
  /\ \E t \in PastTimes, busy \in BOOLEAN, spare \in {"clear", "life"} :
       /\ stored = {Stored(PastRow(i), t[i]) : i \in 1 .. 2 * PastLength}
       /\ busy => t \in BusyTimes
       /\ pc = [r \in Req |-> IF r \in Past THEN "done"
                              ELSE IF busy THEN "new" ELSE "dropped"]
       /\ clears = IF busy /\ spare = "clear" THEN 0 ELSE MaxClears
       /\ life = IF busy /\ spare = "life" THEN MaxLives - 1 ELSE MaxLives
       /\ now = IF busy /\ spare = "life" THEN LastTime ELSE FirstTime
       /\ connects = IF busy /\ spare = "clear" THEN MaxConnects - 1 ELSE 0
  /\ answered = Past
  /\ memory = SubSeq(Order, 1, PastLength)
  /\ saved = memory /\ kept = memory
  /\ rows = {s.row : s \in stored}
  /\ requested = FALSE
  /\ clearing = "no"
  /\ late = {} /\ escaped = {}

ScrollInit ==
  /\ paged \in Pages
  /\ IF paged THEN PagedInit ELSE Init /\ now = 0 /\ stored = {} /\ connects = 0
  /\ started = [r \in Req |-> 0]
  /\ airing = {}
  /\ page = FALSE
  /\ asks = <<>> /\ batch = Nothing
  /\ shown = {} /\ loading = FALSE /\ reached = FALSE
  /\ owed = {}

-----------------------------------------------------------------------------
(* The requests, as the browser sees them.                                  *)

\* sendMessage shows the question at once.
StartShown(r) ==
  /\ \A i, j \in 1 .. Len(Order) :
       i < j /\ Order[j] = r => pc[Order[i]] # "new"
  /\ Start(r)
  /\ started' = [started EXCEPT ![r] = now]
  /\ shown' = IF page THEN shown \cup {Live(User(r), now)} ELSE shown
  /\ UNCHANGED <<paged, now, store, page, connects, queue, loading, reached,
                 owed>>

\* _persist_user_chat: the time the request began at, and no broadcast.
AppendUserStored(r) ==
  /\ AppendUserChat(r)
  /\ stored' = IF paged THEN stored \cup {Stored(User(r), started[r])} ELSE {}
  /\ UNCHANGED <<paged, clock, airing, browser>>

\* ws_send: append, then hand the broadcast to the event loop.
EmitReplyStored(r) ==
  /\ EmitReply(r)
  /\ IF paged /\ Reply(r) \in rows'
     THEN /\ stored' = stored \cup {Stored(Reply(r), now)}
          /\ airing' = airing \cup {Reply(r)}
     ELSE UNCHANGED store
  /\ UNCHANGED <<paged, clock, browser>>

\* Mutant: a page is one of ws_clients once it has its history.
HeardAfterReplay == page /\ asks = <<>> /\ batch = Nothing

\* A page is one of ws_clients before it is sent anything.
Heard == page

Broadcast(row) ==
  /\ row \in airing
  /\ airing' = airing \ {row}
  /\ shown' = IF Heard THEN shown \cup {Live(row, now)} ELSE shown
  /\ UNCHANGED <<vars, paged, clock, stored, page, connects, queue, loading,
                 reached, owed>>

\* A clear waits its turn at the page's handler.
ClearMemoryInTurn ==
  /\ ClearMemory
  /\ asks = <<>> /\ batch = Nothing
  /\ UNCHANGED scrollback

\* The rows go, and as it is told so the page drops its chat (clearMessages).
ClearTranscriptShown ==
  /\ ClearTranscript
  /\ stored' = {}
  /\ shown' = {}
  /\ owed' = {}
  /\ UNCHANGED <<paged, clock, airing, page, connects, queue, loading, reached>>

Disconnected ==
  /\ page' = FALSE
  /\ asks' = <<>> /\ batch' = Nothing
  /\ UNCHANGED <<connects, chat, owed>>

NewProcessShown ==
  /\ NewProcess
  /\ airing' = {}
  /\ Disconnected
  /\ UNCHANGED <<paged, clock, stored>>

Tick ==
  /\ paged
  /\ now < LastTime
  /\ now' = now + 1
  /\ UNCHANGED <<vars, paged, started, store, browser>>

-----------------------------------------------------------------------------
(* The page.                                                                *)

DayBefore(t) == [kind |-> "day", before |-> t]
Asking(ask) == asks' = Append(asks, ask)

\* handleOpen wipes the view; the handler's eager load is for all channels,
\* and the remounted panel asks for its own newest day.
Connect ==
  /\ paged /\ ~page
  /\ connects < MaxConnects
  /\ page' = TRUE
  /\ connects' = connects + 1
  /\ asks' = <<[kind |-> "eager"], DayBefore(now)>>
  /\ shown' = {} /\ loading' = FALSE /\ reached' = FALSE
  /\ owed' = {s.row : s \in stored}
  /\ UNCHANGED <<vars, paged, clock, store, batch>>

Disconnect ==
  /\ page
  /\ connects < MaxConnects
  /\ clearing = "no"
  /\ Disconnected
  /\ UNCHANGED <<vars, paged, clock, store>>

\* The newest day of all channels may have no row of the chat.
Answers(ask) ==
  CASE ask.kind = "eager" -> {LoadDay(now), NoRows}
    [] ask.kind = "day"   -> {LoadDay(ask.before)}
    [] ask.kind = "range" -> {LoadRange(ask.start, ask.end)}

\* The handler takes one request at a time; its executor reads.
Read ==
  /\ asks # <<>> /\ batch = Nothing
  /\ clearing = "no"
  /\ \E b \in Answers(Head(asks)) :
       batch' = [b EXCEPT !.cursor = Head(asks).kind # "eager"]
  /\ asks' = Tail(asks)
  /\ UNCHANGED <<vars, paged, clock, store, page, connects, chat, owed>>

\* _send_history_batch, insertMessage and the cursor, which the page heeds if
\* it names a channel.
Deliver ==
  /\ batch # Nothing
  /\ shown' = shown \cup {Historical(s) : s \in batch.messages}
  /\ reached' = IF batch.cursor THEN ~batch.older ELSE reached
  /\ loading' = (loading /\ ~batch.cursor)
  /\ batch' = Nothing
  /\ UNCHANGED <<vars, paged, clock, store, page, connects, asks, owed>>

\* maybeLoad: the top of the chat is in view.
ScrollUp ==
  /\ page
  /\ ~loading /\ ~reached /\ shown # {}
  /\ Oldest(shown) > 0
  /\ Asking(DayBefore(Oldest(shown) - 1))
  /\ loading' = TRUE
  /\ UNCHANGED <<vars, paged, clock, store, page, connects, batch, shown,
                 reached, owed>>

\* loadDaysThrough, of the date picker or of a request clicked elsewhere.
Jump(start) ==
  /\ page
  /\ start = DayStart(start)
  /\ start < IF shown = {} THEN now ELSE Oldest(shown)
  /\ Len(asks) < MaxAsks
  /\ Asking([kind |-> "range", start |-> start,
             end |-> IF shown = {} THEN now ELSE Oldest(shown)])
  /\ UNCHANGED <<vars, paged, clock, store, page, connects, batch, chat, owed>>

-----------------------------------------------------------------------------
RequestNext(r) ==
  \/ LoopReturns(r) \/ LoopRaises(r) \/ CheckUserChat(r) \/ Recall(r)
  \/ CheckRestart(r) \/ Commit(r) \/ CommitFails(r)

ClearGoesOn ==
  \/ (ClearChecksRestart \/ ClearCommits \/ ClearCommitFails)
       /\ UNCHANGED scrollback
  \/ ClearTranscriptShown

ScrollNext ==
  \/ \E r \in Req : StartShown(r) \/ AppendUserStored(r) \/ EmitReplyStored(r)
  \/ \E r \in Req : RequestNext(r) /\ UNCHANGED scrollback
  \/ ClearMemoryInTurn \/ ClearGoesOn \/ NewProcessShown
  \/ RequestRestart /\ UNCHANGED scrollback
  \/ \E row \in Rows : Broadcast(row)
  \/ Tick \/ Connect \/ Disconnect \/ Read \/ Deliver \/ ScrollUp
  \/ \E start \in Times : Jump(start)
  \/ Finished /\ UNCHANGED scrollback

\* The event loop and the executor run; the top of the chat stays in view.
ScrollFairness ==
  /\ WF_all(Read) /\ WF_all(Deliver) /\ WF_all(ClearGoesOn) /\ WF_all(ScrollUp)
  /\ WF_all(\E row \in Rows : Broadcast(row))

ScrollSpec == ScrollInit /\ [][ScrollNext]_all /\ ScrollFairness

-----------------------------------------------------------------------------
(* Properties.                                                              *)

Settled == page /\ asks = <<>> /\ batch = Nothing
Shows(s) == \E m \in shown : m.row = s.row
Due(s) == s.row \in owed \/ (s.row.kind = "reply" /\ s.row \notin airing)

\* "fill the gap, don't punch a hole" (historyJump.ts): with nothing under way,
\* the chat has each stored row from its oldest message on -- those that were
\* stored as the page connected, and the replies since, whichever of replay,
\* broadcast, scroll and jump brought them.
Contiguous ==
  Settled /\ shown # {} =>
    \A s \in stored : s.at >= Oldest(shown) /\ Due(s) => Shows(s)

\* A short panel fills itself: whose top stays in view has all history in the
\* end, over days without rows.
AllShown ==
  <>[]page => <>[](\A s \in stored : s.row \in owed => Shows(s))
=============================================================================
