# Swarpius: a TLA+ verification project

Swarpius is an LLM assistant for the Roon music system: a Python agent
(`src/agent`) that serves a React client over one WebSocket, runs each chat
message through a tool-calling loop, drives Roon over a socket of its own, and
keeps transcript and working memory in SQLite. This directory models the parts
of it where order, overlap, crashes and timers decide whether it is correct,
model-checks them with TLC, and proves the main invariants of the core with
TLAPS for every value of the constants.

## 1. Inventory

Every component is listed in `PROJECT.json` with its sources; the ones with
state that matters:

| Component | State | Operations | What is hard | What makes it correct |
|---|---|---|---|---|
| Chat session, `app/io/websocket_flow.py` | per connection: active task, cancel event, pending deque(20); shared: the single-session slot | register, read, keyword cancel, ask the arbiter and apply its answer, drain, clear, disconnect | awaits between reading and using state; takeover; full deque | no lost wakeup, the slot goes to the latest, every message settles |
| Request ids, `request_logger.py`, `conversation_tracker.py`, `diagnostic_agent.py` | current conversation, counters per conversation, day; log directories | roll, classify, mint, capture, restore, scan, clear | classification outside the lock, midnight, an old snapshot | ids unique; committed ids never reused |
| Process lifecycle, `agent.py`, `auto_shutdown.py`, `restart_signal.py`, `swarpius.py` | shutdown and restart flags, timers, connection count | connect, disconnect, timers, save-and-restart, signals, respawn | timers against late disconnects and each other | never quits under a browser, the bundle ends, a restart restarts |
| Roon connection, `roon_core/connection.py`, `auth.py`, `discovery.py`, `backend_health.py`, `app/coordinator` | pairing files, `_init_lock`, health state, `roon_state` of every page | find a Core, ask for approval, write files, initialise, poll, broadcast | boot thread against requests, faults between steps, messages out of order | paired is usable, asked once, the page continues |
| Transcript and memory, `request_flow.py`, `state.py`, `persistence.py`, `message_store.py` | chat rows, history deque(5), `agent_state` row, restart flag | terminals of a request, commit, clear, restore; replay, scroll-back, jump | separate commits, flag read twice, crash anywhere; replay against broadcast | snapshot and transcript agree; the page has no holes |
| Tool loop, `app/llm/tool_loop.py` | messages, step counter, cancel slot | LLM call, tool batches, cancel | parallel batches, limits, requests side by side | ends within its limit, stops asking once cancelled |
| Result store, `result_store_manager.py`, `result_store_recovery.py` | entries, history, counter | mint, drill down, evict, recover | two caps; references with slips | a listed handle resolves, to its own search |
| Library actions, `tools/roon_action.py` | plan, errors, cursor, cancel flag | probe, route, dispatch, report, auto-start | an item may be anything; answers lost; cancels | the report is honest, the queue is kept, nothing else is played |
| Parallel browse, `roon_core/parallel_browse.py` | futures by request id, late ids | send, answer, time out, reconnect | late and foreign answers | a call gets its own answer or None |
| Browse sessions, `browse_session.py`, `browse.py`, `reference_tools.py` | slot pool, leases, references | search, drill, act, correct, recover, restore | concurrent tools, unanswered calls, recycling | two operations never share a cursor |
| Queue references, `queue_references.py`, `events.py` | reference map, cached list, subscription | full list, insert, remove, reconnect, restore, clear | events against snapshots and reconnects | a reference never changes its item |
| Zones, `zone_domain.py`, `config_action_service.py` | aliases, default zone, last broadcast | set, rename, resolve, reconcile, persist | names that move with grouping | an alias stays with its output, the client is not left stale |
| Histories and stop marker, `play_history.py`, `listening_history.py`, `stop_marker.py` | deques and table, debounce timer, cached key | push, record, save, dispatch a stop | repeats, restart, two stops on one session | what was heard is on record; a stop is honest |
| Settings, `app/settings`, `io/poller` | `.env`, `os.environ`, cached settings, verdict | save, reload, validate, probe, boot | three copies read at different times | the verdict is on the present settings |
| Analyser, `agent/analyser`, `app/analysis` | files per conversation, lessons | dispute, scan, analyse, publish | crash between renames, failures of calls | judgements are filed, disputes settle |

How they interact: the handler runs on the asyncio loop and starts
`process_request` in an executor thread; that thread classifies and mints an id,
runs the tool loop, emits events on a synchronous bus (whose subscribers append
transcript rows and broadcast), and commits the snapshot. Tools reach Roon
through the browse sessions, whose calls go through the futures of the patched
socket; Roon's events arrive on that socket's thread and feed zones, histories
and queue references. The clear runs in another thread. Settings'
save-and-restart sets the restart flag and arms a timer for the shutdown; the
process exits 75 and the supervisor starts another one, which restores the
snapshot before it serves. The analyser reads finished conversations' logs from
a thread of its own.

## 2. How the modules fit together

| Module | Extends | Run (module, configuration) | Proofs |
|---|---|---|---|
| `ChatSession` | | `chat` (`MCChatSession`, `ChatSession.cfg`) | `ChatSessionProofs` |
| `RequestIds` | | `ids` (`MCRequestIds`, `RequestIds.cfg`) | `RequestIdsProofs` |
| `Startup` | `Lifecycle` | `startup` (`MCStartup`, `Startup.cfg`) | `StartupProofs` |
| `Scrollback` | `Transcript` | `transcript` (`MCScrollback`, `Transcript.cfg`) | `TranscriptProofs` |
| `ParallelBrowse` | implements `RequestReply` | `parallel_browse` | `ParallelBrowseProofs` |
| `BrowseSessions` | | `browse_sessions` | `BrowseSessionsProofs` |
| `ToolLoop` | `ResultStore`; implements `RequestRun` | `tool_loop` | `ToolLoopProofs` |
| `LibraryAction` | `Recovery` | `library_action` | `ParallelBrowseProofs` |
| `QueueFeed` | `QueueReferences` | `queue_feed` | `ParallelBrowseProofs` |
| `Playback` | `Zones` | `playback` (`MCPlayback`) | `PlaybackProofs` |
| `Settings` | | `settings` (`MCSettings`) | `StartupProofs` |
| `Analyser` | | `analyser` | |

`RequestReply` and `RequestRun` are abstract specifications, of what the callers
of the browse layer and the user of a request are promised; the runs check them
as temporal properties (`Promised`, `Bounded`) under a refinement mapping.
`Startup`, `Scrollback` and `Playback` are compositions: each takes the actions
of the module it extends, adds what a second component does in the same step, and
has the actions of its own beside them. `ResultStore`, `Recovery` and
`QueueReferences` are operators on one value: the methods of a class whose lock
makes each call atomic.

Mutant operators ("Mutant: ..." in a comment) stand before the definition they
replace; each one is a plausible bug that one property must detect.
`TypeOK` documents the types in every module with state; it is proved in
`ChatSession`, `RequestIds`, `Transcript`, `ParallelBrowse` and `ToolLoop`, and was
checked on the instances of `Settings`, `BrowseSessions` and `Startup`.

What could come next: retention pruning beside `Transcript`; a composition of
`ChatSession` with `ToolLoop` for what a takeover does to the cancel slot.

## 3. The models, their runs and bounds

What the passing runs check:

| Run | Property | In words |
|---|---|---|
| `chat` | `IdleMeansDrained` | a connection with nothing active has nothing pending |
| | `LatestHoldsSlot` | a live handler loses the slot only to a later connection |
| | `ArbiterHitsJudgedOrSuccessor` | an arbiter's interrupt cancels what it was asked about, or what followed it |
| | `EveryMessageSettles` | every message read is answered, taken as a directive, dropped or lost with its handler |
| `ids` | `IdsUniqueInLife`, `CommittedNeverReused` | no id twice in a process and day; none that a commit knows of, across restarts |
| `startup` | `PairedIsUsable` | shown as paired means initialised and connected |
| | `NeverQuitsOnLiveClient`, `BundleQuits`, `RestartHonoured` | AutoShutdown spares live browsers, ends without them, and one restart restarts |
| | `AskedOnce` | a Core that was granted is not asked for again, unless it is removed |
| | `PageContinues` | a page that stays with a paired agent ends up with the app |
| `transcript` | `SavedTurnsInTranscript`, `CommittedTurnsRemembered` | the restored memory holds nothing the user cannot see, and loses nothing committed |
| | `Contiguous`, `AllShown` | the chat has no holes from its oldest message on, and fills itself |
| `parallel_browse` | `NothingSwallowed` | the library gets every reply meant for it, but for calls left over from an earlier socket |
| | `Promised` | every call ends, with its own answer or None, unless its socket is replaced while it waits (`RequestReply`) |
| `browse_sessions` | `NeverShareCursor` | two operations never work on one session |
| | `MisledOnlyOnSuspect` | another item is opened only in a session that was left unsure |
| `tool_loop` | `HistoryResolves`, `HandlesNameTheirSearch` | listed handles resolve; a handle leads to its own search or nowhere; both but for what a clear beside another connection's request does |
| | `Bounded` | a request ends within its limit (`RequestRun`) |
| `library_action` | `ReportIsHonest`, `QueueingKeepsTheQueue`, `NeverPlaysOther` | the top line tells what was played; queueing replaces nothing; no other item is played |
| `queue_feed` | `RefsFollowQueue`, `ShownRefsResolve`, `FeedCatchesUp` | references are those of the cached list and keep their item while the map is kept; the list catches up |
| `settings` | `VerdictIsCurrent` | at rest the verdict is on the present settings, named exceptions apart |
| | `BackendRecovers` | a service that is back turns green, unless a backend before it goes on raising |
| `analyser` | `SettledAreFiled`, `DisputesSettle`, `EveryConversationIsAnalysed` | judgements reach the history; disputes settle; what a model takes is analysed, unless it is too old by then |
| `playback` | `AliasFollowsOutput`, `DefaultIsKept`, `StaleIsRepairable` | aliases and default stay with their output; the client is not left with an old default |
| | `StopIsHonest` | a stop reports what it did, after one attempt before its search and one after |
| | `HeardIsOnRecord`, `HistoryIsSaved` | what suppresses a repeat is on record, and the history is saved, but for what a failed write leaves |

Some state an exception (`overtaken`, `escaped`, `intact`, `suspect`, `stale`, `excused`,
`crossed`, `torn`, `lost`, `spoilt`): these are history variables or conditions that mark exactly where
the code promises less, and section 5 names each such place.

### ChatSession

An action is the code between two awaits that can suspend, since everything but
the worker threads runs on one asyncio loop. `phase[c]` is where connection
`c`'s `websocket_handler` is suspended; `active`, `pending` are its
`WebsocketSessionState`; `registered` is `_active_session`; `incoming` and
`judged` are locals held across the arbiter call. `Register` is
`_register_session` to its await; `ChatWhenIdle`, `KeywordDirective` and
`AskArbiter` are the three ends of the chat branch; `ApplyInterruptOnly`,
`ApplyReplace`, `ApplyQueue` are `_apply_arbiter_decision`;
`StartClear`/`FinishClear` are `_handle_clear_conversation`; `RunnerEnds` is the
runner's `finally` with the drain it makes; `LeaveLoop`/`HandlerEnds` are the
handler's `except`/`finally`. The message's text and the arbiter's reasons are
abstracted.

Run `chat`: 2 connections, 4 messages, a deque of 2. Four messages are one
active, a full deque, and one that overflows it, at either end; two connections
let one disconnect with work pending while the other runs. Deadlock is not
checked: once all messages are read and all handlers are done, the system rests.
*Fairness*: the asyncio loop runs what can run; executor calls return (the tool
loop has a hard step limit, LLM and Roon calls have timeouts); a handler whose
socket is closed notices. Clients owe nothing.

### RequestIds

`tracker` and `gen` are the fields of `ConversationTracker` and
`RequestIdGenerator`; a request goes through `RollDay`, `ClassifyNew` or
`ClassifyContinue` (or neither: classification off, failed or timed out),
`NextId`, `OpenLog`, `Finish`/`FinishUnsaved`. `roll_day`, `next_id` and
`capture_state` hold the generator's lock and are atomic. `clear_active` changes
the tracker in two steps without it; a mint between them raises `KeyError`
(`NextIdRaises`). `Restart` is the constructor of a new process: the log scan,
replaced by the saved row when there is one. `minted` is history.

Run `ids`: 3 requests, 2 overlapping, 3 clock ticks in 2 days, 2 processes, one
clear in the first. Three ids are needed to leave a conversation and return; two
ticks a day let the idle timeout pass within a day. `MaxTime`, `MaxLives`,
`MaxClears`, `ClearLives` and `MaxOverlap` are bounds for TLC only.
*Assumption*: the calendar does not go back (`DayOf` is monotonic).

### Lifecycle and Startup

`Lifecycle`: native or bundle, one process after the other under the supervisor.
`SignalShutdown` is `_signal_shutdown` with its forced exit; `Connect`, `Depart`
and `AutoFire` are `AutoShutdown`; `SaveAndRestart` sets the flag and arms a
timer; `LoopEnds` and `MainEnds` are the end of the server and of `main`;
`SuperviseEnds` and `Respawn` are `run_supervised`. Timers have no duration - an
armed one may fire any time - which covers every ratio of the 2 s and 60 s
graces to what the browser does.

`Startup` adds what each life does to bring Roon up. `Begin` takes `_init_lock`
for the boot thread or a request; `FindCore`, `Ask`, `Approval`, `WriteFiles`,
`OpenApi`, `Reapproval` are `RoonConnection(...)` with its two pairing files,
truncated and then written one after the other; `Wire` and `Finish` the rest of
`ensure_initialised`; `Drop`, `Reconnect`, `Poll` the health monitor; `ReadState`,
`SendState`, `SendStatus` and `Broadcast` what a page is told, the payload being
read on a worker thread and sent later. `Screen` is what the client shows.

Run `startup`: three scenarios, chosen by `bound`. The lifecycle alone (time 3,
2 saves per process, a signal, 2 browsers, bundle or not); a fresh install (1
browser, 2 Cores, a restart, a fault); a paired install with pages (2 browsers, a
fault). The crash loop has a threshold of 2 restarts in a window of 1 tick.
Deadlock is checked: the only end is the supervisor's return. The extension is
removed only between lives, and an outage lasts until the poll has seen it.
*Fairness*: the loop fires its timers; a closing server closes its connections
and their handlers end; processes that can go on do; pages are sent their state,
and polls come. Browsers, saves, signals, Roon's user and the network owe nothing.

### Transcript and Scrollback

`Transcript`: `pc` is how far each `process_request` has got past its tool loop;
`rows` are the chat rows of `ws_messages`; `memory` is the history deque, `saved`
its snapshot. The check of the restart flag and the append or commit it allows
are steps of their own, as in the code. `NewProcess` may happen anywhere: crash,
shutdown or restart. `late`, `kept` and `escaped` are history: `escaped` holds
the turns that a clear's skipped or failed commit left in the snapshot, which
`SavedTurnsInTranscript` excepts.

`Scrollback` gives the rows their times and adds a browser: what it shows live,
what it is sent as it connects (the eager load of all channels, then the chat's
newest day), as its top comes into view (`ScrollUp`) and as it jumps. `LoadDay`
and `LoadRange` are `load_day` and `load_range`; a batch and its cursor are one
delivery.

Run `transcript`: 3 requests, history of 2, 3 processes, one clear, failing
commits. Without a browser (`Pages` has FALSE) all of this applies. With one, what the bounds leave goes to the browser
alone, over every choice of times for the rows of two past requests (days of 2
ticks, up to time 4); or, with the times of `BusyTimes`, to one more request with
a clear, or with a restart and a reconnect. `Shared = FALSE` is what one
connection guarantees (`OneInFlight` and `ClearExcludesOwnRequests`, proved of
`ChatSession`); with overlapping connections the invariants do not hold. Assumed:
the browser's clock is the server's, and the page that clears stays until the
clear is over. *Fairness*: the handler reads and delivers, the event loop
broadcasts, a clear goes on, and a page whose top is in view scrolls.

### ParallelBrowse and RequestReply

`Enter`, `Send`, `SendFails`, `Returns`, `ReturnsNone`, `Expire` and `GiveUp` are
`_send_and_wait`; `OnMessage` is the locked half of `_patched_on_message` and
`Resolve` its unlocked half, so that a timeout may come between. The library's
own requests share the socket and its ids. Run `parallel_browse`: 2 calls, 2
requests of the library, 3 sockets: a call that times out can meet its answer, the
other's, and a reconnect of each kind. A new socket counts its ids from 1 again, so a
Future, or an id recorded as timed out, that outlives its socket can meet an answer of
the new one. `RequestReply` calls such a call `astray` (`Outlive`) and lets it be told
`foreign` (`Mislead`); `NothingSwallowed` excepts the replies it takes from the
library. *Fairness*: threads run and timeouts fire; no answer is ever owed.

### BrowseSessions

`core` is the cursor the Core keeps per session, `depth` and `listed` what the
program believes of it; `refs` are the references with their session, key and
recipe (positions). `BeginDrill` is `acquire`; `Reset`, `Walk` are
`_position_session`; `Relocate`, `Recover` are `_semantic_recover` on a leased and
on one more session; `Drill`, `Finish` are the drill, `Act`, `ActFails`,
`ActCorrected` a library action without and with the category correction;
`Commit`, `Restart` the snapshot. Run `browse_sessions`: 2 threads, 2 searches, 2
slots, 3 sessions handed out (so the pool wraps), 2 references, lists of 2, depth
3 (an album's track). One kind of fault per behaviour (`Undisturbed`,
`Corrected`): an unanswered call, a category correction, or a crash. `Allowed`
leaves out three things that break the properties and that the code does not
prevent by itself: two drills of one reference, an action beside another
request's drills, and a pool that comes round to a slot in use.

### ResultStore, ToolLoop and RequestRun

`ResultStore` is `ResultStoreManager`: each method runs under its lock and is an
operator. In `ToolLoop` a request goes `ready`, `asking`, `tools`, `trace`, and
back; `Batches` are the parallel-safe calls in groups and the others one by one;
`SearchReturns`, `ActsOnItem`, `ActionReturns` are the tools, `Store` and `Trace`
what becomes of their results; `slot` is the Roon action tool's cancel event.
`ClearEntries`, `ClearHistory` and `ClearCounter` are the three statements of
`clear_conversation_state` on the store: they run on a thread of their own and
without the store's lock, so the requests of other connections go on between them
(one clear at a time; each statement before or after a whole method of the store). A
request over which the counter was reset is in `crossed`: its handles are given out
again, to other searches. `torn` says that something was stored between the
statements: handles above the counter are then in the store or the history, and will
be given out twice. Both are history variables, and the two properties except what
they mark. Run `tool_loop`: 2 overlapping requests, numbered in the order they begin,
2 steps and the final question, 2 calls a step and in all, any number of clears, a
history of 1 and a store of 2: both caps overflow while a handle is in a running
request's messages, and two searches are enough to give out a handle twice.
`Run!Spec` is safety and liveness: a request ends, asking at most once more than
its limit and not at all once cancelled but for the last text. *Fairness*: the
model answers or its client times out, and so do the tools. Deadlock is not
checked: all requests end.

### Recovery and LibraryAction

`Recovery` is `result_store_recovery.py`: `Distance` is Levenshtein as a recursive
function, `Recover` the only item of a title or the nearest reference. In
`LibraryAction`, `Probe`, `Route`, `Snapshot`, `ResolveEntry`, `Acted`/`ActFailed`,
`Report` and `AutoStart` are the library path of `run_async`; `Plans` is the
routing matrix, with every order of a shuffled pool. Roon may perform an entry
and lose the answer. Run `library_action`: up to 2 items of every kind, albums of
2 tracks, counts -1, 0, 1 and none; two items are what tells a multi-item request
from a single one. The recovery scenario has one item to play, 2 references, 2
slips (one as near to both), 3 titles and a store of up to 2. Deadlock is not
checked: a call ends.

### QueueReferences and QueueFeed

A map gives each queued item its reference; its inverse is derived. `Deliver`
handles one event on the socket's thread (`OnFullList`, `OnInsert`, `OnRemove`,
`OnZonesAdded`, `OnZonesRemoved`); `Start`, `Restore` are the constructor, which
subscribes before the snapshot is restored; `ReadQueue`, `ShowQueue` are
`get_queue_status`, which reads the list and then the references; `Commit`,
`Clear`, `Crash`, `FeedReconnects` what happens besides. Run `queue_feed`: 2 items
ever queued, 2 events in flight, 2 shown references, 2 sockets, a restart, an
invalidated list of 1 (so that it is trimmed). Where a zone returns with the queue it
had, references are minted anew and without end; `MaxReferences` (3) bounds them, and
from there on it returns empty. `intact` marks where the code makes
no promise of `RefsFollowQueue`: after a clear, and when an event overtakes the
restore, until the next full list. What is shown of an item that the map does not hold
gets a random reference, which leads nowhere (0, and not `known`); so does, from then
on, what was shown before the map was dropped. `ShownRefsResolve` is about the others.
*Fairness*: the connection delivers, the Core answers a subscription, the agent starts.

### Zones and Playback

`Zones`: a zone is a sequence of outputs with a display name that moves with
grouping; `anchors` are the aliases, `disk` their file of output names, `pref` and
`label` the default zone, `lastState` what `reconcile_zone_state` compares,
`shown` the client's copy. `ToolSetDefault` runs under `zone_state_lock`;
`ControlSetDefault` and `SendDefault` are the control message, which sends outside
it. `Playback` adds what plays (`Follow` on regrouping) and `HandleStateEvent`, the
listeners in their order. The listening history takes one zone after the other:
`Remember` is the title under its lock, `Record` the row, which may fail (`lost`);
`DeleteRows` and `ForgetTitles` are the two halves of its `clear`, on another thread.
The play history's timer starts `BeginSave`, the copy under the lock; `WriteHistory` is
the write outside it, which may fail or come after a newer one (`spoilt`). The
simulated stop has its cached key, one browse session for all stops, its retry and the
pause; `tries` and `again` count its attempts before and after the search.

Run `playback`: 2 outputs, 3 names (a rename and its reuse), 2 aliases, 2 titles,
histories of 2, 2 stops at a time, a fault, 2 saves under way, 2 lives; `Mixes` bounds
which kinds of change a behaviour has, and how many: 4 of aliases, zones and renames; 3
of the default zone, zones and renames; 2 of stops and plays; 3 of plays, clears and
zones, which is enough for two saves that end in the wrong order and for a clear between
two plays.
*Fairness*: events are delivered and handled, the timer fires and its save ends.

### Settings

`file`, `environ` and `cached` are the three copies. `get_settings` takes no lock: `Load`
builds settings from an empty cache, `Reads` assigns them later (`loading`), and `stale`
says that what was assigned was out of date by then. `ReadFile`/`ReplaceFile` are
`set_key`, `ReloadEnv`, `ResetCache`, `Answer` the rest of a save: when the client is
gone the answer raises and nothing is validated (`excused`, as after a reload). `Start`,
`Check`, `Conclude`, `Abort` are a validation, which a malformed backend URL makes
raise; `Boot`, `Build`, `ChatBuilds` who builds the clients. The poller goes through
the two backends in their order (`PollOnce`, `Probe`, `Update`); an exception ends the
pass (`ProbeRaises`), so that the ones behind are not reached.

Run `settings`: 2 providers, 1 handler; a second concurrent handler loses updates to the
file, see section 5. `Scenes` are the bounds a behaviour may have: 2 saves (one that
mends model and URL, one that removes a key and breaks the URL) or reloads in one
process; 1 in two processes; or both backends, services that come and go, one URL
malformed at first and 1 save that mends it: the poller's pass against everything a save
does.
*Fairness*: a save's thread, validations, boot and poller go on; deadlock is not
checked for the bounds on saves and lives.

### Analyser

`LoopTick`, `ScanAndAnalyse` and `RunAnalysis` take the scan lock; `RecoverAndList`,
`TakeUp`, `ExtractLesson`, `Validate` work off disputes, `Consolidate` the
lessons, `AnalyseBatch`/`AnalyseAlone` the conversations; `WriteAnalysis`,
`PublishHistory`, `UnlinkFeedback` are the renames of `write_analysis`. Operators
write in two steps beside all this. Run `analyser`: 2 conversations, one too large
for any model, in one batch; one of yesterday and one of today, and a midnight
(`MaxDays` 2), after which the older one is no longer eligible; 2 findings, 2 disputes, one operator, one click, one
fault, two lives, a history of 2 and a consolidation at 2 lessons. Two operators
break `SettledAreFiled` (a cancel racing a submit overwrites its file); so does one
whose write comes after as many further analyses as the history holds, for it puts
back a settled dispute that was filed and has been rotated out (with a history of 1
and one click of Re-Analyse; the default holds 20).
*Fairness*: the lock's holder runs, the loop wakes, a write begun is made, and
time passes.

## 4. What is proved

Every theorem is for all values of the constants that satisfy the module's named
assumption. Where it needs more, the hypothesis is part of its statement and named
here.

`ChatSessionProofs`: `TypeOK`, `IdleMeansDrained`, `OneInFlight`,
`PendingIsExact`, `ClearExcludesOwnRequests`, `LatestHoldsSlot` and
`ArbiterHitsJudgedOrSuccessor`, for any
connections, sessions, number of messages and queue length at least 1
(`ChatAssumption`). None of the first five is inductive alone: a drain is only
right if the deque lists exactly the waiting messages of its connection, what is
in flight is exactly the active message, and a message held for the arbiter is in
neither. The conjunction, with the type invariant and "a clearing connection is
idle", is `IInv`. Lemmas on the deque (`PushBackLists`, `PushFrontLists`,
`PopLists`) say what appending, prepending with overflow, and popping do to the set
a queue lists; `Drain`, `EnqueueBack` and `EnqueueFront` lift them to one
connection; each action then has its own step. The slot has an invariant of its
own, `SlotInv`. The arbiter's target needs one step more: what is done stays done,
so that the request asked about is either still active or over (`JudgedInv`).

`RequestIdsProofs`: `TypeOK`, `IdsUniqueInLife` and `CommittedNeverReused` for any
number of requests, processes, clears and overlaps, and any monotonic calendar
(`IdsAssumption`). The invariant: the counters, in flight or saved at a switch, cover
every id still at risk - minted by this process or known to a commit - and the
saved row's counters cover every committed one (`CoverInv`, `SavedInv`), while the
generator's day is never ahead of the clock nor of the last request (`TimeInv`),
which is what makes deriving the day after a restart sound. A fresh id is then
larger than all ids of its conversation and day.

`StartupProofs`, about `Startup` with the `Lifecycle` under it, for any browsers,
Cores, faults, signals and lives (`StartupAssumption`: the names of Cores are none
of the words that the files and the callers use). `PairedIsUsable` rests on the
lock: one call at a time goes through the stages, it began uninitialised, and what
it made stays (`PairedInv`). `AskedOnce` is about the two files: a token belongs to
the Core whose id was written before it, so a crash between the two renames leaves
no token for another Core, and each stage finds the files as the one before left
them (`FilesInv`, `StagesInv`, `TargetInv`). `NeverQuitsOnLiveClient` needs that the
count is that of the connected browsers (`CountInv`).

`TranscriptProofs`: `TypeOK` for every value of the constants, and
`SavedTurnsInTranscript`, `LateLeaveNothing` and `CommittedTurnsRemembered` for any
number of requests, clears,
processes and any history length, assuming `~Shared`: requests and clears do not
overlap, which `ChatSessionProofs` establishes for the messages of one connection.
(`transcript` checks the same instance; with `Shared` they do not hold.) None is
inductive alone, for a restart may be asked for at any step. The invariant follows
a turn: past its user row a request has one unless the flag is set (`AskedInv`);
the memory holds a turn without its row only while the flag is set and no commit
is under way (`MemoryInv`), so no commit writes one (`SavedInv`); and a clear leaves
the memory empty and accounts for the snapshot before it removes the rows
(`ClearInv`). That nothing committed is lost is a statement about order: memory and
snapshot hold the kept turns in the order of their commits, and miss only those
that a full history pushed out, oldest first (`Holds`, `Ordered`). A turn whose
commit fails has its place in the deque all the same, so with a history of 1 even
the last committed turn may go; the property says so (`CommitsFail`). A page
changes nothing of this (`SoWithAPage`), whose steps are `Transcript`'s or leave its
variables alone.

Of the page itself, `Contiguous`, for any requests, whoever shares the conversation.
What makes it inductive is a promise for each point a cursor may stand at: a row
that was stored as the page came and is not before that point is shown, or is in
the batch under way, or has the very time of a day still to be asked for
(`Coming`, `Filled`). It holds of the oldest message shown (`ShownInv`), the oldest
of the batch (`BatchInv`), where each ask in the queue ends (`AskInv`), and now
(`NowIsFilled`, which needs that an empty chat still waits for its first day,
`EmptyInv`). A day is loaded whole, so reading one keeps the promise whatever was
appended since it was asked for (`LoadDayFills`). A reply stored later reaches the
page by its broadcast (`LiveInv`), and rows are stored once (`FreshInv`).

Also there, about `Settings` (whose definitions carry its name, since one module of
proofs extends both): `VerdictIsCurrent` for any handlers, updates, writes that fail
and restarts. `SettingsInv` follows who still owes a validation: unless one is asked
for or about to be, or the last change asks for none, what is validated, or was, is the
environment as it stands, and the cache is the environment's except between a reload
and the reset, or when a reader has filled it with what it built before.

`ParallelBrowseProofs`: `TypeOK`, `NothingSwallowed` and the safety half of
`RequestReply` (`Promise!Safety`), over any number of sockets that count from 1 again: a
call that asked is told its own answer or None, once, or its socket was replaced while
it waited. The invariant says whom an id of the present socket belongs to, in every
table that holds it: one call, or one request of the library (`CallInv`, `WireInv`,
`TableInv`), and beside it only calls of earlier sockets; and the reply being
handled outside the lock is that of the call it was claimed for (`HandlingInv`).

Also there, about `LibraryAction`, the tool that makes the calls: `ReportIsHonest`,
`QueueingKeepsTheQueue` and `NeverPlaysOther`, for any items, tracks, counts, titles
and references (`LibraryAssumption`, `RecoveryAssumption`). Routing is a function of
the request, so the first half is lemmas about operators: a plan has entries only of
items that were not turned away, only appending ones where the request appends, and
one for every item when it left no error (`RouteSuits`: `Suits`, `Covers`), whatever
the order of the shuffle; what is recovered by title is the one nearest reference
(`RecoveredIsNearest`). The invariant then counts: what was counted was performed,
and only with every entry counted are the errors those of routing (`DispatchInv`).
That `FlattenSeq` holds what its sequences hold and that `Distance` is a number,
both recursive functions, goes by induction over a set of numbers (`UpTo`).

And about `QueueFeed`, whose items that tool queues: `RefsFollowQueue` and
`ShownRefsResolve`, for any number of items, events in flight, connections and
restarts, assuming of the Core what its actions say: every item queued is a new one,
and a connection delivers in order. The operators of `QueueReferences` come first
(`MintIs`, `InvalidateIs`, `ReconcileIs`: a map stays injective, keeps what it has,
and has references for exactly the items one expects), then lists cut and pasted
(`WithoutIs`, `WithItemIs`). An event is right only for the list it was made for, so
the invariant says that there is a past: the Core's list as it was at the last event
handled and at each one on its way, every event leading from one to the next
(`Follows`, `Leads`). No item comes back in it (`NoneBack`), which is why a
reference of the map that was shown and is gone is not missed (`Known`), and why a snapshot may
be put in place of a map that events have changed.

`BrowseSessionsProofs`: `NeverShareCursor`, for any threads, pool and tree, over
unanswered calls, corrections and crashes, assuming `Ordinary`: none of the three
overlaps that the module names and the code does not prevent. A drill reserves its
session in `acquire` but may leave it: `_semantic_recover` goes to a slot that
nothing reserves. That is safe because recycling took every other reference's key,
so a drill of one of those starts by recovering elsewhere (`AloneThere`); keys come
back only on the session of the operation that finds them. `CursorInv` and
`BorrowInv` need each other and, for the bookkeeping, `OpInv`.

Also there, under the same assumption and that a tree with corrections has a second
category (`PlaceAssumption`): `MisledOnlyOnSuspect`. A key is good (`Good`) when the
reference may stand for it, it was found in the search the session's cursor is still
in, at the positions recorded, and the depth the program tracks is the cursor's: then
the reset leads to the root and the positions lead to the key again (`FreshIs`). Every
reference of a session that is not suspect is (`RefsInv`), and so are those of a
snapshot, where the cursors were when it was taken (`SavedInv`). Around it: an
operation finds the cursor at the root when it walks and the drilled list when it
finishes (`ReadyInv`), a leased session has no keys (`LeasedInv`), and the recovery
session, whose depth goes on from where it was, is at its root until a reference is
bound to it, and always has one from then on (`RecoveryInv`). Three frames carry the
actions: a step on an operation's own session (`OwnKeeps`), on a slot nobody works
on (`SlotKeeps`), or on neither (`QuietKeeps`).

`ToolLoopProofs`, with the store's operators: `TypeOK`; `HandlesNameTheirSearch` for
any caps and clears, by an invariant of the store (`Listed`, `Names`) that every method
keeps, and a clear's statements as well unless the store is torn (`OrderInv`; the types
hold even then, `Shaped`);
`HistoryResolves` assuming `Room`, a history cap between 1 and one less than the
store's, as the defaults of 5 and 50 are: eviction spares the history's handles,
and `Room` makes sure there is another one to evict (`Roomy`). With the caps the
other way round it does not hold. And the safety half of `RequestRun`
(`Run!Safety`): at most `Limit` + 1 questions, none but the final one once
cancelled, one end (`AskInv`, `WorkInv`).

`PlaybackProofs`, about `Playback` with the `Zones` under it: `StopIsHonest` from
what each stage of a stop's record implies (`Sound`); `HeardIsOnRecord`, which is
inductive once the clears under way are counted (`HeardInv`); `AliasFollowsOutput` from "an alias that is not stale is anchored on its
output or on the name its output has" and unique, stable output names (`AliasInv`,
`RoonInv`); `DefaultIsKept` as a property of steps; `StaleIsRepairable` from what
`lastState` means between two events (`DefaultInv`).

Only model-checked: all liveness, and with it the liveness halves of `Promised` and
`Bounded`, which the prover cannot do; and `SettledAreFiled` of `Analyser`, which is
no theorem: it depends on how the history's length compares with the analyses that
can pass while an operator's write is under way (section 3). That `Distance` in
`Recovery` is the Levenshtein distance is nowhere stated; proved is that it is a number.

## 5. Seen while modelling

Places where the code and what is written about it differ, or where it does
less than one would expect. None of them is a run of its own: where a property is
concerned, it states the exception.

Conversation and transcript
- The clear's guard looks at its own connection, its effect is global
  (`websocket_flow.py:449`; line 444 and `state.py:726` say that no request is in
  flight then): the counter it resets gives handles out again under the other
  connection's request; a new connection can read rows while an old handler's clear is
  under way.
- `restore_state` brings back counters that reuse the ids, and log directories,
  of uncommitted requests (`request_logger.py:238`, docstring 100-103). Overlapping
  requests share the tracker between classification and mint
  (`request_flow.py:794`).
- A second save-and-restart forces exit 0 and ends the program
  (`websocket_flow.py:1134`, `agent.py:642`).
- The restart flag set between the user row and the reply leaves an answer
  without its question (`request_flow.py:922`); set before a clear, it makes the clear
  leave the snapshot (`state.py:779`).
- `state_db.py` and `persistence.py` describe transcript and snapshot as one
  transaction, but each row commits as it is appended; `agent.py` says `os._exit`
  skips the executor's join, but `asyncio.run` has joined it by then.
- A reply broadcast between `ws_clients.add` (`websocket_flow.py:827`) and the
  replay (936) is sent twice; a page that reconnects during a request gets its reply
  without the question; a message typed between a clear and its acknowledgement
  leaves the view.
- The clear drops queue references still shown (`state.py:745`), and the cached list
  is shown with random ones until Roon sends it anew, however often the model fetches it
  as `events.py:178` advises; `queue_references.py:26` says references persist for the
  item's lifetime in the queue. The queue feed subscribes before its snapshot is restored.

Tools and Roon
- The action tool's cancel slot is overwritten by an overlapping request
  (`tool_loop.py:262`, `request_flow.py:770`).
- `README.md:96` calls the store's eviction LRU; it is first-in first-out. A cap of
  zero evicts nothing.
- An action performed whose answer is lost is reported failed; a count of 0 that
  empties a shuffle raises `IndexError`; with nothing to do the report is SUCCESSFUL;
  a failed first Play Now still queues the rest; auto-start follows a cancel.
- The same reference under two handles ties with itself in recovery; a fuzzy
  ratio of 0.85 takes "Symphony No. 5" for "No. 6"; evicted references are not
  judged.
- A crash restores browse depths that the Core's cursors have left
  (`browse_session.py:278`), so positions may lead elsewhere; a recycled slot may be
  in use.
- The request ids of a new socket begin again while an old one's Futures wait
  (`parallel_browse.py:139`; lines 12-16 promise a Future of its own to each call, over
  reconnections too): the answer to another request reaches such a Future.

Startup
- The state sent to a page as it connects may be overtaken by a newer broadcast
  (`websocket_flow.py:892`, `agent.py:676`), which `PageContinues` excepts.
- A boot that failed leaves `roon_state` at "failed" although a request has
  initialised everything since; `_reset_partial_init` drops a connection without
  stopping it; a stale token makes `RoonApi(...)` wait without a deadline while it
  holds `_init_lock`; a lost discovery packet can select another Core.

Zones and playback
- The first state event of a life is remembered and not broadcast
  (`zone_domain.py:362`); a default that changes and changes back before an event
  is never corrected; an absent preferred output counts as online when another zone
  takes its last label; a default zone chosen in the web client is not committed
  until the next request completes.
- Renaming an alias overwrites an existing one; a failed save of the alias file
  is not retried; `play_history.flush` is never called, and a save that fails is
  not tried again before the next push (`play_history.py:267`): the documents promise
  nothing about it; after a restart the playing
  track is pushed again.
- A listening that could not be written counts as recorded
  (`listening_history.py:67-82`; line 9: "recorded once when it becomes the active
  title"). Its `clear` is two steps, not
  one as `websocket_flow.py:460` has it: a play between them is recorded twice.

Settings and analyser
- A save whose client is gone validates nothing (`websocket_flow.py:272`; line 1115:
  "every successful save"); `get_settings` may leave old settings behind a reset
  (`core.py:284`; lines 281 and 290 say the reset gives a fresh reading).
- A backend whose probe raises keeps the poller from those after it
  (`backend_health.py:52-60`; line 3: "every pollable backend").
- A conversation that is not analysed by the end of the day after its own never is,
  not even by the button (`analyse.py:452-460`; `browser.py:565`: "the only bound is the
  retention window").
- A removed key stays in `os.environ` until the next process; a reload
  validates nothing; a failure at run time, during a validation or by a client of old
  settings, is lost or charged to the new ones; two concurrent saves lose updates; a
  malformed backend URL makes a validation raise and leaves it "validating".
- Scan from the UI returns before pending disputes are worked off when there is
  nothing to analyse; a dispute accepted between the verdict and the removal of
  the feedback file is lost; a crash between analysis and history loses the
  superseded analysis though the docstring says all-or-nothing; a fatal refusal
  leaves a dispute "processing" for ten minutes and ends the loop; a history cap of
  0 keeps everything.

## 6. Not modelled, and why

- *Text and formatting*: prompts, sanitising, nudges, event payloads, the console,
  wording of results, metrics. They change no state the properties are about.
- *Single calls*: transport, volume and settings actions, image and audio proxies.
- *External services*: LLM providers, Roon Core and `roonapi`, SearXNG, the TTS
  model. What they may answer is a choice in the modules that call them.
- *Event bus*: synchronous; the order of its subscribers is the order of the calls
  the modules make.
- *Cost ledger and retention*: sums and ages with no control of their own. Retention
  prunes a user row by the start of its request and a turn by its end; this, and the
  trim of a page at `MAX_MESSAGES`, is the next thing `Transcript` could take up.
- *Steps within steps*: `Settings.from_env` reads the variables one by one, and
  `get_settings` may return an empty cache that another thread has just reset; two
  saves of the play history share one temporary file, of which only whole copies are
  modelled.
- *Variants*: Docker (exit 0, compose respawns), Windows consoles, the command line
  start, several zones' queues, channels other than the chat.

## 7. Running

    tlc -workers 2 -config ChatSession.cfg MCChatSession.tla
    tlapm ChatSessionProofs.tla

`settings` takes three minutes; `startup`, `transcript`, `tool_loop`, `analyser` and
`playback` one to two; the others less.
