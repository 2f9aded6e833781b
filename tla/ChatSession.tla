---------------------------- MODULE ChatSession ----------------------------
(***************************************************************************)
(* The WebSocket chat session of src/agent/app/io/websocket_flow.py: one    *)
(* handler coroutine per connection, each with its own                      *)
(* WebsocketSessionState (active task, its cancel event, pending deque),    *)
(* the single-session slot shared by all connections, the interrupt arbiter *)
(* the receive loop awaits, and the worker thread a request runs in.        *)
(*                                                                          *)
(* Everything but the worker thread runs on one asyncio loop, so an action  *)
(* here is the code between two awaits that can suspend.  Messages are      *)
(* numbered in the order the server reads them from any socket.             *)
(***************************************************************************)
EXTENDS Naturals, Sequences

CONSTANTS Conn,        \* connections that may ever be opened
          SessionOf,   \* the session_id each connection carries in its URL
          MaxMsgs,     \* bound: chat messages read over a whole behaviour
          PendingMax,  \* PENDING_MESSAGES_MAXLEN, the deque's maxlen
          None

ASSUME ChatAssumption ==
  /\ MaxMsgs \in Nat
  /\ PendingMax \in Nat \ {0}
  /\ None \notin Conn
  /\ None \notin Nat

Msg == 1 .. MaxMsgs

VARIABLES
  phase,      \* where each websocket_handler coroutine is suspended
  sock,       \* "unopened", "open" or "closed", as the transport sees it
  registered, \* _active_session: the connection in the single-session slot
  displaced,  \* the slot's former holder, a local of _register_session
  active,     \* state.active_message (and active_task, set with it)
  pending,    \* state.pending_messages
  incoming,   \* the message the receive loop is holding for the arbiter
  judged,     \* the active message as it was when the arbiter was asked
  awaited,    \* the task the handler's finally block awaits
  owner,      \* the connection each message arrived on
  status,     \* what became of each message
  cancelled,  \* messages whose cancel event is set
  received    \* number of messages read so far

vars == <<phase, sock, registered, displaced, active, pending, incoming,
          judged, awaited, owner, status, cancelled, received>>

Phases == {"new", "displacing", "greeting", "serving", "arbitrating",
           "clearing", "waiting", "done"}
Statuses == {"unread", "arbitrating", "queued", "fronted", "running",
             "returned", "done", "directive", "dropped", "lost"}

TypeOK ==
  /\ phase \in [Conn -> Phases]
  /\ sock \in [Conn -> {"unopened", "open", "closed"}]
  /\ registered \in Conn \cup {None}
  /\ displaced \in [Conn -> Conn \cup {None}]
  /\ active \in [Conn -> Msg \cup {None}]
  /\ pending \in [Conn -> Seq(Msg)]
  /\ \A c \in Conn : Len(pending[c]) <= PendingMax
  /\ incoming \in [Conn -> Msg \cup {None}]
  /\ judged \in [Conn -> Msg \cup {None}]
  /\ awaited \in [Conn -> Msg \cup {None}]
  /\ owner \in [Msg -> Conn \cup {None}]
  /\ status \in [Msg -> Statuses]
  /\ cancelled \in SUBSET Msg
  /\ received \in 0 .. MaxMsgs

Init ==
  /\ phase = [c \in Conn |-> "new"]
  /\ sock = [c \in Conn |-> "unopened"]
  /\ registered = None
  /\ displaced = [c \in Conn |-> None]
  /\ active = [c \in Conn |-> None]
  /\ pending = [c \in Conn |-> <<>>]
  /\ incoming = [c \in Conn |-> None]
  /\ judged = [c \in Conn |-> None]
  /\ awaited = [c \in Conn |-> None]
  /\ owner = [m \in Msg |-> None]
  /\ status = [m \in Msg |-> "unread"]
  /\ cancelled = {}
  /\ received = 0

-----------------------------------------------------------------------------
(* The bounded deque and its drain.                                         *)

\* deque(maxlen).append: a full deque loses the element at the far end.
PushBack(q, m) ==
  IF Len(q) < PendingMax THEN Append(q, m) ELSE Append(Tail(q), m)

\* deque(maxlen).appendleft.
PushFront(q, m) ==
  IF Len(q) < PendingMax
  THEN <<m>> \o q
  ELSE <<m>> \o SubSeq(q, 1, Len(q) - 1)

\* Statuses st once m has entered deque q as how: the element at lostIndex is
\* what a full deque drops, without a trace.
Enqueued(st, q, m, how, lostIndex) ==
  [x \in Msg |-> CASE x = m -> how
                   [] x # m /\ Len(q) >= PendingMax /\ x = q[lostIndex]
                      -> "dropped"
                   [] OTHER -> st[x]]

\* _start_next_if_idle, entered with active message a, deque q and statuses
\* st, starts the head of the deque if nothing is active.
Starts(a, q) == a = None /\ q # <<>>
ActiveAfter(a, q) == IF Starts(a, q) THEN Head(q) ELSE a
PendingAfter(a, q) == IF Starts(a, q) THEN Tail(q) ELSE q
StatusAfter(a, q, st) ==
  IF Starts(a, q) THEN [st EXCEPT ![Head(q)] = "running"] ELSE st

StartNextIfIdle(c, a, q, st) ==
  /\ active' = [active EXCEPT ![c] = ActiveAfter(a, q)]
  /\ pending' = [pending EXCEPT ![c] = PendingAfter(a, q)]
  /\ status' = StatusAfter(a, q, st)

\* Mutant: one cancel event shared by all connections, as the Roon action tool
\* has it.
CancelShared(c) ==
  cancelled' = cancelled \cup {m \in Msg : status[m] = "running"}

\* active_cancel_event.set(), when there is an active task.
CancelActive(c) ==
  cancelled' = cancelled \cup (IF active[c] = None THEN {} ELSE {active[c]})

-----------------------------------------------------------------------------
(* Connecting: the single-session slot and the greeting.                    *)

\* The slot's holder carries another session id than c.
Evicts(c) == registered # None /\ SessionOf[registered] # SessionOf[c]

\* The handler starts: _register_session takes the slot under its lock, then
\* closes a former holder that carries another session id; one with the same id
\* is left to clean itself up.
Register(c) ==
  /\ phase[c] = "new"
  /\ phase' = [phase EXCEPT ![c] = IF Evicts(c) THEN "displacing" ELSE "greeting"]
  /\ sock' = [d \in Conn |-> CASE d = c -> "open"
                               [] d # c /\ Evicts(c) /\ d = registered -> "closed"
                               [] OTHER -> sock[d]]
  /\ registered' = c
  /\ displaced' = [displaced EXCEPT ![c] = registered]
  /\ UNCHANGED <<active, pending, incoming, judged, awaited, owner, status,
                 cancelled, received>>

\* old_socket.close() returns: the close handshake is over, or timed out.
CloseReturns(c) ==
  /\ phase[c] = "displacing"
  /\ phase' = [phase EXCEPT ![c] = "greeting"]
  /\ UNCHANGED <<sock, registered, displaced, active, pending, incoming, judged,
                 awaited, owner, status, cancelled, received>>

\* The snapshots sent before the receive loop; they need an open socket.
Greet(c) ==
  /\ phase[c] = "greeting"
  /\ sock[c] = "open"
  /\ phase' = [phase EXCEPT ![c] = "serving"]
  /\ UNCHANGED <<sock, registered, displaced, active, pending, incoming,
                 judged, awaited, owner, status, cancelled, received>>

\* The browser tab closes, or the network goes.
ClientCloses(c) ==
  /\ sock[c] = "open"
  /\ phase[c] # "done"
  /\ sock' = [sock EXCEPT ![c] = "closed"]
  /\ UNCHANGED <<phase, registered, displaced, active, pending, incoming,
                 judged, awaited, owner, status, cancelled, received>>

-----------------------------------------------------------------------------
(* The receive loop.  Frames already buffered are still read after a close. *)

ReadMsg(c) ==
  /\ phase[c] = "serving"
  /\ received < MaxMsgs
  /\ received' = received + 1
  /\ owner' = [owner EXCEPT ![received + 1] = c]
  /\ UNCHANGED <<sock, registered, displaced, awaited>>

\* A cancel keyword while a request is active: _handle_keyword_directive.
KeywordDirective(c) ==
  /\ ReadMsg(c)
  /\ active[c] # None
  /\ CancelActive(c)
  /\ status' = [status EXCEPT ![received + 1] = "directive"]
  /\ UNCHANGED <<phase, active, pending, incoming, judged>>

\* A message that finds nothing active is queued and drained at once.
ChatWhenIdle(c) ==
  LET m == received + 1 IN
  /\ ReadMsg(c)
  /\ active[c] = None
  /\ StartNextIfIdle(c, None, PushBack(pending[c], m),
                     Enqueued(status, pending[c], m, "queued", 1))
  /\ UNCHANGED <<phase, incoming, judged, cancelled>>

\* Otherwise the arbiter is asked about the request active now, and the loop
\* reads nothing more until it answers.
AskArbiter(c) ==
  LET m == received + 1 IN
  /\ ReadMsg(c)
  /\ active[c] # None
  /\ phase' = [phase EXCEPT ![c] = "arbitrating"]
  /\ incoming' = [incoming EXCEPT ![c] = m]
  /\ judged' = [judged EXCEPT ![c] = active[c]]
  /\ status' = [status EXCEPT ![m] = "arbitrating"]
  /\ UNCHANGED <<active, pending, cancelled>>

ArbiterAnswers(c) ==
  /\ phase[c] = "arbitrating"
  /\ phase' = [phase EXCEPT ![c] = "serving"]
  /\ incoming' = [incoming EXCEPT ![c] = None]
  /\ judged' = [judged EXCEPT ![c] = None]
  /\ UNCHANGED <<sock, registered, displaced, awaited, owner, received>>

\* _apply_arbiter_decision, action "interrupt_only".
ApplyInterruptOnly(c) ==
  /\ ArbiterAnswers(c)
  /\ CancelActive(c)
  /\ status' = [status EXCEPT ![incoming[c]] = "directive"]
  /\ UNCHANGED <<active, pending>>

\* Action "interrupt_and_replace": cancel, go to the front, drain.
ApplyReplace(c) ==
  LET m == incoming[c]
      q == pending[c]
  IN /\ ArbiterAnswers(c)
     /\ CancelActive(c)
     /\ StartNextIfIdle(c, active[c], PushFront(q, m),
                        Enqueued(status, q, m, "fronted", Len(q)))

\* Mutant: the message is queued without the closing drain.
ApplyQueueNoDrain(c) ==
  LET m == incoming[c]
      q == pending[c]
  IN /\ ArbiterAnswers(c)
     /\ pending' = [pending EXCEPT ![c] = PushBack(q, m)]
     /\ status' = Enqueued(status, q, m, "queued", 1)
     /\ UNCHANGED <<active, cancelled>>

\* Action "queue", also what a failed or disabled arbiter answers.
ApplyQueue(c) ==
  LET m == incoming[c]
      q == pending[c]
  IN /\ ArbiterAnswers(c)
     /\ StartNextIfIdle(c, active[c], PushBack(q, m),
                        Enqueued(status, q, m, "queued", 1))
     /\ UNCHANGED cancelled

ArbiterDecides(c) == ApplyInterruptOnly(c) \/ ApplyReplace(c) \/ ApplyQueue(c)

\* _handle_clear_conversation: refused while this connection has an active
\* task; otherwise the loop awaits the clear, which runs in a thread.
StartClear(c) ==
  /\ phase[c] = "serving"
  /\ active[c] = None
  /\ phase' = [phase EXCEPT ![c] = "clearing"]
  /\ UNCHANGED <<sock, registered, displaced, active, pending, incoming,
                 judged, awaited, owner, status, cancelled, received>>

FinishClear(c) ==
  /\ phase[c] = "clearing"
  /\ sock[c] = "open"
  /\ phase' = [phase EXCEPT ![c] = "serving"]
  /\ UNCHANGED <<sock, registered, displaced, active, pending, incoming,
                 judged, awaited, owner, status, cancelled, received>>

-----------------------------------------------------------------------------
(* Requests: the worker thread and the runner task that awaits it.          *)

\* process_request reaches a terminal in its thread, interrupted or not.
WorkerReturns(m) ==
  /\ status[m] = "running"
  /\ status' = [status EXCEPT ![m] = "returned"]
  /\ UNCHANGED <<phase, sock, registered, displaced, active, pending, incoming,
                 judged, awaited, owner, cancelled, received>>

\* Mutant: the runner clears the slot and starts nothing.
RunnerEndsNoDrain(c) ==
  /\ active[c] # None
  /\ status[active[c]] = "returned"
  /\ active' = [active EXCEPT ![c] = None]
  /\ status' = [status EXCEPT ![active[c]] = "done"]
  /\ UNCHANGED <<phase, sock, registered, displaced, pending, incoming, judged,
                 awaited, owner, cancelled, received>>

\* The finally block of _runner: clear the active slot and drain.
RunnerEnds(c) ==
  /\ active[c] # None
  /\ status[active[c]] = "returned"
  /\ StartNextIfIdle(c, None, pending[c],
                     [status EXCEPT ![active[c]] = "done"])
  /\ UNCHANGED <<phase, sock, registered, displaced, incoming, judged, awaited,
                 owner, cancelled, received>>

-----------------------------------------------------------------------------
(* Leaving: the except and finally blocks of websocket_handler.             *)

\* Mutant: whoever leaves empties the slot.
ClearSession(c) == registered' = None

\* _clear_session_if_current.
ClearSessionIfCurrent(c) ==
  registered' = IF registered = c THEN None ELSE registered

\* A send or a receive raises, or the arbiter's executor call does (its
\* message is then never queued); the active request is cancelled and awaited.
LeaveLoop(c) ==
  /\ \/ phase[c] \in {"greeting", "serving", "arbitrating"}
     \/ phase[c] = "clearing" /\ sock[c] = "closed"
  /\ CancelActive(c)
  /\ awaited' = [awaited EXCEPT ![c] = active[c]]
  /\ status' = [m \in Msg |-> IF m = incoming[c] THEN "lost" ELSE status[m]]
  /\ incoming' = [incoming EXCEPT ![c] = None]
  /\ judged' = [judged EXCEPT ![c] = None]
  /\ IF active[c] = None
     THEN /\ phase' = [phase EXCEPT ![c] = "done"]
          /\ sock' = [sock EXCEPT ![c] = "closed"]
          /\ ClearSessionIfCurrent(c)
     ELSE /\ phase' = [phase EXCEPT ![c] = "waiting"]
          /\ UNCHANGED <<sock, registered>>
  /\ UNCHANGED <<displaced, active, pending, owner, received>>

\* The awaited task is over.  Its runner may have started the next pending
\* message: that one is neither cancelled nor awaited.
HandlerEnds(c) ==
  /\ phase[c] = "waiting"
  /\ status[awaited[c]] = "done"
  /\ phase' = [phase EXCEPT ![c] = "done"]
  /\ sock' = [sock EXCEPT ![c] = "closed"]
  /\ ClearSessionIfCurrent(c)
  /\ UNCHANGED <<displaced, active, pending, incoming, judged, awaited, owner,
                 status, cancelled, received>>

-----------------------------------------------------------------------------
Next ==
  \/ \E c \in Conn :
       \/ Register(c) \/ CloseReturns(c) \/ Greet(c) \/ ClientCloses(c)
       \/ KeywordDirective(c) \/ ChatWhenIdle(c) \/ AskArbiter(c)
       \/ ApplyInterruptOnly(c) \/ ApplyReplace(c) \/ ApplyQueue(c)
       \/ StartClear(c) \/ FinishClear(c)
       \/ RunnerEnds(c) \/ LeaveLoop(c) \/ HandlerEnds(c)
  \/ \E m \in Msg : WorkerReturns(m)

\* Every coroutine that can run is eventually run, every executor call returns
\* (requests are bounded by the tool loop's hard limit and the LLM and Roon
\* timeouts), and a handler notices that its socket is closed.
Fairness ==
  /\ \A c \in Conn :
       /\ WF_vars(CloseReturns(c))
       /\ WF_vars(Greet(c))
       /\ WF_vars(ArbiterDecides(c))
       /\ WF_vars(FinishClear(c))
       /\ WF_vars(RunnerEnds(c))
       /\ WF_vars(sock[c] = "closed" /\ LeaveLoop(c))
       /\ WF_vars(HandlerEnds(c))
  /\ \A m \in Msg : WF_vars(WorkerReturns(m))

Spec == Init /\ [][Next]_vars
FairSpec == Spec /\ Fairness

-----------------------------------------------------------------------------
(* Properties.                                                              *)

InFlight == {"running", "returned"}
Waiting == {"queued", "fronted"}
Settled == {"done", "directive", "dropped", "lost"}

\* The messages of connection c whose status is in S.
Of(c, S) == {m \in Msg : owner[m] = c /\ status[m] \in S}

\* Sequence q holds each element of S once, and nothing else.
Lists(q, S) ==
  /\ S = {q[i] : i \in 1 .. Len(q)}
  /\ \A i, j \in 1 .. Len(q) : i # j => q[i] # q[j]

\* No lost wakeup: a connection with nothing active has nothing pending, so no
\* message waits for a drain that will never come -- not even when the active
\* request ends while the arbiter is being asked (_apply_arbiter_decision's
\* closing start_next_if_idle, tests/test_arbiter_queue_drain.py).
IdleMeansDrained == \A c \in Conn : active[c] = None => pending[c] = <<>>

\* A connection runs one request at a time: the message in flight is exactly
\* the one its session state calls active, so a cancel always has its target.
OneInFlight ==
  \A c \in Conn :
    Of(c, InFlight) = IF active[c] = None THEN {} ELSE {active[c]}

\* A message leaves the pending queue only by being started or by overflow:
\* the queue holds each waiting message of its connection once, and no other.
PendingIsExact == \A c \in Conn : Lists(pending[c], Of(c, Waiting))

\* While a connection's clear runs in its thread, the connection neither runs
\* a request nor can start one.
ClearExcludesOwnRequests ==
  \A c \in Conn : phase[c] = "clearing" => Of(c, InFlight \cup Waiting) = {}

\* A live handler loses the single-session slot only to a later connection:
\* a displaced handler finishing late never evicts its successor.
LatestHoldsSlot ==
  \A c \in Conn :
    /\ phase[c] \notin {"new", "done"}
    /\ \A d \in Conn : displaced[d] # c
    => registered = c

\* An arbiter's interrupt cancels the request it was asked about, or, when that
\* one ended during the call, the one that followed it; never another.
ArbiterHitsJudgedOrSuccessor ==
  [][\A c \in Conn :
       phase[c] = "arbitrating" /\ phase'[c] = "serving" =>
         \A m \in cancelled' \ cancelled :
           m = judged[c] \/ (m = active[c] /\ status[judged[c]] = "done")]_vars

\* Every message the server reads is settled: answered, taken as a directive,
\* dropped by the full queue, or lost with its handler -- after a disconnect or
\* a takeover too, when its connection is gone.
EveryMessageSettles ==
  \A m \in Msg : (m <= received) ~> (status[m] \in Settled)

=============================================================================
