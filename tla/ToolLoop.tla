------------------------------ MODULE ToolLoop ------------------------------
(***************************************************************************)
(* run_tool_loop: ask the model, run the tool calls it answers with, store   *)
(* what they found, ask again.  Requests share the result store, and the     *)
(* one slot in which the Roon action tool finds the cancel event it polls.   *)
(* A request runs beside another after a takeover or in a second tab         *)
(* (ChatSession).                                                            *)
(***************************************************************************)
EXTENDS ResultStore

CONSTANTS Req,          \* requests, 1, 2, ...
          None,         \* no request
          Limit,        \* hard_limit
          MaxCalls,     \* bound: tool calls of one answer
          MaxParallel,  \* ROON_MAX_PARALLEL
          Parallel,     \* PARALLEL_TOOLS
          Items,        \* items of one Roon action
          Overlap,      \* whether requests run beside each other
          MaxMade       \* bound: tool calls of all requests

ASSUME LoopAssumption ==
  /\ None \notin Req
  /\ Req = 1 .. Cardinality(Req)
  /\ Limit \in Nat \ {0} /\ MaxCalls \in Nat \ {0} /\ MaxParallel \in Nat \ {0}
  /\ Items \in Nat /\ MaxMade \in Nat /\ Parallel \in BOOLEAN /\ Overlap \in BOOLEAN

VARIABLES
  pc,         \* where each request is
  outcome,    \* how it ended
  asks,       \* completions asked for it
  cancelled,  \* its cancel event
  calls,      \* the tool calls of its current step
  batches,    \* groups of calls still to run, by position
  running,    \* positions of the calls now running
  found,      \* session each call's result lists, 0 for none or an error
  next,       \* position of the call whose result is stored next
  items,      \* items its action still has to dispatch
  told,       \* <<handle, session>> pairs in its messages
  slot,       \* roon_action's cancel_event: the request it belongs to
  results,    \* the result store
  clearing,   \* how far a clear of it has got
  crossed,    \* requests that ran while a clear reset the handle counter
  torn,       \* whether a result was stored between the steps of the last clear
  sessions,   \* browse sessions opened so far
  made        \* tool calls made so far

loop == <<pc, outcome, asks>>
clear == <<clearing, crossed, torn>>
step == <<calls, batches, running, found, next, items>>
vars == <<loop, cancelled, step, told, slot, results, clear, sessions, made>>

Safe == {"search", "drill"}
Stages == {"new", "ready", "asking", "tools", "trace", "final", "ended"}
InLoop(r) == pc[r] \notin {"new", "ended"}

\* Where the requests are.
ControlTypes ==
  /\ pc \in [Req -> Stages]
  /\ outcome \in [Req -> {"none", "completion", "step_limit", "interrupted",
                          "error"}]
  /\ asks \in [Req -> 0 .. Limit + 1]
  /\ cancelled \in [Req -> BOOLEAN]
  /\ slot \in Req \cup {None}
  /\ sessions \in Nat /\ made \in 0 .. MaxMade

\* What a step is made of.
WorkTypes ==
  /\ calls \in [Req -> Seq([tool : Safe \cup {"action"}, session : Nat])]
  /\ batches \in [Req -> Seq(SUBSET Nat)]
  /\ running \in [Req -> SUBSET Nat]
  /\ found \in [Req -> Seq(Nat)]
  /\ next \in [Req -> Nat \ {0}]
  /\ items \in [Req -> 0 .. Items]

TypeOK ==
  /\ ControlTypes /\ WorkTypes
  /\ told \in [Req -> SUBSET (Nat \X Nat)]
  /\ results.history \in Seq([handle : Nat, session : Nat])
  /\ results.counter \in Nat
  /\ clearing \in {"no", "entries", "history"}
  /\ crossed \subseteq Req /\ torn \in BOOLEAN

Init ==
  /\ pc = [r \in Req |-> "new"]
  /\ outcome = [r \in Req |-> "none"]
  /\ asks = [r \in Req |-> 0]
  /\ cancelled = [r \in Req |-> FALSE]
  /\ calls = [r \in Req |-> <<>>]
  /\ batches = [r \in Req |-> <<>>]
  /\ running = [r \in Req |-> {}]
  /\ found = [r \in Req |-> <<>>]
  /\ next = [r \in Req |-> 1]
  /\ items = [r \in Req |-> 0]
  /\ told = [r \in Req |-> {}]
  /\ slot = None
  /\ results = EmptyStore
  /\ clearing = "no" /\ crossed = {} /\ torn = FALSE
  /\ sessions = 0
  /\ made = 0

Set(f, r, value) == [f EXCEPT ![r] = value]

-----------------------------------------------------------------------------
(* The request, and its conversation with the model.                         *)

\* process_request up to the loop: the slot is taken, and the search history is
\* put into the prompt.  Requests are numbered in the order they begin.
Begin(r) ==
  /\ pc[r] = "new"
  /\ \A s \in 1 .. r - 1 : pc[s] # "new"
  /\ Overlap \/ (clearing = "no" /\ \A s \in Req : ~InLoop(s))
  /\ pc' = Set(pc, r, "ready")
  /\ slot' = r
  /\ told' = Set(told, r, {<<e.handle, e.session>> : e \in ToSet(results.history)})
  /\ UNCHANGED <<outcome, asks, cancelled, step, results, clear, sessions, made>>

\* Mutant: the cancel event is looked at before the first step only.
AskOn(r) ==
  /\ pc[r] = "ready" /\ asks[r] < Limit
  /\ asks[r] = 0 => ~cancelled[r]
  /\ pc' = Set(pc, r, "asking")
  /\ asks' = Set(asks, r, asks[r] + 1)
  /\ UNCHANGED <<outcome, cancelled, step, told, clear, slot, results, sessions, made>>

Ask(r) ==
  /\ pc[r] = "ready" /\ asks[r] < Limit
  /\ ~cancelled[r]
  /\ pc' = Set(pc, r, "asking")
  /\ asks' = Set(asks, r, asks[r] + 1)
  /\ UNCHANGED <<outcome, cancelled, step, told, clear, slot, results, sessions, made>>

\* The messages go with the request.
EndsAs(r, how) ==
  /\ pc' = Set(pc, r, "ended")
  /\ outcome' = Set(outcome, r, how)
  /\ told' = Set(told, r, {})
  /\ UNCHANGED <<asks, cancelled, step, clear, slot, results, sessions, made>>

Interrupted(r) ==
  /\ pc[r] = "ready" /\ asks[r] < Limit
  /\ cancelled[r]
  /\ EndsAs(r, "interrupted")

\* Past the hard limit the model is asked once more, without tools and without
\* a look at the cancel event.
AskFinal(r) ==
  /\ pc[r] = "ready" /\ asks[r] = Limit
  /\ pc' = Set(pc, r, "final")
  /\ asks' = Set(asks, r, asks[r] + 1)
  /\ UNCHANGED <<outcome, cancelled, step, told, clear, slot, results, sessions, made>>

AnswersText(r) ==
  \/ pc[r] = "asking" /\ EndsAs(r, "completion")
  \/ pc[r] = "final" /\ EndsAs(r, "step_limit")

ModelFails(r) == pc[r] \in {"asking", "final"} /\ EndsAs(r, "error")

\* The calls a model can make: a drill needs a session it was told of.
Callable(r) ==
  {[tool |-> t, session |-> 0] : t \in {"search", "action"}}
    \cup {[tool |-> "drill", session |-> p[2]] : p \in told[r]}

\* The positions chosen, cut into groups of n, in order.
Chunks(chosen, n) ==
  LET nth == [i \in chosen |-> Cardinality({j \in chosen : j < i})]
  IN [k \in 1 .. (Cardinality(chosen) + n - 1) \div n |->
       {i \in chosen : nth[i] \div n = k - 1}]

\* Parallel-safe calls in batches, then the others one by one.
Batches(cs) ==
  LET safe == {i \in DOMAIN cs : cs[i].tool \in Safe}
  IN IF Parallel /\ Len(cs) > 1
     THEN Chunks(safe, MaxParallel) \o Chunks(DOMAIN cs \ safe, 1)
     ELSE Chunks(DOMAIN cs, 1)

AnswersCalls(r) ==
  /\ pc[r] = "asking"
  /\ \E n \in 1 .. MaxCalls : \E cs \in [1 .. n -> Callable(r)] :
       /\ calls' = Set(calls, r, cs)
       /\ batches' = Set(batches, r, Batches(cs))
       /\ found' = Set(found, r, [i \in 1 .. n |-> 0])
       /\ made' = made + n
  /\ made' <= MaxMade
  /\ pc' = Set(pc, r, "tools")
  /\ UNCHANGED <<outcome, asks, cancelled, running, next, items, told, clear, slot,
                 results, sessions>>

-----------------------------------------------------------------------------
(* The tools.                                                                *)

NextBatch(r) ==
  /\ pc[r] = "tools" /\ running[r] = {} /\ batches[r] # <<>>
  /\ running' = Set(running, r, Head(batches[r]))
  /\ batches' = Set(batches, r, Tail(batches[r]))
  /\ items' = Set(items, r, Items)
  /\ UNCHANGED <<loop, cancelled, calls, found, next, told, clear, slot, results,
                 sessions, made>>

Returns(r, i) == running' = Set(running, r, running[r] \ {i})

\* A search opens a session; a drill lists its search's, or one of its own if
\* that is occupied.  Either may fail or find nothing.
SearchReturns(r, i) ==
  /\ i \in running[r] /\ calls[r][i].tool \in Safe
  /\ Returns(r, i)
  /\ \/ /\ found' = [found EXCEPT ![r][i] = sessions + 1]
        /\ sessions' = sessions + 1
     \/ /\ calls[r][i].tool = "drill"
        /\ found' = [found EXCEPT ![r][i] = calls[r][i].session]
        /\ UNCHANGED sessions
     \/ UNCHANGED <<found, sessions>>
  /\ UNCHANGED <<loop, cancelled, calls, batches, next, items, told, clear, slot,
                 results, made>>

\* The event the action tool polls between items.
Polled == slot # None /\ cancelled[slot]

ActsOnItem(r, i) ==
  /\ i \in running[r] /\ calls[r][i].tool = "action"
  /\ items[r] > 0
  /\ ~Polled
  /\ items' = Set(items, r, items[r] - 1)
  /\ UNCHANGED <<loop, cancelled, calls, batches, running, found, next, told,
                 clear, slot, results, sessions, made>>

ActionReturns(r, i) ==
  /\ i \in running[r] /\ calls[r][i].tool = "action"
  /\ items[r] = 0 \/ Polled
  /\ Returns(r, i)
  /\ UNCHANGED <<loop, cancelled, calls, batches, found, next, items, told,
                 clear, slot, results, sessions, made>>

-----------------------------------------------------------------------------
(* What the calls found is stored, in the order of the calls.                *)

\* store_result_entries, and the handle that goes into the tool message.
Store(r) ==
  /\ pc[r] = "tools" /\ running[r] = {} /\ batches[r] = <<>>
  /\ LET session == found[r][next[r]]
         drill == calls[r][next[r]].tool = "drill"
     IN IF session = 0 THEN UNCHANGED <<results, told>>
        ELSE /\ results' = StoreEntries(results, session, drill)
             /\ told' = Set(told, r, told[r] \cup
                          {<<HandleFor(results, session, drill), session>>})
  /\ pc' = Set(pc, r, "trace")
  /\ UNCHANGED <<outcome, asks, cancelled, step, clear, slot, sessions, made>>

\* on_tool_end: the execution trace puts a long list behind a handle.
Trace(r) ==
  /\ pc[r] = "trace"
  /\ results' \in {results, StoreHandle(results, 0)}
  /\ IF next[r] < Len(calls[r])
     THEN /\ pc' = Set(pc, r, "tools")
          /\ next' = Set(next, r, next[r] + 1)
          /\ UNCHANGED <<calls, found>>
     ELSE /\ pc' = Set(pc, r, "ready")
          /\ next' = Set(next, r, 1)
          /\ calls' = Set(calls, r, <<>>)
          /\ found' = Set(found, r, <<>>)
  /\ UNCHANGED <<outcome, asks, cancelled, batches, running, items, told, clear, slot,
                 sessions, made>>

-----------------------------------------------------------------------------
Cancel(r) ==
  /\ InLoop(r) /\ ~cancelled[r]
  /\ cancelled' = Set(cancelled, r, TRUE)
  /\ UNCHANGED <<loop, step, told, clear, slot, results, sessions, made>>

(* clear_conversation_state, on a thread of its own: three statements, none   *)
(* under the store's lock.  _handle_clear_conversation refuses it while its   *)
(* own connection has a request; another connection's goes on beside it.      *)

\* results.entries.clear()
ClearEntries ==
  /\ clearing = "no"
  /\ Overlap \/ \A r \in Req : ~InLoop(r)
  /\ clearing' = "entries"
  /\ results' = [results EXCEPT !.entries = <<>>]
  /\ UNCHANGED <<loop, cancelled, step, told, slot, crossed, torn, sessions, made>>

\* results.history.clear()
ClearHistory ==
  /\ clearing = "entries"
  /\ clearing' = "history"
  /\ results' = [results EXCEPT !.history = <<>>]
  /\ UNCHANGED <<loop, cancelled, step, told, slot, crossed, torn, sessions, made>>

\* results.counter = 0: the next handle is the first again, whoever was told
\* of the first.
ClearCounter ==
  /\ clearing = "history"
  /\ clearing' = "no"
  /\ results' = [results EXCEPT !.counter = 0]
  /\ crossed' = {r \in Req : InLoop(r)}
  /\ torn' = (Handles(results) # {} \/ results.history # <<>>)
  /\ UNCHANGED <<loop, cancelled, step, told, slot, sessions, made>>

Clear == ClearEntries \/ ClearHistory \/ ClearCounter

Works(r) ==
  \/ Ask(r) \/ Interrupted(r) \/ AskFinal(r) \/ AnswersText(r)
  \/ ModelFails(r) \/ AnswersCalls(r) \/ NextBatch(r) \/ Store(r) \/ Trace(r)
  \/ \E i \in running[r] :
       SearchReturns(r, i) \/ ActsOnItem(r, i) \/ ActionReturns(r, i)

Next == (\E r \in Req : Begin(r) \/ Works(r) \/ Cancel(r)) \/ Clear

\* The model answers or its client times out, and so do the tools.
Fairness == \A r \in Req : WF_vars(Works(r))

Spec == Init /\ [][Next]_vars /\ Fairness

-----------------------------------------------------------------------------
(* Properties.                                                               *)

\* What the search history shows can be fetched, but between a clear's first two
\* statements, and after a clear in the midst of which a result was stored (until
\* one that was left alone): handles are then given out twice, and evicting one
\* takes the other's list.
HistoryResolves ==
  clearing # "entries" /\ ~torn => HistoryHandles(results) \subseteq Handles(results)

\* A handle in a running request's messages leads to the results of its own
\* session, or to nothing; never to those of another search.  Not so for a request
\* of another connection over which a clear reset the counter, nor where results
\* were stored during the clear.
HandlesNameTheirSearch ==
  ~torn => \A r \in Req \ crossed : InLoop(r) =>
    \A p \in told[r] : p[1] \in Handles(results) => results.entries[p[1]] = p[2]

Run == INSTANCE RequestRun

\* A request asks the model a bounded number of times, none once cancelled but
\* for the final one, and ends.
Bounded == Run!Spec

=============================================================================
