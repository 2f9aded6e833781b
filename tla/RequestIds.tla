----------------------------- MODULE RequestIds -----------------------------
(***************************************************************************)
(* How a request gets its id rq-cNN-NNNN and its log directory: the         *)
(* ConversationTracker, the RequestIdGenerator around it, the opening of    *)
(* process_request that rolls the day, classifies, mints and makes the      *)
(* directory, the persisted snapshot and the restart that restores it.      *)
(*                                                                          *)
(* Requests run in threads of their own and may overlap.  next_id, roll_day *)
(* and capture_state hold the generator's lock; classification and          *)
(* clear_active change the tracker without it.                              *)
(***************************************************************************)
EXTENDS Integers, FiniteSets

CONSTANTS Req,         \* requests over a whole behaviour
          IdleTimeout, \* conversation_idle_timeout_seconds, in clock ticks
          DayOf,       \* local_day: the calendar day of each clock tick
          MaxTime,     \* bound: the clock's last tick
          MaxLives,    \* bound: agent processes, one after the other
          MaxOverlap,  \* bound: requests in progress at one time
          MaxClears,   \* bound: clears of the conversation
          ClearLives,  \* bound: the processes in which one may happen
          None

Ids == (Nat \ {0}) \X (Nat \ {0})

ASSUME IdsAssumption ==
  /\ IdleTimeout \in Nat \ {0}
  /\ MaxTime \in Nat \ {0}
  /\ DayOf \in [1 .. MaxTime -> Nat \ {0}]
  /\ \A s, t \in 1 .. MaxTime : s <= t => DayOf[s] <= DayOf[t]
  /\ MaxLives \in Nat \ {0}
  /\ MaxClears \in Nat
  /\ None \notin Ids

VARIABLES
  now,       \* the wall clock; 0, which the code reads as "never", is before it
  life,      \* which agent process this is
  tracker,   \* ConversationTracker's fields
  gen,       \* RequestIdGenerator's fields
  clearing,  \* how far clear_conversation_state has got
  clears,    \* number of clears begun
  saved,     \* the agent_state row of the last commit: a set of at most one
  pc,        \* where each request's process_request is
  id,        \* the id minted for each request
  minted,    \* the process and the day of each mint
  dir,       \* each request's log directory, while it is on disk
  committed  \* requests minted before some committed snapshot

vars == <<now, life, tracker, gen, clearing, clears, saved, pc, id, minted,
          dir, committed>>

Mints == [life : Nat \ {0}, day : Nat \ {0}]
Dirs == [day : Nat \ {0}, conv : Nat \ {0}, seq : Nat \ {0}]
IsByConversation(f, S) ==
  /\ f = [x \in DOMAIN f |-> f[x]]
  /\ \A x \in DOMAIN f : x \in Nat \ {0} /\ f[x] \in S

IsTracker(t) ==
  /\ t = [threads |-> t.threads, current |-> t.current,
          next_num |-> t.next_num, last_time |-> t.last_time]
  /\ t.threads \subseteq Nat \ {0}
  /\ t.current \in Nat
  /\ t.next_num \in Nat \ {0}
  /\ t.last_time \in 0 .. MaxTime
IsGen(g) ==
  /\ g = [sequence |-> g.sequence, conv_sequences |-> g.conv_sequences,
          last_conv |-> g.last_conv, day |-> g.day]
  /\ g.sequence \in Nat
  /\ IsByConversation(g.conv_sequences, Nat)
  /\ g.last_conv \in Nat \ {0}
  /\ g.day \in Nat \ {0}

Stages == {"new", "rolled", "classified", "minted", "running", "done",
           "failed", "dropped"}
Underway == {"rolled", "classified", "minted", "running"}

-----------------------------------------------------------------------------
(* ConversationTracker.                                                     *)

NewTracker(start) ==
  [threads |-> {}, current |-> 0, next_num |-> start,
   last_time |-> 0]

\* current_id: the next number when there is no current conversation.
CurrentId(t) == IF t.current # 0 THEN t.current ELSE t.next_num

MintNew(t) ==
  [threads |-> t.threads \cup {t.next_num},
   current |-> t.next_num, next_num |-> t.next_num + 1, last_time |-> now]

Idle(t) == t.last_time # 0 /\ now - t.last_time >= IdleTimeout
OpensNew(t) == t.current = 0 \/ Idle(t)

AssignByTimeout(t) ==
  IF OpensNew(t) THEN MintNew(t) ELSE [t EXCEPT !.last_time = now]

\* reassign_current ignores a conversation it does not know.
ReassignCurrent(t, x) ==
  IF x \in t.threads
  THEN [t EXCEPT !.current = x, !.last_time = now]
  ELSE t

-----------------------------------------------------------------------------
(* RequestIdGenerator.                                                      *)

\* The last sequence number given out in conversation x.
Counter(g, x) ==
  IF x \in DOMAIN g.conv_sequences THEN g.conv_sequences[x] ELSE 0

\* _roll_day: a new day drops the threads and the counters.
DayChanged == DayOf[now] # gen.day
RolledTracker == IF DayChanged THEN NewTracker(1) ELSE tracker
RolledGen ==
  IF DayChanged
  THEN [sequence |-> 0, conv_sequences |-> [x \in {} |-> 0],
        last_conv |-> CurrentId(NewTracker(1)), day |-> DayOf[now]]
  ELSE gen

\* The generator after it has given out an id in conversation x: on a switch the
\* outgoing conversation's counter is saved and the incoming one's loaded.
Switched(g, x) ==
  [g EXCEPT !.conv_sequences =
     [y \in DOMAIN g.conv_sequences \cup {g.last_conv} |->
        IF y = g.last_conv THEN g.sequence ELSE g.conv_sequences[y]]]
\* Mutant: the incoming conversation's counter is not loaded.
GivenUnloaded(g, x) ==
  IF x = g.last_conv
  THEN [g EXCEPT !.sequence = g.sequence + 1]
  ELSE [Switched(g, x) EXCEPT !.sequence = 1, !.last_conv = x]

Given(g, x) ==
  IF x = g.last_conv
  THEN [g EXCEPT !.sequence = g.sequence + 1]
  ELSE [Switched(g, x) EXCEPT !.sequence = Counter(g, x) + 1, !.last_conv = x]

\* _resume_counters: what today's log directories say.
LoggedToday == {dir[r] : r \in {s \in Req : dir[s] # None}}
Today(x) == {d.seq : d \in {e \in LoggedToday : e.day = DayOf[now] /\ e.conv = x}}
ConvsToday == {d.conv : d \in {e \in LoggedToday : e.day = DayOf[now]}}
IsLargest(m, S) == \A n \in S : n <= m
Largest(S) ==
  IF \E m \in S : IsLargest(m, S) THEN CHOOSE m \in S : IsLargest(m, S) ELSE 0
ScannedStart == Largest(ConvsToday) + 1
ScannedGen ==
  [sequence |-> 0, conv_sequences |-> [x \in ConvsToday |-> Largest(Today(x))],
   last_conv |-> ScannedStart, day |-> DayOf[now]]

\* restore_state: the saved row replaces what the scan found, and the day is
\* derived from the last request's time (current_day).
Snapshot == [tracker |-> tracker, gen |-> gen]
RestoredDay(t) == IF t.last_time # 0 THEN DayOf[t.last_time] ELSE DayOf[now]

\* Mutant: the in-flight counter is not restored.
RestoredAtZero(s) ==
  [s.gen EXCEPT !.day = RestoredDay(s.tracker), !.sequence = 0]

Restored(s) == [s.gen EXCEPT !.day = RestoredDay(s.tracker)]

-----------------------------------------------------------------------------
TypeOK ==
  /\ now \in 1 .. MaxTime
  /\ life \in 1 .. MaxLives
  /\ IsTracker(tracker)
  /\ IsGen(gen)
  /\ clearing \in {"no", "threads", "pointer", "time"}
  /\ clears \in 0 .. MaxClears
  /\ \A s \in saved : IsTracker(s.tracker) /\ IsGen(s.gen)
  /\ pc \in [Req -> Stages]
  /\ id \in [Req -> Ids \cup {None}]
  /\ minted \in [Req -> Mints \cup {None}]
  /\ dir \in [Req -> Dirs \cup {None}]
  /\ committed \subseteq Req

Init ==
  /\ now = 1
  /\ life = 1
  /\ tracker = NewTracker(1)
  /\ gen = [sequence |-> 0, conv_sequences |-> [x \in {} |-> 0],
            last_conv |-> 1, day |-> DayOf[1]]
  /\ clearing = "no"
  /\ clears = 0
  /\ saved = {}
  /\ pc = [r \in Req |-> "new"]
  /\ id = [r \in Req |-> None]
  /\ minted = [r \in Req |-> None]
  /\ dir = [r \in Req |-> None]
  /\ committed = {}

\* Bounds: the clock, clears and restarts matter while a mint is still to come.
Expecting == \E r \in Req : pc[r] = "new"
Minting == Expecting \/ \E r \in Req : pc[r] \in {"rolled", "classified"}

Advance(r, from, to) ==
  /\ pc[r] \in from
  /\ pc' = [pc EXCEPT ![r] = to]

-----------------------------------------------------------------------------
(* process_request, up to its terminal.                                     *)

RollDay(r) ==
  /\ Advance(r, {"new"}, "rolled")
  /\ Cardinality({s \in Req : pc[s] \in Underway}) < MaxOverlap
  /\ tracker' = RolledTracker
  /\ gen' = RolledGen
  /\ UNCHANGED <<now, life, clearing, clears, saved, id, minted,
                 dir, committed>>

\* apply_assignment, is_new.
ClassifyNew(r) ==
  /\ Advance(r, {"rolled"}, "classified")
  /\ tracker' = MintNew(tracker)
  /\ UNCHANGED <<now, life, gen, clearing, clears, saved, id, minted, dir,
                 committed>>

\* apply_assignment to a conversation the tracker still knows.
ClassifyContinue(r) ==
  /\ Advance(r, {"rolled"}, "classified")
  /\ \E x \in tracker.threads :
       tracker' = ReassignCurrent(tracker, x)
  /\ UNCHANGED <<now, life, gen, clearing, clears, saved, id, minted, dir,
                 committed>>

\* assign_by_timeout looks up a current thread that clear_active has dropped
\* and not yet unset: a KeyError.
LookupFails(t) == ~OpensNew(t) /\ t.current \notin t.threads

\* next_id, after classification or without one: it is off, fails, times out or
\* answers nothing usable.
NextId(r) ==
  LET t == AssignByTimeout(RolledTracker)
      g == Given(RolledGen, t.current)
  IN /\ Advance(r, {"rolled", "classified"}, "minted")
     /\ ~LookupFails(RolledTracker)
     /\ tracker' = t
     /\ gen' = g
     /\ id' = [id EXCEPT ![r] = <<t.current, g.sequence>>]
     /\ minted' = [minted EXCEPT ![r] =
          [life |-> life, day |-> g.day]]
     /\ UNCHANGED <<now, life, clearing, clears, saved, dir, committed>>

NextIdRaises(r) ==
  /\ Advance(r, {"rolled", "classified"}, "failed")
  /\ LookupFails(RolledTracker)
  /\ tracker' = RolledTracker
  /\ gen' = RolledGen
  /\ UNCHANGED <<now, life, clearing, clears, saved, id, minted,
                 dir, committed>>

\* RequestLogger's constructor makes today's directory for the id, or reuses the
\* one that is there.
OpenLog(r) ==
  /\ Advance(r, {"minted"}, "running")
  /\ dir' = [dir EXCEPT ![r] = [day |-> DayOf[now], conv |-> id[r][1],
                                seq |-> id[r][2]]]
  /\ UNCHANGED <<now, life, tracker, gen, clearing, clears, saved,
                 id, minted, committed>>

Persist ==
  /\ saved' = {Snapshot}
  /\ committed' = committed \cup
       {r \in Req : id[r] # None /\ minted[r].life = life}

\* A terminal of the request, and its persist_state.
Finish(r) ==
  /\ Advance(r, {"running"}, "done")
  /\ Persist
  /\ UNCHANGED <<now, life, tracker, gen, clears, clearing, id,
                 minted, dir>>

\* persist_state is skipped once a restart is requested, and swallows a failure.
FinishUnsaved(r) ==
  /\ Advance(r, {"running"}, "done")
  /\ UNCHANGED <<now, life, tracker, gen, clearing, clears, saved,
                 id, minted, dir, committed>>

-----------------------------------------------------------------------------
(* clear_conversation_state, in a thread of its own.                        *)

ClearStep(from, to) == clearing = from /\ clearing' = to

\* clear_active drops the threads first ...
ClearThreads ==
  /\ ClearStep("no", "threads")
  /\ clears < MaxClears
  /\ life \in ClearLives
  /\ Minting
  /\ clears' = clears + 1
  /\ \E r \in Req : pc[r] # "new"
  /\ tracker' = [tracker EXCEPT !.threads = {}]
  /\ UNCHANGED <<now, life, gen, saved, pc, id, minted, dir,
                 committed>>

\* ... then the pointer to the current one ...
ClearPointer ==
  /\ ClearStep("threads", "pointer")
  /\ tracker' = [tracker EXCEPT !.current = 0]
  /\ UNCHANGED <<now, life, gen, clears, saved, pc, id, minted, dir,
                 committed>>

\* ... and the time of the last request, a later one's if that got in between.
ClearTime ==
  /\ ClearStep("pointer", "time")
  /\ tracker' = [tracker EXCEPT !.last_time = 0]
  /\ UNCHANGED <<now, life, gen, clears, saved, pc, id, minted, dir,
                 committed>>

\* The emptied state is persisted, then the log directories are removed, those of
\* running requests too.
ClearOnDisk ==
  /\ ClearStep("time", "no")
  /\ Persist
  /\ dir' = [r \in Req |-> None]
  /\ UNCHANGED <<now, life, tracker, gen, clears, pc, id, minted>>

\* The same when persist_state is skipped or fails.
ClearOnDiskUnsaved ==
  /\ ClearStep("time", "no")
  /\ dir' = [r \in Req |-> None]
  /\ UNCHANGED <<now, life, tracker, gen, clears, saved, pc, id,
                 minted, committed>>

-----------------------------------------------------------------------------
Tick ==
  /\ now < MaxTime
  /\ Minting \/ \E r \in Req : pc[r] = "minted"
  /\ now' = now + 1
  /\ UNCHANGED <<life, tracker, gen, clearing, clears, saved, pc,
                 id, minted, dir, committed>>

\* The process ends, in a crash, a shutdown or a restart, and a new one is
\* constructed: attach_persistence scans the logs and restores the saved row.
Restart ==
  /\ life < MaxLives
  /\ Expecting
  /\ life' = life + 1
  /\ \/ /\ saved = {}
        /\ tracker' = NewTracker(ScannedStart)
        /\ gen' = ScannedGen
     \/ \E s \in saved : tracker' = s.tracker /\ gen' = Restored(s)
  /\ clearing' = "no"
  /\ pc' = [r \in Req |-> IF pc[r] \in {"new", "done", "failed"} THEN pc[r]
                          ELSE "dropped"]
  /\ UNCHANGED <<now, clears, saved, id, minted, dir, committed>>

\* All requests are over: the model's only end.
Finished ==
  /\ \A r \in Req : pc[r] \in {"done", "failed", "dropped"}
  /\ UNCHANGED vars

Next ==
  \/ \E r \in Req :
       \/ RollDay(r) \/ ClassifyNew(r) \/ ClassifyContinue(r)
       \/ NextId(r) \/ NextIdRaises(r) \/ OpenLog(r)
       \/ Finish(r) \/ FinishUnsaved(r)
  \/ ClearThreads \/ ClearPointer \/ ClearTime
  \/ ClearOnDisk \/ ClearOnDiskUnsaved
  \/ Tick \/ Restart \/ Finished

Spec == Init /\ [][Next]_vars

-----------------------------------------------------------------------------
(* Properties.                                                              *)

Minted == {r \in Req : id[r] # None}

\* Within one process no id is given out twice on a day, whatever classification,
\* clears, idle timeouts and midnights happen between and during the mints.
IdsUniqueInLife ==
  \A r, s \in Minted :
    /\ r # s
    /\ minted[r].life = minted[s].life
    /\ minted[r].day = minted[s].day
    => id[r] # id[s]

\* Across restarts too, an id that a committed snapshot knows of is not given
\* out again that day to another request that gets committed.
CommittedNeverReused ==
  \A r, s \in committed :
    r # s /\ minted[r].day = minted[s].day => id[r] # id[s]

=============================================================================
