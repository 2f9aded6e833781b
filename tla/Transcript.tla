----------------------------- MODULE Transcript -----------------------------
(***************************************************************************)
(* What a request leaves behind: its rows in the chat transcript            *)
(* (message_store.py), its turn in the model's working memory, and the      *)
(* snapshot of that memory that request completion commits                  *)
(* (persistence.py) and the next process restores.  With the restart flag   *)
(* that process_request and persist_state read separately, the clear of the *)
(* conversation, and processes that end at any point.                       *)
(*                                                                          *)
(* A row commits as it is appended; the snapshot is a commit of its own.    *)
(***************************************************************************)
EXTENDS Naturals, Sequences, FiniteSets

CONSTANTS Req,       \* requests over a whole behaviour
          Shared,    \* whether another connection's requests and clears may
                     \* overlap with this one's
          CommitsFail, \* whether a commit of the snapshot may raise
          MaxTurns,  \* ConversationHistoryProvider's max_turns
          MaxLives,  \* bound: agent processes, one after the other
          MaxClears  \* bound: clears of the conversation

ASSUME TranscriptAssumption ==
  /\ {Shared, CommitsFail} \subseteq BOOLEAN
  /\ MaxTurns \in Nat \ {0}
  /\ MaxLives \in Nat \ {0} /\ MaxClears \in Nat

VARIABLES
  pc,        \* where each request's process_request is
  answered,  \* requests whose tool loop returned, and did not raise
  requested, \* restart_signal's flag
  rows,      \* the transcript's chat rows
  memory,    \* conversation_history_provider.history: the turns' requests
  saved,     \* the working_memory row of agent_state
  clearing,  \* how far clear_conversation_state has got
  clears,    \* clears begun
  life,      \* which agent process this is
  late,      \* requests whose tool loop ran after a restart was asked for
  kept,      \* the answered requests committed since the last clear, in order
  escaped    \* turns in the snapshot that a clear's commit did not reach

turns == <<memory, saved>>
clear == <<clearing, clears>>
ghosts == <<late, kept, escaped>>
vars == <<pc, answered, requested, rows, turns, clear, life, ghosts>>

Stages == {"new", "running", "ended", "asking", "asked", "replied", "recalled",
           "committing", "done", "dropped"}
Underway == Stages \ {"new", "done", "dropped"}
Rows == [req : Req, kind : {"user", "reply"}]

TypeOK ==
  /\ pc \in [Req -> Stages]
  /\ answered \subseteq Req
  /\ requested \in BOOLEAN
  /\ rows \subseteq Rows
  /\ \A s \in {memory, saved} : s \in Seq(Req) /\ Len(s) <= MaxTurns
  /\ clearing \in {"no", "wiped", "committing", "persisted"}
  /\ clears \in 0 .. MaxClears
  /\ life \in 1 .. MaxLives
  /\ late \subseteq Req /\ escaped \subseteq Req /\ kept \in Seq(Req)

Init ==
  /\ pc = [r \in Req |-> "new"]
  /\ answered = {}
  /\ requested = FALSE
  /\ rows = {}
  /\ memory = <<>>
  /\ saved = <<>>
  /\ clearing = "no"
  /\ clears = 0
  /\ life = 1
  /\ late = {}
  /\ kept = <<>>
  /\ escaped = {}

User(r) == [req |-> r, kind |-> "user"]
Reply(r) == [req |-> r, kind |-> "reply"]

Advance(r, from, to) == pc[r] = from /\ pc' = [pc EXCEPT ![r] = to]

-----------------------------------------------------------------------------
(* process_request.                                                         *)

\* One connection runs one request at a time, and no clear with it.
Start(r) ==
  /\ Advance(r, "new", "running")
  /\ Shared \/ (clearing = "no" /\ \A s \in Req : pc[s] \notin Underway)
  /\ late' = IF requested THEN late \cup {r} ELSE late
  /\ UNCHANGED <<answered, requested, rows, turns, clear, life, kept, escaped>>

\* The tool loop returns, or raises: interrupted, or failed.
LoopReturns(r) ==
  /\ Advance(r, "running", "ended")
  /\ answered' = answered \cup {r}
  /\ UNCHANGED <<requested, rows, turns, clear, life, ghosts>>

LoopRaises(r) ==
  /\ Advance(r, "running", "ended")
  /\ UNCHANGED <<answered, requested, rows, turns, clear, life, ghosts>>

\* _persist_user_chat is for a request that no restart drops.
PersistsUser == ~requested

CheckUserChat(r) ==
  /\ Advance(r, "ended", IF PersistsUser THEN "asking" ELSE "asked")
  /\ UNCHANGED <<answered, requested, rows, turns, clear, life, ghosts>>

AppendUserChat(r) ==
  /\ Advance(r, "asking", "asked")
  /\ rows' = rows \cup {User(r)}
  /\ UNCHANGED <<answered, requested, turns, clear, life, ghosts>>

\* The response is appended as it is sent; an empty one is not.
EmitReply(r) ==
  /\ r \in answered
  /\ Advance(r, "asked", "replied")
  /\ \/ rows' = rows \cup {Reply(r)}
     \/ UNCHANGED rows
  /\ UNCHANGED <<answered, requested, turns, clear, life, ghosts>>

\* add_turn: deque(maxlen).
Recalling(s, r) ==
  IF Len(s) < MaxTurns THEN Append(s, r) ELSE Append(Tail(s), r)

Recall(r) ==
  /\ Advance(r, "replied", "recalled")
  /\ memory' = Recalling(memory, r)
  /\ UNCHANGED <<answered, requested, rows, saved, clear, life, ghosts>>

\* A request comes to persist_state as it is over.
AtPersist(r) == pc[r] = IF r \in answered THEN "recalled" ELSE "asked"

\* Mutant: persist_state does not look at the flag.
CheckNothing(r) ==
  /\ AtPersist(r)
  /\ pc' = [pc EXCEPT ![r] = "committing"]
  /\ UNCHANGED <<answered, requested, rows, turns, clear, life, ghosts>>

\* persist_state: the flag first ...
CheckRestart(r) ==
  /\ AtPersist(r)
  /\ pc' = [pc EXCEPT ![r] = IF requested THEN "done" ELSE "committing"]
  /\ UNCHANGED <<answered, requested, rows, turns, clear, life, ghosts>>

\* Mutant: only this process's last turn is saved, not what it restored.
SnapshotLast == IF memory = <<>> THEN <<>> ELSE <<memory[Len(memory)]>>

\* ... then the commit of a snapshot of the memory as it is now.
Snapshot == memory

Commit(r) ==
  /\ Advance(r, "committing", "done")
  /\ saved' = Snapshot
  /\ kept' = IF r \in answered THEN Append(kept, r) ELSE kept
  /\ UNCHANGED <<answered, requested, rows, memory, clear, life, late,
                 escaped>>

\* A commit that raises is rolled back, and swallowed.
CommitFails(r) ==
  /\ CommitsFail
  /\ Advance(r, "committing", "done")
  /\ UNCHANGED <<answered, requested, rows, turns, clear, life, ghosts>>

-----------------------------------------------------------------------------
(* clear_conversation_state: memory, snapshot, transcript, in this order.   *)

ClearStep(from, to) == clearing = from /\ clearing' = to

Turns(s) == {s[i] : i \in 1 .. Len(s)}

ClearMemory ==
  /\ ClearStep("no", "wiped")
  /\ clears < MaxClears
  /\ Shared \/ \A r \in Req : pc[r] \notin Underway
  /\ clears' = clears + 1
  /\ memory' = <<>>
  /\ kept' = <<>>
  /\ UNCHANGED <<pc, answered, requested, rows, saved, life, late, escaped>>

ClearChecksRestart ==
  /\ ClearStep("wiped", IF requested THEN "persisted" ELSE "committing")
  /\ escaped' = escaped \cup (IF requested THEN Turns(saved) ELSE {})
  /\ UNCHANGED <<pc, answered, requested, rows, turns, clears, life, late,
                 kept>>

ClearCommits ==
  /\ ClearStep("committing", "persisted")
  /\ saved' = Snapshot
  /\ UNCHANGED <<pc, answered, requested, rows, memory, clears, life, ghosts>>

ClearCommitFails ==
  /\ CommitsFail
  /\ ClearStep("committing", "persisted")
  /\ escaped' = escaped \cup Turns(saved)
  /\ UNCHANGED <<pc, answered, requested, rows, turns, clears, life, late,
                 kept>>

\* get_message_store().clear().
ClearTranscript ==
  /\ ClearStep("persisted", "no")
  /\ rows' = {}
  /\ UNCHANGED <<pc, answered, requested, turns, clears, life, ghosts>>

-----------------------------------------------------------------------------
RequestRestart ==
  /\ ~requested
  /\ requested' = TRUE
  /\ late' = late \cup {r \in Req : pc[r] = "running"}
  /\ UNCHANGED <<pc, answered, rows, turns, clear, life, kept, escaped>>

\* The process ends, restarted, shut down or crashed, and another one restores
\* the snapshot.
NewProcess ==
  /\ life < MaxLives
  /\ life' = life + 1
  /\ requested' = FALSE
  /\ memory' = saved
  /\ pc' = [r \in Req |-> IF pc[r] \in Underway THEN "dropped" ELSE pc[r]]
  /\ clearing' = "no"
  /\ UNCHANGED <<answered, rows, saved, clears, ghosts>>

\* The requests are over, and so is the clear.
Finished ==
  /\ clearing = "no"
  /\ \A r \in Req : pc[r] \in {"done", "dropped"}
  /\ UNCHANGED vars

Next ==
  \/ \E r \in Req :
       \/ Start(r) \/ LoopReturns(r) \/ LoopRaises(r)
       \/ CheckUserChat(r) \/ AppendUserChat(r) \/ EmitReply(r) \/ Recall(r)
       \/ CheckRestart(r) \/ Commit(r) \/ CommitFails(r)
  \/ ClearMemory \/ ClearChecksRestart \/ ClearCommits \/ ClearCommitFails
  \/ ClearTranscript \/ RequestRestart \/ NewProcess \/ Finished

Spec == Init /\ [][Next]_vars

-----------------------------------------------------------------------------
(* Properties.                                                              *)

\* The model never remembers, across a restart, a request that the user can no
\* longer see (working_memory_persistence's "A/B-consistency invariant"), be
\* it that the process ends within a terminal or within a clear -- short of a
\* clear whose own commit was skipped or failed.
SavedTurnsInTranscript ==
  \A r \in Turns(saved) \ escaped : User(r) \in rows

\* Committed turns are not lost: after any number of restarts the snapshot holds
\* each answered request committed since the last clear, unless the history is
\* full of later turns.  The last one it holds in any case where commits do not
\* fail: a turn whose commit did has its place in the history all the same.
CommittedTurnsRemembered ==
  \A i \in 1 .. Len(kept) :
    \/ kept[i] \in Turns(saved)
    \/ /\ Len(saved) = MaxTurns
       /\ \A j \in 1 .. i : kept[j] \notin Turns(saved)
       /\ CommitsFail \/ i < Len(kept)

\* A request in its tool loop after a restart was asked for is dropped: the
\* transcript gets no question of it and no snapshot its turn.
LateLeaveNothing ==
  \A r \in late : User(r) \notin rows /\ r \notin Turns(saved)

=============================================================================
