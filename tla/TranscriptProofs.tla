-------------------------- MODULE TranscriptProofs --------------------------
(***************************************************************************)
(* Proofs about Transcript for what one connection guarantees (~Shared) and *)
(* any number of requests, processes, clears and turns.  The inductive      *)
(* invariant follows the turns: from the request, over the memory, into the *)
(* snapshot, a turn whose question is not in the transcript is held up by   *)
(* the restart flag.                                                        *)
(*                                                                          *)
(* Then about Scrollback, which adds the page: each row it was owed as it   *)
(* came is shown, or is before its oldest message, or is to be brought by   *)
(* what is under way.                                                       *)
(***************************************************************************)
EXTENDS Scrollback, SequenceTheorems, NaturalsInduction, WellFoundedInduction,
        TLAPS

\* One request at a time, and none with a clear.
Alone ==
  /\ \A r, s \in Req : pc[r] \in Underway /\ pc[s] \in Underway => r = s
  /\ clearing # "no" => \A r \in Req : pc[r] \notin Underway

\* A turn that a snapshot may keep: its question is in the transcript, or a
\* clear failed to wipe it.
Seen(r) == r \in escaped \/ User(r) \in rows

\* A request past its user row has one, unless a restart drops it.
AskedInv ==
  \A r \in Req : pc[r] \in {"asked", "replied"} => requested \/ User(r) \in rows

\* What a commit may write.
Committing == clearing = "committing" \/ \E r \in Req : pc[r] = "committing"

MemoryInv ==
  \/ requested /\ ~Committing
  \/ \A r \in Turns(memory) : Seen(r) /\ r \notin late

SavedInv == \A r \in Turns(saved) : Seen(r) /\ r \notin late

\* A clear has emptied the memory, and then accounts for the snapshot's turns.
ClearInv ==
  /\ clearing # "no" => memory = <<>>
  /\ clearing = "persisted" => Turns(saved) \subseteq escaped

\* A late request leaves no user row, and is not about to.
LateInv ==
  \A r \in late :
    /\ User(r) \notin rows
    /\ pc[r] \notin {"new", "asking", "committing"}
    /\ pc[r] \in Underway => requested

\* No user row before its append, and no turn before it is recalled.
EarlyInv ==
  /\ \A r \in Req : pc[r] \in {"new", "running", "ended", "asking"}
                    => User(r) \notin rows
  /\ \A r \in Turns(memory) \cup Turns(saved) :
       pc[r] \in {"recalled", "committing", "done", "dropped"}

IInv == /\ TypeOK /\ Alone /\ AskedInv /\ MemoryInv /\ SavedInv /\ ClearInv
        /\ LateInv /\ EarlyInv
-----------------------------------------------------------------------------
(* The rows and the history.                                                *)

\* No two requests share a row, and no question is a response.
LEMMA RowsDiffer ==
  /\ \A r, s \in Req : User(r) = User(s) => r = s
  /\ \A r, s \in Req : User(r) # Reply(s)
  /\ \A r \in Req : User(r) \in Rows /\ Reply(r) \in Rows
BY DEF User, Reply, Rows

\* add_turn keeps the history within max_turns, and adds at most the turn.
LEMMA RecallingBounded ==
  ASSUME NEW s \in Seq(Req), Len(s) <= MaxTurns, NEW r \in Req
  PROVE  /\ Recalling(s, r) \in Seq(Req)
         /\ Len(Recalling(s, r)) <= MaxTurns
         /\ Turns(Recalling(s, r)) \subseteq Turns(s) \cup {r}
<1> USE TranscriptAssumption
<1> DEFINE t == Recalling(s, r)
<1>1. CASE Len(s) < MaxTurns
  <2>1. /\ t = Append(s, r) /\ t \in Seq(Req) /\ Len(t) = Len(s) + 1
        /\ \A i \in 1 .. Len(s) : t[i] = s[i]
        /\ t[Len(s) + 1] = r
    BY <1>1 DEF Recalling
  <2> QED BY <1>1, <2>1 DEF Turns
<1>2. CASE ~ (Len(s) < MaxTurns)
  <2>1. Len(s) = MaxTurns /\ s # <<>> /\ Len(s) >= 1
    BY <1>2
  <2>2. /\ Tail(s) \in Seq(Req)
        /\ Len(Tail(s)) = Len(s) - 1
        /\ \A i \in 1 .. Len(Tail(s)) : Tail(s)[i] = s[i + 1]
    BY <2>1, HeadTailProperties
  <2>3. /\ t = Append(Tail(s), r) /\ t \in Seq(Req) /\ Len(t) = Len(s)
        /\ \A i \in 1 .. Len(s) - 1 : t[i] = s[i + 1]
        /\ t[Len(s)] = r
    BY <1>2, <2>2 DEF Recalling
  <2> QED BY <2>1, <2>3 DEF Turns
<1> QED BY <1>1, <1>2

\* The history a process starts with, or a clear leaves.
LEMMA EmptyHasNoTurns == <<>> \in Seq(Req) /\ Len(<<>>) = 0 /\ Turns(<<>>) = {}
BY DEF Turns

\* A history's turns are requests.
LEMMA TurnsAreRequests ==
  ASSUME NEW s \in Seq(Req)
  PROVE  Turns(s) \subseteq Req
BY DEF Turns

-----------------------------------------------------------------------------
(* Types, whoever shares the conversation.                                  *)

\* The initial values have their types: the type invariant needs max_turns and
\* the number of processes to be positive.
LEMMA InitTypes == Init => TypeOK
<1> SUFFICES ASSUME Init PROVE TypeOK
  OBVIOUS
<1> USE TranscriptAssumption, EmptyHasNoTurns
<1>1. pc \in [Req -> Stages]
  BY DEF Init, Stages
<1>2. life \in 1 .. MaxLives /\ clears \in 0 .. MaxClears
  BY DEF Init
<1>3. \A s \in {memory, saved} : s \in Seq(Req) /\ Len(s) <= MaxTurns
  <2>1. memory = <<>> /\ saved = <<>>
    BY DEF Init
  <2>2. 0 <= MaxTurns
    OBVIOUS
  <2> HIDE TranscriptAssumption
  <2> QED BY <2>1, <2>2
<1> QED BY <1>1, <1>2, <1>3 DEF Init, TypeOK

\* Every step of process_request, the clear and the restart keeps the types.
LEMMA NextTypes == TypeOK /\ [Next]_vars => TypeOK'
<1> SUFFICES ASSUME TypeOK, [Next]_vars PROVE TypeOK'
  OBVIOUS
<1> USE TranscriptAssumption, RowsDiffer
<1>1. ASSUME NEW r \in Req, Start(r) PROVE TypeOK'
  BY <1>1 DEF TypeOK, Stages, turns, clear, ghosts, Start, Advance
<1>2. ASSUME NEW r \in Req, LoopReturns(r) PROVE TypeOK'
  BY <1>2 DEF TypeOK, Stages, turns, clear, ghosts, LoopReturns, Advance
<1>3. ASSUME NEW r \in Req, LoopRaises(r) PROVE TypeOK'
  BY <1>3 DEF TypeOK, Stages, turns, clear, ghosts, LoopRaises, Advance
<1>4. ASSUME NEW r \in Req, CheckUserChat(r) PROVE TypeOK'
  BY <1>4
  DEF TypeOK, Stages, turns, clear, ghosts, CheckUserChat, Advance,
      PersistsUser
<1>5. ASSUME NEW r \in Req, AppendUserChat(r) PROVE TypeOK'
  BY <1>5 DEF TypeOK, Stages, turns, clear, ghosts, AppendUserChat, Advance
<1>6. ASSUME NEW r \in Req, EmitReply(r) PROVE TypeOK'
  BY <1>6 DEF TypeOK, Stages, turns, clear, ghosts, EmitReply, Advance
<1>7. ASSUME NEW r \in Req, Recall(r) PROVE TypeOK'
  BY RecallingBounded, <1>7
  DEF TypeOK, Stages, turns, clear, ghosts, Recall, Advance
<1>8. ASSUME NEW r \in Req, CheckRestart(r) PROVE TypeOK'
  BY <1>8 DEF TypeOK, Stages, turns, clear, ghosts, CheckRestart, AtPersist
<1>9. ASSUME NEW r \in Req, Commit(r) PROVE TypeOK'
  BY <1>9 DEF TypeOK, Stages, turns, clear, ghosts, Commit, Advance, Snapshot
<1>10. ASSUME NEW r \in Req, CommitFails(r) PROVE TypeOK'
  BY <1>10 DEF TypeOK, Stages, turns, clear, ghosts, CommitFails, Advance
<1>11. CASE ClearMemory
  BY EmptyHasNoTurns, <1>11
  DEF TypeOK, Stages, turns, clear, ghosts, vars, ClearMemory, ClearStep
<1>12. CASE ClearChecksRestart
  BY TurnsAreRequests, <1>12
  DEF TypeOK, Stages, turns, clear, ghosts, vars, ClearChecksRestart, ClearStep
<1>13. CASE ClearCommits
  BY <1>13
  DEF TypeOK, Stages, turns, clear, ghosts, vars, ClearCommits, ClearStep,
      Snapshot
<1>14. CASE ClearCommitFails
  BY TurnsAreRequests, <1>14
  DEF TypeOK, Stages, turns, clear, ghosts, vars, ClearCommitFails, ClearStep
<1>15. CASE ClearTranscript
  BY <1>15
  DEF TypeOK, Stages, turns, clear, ghosts, vars, ClearTranscript, ClearStep
<1>16. CASE RequestRestart
  BY <1>16 DEF TypeOK, Stages, turns, clear, ghosts, vars, RequestRestart
<1>17. CASE NewProcess
  <2>1. pc' \in [Req -> Stages]
    BY <1>17 DEF TypeOK, Stages, NewProcess
  <2>2. memory' \in Seq(Req) /\ Len(memory') <= MaxTurns
    BY <1>17 DEF TypeOK, NewProcess
  <2>3. life' \in 1 .. MaxLives
    BY <1>17 DEF TypeOK, NewProcess
  <2> QED BY <1>17, <2>1, <2>2, <2>3 DEF TypeOK, clear, ghosts, NewProcess
<1>18. CASE Finished
  BY <1>18 DEF TypeOK, Stages, turns, clear, ghosts, vars, Finished
<1>19. CASE UNCHANGED vars
  BY <1>19 DEF TypeOK, vars, turns, clear, ghosts
<1> QED
  BY <1>1, <1>2, <1>3, <1>4, <1>5, <1>6, <1>7, <1>8, <1>9, <1>10, <1>11,
     <1>12, <1>13, <1>14, <1>15, <1>16, <1>17, <1>18, <1>19
  DEF Next

\* Theorem: every field of the model keeps its type.
THEOREM TypesHold == Spec => []TypeOK
BY InitTypes, NextTypes, PTL DEF Spec

-----------------------------------------------------------------------------
(* One connection.                                                          *)

\* Nothing has run, and nothing is remembered.
LEMMA InitIInv == Init => IInv
BY InitTypes, EmptyHasNoTurns
   DEF Init, IInv, Alone, AskedInv, MemoryInv, SavedInv, ClearInv, LateInv,
       EarlyInv, Committing, Underway

\* Every step preserves the invariant if requests and clears do not overlap.
LEMMA NextIInv == ~Shared /\ IInv /\ [Next]_vars => IInv'
<1> SUFFICES ASSUME ~Shared, IInv, [Next]_vars PROVE IInv'
  OBVIOUS
<1> USE RowsDiffer, EmptyHasNoTurns
<1> USE DEF Alone, Underway, Stages, turns, clear, ghosts, vars
<1>0. /\ TypeOK' /\ Turns(memory) \subseteq Req /\ Turns(saved) \subseteq Req
      /\ TypeOK
  BY NextTypes, TurnsAreRequests DEF IInv, TypeOK
<1>1. ASSUME NEW r \in Req, Start(r) PROVE IInv'
  BY <1>0, <1>1, SMTT(30)
  DEF IInv, AskedInv, MemoryInv, Committing, Seen, SavedInv, LateInv,
      ClearInv, EarlyInv, TypeOK, Start, Advance
<1>2. ASSUME NEW r \in Req, LoopReturns(r) PROVE IInv'
  BY <1>0, <1>2
  DEF IInv, AskedInv, MemoryInv, Committing, Seen, SavedInv, LateInv,
      ClearInv, EarlyInv, TypeOK, LoopReturns, Advance
<1>3. ASSUME NEW r \in Req, LoopRaises(r) PROVE IInv'
  BY <1>0, <1>3
  DEF IInv, AskedInv, MemoryInv, Committing, Seen, SavedInv, LateInv,
      ClearInv, EarlyInv, TypeOK, LoopRaises, Advance
<1>4. ASSUME NEW r \in Req, CheckUserChat(r) PROVE IInv'
  BY <1>0, <1>4
  DEF IInv, AskedInv, MemoryInv, Committing, Seen, SavedInv, LateInv,
      ClearInv, EarlyInv, TypeOK, CheckUserChat, Advance, PersistsUser
<1>5. ASSUME NEW r \in Req, AppendUserChat(r) PROVE IInv'
  BY <1>0, <1>5
  DEF IInv, AskedInv, MemoryInv, Committing, Seen, SavedInv, LateInv,
      ClearInv, EarlyInv, TypeOK, AppendUserChat, Advance
<1>6. ASSUME NEW r \in Req, EmitReply(r) PROVE IInv'
  BY <1>0, <1>6
  DEF IInv, AskedInv, MemoryInv, Committing, Seen, SavedInv, LateInv,
      ClearInv, EarlyInv, TypeOK, EmitReply, Advance
<1>7. ASSUME NEW r \in Req, Recall(r) PROVE IInv'
  <2>1. Turns(memory') \subseteq Turns(memory) \cup {r}
    BY <1>0, <1>7, RecallingBounded DEF Recall, TypeOK
  \* Its question is in the transcript, unless a restart drops the request.
  <2>2. MemoryInv'
    <3>1. ~Committing' /\ requested' = requested
      BY <1>0, <1>7 DEF IInv, Committing, TypeOK, Recall, Advance
    <3>2. CASE requested
      BY <3>1, <3>2 DEF MemoryInv
    <3>3. CASE ~requested
      <4>1. User(r) \in rows /\ r \notin late
        BY <1>0, <1>7, <3>3 DEF IInv, AskedInv, LateInv, TypeOK, Recall, Advance
      <4>2. \A t \in Turns(memory) : Seen(t) /\ t \notin late
        BY <3>3 DEF IInv, MemoryInv
      <4>3. \A t \in Turns(memory) \cup {r} : Seen(t) /\ t \notin late
        BY <4>1, <4>2 DEF Seen
      <4> QED
        BY <1>7, <2>1, <4>3 DEF MemoryInv, Seen, Recall
    <3> QED BY <3>2, <3>3
  <2>3. EarlyInv'
    BY <1>0, <1>7, <2>1 DEF IInv, EarlyInv, TypeOK, Recall, Advance
  <2> QED
    BY <1>0, <1>7, <2>2, <2>3
    DEF IInv, AskedInv, SavedInv, Seen, ClearInv, LateInv, TypeOK, Recall,
        Advance
<1>8. ASSUME NEW r \in Req, CheckRestart(r) PROVE IInv'
  \* A request goes on to the commit only while no restart is asked for, and
  \* then the memory is clean.
  <2>1. MemoryInv'
    BY <1>0, <1>8
    DEF IInv, MemoryInv, Committing, Seen, AtPersist, TypeOK, CheckRestart
  <2>2. LateInv'
    BY <1>0, <1>8 DEF IInv, LateInv, AtPersist, TypeOK, CheckRestart
  <2> QED
    BY <1>0, <1>8, <2>1, <2>2
    DEF IInv, AskedInv, SavedInv, MemoryInv, Committing, Seen, ClearInv,
        EarlyInv, TypeOK, CheckRestart, AtPersist
<1>9. ASSUME NEW r \in Req, Commit(r) PROVE IInv'
  \* What the commit writes is a clean memory.
  <2>1. SavedInv'
    BY <1>0, <1>9
    DEF IInv, MemoryInv, Committing, SavedInv, Seen, Snapshot, TypeOK, Commit,
        Advance
  <2> QED
    BY <1>0, <1>9, <2>1
    DEF IInv, AskedInv, MemoryInv, Committing, Seen, SavedInv, LateInv,
        ClearInv, EarlyInv, TypeOK, Commit, Advance, Snapshot
<1>10. ASSUME NEW r \in Req, CommitFails(r) PROVE IInv'
  BY <1>0, <1>10
  DEF IInv, AskedInv, MemoryInv, Committing, Seen, SavedInv, LateInv,
      ClearInv, EarlyInv, TypeOK, CommitFails, Advance
<1>11. CASE ClearMemory
  BY <1>0, <1>11
  DEF IInv, AskedInv, MemoryInv, Committing, Seen, SavedInv, LateInv,
      ClearInv, EarlyInv, TypeOK, ClearMemory, ClearStep
<1>12. CASE ClearChecksRestart
  BY <1>0, <1>12
  DEF IInv, AskedInv, MemoryInv, Committing, Seen, SavedInv, LateInv,
      ClearInv, EarlyInv, TypeOK, ClearChecksRestart, ClearStep
<1>13. CASE ClearCommits
  BY <1>0, <1>13
  DEF IInv, AskedInv, MemoryInv, Committing, Seen, SavedInv, LateInv,
      ClearInv, EarlyInv, TypeOK, ClearCommits, ClearStep, Snapshot
<1>14. CASE ClearCommitFails
  BY <1>0, <1>14
  DEF IInv, AskedInv, MemoryInv, Committing, Seen, SavedInv, LateInv,
      ClearInv, EarlyInv, TypeOK, ClearCommitFails, ClearStep
<1>15. CASE ClearTranscript
  \* The rows go, and with them every turn of the snapshot that the clear did
  \* not reach is accounted for.
  <2>1. SavedInv'
    BY <1>0, <1>15
    DEF IInv, SavedInv, Seen, ClearInv, TypeOK, ClearTranscript, ClearStep
  <2> QED
    BY <1>0, <1>15, <2>1
    DEF IInv, AskedInv, MemoryInv, Committing, Seen, SavedInv, LateInv,
        ClearInv, EarlyInv, TypeOK, ClearTranscript, ClearStep
<1>16. CASE RequestRestart
  \* A commit under way is of a clean memory, and its request is alone.
  <2>1. MemoryInv'
    BY <1>0, <1>16
    DEF IInv, MemoryInv, Committing, Seen, EarlyInv, TypeOK, RequestRestart
  \* A request in its tool loop has no turn and no row yet.
  <2>2. SavedInv'
    BY <1>0, <1>16 DEF IInv, SavedInv, Seen, EarlyInv, TypeOK, RequestRestart
  <2>3. LateInv'
    BY <1>0, <1>16 DEF IInv, LateInv, EarlyInv, TypeOK, RequestRestart
  <2> QED
    BY <1>0, <1>16, <2>1, <2>2, <2>3
    DEF IInv, AskedInv, ClearInv, EarlyInv, TypeOK, RequestRestart
<1>17. CASE NewProcess
  \* The memory is the snapshot.
  <2>1. MemoryInv'
    BY <1>0, <1>17 DEF IInv, SavedInv, MemoryInv, Seen, TypeOK, NewProcess
  <2> QED
    BY <1>0, <1>17, <2>1
    DEF IInv, AskedInv, SavedInv, MemoryInv, Committing, Seen, ClearInv,
        EarlyInv, LateInv, TypeOK, NewProcess
<1>18. CASE Finished
  BY <1>0, <1>18
  DEF IInv, AskedInv, MemoryInv, Committing, Seen, SavedInv, LateInv,
      ClearInv, EarlyInv, TypeOK, Finished
<1>19. CASE UNCHANGED vars
  BY <1>0, <1>19
  DEF IInv, TypeOK, Alone, AskedInv, MemoryInv, Committing, Seen, SavedInv,
      ClearInv, LateInv, EarlyInv, vars, turns, clear, ghosts
<1> QED
  BY <1>1, <1>2, <1>3, <1>4, <1>5, <1>6, <1>7, <1>8, <1>9, <1>10, <1>11,
     <1>12, <1>13, <1>14, <1>15, <1>16, <1>17, <1>18, <1>19
  DEF Next

-----------------------------------------------------------------------------
(* Theorems for a single connection.                                        *)

\* Theorem: the inductive invariant holds in every state one connection reaches.
THEOREM Inductive ==
  ASSUME ~Shared
  PROVE  Spec => []IInv
<1>1. Init => IInv
  BY InitIInv
<1>2. IInv /\ [Next]_vars => IInv'
  BY NextIInv
<1> QED BY <1>1, <1>2, PTL DEF Spec

\* Theorem: whatever process_request, persist_state and clear_conversation_state
\* had done when a process ended, the snapshot the next one restores remembers
\* only requests whose question the transcript shows, or that a clear failed to
\* reach.
THEOREM SnapshotIsSeen ==
  ASSUME ~Shared
  PROVE  Spec => []SavedTurnsInTranscript
<1>1. IInv => SavedTurnsInTranscript
  BY DEF IInv, SavedInv, Seen, SavedTurnsInTranscript
<1> QED BY <1>1, Inductive, PTL

\* Theorem: a request that was in its tool loop after a restart was asked for
\* leaves no question in the transcript and no turn in the snapshot.
THEOREM LateAreDropped ==
  ASSUME ~Shared
  PROVE  Spec => []LateLeaveNothing
<1>1. IInv => LateLeaveNothing
  BY DEF IInv, SavedInv, LateInv, LateLeaveNothing
<1> QED BY <1>1, Inductive, PTL
-----------------------------------------------------------------------------
(* What is committed is remembered.                                         *)

\* A request between its turn and its commit.
Recalled(r) == r \in answered /\ pc[r] \in {"recalled", "committing"}

\* A request's turn is recalled once, and it is alone: until its commit it is
\* the memory's last.
LastInv ==
  \A r \in Req : Recalled(r) =>
    /\ memory # <<>>
    /\ \A a \in 1 .. Len(memory) : memory[a] = r <=> a = Len(memory)

\* Only a request whose tool loop returned comes to recall its turn.
ReturnedInv == \A r \in Req : pc[r] \in {"replied", "recalled"} => r \in answered

\* A kept request is over, and a clear begins by forgetting it.
OverInv ==
  /\ \A i \in 1 .. Len(kept) : pc[kept[i]] = "done"
  /\ clearing # "no" => kept = <<>>

\* s has the kept turns but those that a full history pushed out, oldest first.
Holds(s) ==
  \A i \in 1 .. Len(kept) :
    \/ kept[i] \in Turns(s)
    \/ Len(s) = MaxTurns /\ \A j \in 1 .. i : kept[j] \notin Turns(s)

\* The kept turns of s are in the order in which they were committed.
Ordered(s) ==
  \A a, b \in 1 .. Len(s), i, j \in 1 .. Len(kept) :
    a < b /\ s[a] = kept[i] /\ s[b] = kept[j] => i < j

\* Where commits succeed, the last kept turn is in the snapshot, and a memory
\* that has lost it is not committed before another turn is.
NewestInv ==
  ~CommitsFail /\ kept # <<>> =>
    /\ kept[Len(kept)] \in Turns(saved)
    /\ \/ requested /\ ~Committing
       \/ \E r \in Req : Recalled(r)
       \/ kept[Len(kept)] \in Turns(memory)

KeptInv == /\ LastInv /\ ReturnedInv /\ OverInv /\ NewestInv
           /\ Holds(memory) /\ Ordered(memory)
           /\ Holds(saved) /\ Ordered(saved)

\* add_turn puts the turn last and moves the others by none or one place, by
\* one only when the history is full.
LEMMA RecallingMoves ==
  ASSUME NEW s \in Seq(Req), Len(s) <= MaxTurns, NEW r \in Req
  PROVE  \E d \in {0, 1} :
           /\ Len(Recalling(s, r)) = Len(s) + 1 - d
           /\ Recalling(s, r)[Len(s) + 1 - d] = r
           /\ \A a \in 1 .. Len(s) - d : Recalling(s, r)[a] = s[a + d]
           /\ d = 1 => Len(s) = MaxTurns /\ s # <<>>
<1> USE TranscriptAssumption
<1> DEFINE t == Recalling(s, r)
<1>1. CASE Len(s) < MaxTurns
  <2>1. /\ Len(t) = Len(s) + 1 - 0 /\ t[Len(s) + 1 - 0] = r
        /\ \A a \in 1 .. Len(s) - 0 : t[a] = s[a + 0]
    BY <1>1 DEF Recalling
  <2> QED BY <2>1
<1>2. CASE ~ (Len(s) < MaxTurns)
  <2>1. Len(s) = MaxTurns /\ s # <<>> /\ Len(s) >= 1
    BY <1>2
  <2>2. /\ Tail(s) \in Seq(Req)
        /\ Len(Tail(s)) = Len(s) - 1
        /\ \A a \in 1 .. Len(Tail(s)) : Tail(s)[a] = s[a + 1]
    BY <2>1, HeadTailProperties
  <2>3. /\ Len(t) = Len(s) + 1 - 1 /\ t[Len(s) + 1 - 1] = r
        /\ \A a \in 1 .. Len(s) - 1 : t[a] = s[a + 1]
    BY <1>2, <2>2 DEF Recalling
  <2> QED BY <2>1, <2>3
<1> QED BY <1>1, <1>2

\* Recalling a turn that is not kept yet pushes out the oldest one only.
LEMMA RecallKeeps ==
  ASSUME NEW s \in Seq(Req), Len(s) <= MaxTurns, NEW r \in Req,
         kept \in Seq(Req), \A i \in 1 .. Len(kept) : kept[i] # r,
         Holds(s), Ordered(s)
  PROVE  Holds(Recalling(s, r)) /\ Ordered(Recalling(s, r))
<1> DEFINE t == Recalling(s, r)
<1>1. PICK d \in {0, 1} :
        /\ Len(t) = Len(s) + 1 - d
        /\ t[Len(s) + 1 - d] = r
        /\ \A a \in 1 .. Len(s) - d : t[a] = s[a + d]
        /\ d = 1 => Len(s) = MaxTurns /\ s # <<>>
  BY RecallingMoves
<1> HIDE DEF t
<1>2. Len(s) \in Nat /\ Len(kept) \in Nat /\ (s # <<>> => Len(s) >= 1)
  OBVIOUS
<1>3. Ordered(t)
  <2> SUFFICES ASSUME NEW a \in 1 .. Len(t), NEW b \in 1 .. Len(t),
                      NEW i \in 1 .. Len(kept), NEW j \in 1 .. Len(kept),
                      a < b, t[a] = kept[i], t[b] = kept[j]
               PROVE  i < j
    BY DEF Ordered
  <2>1. a \in 1 .. Len(s) - d /\ b \in 1 .. Len(s) - d
    BY <1>1, <1>2, SMTT(30)
  <2>2. /\ a + d \in 1 .. Len(s) /\ b + d \in 1 .. Len(s) /\ a + d < b + d
        /\ s[a + d] = kept[i] /\ s[b + d] = kept[j]
    BY <1>1, <1>2, <2>1
  <2> QED BY <2>2 DEF Ordered
<1>4. Turns(t) \subseteq Turns(s) \cup {r}
  BY RecallingBounded DEF t
<1>5. Holds(t)
  <2> SUFFICES ASSUME NEW i \in 1 .. Len(kept), kept[i] \notin Turns(t)
               PROVE  Len(t) = MaxTurns
                      /\ \A j \in 1 .. i : kept[j] \notin Turns(t)
    BY DEF Holds
  <2>1. CASE kept[i] \notin Turns(s)
    <3>1. Len(s) = MaxTurns /\ \A j \in 1 .. i : kept[j] \notin Turns(s)
      BY <2>1 DEF Holds
    <3>2. \A j \in 1 .. i : kept[j] \notin Turns(t)
      BY <1>2, <1>4, <3>1
    <3>3. Len(t) <= MaxTurns
      BY RecallingBounded DEF t
    <3>4. Len(t) = MaxTurns
      BY <1>1, <1>2, <3>1, <3>3, TranscriptAssumption
    <3> QED BY <3>2, <3>4
  \* It is the one pushed out: the kept turns before it cannot come after it.
  <2>2. CASE kept[i] \in Turns(s)
    <3>1. PICK a \in 1 .. Len(s) : s[a] = kept[i]
      BY <2>2 DEF Turns
    <3>2. a = 1 /\ d = 1
      <4>1. CASE d = 0
        <5>1. a \in 1 .. Len(t) /\ t[a] = s[a]
          BY <1>1, <1>2, <4>1
        <5> QED BY <3>1, <5>1 DEF Turns
      <4>2. CASE d = 1 /\ a # 1
        <5>1. a - 1 \in 1 .. Len(s) - d /\ (a - 1) + d = a
          BY <1>1, <1>2, <4>2
        <5>2. a - 1 \in 1 .. Len(t) /\ t[a - 1] = s[a]
          BY <1>1, <1>2, <5>1
        <5> QED BY <3>1, <5>2 DEF Turns
      <4> QED BY <4>1, <4>2
    <3>3. ASSUME NEW j \in 1 .. i, kept[j] \in Turns(t)
          PROVE  FALSE
      <4>1. PICK b \in 1 .. Len(t) : t[b] = kept[j]
        BY <3>3 DEF Turns
      <4>2. j \in 1 .. Len(kept) /\ kept[j] # r
        BY <1>2, <3>3
      <4>3. b \in 1 .. Len(s) - d
        BY <1>1, <1>2, <4>1, <4>2
      <4>4. b + 1 \in 1 .. Len(s) /\ s[b + 1] = kept[j] /\ 1 < b + 1
        BY <1>1, <1>2, <3>2, <4>1, <4>3
      <4>5. s[1] = kept[i] /\ 1 \in 1 .. Len(s)
        BY <1>2, <3>1, <3>2
      <4>6. i < j
        BY <4>2, <4>4, <4>5 DEF Ordered
      <4> QED BY <4>6, <1>2
    <3>4. Len(t) = MaxTurns
      BY <1>1, <1>2, <3>2
    <3> QED BY <3>3, <3>4
  <2> QED BY <2>1, <2>2
<1> QED BY <1>3, <1>5 DEF t

\* Nothing kept is held by any history.
LEMMA NothingKept ==
  ASSUME NEW s, kept = <<>>
  PROVE  Holds(s) /\ Ordered(s)
BY DEF Holds, Ordered

\* A commit of a turn that is the memory's last keeps it, the newest, in order.
LEMMA CommitKeeps ==
  ASSUME TypeOK, NEW r \in Req, kept' = Append(kept, r),
         memory # <<>>,
         \A a \in 1 .. Len(memory) : memory[a] = r <=> a = Len(memory),
         Holds(memory), Ordered(memory)
  PROVE  /\ \A i \in 1 .. Len(kept)' :
              \/ kept'[i] \in Turns(memory)
              \/ /\ Len(memory) = MaxTurns
                 /\ \A j \in 1 .. i : kept'[j] \notin Turns(memory)
         /\ \A a, b \in 1 .. Len(memory), i, j \in 1 .. Len(kept)' :
              a < b /\ memory[a] = kept'[i] /\ memory[b] = kept'[j] => i < j
         /\ r \in Turns(memory)
         /\ kept' # <<>> /\ kept'[Len(kept')] = r
<1>1. /\ kept \in Seq(Req) /\ memory \in Seq(Req) /\ Len(kept) \in Nat
      /\ Len(memory) \in Nat
  BY DEF TypeOK
<1>2. Len(memory) >= 1
  BY <1>1
<1>3. /\ Len(kept') = Len(kept) + 1 /\ kept'[Len(kept) + 1] = r
      /\ \A i \in 1 .. Len(kept) : kept'[i] = kept[i]
  BY <1>1
<1>4. r \in Turns(memory)
  BY <1>1, <1>2 DEF Turns
<1>5. ASSUME NEW i \in 1 .. Len(kept')
      PROVE  \/ kept'[i] \in Turns(memory)
             \/ /\ Len(memory) = MaxTurns
                /\ \A j \in 1 .. i : kept'[j] \notin Turns(memory)
  <2>1. CASE i = Len(kept) + 1
    BY <1>3, <1>4, <2>1
  <2>2. CASE i \in 1 .. Len(kept)
    <3>1. \A j \in 1 .. i : j \in 1 .. Len(kept) /\ kept'[j] = kept[j]
      BY <1>1, <1>3, <2>2
    <3>2. i \in 1 .. i
      BY <1>1, <2>2
    <3> QED BY <2>2, <3>1, <3>2 DEF Holds
  <2> QED BY <1>1, <1>3, <2>1, <2>2
<1>6. ASSUME NEW a \in 1 .. Len(memory), NEW b \in 1 .. Len(memory),
             NEW i \in 1 .. Len(kept'), NEW j \in 1 .. Len(kept'),
             a < b, memory[a] = kept'[i], memory[b] = kept'[j]
      PROVE  i < j
  <2>1. memory[a] # r
    BY <1>1, <1>6
  <2>2. i \in 1 .. Len(kept) /\ memory[a] = kept[i]
    BY <1>1, <1>3, <1>6, <2>1
  <2>3. CASE j = Len(kept) + 1
    BY <1>1, <2>2, <2>3
  <2>4. CASE j \in 1 .. Len(kept)
    <3>1. memory[b] = kept[j]
      BY <1>3, <1>6, <2>4
    <3> QED BY <1>6, <2>2, <2>4, <3>1 DEF Ordered
  <2> QED BY <1>1, <1>3, <2>3, <2>4
<1>7. kept' # <<>>
  BY <1>1, <1>3
<1> QED BY <1>3, <1>4, <1>5, <1>6, <1>7

\* Initially there are no turns.
LEMMA InitKept == Init => KeptInv
BY NothingKept DEF Init, KeptInv, LastInv, ReturnedInv, OverInv, NewestInv,
                   Recalled

\* A step that leaves the turns alone, and brings no request between its turn
\* and its commit.
LEMMA AsideKeeps ==
  ASSUME KeptInv, UNCHANGED <<memory, saved, kept>>,
         \A r \in Req : Recalled(r)' => Recalled(r),
         ReturnedInv',
         \A r \in Req : pc[r] = "done" => pc'[r] = "done",
         clearing' # "no" => kept = <<>>,
         kept \in Seq(Req),
         /\ kept # <<>> /\ ~CommitsFail
         /\ (requested /\ ~Committing) \/ \E r \in Req : Recalled(r)
         =>  \/ requested' /\ ~Committing'
             \/ \E r \in Req : Recalled(r)'
             \/ kept[Len(kept)] \in Turns(memory)
  PROVE  KeptInv'
<1>1. \A i \in 1 .. Len(kept) : kept[i] \in Req
  OBVIOUS
<1>2. LastInv'
  BY DEF KeptInv, LastInv
<1>3. OverInv'
  BY <1>1 DEF KeptInv, OverInv
<1>4. NewestInv'
  BY DEF KeptInv, NewestInv, Turns
<1> QED BY <1>2, <1>3, <1>4 DEF KeptInv, Holds, Ordered, Turns

\* Every step preserves it if requests and clears do not overlap.
LEMMA NextKept == ~Shared /\ IInv /\ KeptInv /\ [Next]_vars => KeptInv'
<1> SUFFICES ASSUME ~Shared, IInv, KeptInv, [Next]_vars PROVE KeptInv'
  OBVIOUS
<1> USE DEF Underway, Stages, turns, clear, ghosts, vars
<1>0. /\ TypeOK /\ kept \in Seq(Req) /\ memory \in Seq(Req) /\ saved \in Seq(Req)
      /\ Len(memory) <= MaxTurns /\ Alone /\ EarlyInv
      /\ pc \in [Req -> Stages] /\ Len(kept) \in Nat
  BY DEF IInv, TypeOK
<1>1. ASSUME NEW r \in Req, Start(r) PROVE KeptInv'
  BY <1>0, <1>1, AsideKeeps
  DEF Start, Advance, Recalled, Committing, KeptInv, ReturnedInv,
      OverInv
<1>2. ASSUME NEW r \in Req, LoopReturns(r) PROVE KeptInv'
  BY <1>0, <1>2, AsideKeeps
  DEF LoopReturns, Advance, Recalled, Committing, KeptInv, ReturnedInv,
      OverInv
<1>3. ASSUME NEW r \in Req, LoopRaises(r) PROVE KeptInv'
  BY <1>0, <1>3, AsideKeeps
  DEF LoopRaises, Advance, Recalled, Committing, KeptInv, ReturnedInv,
      OverInv
<1>4. ASSUME NEW r \in Req, CheckUserChat(r) PROVE KeptInv'
  BY <1>0, <1>4, AsideKeeps
  DEF CheckUserChat, Advance, PersistsUser, Recalled, Committing, KeptInv,
      ReturnedInv, OverInv
<1>5. ASSUME NEW r \in Req, AppendUserChat(r) PROVE KeptInv'
  BY <1>0, <1>5, AsideKeeps
  DEF AppendUserChat, Advance, Recalled, Committing, KeptInv, ReturnedInv,
      OverInv
<1>6. ASSUME NEW r \in Req, EmitReply(r) PROVE KeptInv'
  BY <1>0, <1>6, AsideKeeps
  DEF EmitReply, Advance, Recalled, Committing, KeptInv, ReturnedInv,
      OverInv
<1>7. ASSUME NEW r \in Req, Recall(r) PROVE KeptInv'
  <2>1. /\ pc[r] = "replied" /\ memory' = Recalling(memory, r)
        /\ UNCHANGED <<kept, saved, answered, clearing, requested>>
        /\ pc' = [pc EXCEPT ![r] = "recalled"]
    BY <1>7 DEF Recall, Advance
  <2>2. r \notin Turns(memory) /\ \A i \in 1 .. Len(kept) : kept[i] # r
    BY <1>0, <2>1 DEF EarlyInv, KeptInv, OverInv
  <2>3. Holds(memory') /\ Ordered(memory')
    BY <1>0, <2>1, <2>2, RecallKeeps DEF KeptInv
  <2>4. \A q \in Req : ~Recalled(q) /\ (Recalled(q)' => q = r)
    BY <1>0, <2>1 DEF Alone, Recalled
  <2>5. LastInv'
    <3>1. PICK d \in {0, 1} :
            /\ Len(memory') = Len(memory) + 1 - d
            /\ memory'[Len(memory) + 1 - d] = r
            /\ \A a \in 1 .. Len(memory) - d : memory'[a] = memory[a + d]
            /\ d = 1 => Len(memory) = MaxTurns /\ memory # <<>>
      BY <1>0, <2>1, RecallingMoves
    <3>2. memory' \in Seq(Req)
      BY <1>0, <2>1, RecallingBounded
    <3>3. memory' # <<>>
      BY <1>0, <3>1, <3>2
    <3>4. ASSUME NEW a \in 1 .. Len(memory'), a # Len(memory')
          PROVE  memory'[a] # r
      <4>1. a \in 1 .. Len(memory) - d /\ a + d \in 1 .. Len(memory)
        BY <1>0, <3>1, <3>4
      <4> QED BY <2>2, <3>1, <4>1 DEF Turns
    <3>5. memory'[Len(memory')] = r
      BY <3>1
    <3> QED BY <2>4, <3>3, <3>4, <3>5 DEF LastInv
  <2>6. NewestInv'
    <3>1. Recalled(r)'
      BY <1>0, <2>1 DEF Recalled, KeptInv, ReturnedInv
    <3> QED BY <2>1, <3>1 DEF KeptInv, NewestInv
  <2>7. OverInv'
    BY <1>0, <2>1, <2>2 DEF KeptInv, OverInv
  <2> QED
    <3>1. ReturnedInv'
      BY <1>0, <2>1 DEF KeptInv, ReturnedInv
    <3>2. Holds(memory)' /\ Ordered(memory)'
      BY <2>1, <2>3 DEF Holds, Ordered, Turns
    <3>3. Holds(saved)' /\ Ordered(saved)'
      BY <2>1 DEF KeptInv, Holds, Ordered, Turns
    <3> QED BY <2>5, <2>6, <2>7, <3>1, <3>2, <3>3 DEF KeptInv
<1>8. ASSUME NEW r \in Req, CheckRestart(r) PROVE KeptInv'
  <2>1. /\ UNCHANGED <<memory, saved, kept, answered, requested, clearing>>
        /\ pc[r] = IF r \in answered THEN "recalled" ELSE "asked"
        /\ pc' = [pc EXCEPT ![r] = IF requested THEN "done" ELSE "committing"]
    BY <1>8 DEF CheckRestart, AtPersist
  <2>2. clearing = "no" /\ \A q \in Req : pc[q] \in {"recalled", "committing"} => q = r
    BY <1>0, <2>1 DEF Alone
  <2>3. /\ \A q \in Req : Recalled(q)' => Recalled(q)
        /\ ReturnedInv'
        /\ \A q \in Req : pc[q] = "done" => pc'[q] = "done"
    BY <1>0, <2>1 DEF Recalled, KeptInv, ReturnedInv
  <2>4. ((requested /\ ~Committing) \/ \E q \in Req : Recalled(q)) =>
          \/ requested' /\ ~Committing'
          \/ \E q \in Req : Recalled(q)'
    BY <1>0, <2>1, <2>2 DEF Recalled, Committing
  <2> QED BY <1>0, <2>1, <2>2, <2>3, <2>4, AsideKeeps
<1>9. ASSUME NEW r \in Req, Commit(r) PROVE KeptInv'
  <2>1. /\ pc[r] = "committing" /\ pc' = [pc EXCEPT ![r] = "done"]
        /\ saved' = memory
        /\ UNCHANGED <<memory, answered, requested, clearing>>
        /\ kept' = IF r \in answered THEN Append(kept, r) ELSE kept
    BY <1>9 DEF Commit, Advance, Snapshot
  <2>2. /\ \A q \in Req : ~Recalled(q)'
        /\ clearing = "no"
        /\ Committing
        /\ \A q \in Req : Recalled(q) => q = r
        /\ ReturnedInv'
    BY <1>0, <2>1 DEF Alone, Recalled, Committing, KeptInv, ReturnedInv
  <2>3. CASE r \in answered
    <3>1. /\ memory # <<>>
          /\ \A a \in 1 .. Len(memory) : memory[a] = r <=> a = Len(memory)
      BY <2>1, <2>3 DEF KeptInv, LastInv, Recalled
    <3>2. kept' = Append(kept, r)
      BY <2>1, <2>3
    <3>3. /\ Holds(memory)' /\ Ordered(memory)'
          /\ r \in Turns(memory)
          /\ kept' # <<>> /\ kept'[Len(kept')] = r
      <4>1. /\ \A i \in 1 .. Len(kept)' :
                 \/ kept'[i] \in Turns(memory)
                 \/ /\ Len(memory) = MaxTurns
                    /\ \A j \in 1 .. i : kept'[j] \notin Turns(memory)
            /\ \A a, b \in 1 .. Len(memory), i, j \in 1 .. Len(kept)' :
                 a < b /\ memory[a] = kept'[i] /\ memory[b] = kept'[j] => i < j
            /\ r \in Turns(memory)
            /\ kept' # <<>> /\ kept'[Len(kept')] = r
        <5>1. Holds(memory) /\ Ordered(memory)
          BY DEF KeptInv
        <5> QED BY <1>0, <3>1, <3>2, <5>1, CommitKeeps
      <4>2. memory' = memory /\ Turns(memory)' = Turns(memory)
        BY <2>1 DEF Turns
      <4>3. Holds(memory)'
        BY <4>1, <4>2 DEF Holds
      <4>4. Ordered(memory)'
        BY <4>1, <4>2 DEF Ordered
      <4> QED BY <4>1, <4>3, <4>4
    <3>4. OverInv'
      <4>1. ASSUME NEW i \in 1 .. Len(kept') PROVE pc'[kept'[i]] = "done"
        <5>1. CASE i \in 1 .. Len(kept)
          <6>1. kept'[i] = kept[i] /\ kept[i] \in Req
            BY <1>0, <3>2, <5>1
          <6> QED BY <1>0, <2>1, <5>1, <6>1 DEF KeptInv, OverInv
        <5>2. CASE i = Len(kept) + 1
          <6>1. kept'[i] = r
            BY <1>0, <3>2, <5>2
          <6> QED BY <1>0, <2>1, <6>1
        <5> QED BY <1>0, <3>2, <5>1, <5>2
      <4> QED BY <2>1, <2>2, <4>1 DEF OverInv
    <3>5. LastInv' /\ NewestInv'
      BY <2>1, <2>2, <3>3 DEF LastInv, NewestInv, Turns
    <3>6. Holds(saved)' /\ Ordered(saved)'
      BY <2>1, <3>3, SMTT(30) DEF Holds, Ordered
    <3> QED BY <2>2, <3>3, <3>4, <3>5, <3>6 DEF KeptInv
  <2>4. CASE r \notin answered
    <3>1. \A q \in Req : ~Recalled(q)
      BY <2>2, <2>4 DEF Recalled
    <3>2. kept' = kept
      BY <2>1, <2>4
    <3>3. \A i \in 1 .. Len(kept) : kept[i] \in Req
      BY <1>0
    <3>4. OverInv'
      BY <1>0, <2>1, <2>2, <3>2, <3>3 DEF KeptInv, OverInv
    <3>5. LastInv' /\ NewestInv'
      BY <2>1, <2>2, <3>1, <3>2 DEF KeptInv, LastInv, NewestInv, Turns
    <3>6. /\ Holds(memory)' /\ Ordered(memory)'
          /\ Holds(saved)' /\ Ordered(saved)'
      <4>1. Holds(memory) /\ Ordered(memory)
        BY DEF KeptInv
      <4>2. /\ saved' = memory /\ memory' = memory /\ kept' = kept
            /\ Turns(memory)' = Turns(memory) /\ Turns(saved)' = Turns(memory)
        BY <2>1, <3>2 DEF Turns
      <4> QED BY <4>1, <4>2 DEF Holds, Ordered
    <3> QED BY <2>2, <3>4, <3>5, <3>6 DEF KeptInv
  <2> QED BY <2>3, <2>4
<1>10. ASSUME NEW r \in Req, CommitFails(r) PROVE KeptInv'
  BY <1>0, <1>10, AsideKeeps
  DEF CommitFails, Advance, Recalled, KeptInv, ReturnedInv, OverInv
<1>11. CASE ClearMemory
  <2>1. /\ kept' = <<>> /\ memory' = <<>>
        /\ UNCHANGED <<pc, answered>>
        /\ \A q \in Req : ~Recalled(q)
    BY <1>11 DEF ClearMemory, ClearStep, Recalled
  <2>2. Holds(memory)' /\ Ordered(memory)' /\ Holds(saved)' /\ Ordered(saved)'
    BY <2>1 DEF Holds, Ordered
  <2> QED
    BY <2>1, <2>2
    DEF KeptInv, LastInv, ReturnedInv, OverInv, NewestInv, Recalled
<1>12. CASE ClearChecksRestart
  BY <1>0, <1>12, AsideKeeps
  DEF ClearChecksRestart, ClearStep, Recalled, KeptInv, ReturnedInv, OverInv
<1>13. CASE ClearCommits
  <2>1. /\ kept = <<>> /\ UNCHANGED <<kept, pc, answered, memory>>
    BY <1>13 DEF ClearCommits, ClearStep, KeptInv, OverInv
  <2>2. Holds(memory)' /\ Ordered(memory)' /\ Holds(saved)' /\ Ordered(saved)'
    BY <2>1 DEF Holds, Ordered
  <2> QED
    BY <2>1, <2>2
    DEF KeptInv, LastInv, ReturnedInv, OverInv, NewestInv, Recalled
<1>14. CASE ClearCommitFails
  BY <1>0, <1>14, AsideKeeps
  DEF ClearCommitFails, ClearStep, Recalled, KeptInv, ReturnedInv, OverInv
<1>15. CASE ClearTranscript
  BY <1>0, <1>15, AsideKeeps
  DEF ClearTranscript, ClearStep, Recalled, Committing, KeptInv, ReturnedInv,
      OverInv
<1>16. CASE RequestRestart
  BY <1>0, <1>16, AsideKeeps
  DEF RequestRestart, Recalled, Committing, KeptInv, ReturnedInv, OverInv
\* The memory is what the snapshot holds.
<1>17. CASE NewProcess
  <2>1. /\ memory' = saved /\ UNCHANGED <<saved, kept, answered>>
        /\ clearing' = "no"
        /\ pc' = [r \in Req |-> IF pc[r] \in Underway THEN "dropped" ELSE pc[r]]
    BY <1>17 DEF NewProcess
  <2>2. \A r \in Req : ~Recalled(r)'
    BY <2>1 DEF Recalled
  <2>3. OverInv' /\ ReturnedInv'
    BY <1>0, <2>1 DEF KeptInv, OverInv, ReturnedInv
  <2>4. NewestInv' /\ LastInv'
    BY <2>1, <2>2 DEF KeptInv, NewestInv, LastInv, Turns
  <2> QED BY <2>1, <2>3, <2>4 DEF KeptInv, Holds, Ordered, Turns
<1>18. CASE Finished \/ UNCHANGED vars
  BY <1>0, <1>18, AsideKeeps
  DEF Finished, Recalled, Committing, KeptInv, ReturnedInv, OverInv
<1> QED
  BY <1>1, <1>2, <1>3, <1>4, <1>5, <1>6, <1>7, <1>8, <1>9, <1>10, <1>11,
     <1>12, <1>13, <1>14, <1>15, <1>16, <1>17, <1>18
  DEF Next

\* The inductive invariant implies the property.
LEMMA KeptIsRemembered == TypeOK /\ KeptInv => CommittedTurnsRemembered
<1> SUFFICES ASSUME TypeOK, KeptInv, NEW i \in 1 .. Len(kept),
                    kept[i] \notin Turns(saved)
             PROVE  /\ Len(saved) = MaxTurns
                    /\ \A j \in 1 .. i : kept[j] \notin Turns(saved)
                    /\ CommitsFail \/ i < Len(kept)
  BY DEF CommittedTurnsRemembered
<1>1. Len(kept) \in Nat /\ kept # <<>>
  BY DEF TypeOK
<1>2. CommitsFail \/ i # Len(kept)
  BY <1>1 DEF KeptInv, NewestInv
<1> QED BY <1>1, <1>2 DEF KeptInv, Holds

\* Theorem: with one connection, over any number of failed commits, restarts and
\* clears, what process_request committed is in the snapshot the next process
\* restores, but for what a full history pushed out, oldest first.
THEOREM CommittedAreKept ==
  ASSUME ~Shared
  PROVE  Spec => []CommittedTurnsRemembered
<1>1. Init => KeptInv
  BY InitKept
<1>2. IInv /\ KeptInv /\ [Next]_vars => KeptInv'
  BY NextKept
<1>3. TypeOK /\ KeptInv => CommittedTurnsRemembered
  BY KeptIsRemembered
<1>4. IInv => TypeOK
  BY DEF IInv
<1> QED BY <1>1, <1>2, <1>3, <1>4, Inductive, PTL DEF Spec

-----------------------------------------------------------------------------
(* The page: invariants of what it shows and has asked for.                 *)

\* Types; a page that is away waits for nothing.
Ask == [kind : {"eager"}] \cup [kind : {"day"}, before : 0 .. now]
       \cup [kind : {"range"}, start : Nat, end : Nat]
StoredRow == [row : Rows, at : 0 .. now]

ScrollTypes ==
  /\ paged \in BOOLEAN /\ page \in BOOLEAN
  /\ now \in Nat /\ started \in [Req -> 0 .. now]
  /\ pc \in [Req -> Stages] /\ rows \subseteq Rows
  /\ stored \subseteq StoredRow /\ airing \subseteq Rows /\ owed \subseteq Rows
  /\ shown \subseteq [row : Rows, at : 0 .. now, live : BOOLEAN]
  /\ asks \in Seq(Ask)
  /\ \/ batch = Nothing
     \/ batch \in [kind : {"batch"}, messages : SUBSET StoredRow,
                   older : BOOLEAN, cursor : BOOLEAN]
  /\ ~page => asks = <<>> /\ batch = Nothing

\* The stages before a request's user row.
Ahead == {"new", "running", "ended", "asking"}

\* A row that is still to come is not in the store, nor was it as the page came.
FreshInv ==
  \A r \in Req :
    /\ pc[r] \in Ahead =>
         User(r) \notin owed /\ \A s \in stored : s.row # User(r)
    /\ pc[r] \in Ahead \cup {"asked"} =>
         Reply(r) \notin owed /\ \A s \in stored : s.row # Reply(r)

\* A reply stored since the page came has been broadcast to it, or is to be.
LiveInv ==
  page => \A s \in stored :
            s.row.kind = "reply" /\ s.row \notin airing \cup owed => Shows(s)

\* A row that the page shows, or that what is under way brings.
Coming(s) ==
  \/ Shows(s)
  \/ \E i \in DOMAIN asks : asks[i].kind = "day" /\ asks[i].before = s.at
  \/ batch # Nothing /\ s \in batch.messages

Filled(t) == \A s \in stored : s.row \in owed /\ s.at >= t => Coming(s)

\* From its oldest message on the chat has no gap, nor will it have one by what
\* is under way; an empty chat waits for its first day.
ShownInv == page /\ shown # {} => Filled(Oldest(shown))
BatchInv ==
  page /\ batch # Nothing /\ batch.messages # {} => Filled(Oldest(batch.messages))
AskInv ==
  page => \A i \in DOMAIN asks :
            /\ asks[i].kind = "day" => Filled(asks[i].before + 1)
            /\ asks[i].kind = "range" => Filled(asks[i].end)
EmptyInv ==
  page /\ shown = {} =>
    \A s \in stored : s.row \in owed =>
      \/ \E i \in DOMAIN asks : asks[i].kind = "day" /\ asks[i].before >= s.at
      \/ batch # Nothing /\ batch.messages # {}

ChatInv == ShownInv /\ BatchInv /\ AskInv /\ EmptyInv
ScrollInv == ScrollTypes /\ FreshInv /\ LiveInv /\ ChatInv

-----------------------------------------------------------------------------
(* Times and days.                                                          *)

\* A non-empty set of naturals has a least member.
LEMMA LeastExists ==
  ASSUME NEW I \in SUBSET Nat, I # {}
  PROVE  \E x \in I : \A y \in I : x <= y
<1> DEFINE R == {p \in Nat \X Nat : p[1] < p[2]}
<1>1. IsWellFoundedOn(R, Nat)
  BY NatLessThanWellFounded DEF OpToRel
<1>2. PICK x \in I : \A y \in I : <<y, x>> \notin R
  <2> HIDE DEF R
  <2> QED BY <1>1, WFMin
<1>3. \A y \in I : ~ (y < x)
  BY <1>2
<1> QED BY <1>3

\* ... and, if bounded, a greatest.
LEMMA GreatestExists ==
  ASSUME NEW I \in SUBSET Nat, I # {}, NEW n \in Nat, \A x \in I : x <= n
  PROVE  \E x \in I : \A y \in I : y <= x
<1> DEFINE B == {b \in Nat : \A x \in I : x <= b}
<1>1. PICK b \in B : \A c \in B : b <= c
  <2>1. n \in B /\ B \in SUBSET Nat
    OBVIOUS
  <2> HIDE DEF B
  <2> QED BY <2>1, LeastExists
<1>2. b \in I
  <2> SUFFICES ASSUME b \notin I PROVE FALSE
    OBVIOUS
  <2>1. \A x \in I : x < b
    BY <1>1
  <2>2. b > 0
    <3>1. PICK x \in I : TRUE
      OBVIOUS
    <3> QED BY <2>1, <3>1
  <2>3. b - 1 \in B
    BY <2>1, <2>2
  <2> QED BY <1>1, <2>3
<1> QED BY <1>1, <1>2

\* The oldest of some messages, by its time.
LEMMA OldestIsLeast ==
  ASSUME NEW ms, ms # {}, \A m \in ms : m.at \in Nat
  PROVE  /\ Oldest(ms) \in Nat
         /\ \E m \in ms : m.at = Oldest(ms)
         /\ \A m \in ms : Oldest(ms) <= m.at
<1> DEFINE I == {m.at : m \in ms}
<1>1. \E t \in I : \A y \in I : t <= y
  <2>1. I \in SUBSET Nat /\ I # {}
    OBVIOUS
  <2> HIDE DEF I
  <2> QED BY <2>1, LeastExists
<1>2. \E t \in I : \A m \in ms : t <= m.at
  BY <1>1
<1>3. Oldest(ms) \in I /\ \A m \in ms : Oldest(ms) <= m.at
  <2> HIDE DEF I
  <2>1. Oldest(ms) = CHOOSE t \in I : \A m \in ms : t <= m.at
    BY DEF Oldest, I
  <2> QED BY <1>2, <2>1
<1> QED BY <1>3

\* The most recent of some messages up to a time.
LEMMA NewestIsGreatest ==
  ASSUME NEW ms, ms # {}, NEW n \in Nat, \A m \in ms : m.at \in 0 .. n
  PROVE  /\ Newest(ms) \in 0 .. n
         /\ \E m \in ms : m.at = Newest(ms)
         /\ \A m \in ms : m.at <= Newest(ms)
<1> DEFINE I == {m.at : m \in ms}
<1>1. \E t \in I : \A y \in I : y <= t
  <2>1. I \in SUBSET Nat /\ I # {} /\ \A x \in I : x <= n
    OBVIOUS
  <2> HIDE DEF I
  <2> QED BY <2>1, GreatestExists
<1>2. \E t \in I : \A m \in ms : m.at <= t
  BY <1>1
<1>3. Newest(ms) \in I /\ \A m \in ms : m.at <= Newest(ms)
  <2> HIDE DEF I
  <2>1. Newest(ms) = CHOOSE t \in I : \A m \in ms : m.at <= t
    BY DEF Newest, I
  <2> QED BY <1>2, <2>1
<1> QED BY <1>3

\* A time is in its day.
LEMMA InItsDay ==
  ASSUME NEW t \in Nat
  PROVE  /\ DayStart(t) \in Nat
         /\ DayStart(t) <= t /\ t < DayStart(t) + DayLength
<1>1. DayLength \in Nat /\ DayLength > 0
  BY ScrollbackAssumption
<1>2. /\ t \div DayLength \in Nat
      /\ DayLength * (t \div DayLength) <= t
      /\ t < DayLength * (t \div DayLength) + DayLength
  BY <1>1
<1> QED BY <1>1, <1>2 DEF DayStart, Day

\* The oldest of two sets of messages is the oldest of one of them.
LEMMA OldestOfBoth ==
  ASSUME NEW ms, NEW ns, \A m \in ms \cup ns : m.at \in Nat,
         NEW t \in Nat, ms \cup ns # {}, t >= Oldest(ms \cup ns)
  PROVE  \/ ms # {} /\ t >= Oldest(ms)
         \/ ns # {} /\ t >= Oldest(ns)
<1>1. PICK m \in ms \cup ns : m.at = Oldest(ms \cup ns)
  BY OldestIsLeast
<1>2. CASE m \in ms
  <2>1. Oldest(ms) \in Nat /\ Oldest(ms) <= m.at
    BY <1>2, OldestIsLeast
  <2> QED BY <1>1, <1>2, <2>1
<1>3. CASE m \in ns
  <2>1. Oldest(ns) \in Nat /\ Oldest(ns) <= m.at
    BY <1>3, OldestIsLeast
  <2> QED BY <1>1, <1>3, <2>1
<1> QED BY <1>2, <1>3

\* load_day: rows of the store; where a row is not after the cursor there are
\* some, and every such row from the oldest of them on is one of them.
LEMMA LoadDayFills ==
  ASSUME ScrollTypes, NEW before \in 0 .. now
  PROVE  LET ms == LoadDay(before).messages IN
         /\ ms \subseteq stored
         /\ \A s \in stored : s.at <= before =>
              /\ ms # {}
              /\ s.at >= Oldest(ms) => s \in ms
              /\ s.at = before => s \in ms
<1> DEFINE ms == LoadDay(before).messages
           up == UpTo(before)
           start == DayStart(Newest(up))
<1>1. \A s \in stored : s.at \in 0 .. now
  BY DEF ScrollTypes, StoredRow
<1>2. now \in Nat
  BY DEF ScrollTypes
<1>3. up = {s \in stored : s.at <= before}
  BY <1>1, <1>2 DEF UpTo, Between
<1>4. ms = IF up = {} THEN {}
            ELSE {s \in stored : s.at >= start /\ s.at < start + DayLength}
  BY DEF LoadDay, NoRows, Batch, Between
<1>5. ASSUME NEW s \in stored, s.at <= before
      PROVE  /\ ms # {}
             /\ s.at >= Oldest(ms) => s \in ms
             /\ s.at = before => s \in ms
  <2>1. s \in up /\ up # {}
    BY <1>3, <1>5
  <2>2. \A m \in up : m.at \in 0 .. before
    BY <1>1, <1>2, <1>3
  <2> HIDE DEF up
  <2>3. /\ Newest(up) \in 0 .. before
        /\ \E m \in up : m.at = Newest(up)
        /\ s.at <= Newest(up)
    BY <1>2, <2>1, <2>2, NewestIsGreatest
  <2>4. start \in Nat /\ start <= Newest(up) /\ Newest(up) < start + DayLength
    BY <1>2, <2>3, InItsDay
  <2> HIDE DEF start
  <2>5. DayLength \in Nat
    BY ScrollbackAssumption
  <2>6. PICK m \in up : m.at = Newest(up)
    BY <2>3
  <2>7. m \in stored
    BY <1>3
  <2>8. ms = {u \in stored : u.at >= start /\ u.at < start + DayLength}
    BY <1>4, <2>1
  <2> HIDE DEF ms
  <2>9. m \in ms
    BY <2>4, <2>6, <2>7, <2>8
  <2>10. \A u \in ms : u.at \in Nat /\ start <= u.at
    BY <1>1, <1>2, <2>8
  <2>11. Oldest(ms) \in Nat /\ \E u \in ms : u.at = Oldest(ms)
    BY <2>9, <2>10, OldestIsLeast
  <2>12. start <= Oldest(ms)
    BY <2>10, <2>11
  <2>13. s.at < start + DayLength /\ s.at \in Nat
    BY <1>1, <1>2, <2>3, <2>4, <2>5
  <2>14. s.at >= Oldest(ms) => s \in ms
    BY <2>4, <2>8, <2>11, <2>12, <2>13
  <2>15. s.at = before => s.at >= start
    BY <1>2, <2>3, <2>4
  <2> QED BY <2>8, <2>9, <2>13, <2>14, <2>15
<1>6. ms \subseteq stored
  BY <1>4
<1> QED BY <1>5, <1>6

-----------------------------------------------------------------------------
(* Steps of the requests.                                                   *)

\* Every step is one of Transcript's, or leaves its variables alone.
LEMMA StepsAreTranscripts == [ScrollNext]_all => [Next]_vars
BY DEF ScrollNext, RequestNext, ClearGoesOn, StartShown, AppendUserStored,
       EmitReplyStored, ClearMemoryInTurn, ClearTranscriptShown,
       NewProcessShown, Broadcast, Tick, Connect, Disconnect, Read, Deliver,
       ScrollUp, Jump, Next, all, vars

\* No request comes back to a stage before its rows.
StagesMove ==
  /\ pc' \in [Req -> Stages] /\ rows' \subseteq Rows
  /\ \A r \in Req :
       /\ pc'[r] \in Ahead => pc[r] \in Ahead
       /\ pc'[r] \in Ahead \cup {"asked"} => pc[r] \in Ahead \cup {"asked"}

\* Stages and rows, step by step.
LEMMA RequestsMove ==
  ASSUME pc \in [Req -> Stages], rows \subseteq Rows, [Next]_vars
  PROVE  StagesMove
<1> USE DEF StagesMove, Stages, Ahead
<1>1. ASSUME NEW r \in Req, NEW to \in Stages, pc' = [pc EXCEPT ![r] = to],
             to \notin Ahead \/ pc[r] \in Ahead,
             to = "asked" => pc[r] \in Ahead, UNCHANGED rows
      PROVE  StagesMove
  BY <1>1
<1>2. ASSUME NEW r \in Req, Start(r) PROVE StagesMove
  BY <1>1, <1>2 DEF Start, Advance
<1>3. ASSUME NEW r \in Req, LoopReturns(r) \/ LoopRaises(r) PROVE StagesMove
  BY <1>1, <1>3 DEF LoopReturns, LoopRaises, Advance
<1>4. ASSUME NEW r \in Req, CheckUserChat(r) PROVE StagesMove
  BY <1>1, <1>4 DEF CheckUserChat, Advance
<1>5. ASSUME NEW r \in Req, AppendUserChat(r) PROVE StagesMove
  BY <1>5, RowsDiffer DEF AppendUserChat, Advance
<1>6. ASSUME NEW r \in Req, EmitReply(r) PROVE StagesMove
  BY <1>6, RowsDiffer DEF EmitReply, Advance
<1>7. ASSUME NEW r \in Req, Recall(r) \/ Commit(r) \/ CommitFails(r)
      PROVE  StagesMove
  BY <1>1, <1>7 DEF Recall, Commit, CommitFails, Advance
<1>8. ASSUME NEW r \in Req, CheckRestart(r) PROVE StagesMove
  BY <1>1, <1>8 DEF CheckRestart, AtPersist
<1>9. CASE ClearMemory \/ ClearChecksRestart \/ ClearCommits \/ ClearCommitFails
  BY <1>9 DEF ClearMemory, ClearChecksRestart, ClearCommits, ClearCommitFails
<1>10. CASE ClearTranscript \/ RequestRestart
  BY <1>10 DEF ClearTranscript, RequestRestart
<1>11. CASE NewProcess
  BY <1>11 DEF NewProcess, Underway
<1>12. CASE UNCHANGED vars
  BY <1>12 DEF vars
<1>13. CASE Finished
  BY <1>13, <1>12 DEF Finished
<1> QED
  BY <1>2, <1>3, <1>4, <1>5, <1>6, <1>7, <1>8, <1>9, <1>10, <1>11, <1>12,
     <1>13
  DEF Next

-----------------------------------------------------------------------------
(* Types.                                                                   *)

\* Steps that leave the page, its queue and the clock alone.
Idle == UNCHANGED scrollback

\* The cases of a step, the first those that the page does not notice.
ScrollStep ==
  \/ Idle
  \/ \E r \in Req : StartShown(r) \/ AppendUserStored(r) \/ EmitReplyStored(r)
  \/ \E row \in Rows : Broadcast(row)
  \/ ClearTranscriptShown \/ NewProcessShown \/ Tick \/ Connect \/ Disconnect
  \/ Read \/ Deliver \/ ScrollUp \/ \E start \in Times : Jump(start)

\* Every step is one of these.
LEMMA StepCases == [ScrollNext]_all => ScrollStep
BY DEF ScrollNext, ClearGoesOn, ClearMemoryInTurn, ScrollStep, Idle, all

\* Messages a page is sent are rows of the store, which have their times.
LEMMA AnswersAreRows ==
  ASSUME ScrollTypes, asks # <<>>, NEW b \in Answers(Head(asks))
  PROVE  b \in [kind : {"batch"}, messages : SUBSET StoredRow,
               older : BOOLEAN, cursor : BOOLEAN]
<1>1. \A start, end : Batch(start, end) \in
        [kind : {"batch"}, messages : SUBSET StoredRow,
         older : BOOLEAN, cursor : BOOLEAN]
  BY DEF Batch, Between, ScrollTypes
<1>2. NoRows \in [kind : {"batch"}, messages : SUBSET StoredRow,
                 older : BOOLEAN, cursor : BOOLEAN]
  BY DEF NoRows
<1>3. Head(asks) \in Ask
  BY DEF ScrollTypes
<1>4. \E start, end : b = Batch(start, end) \/ b = NoRows
  BY <1>3 DEF Ask, Answers, LoadDay, LoadRange
<1> QED BY <1>1, <1>2, <1>4

\* A page's asks, as they are taken and as one is added.
LEMMA AsksMove ==
  ASSUME ScrollTypes
  PROVE  /\ asks # <<>> => /\ Head(asks) \in Ask /\ Tail(asks) \in Seq(Ask)
                           /\ 1 \in DOMAIN asks /\ Head(asks) = asks[1]
                           /\ \A i \in DOMAIN Tail(asks) :
                                i + 1 \in DOMAIN asks /\ Tail(asks)[i] = asks[i + 1]
                           /\ \A i \in DOMAIN asks : i # 1 =>
                                i - 1 \in DOMAIN Tail(asks)
                                /\ Tail(asks)[i - 1] = asks[i]
         /\ \A ask \in Ask :
              /\ Append(asks, ask) \in Seq(Ask)
              /\ DOMAIN Append(asks, ask) = DOMAIN asks \cup {Len(asks) + 1}
              /\ \A i \in DOMAIN asks : Append(asks, ask)[i] = asks[i]
              /\ Append(asks, ask)[Len(asks) + 1] = ask
<1> DEFINE A == Ask
<1>1. asks \in Seq(A)
  BY DEF ScrollTypes
<1> HIDE DEF A
<1>2. ASSUME asks # <<>>
      PROVE  /\ Head(asks) \in A /\ Tail(asks) \in Seq(A)
             /\ Len(Tail(asks)) = Len(asks) - 1 /\ Len(asks) \in Nat \ {0}
             /\ Head(asks) = asks[1]
             /\ \A i \in 1 .. Len(Tail(asks)) : Tail(asks)[i] = asks[i + 1]
  BY <1>1, <1>2, HeadTailProperties
<1>3. ASSUME asks # <<>>, NEW i \in DOMAIN asks, i # 1
      PROVE  i - 1 \in DOMAIN Tail(asks) /\ Tail(asks)[i - 1] = asks[i]
  <2>1. i \in 1 .. Len(asks) /\ DOMAIN Tail(asks) = 1 .. Len(asks) - 1
    BY <1>1, <1>2, <1>3
  <2>2. i - 1 \in 1 .. Len(Tail(asks)) /\ i - 1 + 1 = i
    BY <1>2, <1>3, <2>1
  <2> QED BY <1>2, <1>3, <2>1, <2>2
<1>4. asks # <<>> =>
        /\ 1 \in DOMAIN asks
        /\ \A i \in DOMAIN Tail(asks) : i + 1 \in DOMAIN asks
  BY <1>1, <1>2
<1>5. asks # <<>> => \A i \in DOMAIN Tail(asks) : Tail(asks)[i] = asks[i + 1]
  BY <1>1, <1>2
<1>6. \A ask \in A :
        /\ Append(asks, ask) \in Seq(A)
        /\ DOMAIN Append(asks, ask) = DOMAIN asks \cup {Len(asks) + 1}
        /\ \A i \in DOMAIN asks : Append(asks, ask)[i] = asks[i]
        /\ Append(asks, ask)[Len(asks) + 1] = ask
  BY <1>1, AppendProperties
<1> QED BY <1>2, <1>3, <1>4, <1>5, <1>6 DEF A

\* Asks keep their type as time goes by.
LEMMA TypesLast ==
  ASSUME ScrollTypes, now' \in Nat, now <= now'
  PROVE  /\ Seq(Ask) \subseteq Seq(Ask)' /\ StoredRow \subseteq StoredRow'
         /\ 0 .. now \subseteq 0 .. now'
<1>1. 0 .. now \subseteq 0 .. now'
  BY DEF ScrollTypes
<1>2. Ask \subseteq Ask' /\ StoredRow \subseteq StoredRow'
  BY <1>1 DEF Ask, StoredRow
<1>3. \A S, T : S \subseteq T => Seq(S) \subseteq Seq(T)
  OBVIOUS
<1> QED BY <1>1, <1>2, <1>3

\* What the page is sent.
Batches == [kind : {"batch"}, messages : SUBSET StoredRow, older : BOOLEAN,
            cursor : BOOLEAN]

\* Every step keeps the types.
LEMMA NextScrollTypes ==
  ASSUME ScrollTypes, [ScrollNext]_all
  PROVE  ScrollTypes'
<1>1. pc' \in [Req -> Stages] /\ rows' \subseteq Rows
  BY StepsAreTranscripts, RequestsMove DEF ScrollTypes, StagesMove
<1>2. ScrollStep
  BY StepCases
<1> USE <1>1, RowsDiffer
<1>3. CASE Idle
  BY <1>3
  DEF Idle, scrollback, clock, store, browser, queue, chat, ScrollTypes,
      StoredRow, Ask
<1>4. ASSUME NEW r \in Req, StartShown(r) PROVE ScrollTypes'
  <2>1. /\ UNCHANGED <<paged, now, stored, airing, page, asks, batch, owed>>
        /\ started' = [started EXCEPT ![r] = now]
        /\ shown' \subseteq shown \cup {Live(User(r), now)}
    BY <1>4 DEF StartShown, store, queue
  <2>2. started' \in [Req -> 0 .. now]
    BY <2>1 DEF ScrollTypes
  <2>3. Live(User(r), now) \in [row : Rows, at : 0 .. now, live : BOOLEAN]
    BY DEF Live, ScrollTypes
  <2> QED BY <2>1, <2>2, <2>3 DEF ScrollTypes, StoredRow, Ask
<1>5. ASSUME NEW r \in Req, AppendUserStored(r) \/ EmitReplyStored(r)
      PROVE  ScrollTypes'
  <2>1. /\ UNCHANGED <<paged, now, started, page, asks, batch, shown, owed>>
        /\ stored' \subseteq
             stored \cup {Stored(User(r), started[r]), Stored(Reply(r), now)}
        /\ airing' \subseteq airing \cup {Reply(r)}
    BY <1>5 DEF AppendUserStored, EmitReplyStored, clock, store, browser, queue,
                chat
  <2>2. {Stored(User(r), started[r]), Stored(Reply(r), now)} \subseteq StoredRow
    BY DEF Stored, StoredRow, ScrollTypes
  <2> QED BY <2>1, <2>2 DEF ScrollTypes, StoredRow, Ask
<1>6. ASSUME NEW row \in Rows, Broadcast(row) PROVE ScrollTypes'
  <2>1. /\ UNCHANGED <<paged, now, started, stored, page, asks, batch, owed>>
        /\ airing' \subseteq airing
        /\ shown' \subseteq shown \cup {Live(row, now)}
    BY <1>6 DEF Broadcast, clock, queue
  <2>2. Live(row, now) \in [row : Rows, at : 0 .. now, live : BOOLEAN]
    BY DEF Live, ScrollTypes
  <2> QED BY <2>1, <2>2 DEF ScrollTypes, StoredRow, Ask
<1>7. CASE ClearTranscriptShown
  BY <1>7 DEF ClearTranscriptShown, clock, queue, ScrollTypes, StoredRow, Ask
<1>8. CASE NewProcessShown \/ Disconnect
  <2>1. /\ UNCHANGED <<paged, now, started, stored, shown, owed>>
        /\ airing' \subseteq airing
        /\ page' = FALSE /\ asks' = <<>> /\ batch' = Nothing
    BY <1>8 DEF NewProcessShown, Disconnect, Disconnected, clock, store, chat
  <2>2. asks' \in Seq(Ask)
    BY <2>1
  <2> QED BY <2>1, <2>2 DEF ScrollTypes, StoredRow, Ask
<1>9. CASE Tick
  <2>1. /\ now' = now + 1
        /\ UNCHANGED <<paged, started, stored, airing, page, asks, batch, shown,
                       owed>>
    BY <1>9 DEF Tick, store, browser, queue, chat
  <2>2. now' \in Nat /\ now <= now'
    BY <2>1 DEF ScrollTypes
  <2>3. /\ Seq(Ask) \subseteq Seq(Ask)' /\ StoredRow \subseteq StoredRow'
        /\ 0 .. now \subseteq 0 .. now'
    BY <2>2, TypesLast
  <2>4. started' \in [Req -> 0 .. now']
    BY <2>1, <2>3 DEF ScrollTypes
  <2>5. asks' \in Seq(Ask)' /\ stored' \subseteq StoredRow'
    BY <2>1, <2>3 DEF ScrollTypes
  <2>6. shown' \subseteq [row : Rows, at : 0 .. now', live : BOOLEAN]
    BY <2>1, <2>3 DEF ScrollTypes
  <2>7. \/ batch' = Nothing
        \/ batch' \in [kind : {"batch"}, messages : SUBSET StoredRow',
                      older : BOOLEAN, cursor : BOOLEAN]
    BY <2>1, <2>3 DEF ScrollTypes
  <2> QED BY <2>1, <2>2, <2>4, <2>5, <2>6, <2>7 DEF ScrollTypes
<1>10. CASE Connect
  <2>1. /\ UNCHANGED <<paged, now, started, stored, airing, batch>>
        /\ page' = TRUE /\ shown' = {}
        /\ asks' = <<[kind |-> "eager"], DayBefore(now)>>
        /\ owed' = {s.row : s \in stored}
    BY <1>10 DEF Connect, clock, store
  <2>2. [kind |-> "eager"] \in Ask /\ DayBefore(now) \in Ask
    BY DEF Ask, DayBefore, ScrollTypes
  <2>3. asks' \in Seq(Ask)
    BY <2>1, <2>2
  <2>4. owed' \subseteq Rows
    BY <2>1 DEF ScrollTypes, StoredRow
  <2> QED BY <2>1, <2>3, <2>4 DEF ScrollTypes, StoredRow, Ask
<1>11. CASE Read
  <2>1. /\ UNCHANGED <<paged, now, started, stored, airing, page, shown, owed>>
        /\ asks # <<>> /\ asks' = Tail(asks)
    BY <1>11 DEF Read, clock, store, chat
  <2>2. PICK b \in Answers(Head(asks)) :
          batch' = [b EXCEPT !.cursor = Head(asks).kind # "eager"]
    BY <1>11 DEF Read
  <2>3. b \in Batches
    BY <2>1, AnswersAreRows DEF Batches
  <2>4. batch' \in Batches
    BY <2>2, <2>3 DEF Batches
  <2>5. asks' \in Seq(Ask)
    BY <2>1, AsksMove
  <2>6. page
    BY <2>1 DEF ScrollTypes
  <2> QED BY <2>1, <2>4, <2>5, <2>6 DEF ScrollTypes, Batches, StoredRow, Ask
<1>12. CASE Deliver
  <2>1. /\ UNCHANGED <<paged, now, started, stored, airing, page, asks, owed>>
        /\ batch # Nothing /\ batch' = Nothing
        /\ shown' = shown \cup {Historical(s) : s \in batch.messages}
    BY <1>12 DEF Deliver, clock, store
  <2>2. batch.messages \subseteq StoredRow
    BY <2>1 DEF ScrollTypes
  <2>3. \A s \in StoredRow :
          Historical(s) \in [row : Rows, at : 0 .. now, live : BOOLEAN]
    BY DEF Historical, StoredRow
  <2> QED BY <2>1, <2>2, <2>3 DEF ScrollTypes, StoredRow, Ask
<1>13. ASSUME NEW ask \in Ask, asks' = Append(asks, ask), page,
              UNCHANGED <<paged, now, started, stored, airing, page, batch,
                          shown, owed>>
       PROVE  ScrollTypes'
  <2>1. asks' \in Seq(Ask)
    BY <1>13, AsksMove
  <2> QED BY <1>13, <2>1 DEF ScrollTypes, StoredRow, Ask
<1>14. shown # {} => Oldest(shown) \in 0 .. now
  <2>1. \A m \in shown : m.at \in 0 .. now /\ m.at \in Nat
    BY DEF ScrollTypes
  <2> QED BY <2>1, OldestIsLeast
<1>15. CASE ScrollUp
  <2>1. /\ asks' = Append(asks, DayBefore(Oldest(shown) - 1)) /\ page
        /\ UNCHANGED <<paged, now, started, stored, airing, page, batch, shown,
                       owed>>
        /\ shown # {} /\ Oldest(shown) > 0
    BY <1>15 DEF ScrollUp, Asking, clock, store
  <2>2. DayBefore(Oldest(shown) - 1) \in Ask
    <3>1. Oldest(shown) - 1 \in 0 .. now
      BY <1>14, <2>1 DEF ScrollTypes
    <3> QED BY <3>1 DEF Ask, DayBefore
  <2> QED BY <1>13, <2>1, <2>2
<1>16. ASSUME NEW start \in Times, Jump(start) PROVE ScrollTypes'
  <2> DEFINE ask == [kind |-> "range", start |-> start,
                     end |-> IF shown = {} THEN now ELSE Oldest(shown)]
  <2>1. /\ asks' = Append(asks, ask) /\ page
        /\ UNCHANGED <<paged, now, started, stored, airing, page, batch, shown,
                       owed>>
    BY <1>16 DEF Jump, Asking, clock, store, chat
  <2>2. ask \in Ask
    <3>1. start \in Nat
      BY DEF Times
    <3>2. (IF shown = {} THEN now ELSE Oldest(shown)) \in Nat
      BY <1>14 DEF ScrollTypes
    <3> QED BY <3>1, <3>2 DEF Ask
  <2> HIDE DEF ask
  <2> QED BY <1>13, <2>1, <2>2
<1> QED
  BY <1>2, <1>3, <1>4, <1>5, <1>6, <1>7, <1>8, <1>9, <1>10, <1>11, <1>12,
     <1>15, <1>16
  DEF ScrollStep

-----------------------------------------------------------------------------
(* The rows that the page came to, and those since.                         *)

\* Every step stores rows that are new to the page.
LEMMA NextFresh ==
  ASSUME ScrollTypes, FreshInv, [ScrollNext]_all
  PROVE  FreshInv'
<1>1. StagesMove
  BY StepsAreTranscripts, RequestsMove DEF ScrollTypes
<1>2. ScrollStep
  BY StepCases
<1>3. ASSUME stored' \subseteq stored, owed' \subseteq owed \cup {s.row : s \in stored}
      PROVE  FreshInv'
  BY <1>1, <1>3 DEF FreshInv, StagesMove
<1>4. ASSUME NEW r \in Req, AppendUserStored(r) PROVE FreshInv'
  <2>1. /\ owed' = owed /\ pc[r] = "asking" /\ pc'[r] = "asked"
        /\ stored' \subseteq stored \cup {Stored(User(r), started[r])}
    BY <1>4 DEF AppendUserStored, AppendUserChat, Advance, browser, ScrollTypes
  <2>2. Stored(User(r), started[r]).row = User(r)
    BY DEF Stored
  <2> QED BY <1>1, <2>1, <2>2, RowsDiffer DEF FreshInv, StagesMove, Ahead
<1>5. ASSUME NEW r \in Req, EmitReplyStored(r) PROVE FreshInv'
  <2>1. /\ owed' = owed /\ pc[r] = "asked" /\ pc'[r] = "replied"
        /\ stored' \subseteq stored \cup {Stored(Reply(r), now)}
    BY <1>5 DEF EmitReplyStored, EmitReply, Advance, browser, store, ScrollTypes
  <2>2. Stored(Reply(r), now).row = Reply(r)
    BY DEF Stored
  <2>3. \A q \in Req : Reply(q) = Reply(r) => q = r
    BY DEF Reply
  <2> QED BY <1>1, <2>1, <2>2, <2>3, RowsDiffer DEF FreshInv, StagesMove, Ahead
<1>6. CASE Idle \/ \E r \in Req : StartShown(r)
  BY <1>3, <1>6 DEF Idle, StartShown, scrollback, store, browser
<1>7. CASE \E row \in Rows : Broadcast(row)
  BY <1>3, <1>7 DEF Broadcast
<1>8. CASE ClearTranscriptShown \/ NewProcessShown \/ Tick \/ Disconnect
  BY <1>3, <1>8
  DEF ClearTranscriptShown, NewProcessShown, Tick, Disconnect, Disconnected,
      store, browser
<1>9. CASE Connect
  BY <1>3, <1>9 DEF Connect, store
<1>10. CASE Read \/ Deliver \/ ScrollUp \/ \E start \in Times : Jump(start)
  BY <1>3, <1>10 DEF Read, Deliver, ScrollUp, Jump, store, chat
<1> QED BY <1>2, <1>4, <1>5, <1>6, <1>7, <1>8, <1>9, <1>10 DEF ScrollStep

\* Every step shows the page each reply, or keeps it for the broadcast.
LEMMA NextLive ==
  ASSUME ScrollTypes, LiveInv, [ScrollNext]_all
  PROVE  LiveInv'
<1>1. ScrollStep
  BY StepCases
<1>2. ASSUME stored' \subseteq stored, airing' = airing, owed' = owed,
             page' = page, shown \subseteq shown'
      PROVE  LiveInv'
  BY <1>2 DEF LiveInv, Shows
<1>3. ASSUME NEW r \in Req, AppendUserStored(r) PROVE LiveInv'
  <2>1. /\ UNCHANGED <<airing, page, shown, owed>>
        /\ stored' \subseteq stored \cup {Stored(User(r), started[r])}
    BY <1>3 DEF AppendUserStored, browser, chat
  <2>2. Stored(User(r), started[r]).row.kind = "user"
    BY DEF Stored, User
  <2> QED BY <2>1, <2>2 DEF LiveInv, Shows
<1>4. ASSUME NEW r \in Req, EmitReplyStored(r) PROVE LiveInv'
  <2>1. /\ UNCHANGED <<page, shown, owed>>
        /\ \/ /\ stored' = stored \cup {Stored(Reply(r), now)}
              /\ airing' = airing \cup {Reply(r)}
           \/ UNCHANGED <<stored, airing>>
    BY <1>4 DEF EmitReplyStored, browser, chat, store
  <2>2. Stored(Reply(r), now).row = Reply(r)
    BY DEF Stored
  <2> QED BY <2>1, <2>2 DEF LiveInv, Shows
<1>5. ASSUME NEW row \in Rows, Broadcast(row) PROVE LiveInv'
  <2>1. /\ UNCHANGED <<page, stored, owed>>
        /\ airing' = airing \ {row}
        /\ shown' = IF page THEN shown \cup {Live(row, now)} ELSE shown
    BY <1>5 DEF Broadcast, Heard
  <2>2. Live(row, now).row = row
    BY DEF Live
  <2> QED BY <2>1, <2>2 DEF LiveInv, Shows
<1>6. CASE ClearTranscriptShown \/ NewProcessShown \/ Disconnect
  BY <1>6
  DEF ClearTranscriptShown, NewProcessShown, Disconnect, Disconnected, LiveInv
<1>7. CASE Connect
  BY <1>7 DEF Connect, LiveInv, store
<1>8. CASE Idle \/ Tick
  BY <1>2, <1>8 DEF Idle, Tick, scrollback, store, browser, chat
<1>9. CASE \E r \in Req : StartShown(r)
  BY <1>2, <1>9 DEF StartShown, store
<1>10. CASE Read \/ Deliver \/ ScrollUp \/ \E start \in Times : Jump(start)
  BY <1>2, <1>10 DEF Read, Deliver, ScrollUp, Jump, store, chat
<1> QED BY <1>1, <1>3, <1>4, <1>5, <1>6, <1>7, <1>8, <1>9, <1>10 DEF ScrollStep

-----------------------------------------------------------------------------
(* The chat, which has no gap from its oldest message on.                   *)

\* What is filled stays so while no row of the kind is stored and none that was
\* coming is lost.
LEMMA FilledStays ==
  ASSUME \A s \in stored' : s.row \in owed' => s \in stored /\ s.row \in owed,
         \A s \in stored : s.row \in owed /\ Coming(s) => Coming(s)'
  PROVE  \A t : Filled(t) =>
           \A s \in stored' : s.row \in owed' /\ s.at >= t => Coming(s)'
BY DEF Filled

\* The page waits for nothing that is stored now.
LEMMA NowIsFilled ==
  ASSUME ScrollTypes, ChatInv, page
  PROVE  Filled(now)
<1> SUFFICES ASSUME NEW s \in stored, s.row \in owed, s.at >= now PROVE Coming(s)
  BY DEF Filled
<1>1. s.at = now /\ now \in Nat
  BY DEF ScrollTypes, StoredRow
<1>2. CASE shown # {}
  <2>1. \A m \in shown : m.at \in Nat /\ m.at <= now
    BY DEF ScrollTypes
  <2>2. Oldest(shown) <= now /\ Oldest(shown) \in Nat
    BY <1>2, <2>1, OldestIsLeast
  <2> QED BY <1>1, <1>2, <2>2 DEF ChatInv, ShownInv, Filled
<1>3. CASE shown = {}
  <2>1. CASE batch # Nothing /\ batch.messages # {}
    <3>1. \A m \in batch.messages : m.at \in Nat /\ m.at <= now
      BY <2>1 DEF ScrollTypes, StoredRow
    <3>2. Oldest(batch.messages) <= now /\ Oldest(batch.messages) \in Nat
      BY <2>1, <3>1, OldestIsLeast
    <3> QED BY <1>1, <2>1, <3>2 DEF ChatInv, BatchInv, Filled
  <2>2. CASE \E i \in DOMAIN asks : asks[i].kind = "day" /\ asks[i].before >= s.at
    <3>1. PICK i \in DOMAIN asks : asks[i].kind = "day" /\ asks[i].before >= s.at
      BY <2>2
    <3>2. asks[i].before \in 0 .. now
      BY <3>1 DEF ScrollTypes, Ask
    <3> QED BY <1>1, <3>1, <3>2 DEF Coming
  <2> QED BY <1>3, <2>1, <2>2 DEF ChatInv, EmptyInv
<1> QED BY <1>2, <1>3

\* A step that the page does not notice.
LEMMA RestKeeps ==
  ASSUME ChatInv, UNCHANGED <<page, shown, asks, batch>>,
         \A s \in stored' : s.row \in owed' => s \in stored /\ s.row \in owed
  PROVE  ChatInv'
<1>1. \A s : Coming(s) <=> Coming(s)'
  BY DEF Coming, Shows
<1>2. \A t : Filled(t) =>
        \A s \in stored' : s.row \in owed' /\ s.at >= t => Coming(s)'
  BY <1>1, FilledStays
<1>3. ShownInv' /\ BatchInv'
  BY <1>2 DEF ChatInv, ShownInv, BatchInv, Filled, Oldest
<1>4. AskInv'
  BY <1>2 DEF ChatInv, AskInv, Filled
<1>5. EmptyInv'
  BY DEF ChatInv, EmptyInv
<1> QED BY <1>3, <1>4, <1>5 DEF ChatInv

\* A live message.
LEMMA LiveKeeps ==
  ASSUME ScrollTypes, ChatInv, page, NEW m, m.at = now, shown' = shown \cup {m},
         UNCHANGED <<page, stored, asks, batch, owed>>
  PROVE  ChatInv'
<1>1. \A s : Coming(s) => Coming(s)'
  BY DEF Coming, Shows
<1>2. \A t : Filled(t) =>
        \A s \in stored' : s.row \in owed' /\ s.at >= t => Coming(s)'
  BY <1>1, FilledStays
<1>3. ShownInv'
  <2> SUFFICES ASSUME NEW s \in stored', s.row \in owed', s.at >= Oldest(shown')
               PROVE  Coming(s)'
    BY DEF ShownInv, Filled
  <2>1. \A u \in shown \cup {m} : u.at \in Nat
    BY DEF ScrollTypes
  <2>2. s.at \in Nat
    BY DEF ScrollTypes, StoredRow
  <2>3. \/ shown # {} /\ s.at >= Oldest(shown)
        \/ s.at >= Oldest({m})
    BY <2>1, <2>2, OldestOfBoth
  <2>4. Oldest({m}) = now
    BY <2>1, OldestIsLeast
  <2>5. Filled(now) /\ (shown # {} => Filled(Oldest(shown)))
    BY NowIsFilled DEF ChatInv, ShownInv
  <2> QED BY <1>2, <2>3, <2>4, <2>5
<1>4. BatchInv'
  BY <1>2 DEF ChatInv, BatchInv, Filled, Oldest
<1>5. AskInv'
  BY <1>2 DEF ChatInv, AskInv, Filled
<1>6. EmptyInv'
  BY DEF EmptyInv
<1> QED BY <1>3, <1>4, <1>5, <1>6 DEF ChatInv

\* An ask up to a message that the chat goes back to without a gap.
LEMMA AskKeeps ==
  ASSUME ScrollTypes, ChatInv, page, NEW ask \in Ask, asks' = Append(asks, ask),
         UNCHANGED <<page, stored, shown, batch, owed>>,
         ask.kind = "day" => Filled(ask.before + 1),
         ask.kind = "range" => Filled(ask.end)
  PROVE  ChatInv'
<1>1. /\ DOMAIN asks' = DOMAIN asks \cup {Len(asks) + 1}
      /\ \A i \in DOMAIN asks : asks'[i] = asks[i]
      /\ asks'[Len(asks) + 1] = ask
  BY AsksMove
<1>2. \A s : Coming(s) => Coming(s)'
  BY <1>1 DEF Coming, Shows
<1>3. \A t : Filled(t) =>
        \A s \in stored' : s.row \in owed' /\ s.at >= t => Coming(s)'
  BY <1>2, FilledStays
<1>4. ShownInv' /\ BatchInv'
  BY <1>3 DEF ChatInv, ShownInv, BatchInv, Filled, Oldest
<1>5. AskInv'
  BY <1>1, <1>3 DEF ChatInv, AskInv, Filled
<1>6. EmptyInv'
  BY <1>1 DEF ChatInv, EmptyInv
<1> QED BY <1>4, <1>5, <1>6 DEF ChatInv

\* The handler reads for the next ask.
LEMMA ReadKeeps ==
  ASSUME ScrollTypes, ChatInv, Read
  PROVE  ChatInv'
<1>1. /\ asks # <<>> /\ asks' = Tail(asks) /\ batch = Nothing
      /\ UNCHANGED <<page, stored, shown, owed>>
  BY DEF Read, store, chat
<1>2. page
  BY <1>1 DEF ScrollTypes
<1>3. PICK b \in Answers(Head(asks)) :
        batch' = [b EXCEPT !.cursor = Head(asks).kind # "eager"]
  BY DEF Read
<1> DEFINE ms == b.messages
<1>4. batch'.messages = ms /\ batch' # Nothing
  <2>1. b \in Batches
    BY <1>1, AnswersAreRows DEF Batches
  <2> QED BY <1>3, <2>1 DEF Batches, Nothing
<1>5. /\ Head(asks) \in Ask /\ 1 \in DOMAIN asks /\ asks[1] = Head(asks)
      /\ \A i \in DOMAIN asks' : i + 1 \in DOMAIN asks /\ asks'[i] = asks[i + 1]
      /\ \A i \in DOMAIN asks :
           i # 1 => i - 1 \in DOMAIN asks' /\ asks'[i - 1] = asks[i]
  BY <1>1, AsksMove
<1>6. \A s \in stored : s.at \in 0 .. now
  BY DEF ScrollTypes, StoredRow
<1>7. now \in Nat
  BY DEF ScrollTypes
<1>8. /\ Head(asks).kind = "eager" => ms = {} \/ ms = LoadDay(now).messages
      /\ Head(asks).kind = "day" => ms = LoadDay(Head(asks).before).messages
      /\ Head(asks).kind = "range" =>
           ms = {s \in stored : s.at >= Head(asks).start /\ s.at < Head(asks).end}
  BY <1>3, <1>5 DEF Ask, Answers, NoRows, LoadRange, Batch, Between
<1> HIDE DEF ms
<1>9. ASSUME NEW s \in stored, Head(asks).kind = "day", s.at <= Head(asks).before
      PROVE  /\ ms # {}
             /\ s.at >= Oldest(ms) => s \in ms
             /\ s.at = Head(asks).before => s \in ms
  <2>1. Head(asks).before \in 0 .. now
    BY <1>5, <1>9 DEF Ask
  <2> QED BY <1>8, <1>9, <2>1, LoadDayFills
<1>10. ASSUME NEW s \in stored, Coming(s) PROVE Coming(s)'
  <2>1. CASE Shows(s)
    BY <1>1, <2>1 DEF Coming, Shows
  <2>2. CASE \E i \in DOMAIN asks : asks[i].kind = "day" /\ asks[i].before = s.at
    <3>1. PICK i \in DOMAIN asks : asks[i].kind = "day" /\ asks[i].before = s.at
      BY <2>2
    <3>2. CASE i = 1
      <4>1. s \in ms
        BY <1>5, <1>6, <1>9, <3>1, <3>2
      <4> QED BY <1>4, <4>1 DEF Coming
    <3>3. CASE i # 1
      BY <1>5, <3>1, <3>3 DEF Coming
    <3> QED BY <3>2, <3>3
  <2> QED BY <1>1, <1>10, <2>1, <2>2 DEF Coming
<1>11. \A t : Filled(t) =>
        \A s \in stored' : s.row \in owed' /\ s.at >= t => Coming(s)'
  BY <1>1, <1>10, FilledStays
<1>12. ShownInv'
  BY <1>1, <1>2, <1>11 DEF ChatInv, ShownInv, Filled, Oldest
<1>13. AskInv'
  BY <1>2, <1>5, <1>11 DEF ChatInv, AskInv, Filled
<1>14. BatchInv'
  <2> SUFFICES ASSUME ms # {}, NEW s \in stored, s.row \in owed, s.at >= Oldest(ms)
               PROVE  Coming(s)'
    BY <1>1, <1>4 DEF BatchInv, Filled
  <2>1. s \in ms => Coming(s)'
    BY <1>4 DEF Coming
  <2>2. CASE Head(asks).kind = "eager"
    <3>1. s.at <= now /\ now \in 0 .. now
      BY <1>6, <1>7
    <3> QED BY <1>8, <2>1, <2>2, <3>1, LoadDayFills
  <2>3. CASE Head(asks).kind = "day"
    <3>1. Head(asks).before \in Nat
      BY <1>5, <2>3 DEF Ask
    <3>2. Filled(Head(asks).before + 1)
      BY <1>2, <1>5, <2>3 DEF ChatInv, AskInv
    <3>3. CASE s.at <= Head(asks).before
      BY <1>9, <2>1, <2>3, <3>3
    <3>4. CASE ~ (s.at <= Head(asks).before)
      <4>1. s.at >= Head(asks).before + 1
        BY <1>6, <3>1, <3>4
      <4> QED BY <1>1, <1>11, <3>2, <4>1
    <3> QED BY <3>3, <3>4
  <2>4. CASE Head(asks).kind = "range"
    <3>1. Head(asks).end \in Nat /\ Head(asks).start \in Nat
      BY <1>5, <2>4 DEF Ask
    <3>2. Filled(Head(asks).end)
      BY <1>2, <1>5, <2>4 DEF ChatInv, AskInv
    <3>3. CASE s.at >= Head(asks).end
      BY <1>1, <1>11, <3>2, <3>3
    <3>4. CASE ~ (s.at >= Head(asks).end)
      <4>1. \A u \in ms : u.at \in Nat /\ u.at >= Head(asks).start
        BY <1>6, <1>8, <2>4
      <4>2. Oldest(ms) \in Nat /\ \E u \in ms : u.at = Oldest(ms)
        BY <4>1, OldestIsLeast
      <4>3. s.at >= Head(asks).start
        BY <1>6, <3>1, <4>1, <4>2
      <4>4. s.at < Head(asks).end
        BY <1>6, <3>1, <3>4
      <4> QED BY <1>8, <2>1, <2>4, <4>3, <4>4
    <3> QED BY <3>3, <3>4
  <2> QED BY <1>5, <2>2, <2>3, <2>4 DEF Ask
<1>15. EmptyInv'
  <2> SUFFICES ASSUME shown = {}, NEW s \in stored, s.row \in owed
               PROVE  \/ \E i \in DOMAIN asks' :
                           asks'[i].kind = "day" /\ asks'[i].before >= s.at
                      \/ ms # {}
    BY <1>1, <1>4 DEF EmptyInv
  <2>1. PICK i \in DOMAIN asks : asks[i].kind = "day" /\ asks[i].before >= s.at
    BY <1>1, <1>2 DEF ChatInv, EmptyInv
  <2>2. CASE i = 1
    <3>1. Head(asks).before \in Nat
      BY <1>5, <2>1, <2>2 DEF Ask
    <3>2. s.at <= Head(asks).before
      BY <1>5, <1>6, <2>1, <2>2, <3>1
    <3> QED BY <1>5, <1>9, <2>1, <2>2, <3>2
  <2>3. CASE i # 1
    BY <1>5, <2>1, <2>3
  <2> QED BY <2>2, <2>3
<1> QED BY <1>12, <1>13, <1>14, <1>15 DEF ChatInv

\* A batch comes.
LEMMA DeliverKeeps ==
  ASSUME ScrollTypes, ChatInv, Deliver
  PROVE  ChatInv'
<1> DEFINE ms == batch.messages
           hs == {Historical(s) : s \in ms}
<1>1. /\ batch # Nothing /\ batch' = Nothing /\ shown' = shown \cup hs
      /\ UNCHANGED <<page, stored, asks, owed>>
  BY DEF Deliver, store
<1>2. page
  BY <1>1 DEF ScrollTypes
<1>3. \A m \in ms : m.at \in Nat
  BY <1>1 DEF ScrollTypes, StoredRow
<1>4. \A m \in hs : \E s \in ms : m = Historical(s) /\ m.row = s.row /\ m.at = s.at
  BY DEF Historical
<1>5. \A s \in ms : Historical(s) \in hs /\ Historical(s).row = s.row
  BY DEF Historical
<1> HIDE DEF hs, ms
<1>6. \A s : Coming(s) => Coming(s)'
  BY <1>1, <1>5 DEF Coming, Shows, ms
<1>7. \A t : Filled(t) =>
        \A s \in stored' : s.row \in owed' /\ s.at >= t => Coming(s)'
  BY <1>1, <1>6, FilledStays
<1>8. ShownInv'
  <2> SUFFICES ASSUME NEW s \in stored, s.row \in owed, shown' # {},
                      s.at >= Oldest(shown')
               PROVE  Coming(s)'
    BY <1>1 DEF ShownInv, Filled, Oldest
  <2>1. \A m \in shown \cup hs : m.at \in Nat
    BY <1>3, <1>4 DEF ScrollTypes
  <2>2. s.at \in Nat
    BY DEF ScrollTypes, StoredRow
  <2>3. \/ shown # {} /\ s.at >= Oldest(shown)
        \/ hs # {} /\ s.at >= Oldest(hs)
    BY <1>1, <2>1, <2>2, OldestOfBoth
  <2>4. CASE shown # {} /\ s.at >= Oldest(shown)
    BY <1>1, <1>2, <1>7, <2>4 DEF ChatInv, ShownInv
  <2>5. CASE hs # {} /\ s.at >= Oldest(hs)
    <3>1. PICK h \in hs : h.at = Oldest(hs)
      BY <2>1, <2>5, OldestIsLeast
    <3>2. PICK u \in ms : u.at = h.at
      BY <1>4
    <3>3. Oldest(ms) \in Nat /\ Oldest(ms) <= u.at
      BY <1>3, OldestIsLeast
    <3>4. s.at >= Oldest(ms) /\ ms # {}
      BY <1>3, <2>2, <2>5, <3>1, <3>2, <3>3
    <3>5. Filled(Oldest(ms))
      BY <1>1, <1>2, <3>4 DEF ChatInv, BatchInv, ms
    <3> QED BY <1>1, <1>7, <3>4, <3>5
  <2> QED BY <2>3, <2>4, <2>5
<1>9. BatchInv'
  BY <1>1 DEF BatchInv
<1>10. AskInv'
  BY <1>1, <1>2, <1>7 DEF ChatInv, AskInv, Filled
<1>11. EmptyInv'
  <2>1. shown' = {} => shown = {} /\ ms = {}
    BY <1>1, <1>5
  <2> QED BY <1>1, <1>2, <2>1 DEF ChatInv, EmptyInv, ms
<1> QED BY <1>8, <1>9, <1>10, <1>11 DEF ChatInv

\* A page comes: its own newest day is the newest of all it is owed.
LEMMA ConnectKeeps ==
  ASSUME ScrollTypes, Connect
  PROVE  ChatInv'
<1>1. /\ shown' = {} /\ batch' = Nothing /\ stored' = stored
      /\ asks' = <<[kind |-> "eager"], DayBefore(now)>>
  BY DEF Connect, store, ScrollTypes
<1>2. /\ DOMAIN asks' = {1, 2}
      /\ asks'[1].kind = "eager" /\ asks'[2].kind = "day" /\ asks'[2].before = now
  BY <1>1 DEF DayBefore
<1>3. \A s \in stored : s.at <= now /\ ~ (s.at >= now + 1)
  BY DEF ScrollTypes, StoredRow
<1>4. ShownInv' /\ BatchInv'
  BY <1>1 DEF ShownInv, BatchInv
<1>5. AskInv'
  BY <1>1, <1>2, <1>3 DEF AskInv, Filled
<1>6. EmptyInv'
  <2>1. \A s \in stored' : asks'[2].before >= s.at
    BY <1>1, <1>2, <1>3 DEF ScrollTypes, StoredRow
  <2> QED BY <1>2, <2>1 DEF EmptyInv
<1> QED BY <1>4, <1>5, <1>6 DEF ChatInv

\* Every step leaves the chat without a gap that nothing fills.
LEMMA NextChat ==
  ASSUME ScrollTypes, FreshInv, ChatInv, [ScrollNext]_all
  PROVE  ChatInv'
<1>1. ScrollStep
  BY StepCases
<1>2. CASE ~page' \/ stored' = {}
  <2>1. \A t : stored' = {} =>
          \A s \in stored' : s.row \in owed' /\ s.at >= t => Coming(s)'
    OBVIOUS
  <2> QED BY <1>2, <2>1 DEF ChatInv, ShownInv, BatchInv, AskInv, EmptyInv, Filled
<1>3. CASE Idle \/ Tick
  BY <1>3, RestKeeps DEF Idle, Tick, scrollback, store, browser, queue, chat
<1>4. ASSUME NEW r \in Req, StartShown(r) PROVE ChatInv'
  <2>1. /\ UNCHANGED <<page, stored, asks, batch, owed>>
        /\ shown' = IF page THEN shown \cup {Live(User(r), now)} ELSE shown
    BY <1>4 DEF StartShown, store, queue
  <2>2. Live(User(r), now).at = now
    BY DEF Live
  <2> QED BY <1>2, <2>1, <2>2, LiveKeeps
<1>5. ASSUME NEW row \in Rows, Broadcast(row) PROVE ChatInv'
  <2>1. /\ UNCHANGED <<page, stored, asks, batch, owed>>
        /\ shown' = IF page THEN shown \cup {Live(row, now)} ELSE shown
    BY <1>5 DEF Broadcast, queue, Heard
  <2>2. Live(row, now).at = now
    BY DEF Live
  <2> QED BY <1>2, <2>1, <2>2, LiveKeeps
<1>6. ASSUME NEW r \in Req, AppendUserStored(r) PROVE ChatInv'
  <2>1. /\ UNCHANGED <<page, shown, asks, batch, owed>> /\ pc[r] = "asking"
        /\ stored' \subseteq stored \cup {Stored(User(r), started[r])}
    BY <1>6 DEF AppendUserStored, AppendUserChat, Advance, browser, chat, queue
  <2>2. Stored(User(r), started[r]).row = User(r) /\ User(r) \notin owed
    BY <2>1 DEF Stored, FreshInv, Ahead
  <2> QED BY <2>1, <2>2, RestKeeps
<1>7. ASSUME NEW r \in Req, EmitReplyStored(r) PROVE ChatInv'
  <2>1. /\ UNCHANGED <<page, shown, asks, batch, owed>> /\ pc[r] = "asked"
        /\ stored' \subseteq stored \cup {Stored(Reply(r), now)}
    BY <1>7 DEF EmitReplyStored, EmitReply, Advance, browser, chat, queue, store
  <2>2. Stored(Reply(r), now).row = Reply(r) /\ Reply(r) \notin owed
    BY <2>1 DEF Stored, FreshInv, Ahead
  <2> QED BY <2>1, <2>2, RestKeeps
<1>8. CASE ClearTranscriptShown \/ NewProcessShown \/ Disconnect
  BY <1>2, <1>8 DEF ClearTranscriptShown, NewProcessShown, Disconnect, Disconnected
<1>9. shown # {} => Oldest(shown) \in Nat
  <2>1. \A m \in shown : m.at \in Nat
    BY DEF ScrollTypes
  <2> QED BY <2>1, OldestIsLeast
<1>10. CASE ScrollUp
  <2>1. /\ asks' = Append(asks, DayBefore(Oldest(shown) - 1)) /\ page
        /\ UNCHANGED <<page, stored, shown, batch, owed>>
        /\ shown # {} /\ Oldest(shown) > 0
    BY <1>10 DEF ScrollUp, Asking, store
  <2>2. Oldest(shown) - 1 \in 0 .. now /\ Oldest(shown) - 1 + 1 = Oldest(shown)
    <3>1. \A m \in shown : m.at \in Nat /\ m.at <= now
      BY DEF ScrollTypes
    <3>2. Oldest(shown) <= now
      BY <2>1, <3>1, OldestIsLeast
    <3> QED BY <1>9, <2>1, <3>2 DEF ScrollTypes
  <2>3. /\ DayBefore(Oldest(shown) - 1) \in Ask
        /\ DayBefore(Oldest(shown) - 1).kind = "day"
        /\ DayBefore(Oldest(shown) - 1).before = Oldest(shown) - 1
    BY <2>2 DEF Ask, DayBefore
  <2>4. Filled(Oldest(shown))
    BY <2>1 DEF ChatInv, ShownInv
  <2> QED BY <2>1, <2>2, <2>3, <2>4, AskKeeps
<1>11. ASSUME NEW start \in Times, Jump(start) PROVE ChatInv'
  <2> DEFINE end == IF shown = {} THEN now ELSE Oldest(shown)
             ask == [kind |-> "range", start |-> start, end |-> end]
  <2>1. /\ asks' = Append(asks, ask) /\ page
        /\ UNCHANGED <<page, stored, shown, batch, owed>>
    BY <1>11 DEF Jump, Asking, store, chat
  <2>2. Filled(end)
    BY <2>1, NowIsFilled DEF ChatInv, ShownInv
  <2>3. end \in Nat /\ start \in Nat
    BY <1>9 DEF ScrollTypes, Times
  <2> HIDE DEF end
  <2>4. ask \in Ask /\ ask.kind = "range" /\ ask.end = end
    BY <2>3 DEF Ask
  <2> HIDE DEF ask
  <2> QED BY <2>1, <2>2, <2>4, AskKeeps
<1> QED
  BY <1>1, <1>3, <1>4, <1>5, <1>6, <1>7, <1>8, <1>10, <1>11, ReadKeeps,
     DeliverKeeps, ConnectKeeps
  DEF ScrollStep

\* The requests that are over as the page comes have their rows, the others none.
LEMMA InitScroll == ScrollInit => ScrollInv
<1> SUFFICES ASSUME ScrollInit PROVE ScrollInv
  OBVIOUS
<1> USE ScrollbackAssumption
<1>1. /\ page = FALSE /\ asks = <<>> /\ batch = Nothing /\ shown = {} /\ owed = {}
      /\ airing = {} /\ started = [r \in Req |-> 0] /\ paged \in BOOLEAN
  BY DEF ScrollInit
<1>2. ChatInv /\ LiveInv
  BY <1>1 DEF ChatInv, ShownInv, BatchInv, AskInv, EmptyInv, LiveInv
<1>3. asks \in Seq(Ask)
  BY <1>1
<1>4. CASE ~paged
  <2>1. /\ pc = [r \in Req |-> "new"] /\ rows = {} /\ now = 0 /\ stored = {}
    BY <1>4 DEF ScrollInit, Init
  <2>2. ScrollTypes
    <3>1. now \in Nat /\ started \in [Req -> 0 .. now]
      BY <1>1, <2>1
    <3>2. /\ stored \subseteq StoredRow
          /\ shown \subseteq [row : Rows, at : 0 .. now, live : BOOLEAN]
      BY <1>1, <2>1
    <3>3. pc \in [Req -> Stages]
      BY <2>1 DEF Stages
    <3> QED BY <1>1, <1>3, <2>1, <3>1, <3>2, <3>3 DEF ScrollTypes
  <2> QED BY <1>1, <1>2, <2>1, <2>2 DEF ScrollInv, FreshInv
<1>5. CASE paged
  <2>1. PagedInit
    BY <1>5 DEF ScrollInit
  <2>2. PICK t \in PastTimes, busy \in BOOLEAN :
          /\ stored = {Stored(PastRow(i), t[i]) : i \in 1 .. 2 * PastLength}
          /\ pc = [r \in Req |-> IF r \in Past THEN "done"
                                ELSE IF busy THEN "new" ELSE "dropped"]
          /\ now \in {FirstTime, LastTime}
    BY <2>1 DEF PagedInit
  <2>3. /\ now \in Nat /\ FirstTime <= now /\ pc \in [Req -> Stages]
    BY <2>2 DEF Stages
  <2>4. ASSUME NEW i \in 1 .. 2 * PastLength
        PROVE  \E r \in Past \cap Req : PastRow(i) = User(r) \/ PastRow(i) = Reply(r)
    <3>1. CASE i % 2 = 1
      <4>1. (i + 1) \div 2 \in 1 .. PastLength
        BY <3>1
      <4>2. Order[(i + 1) \div 2] \in Past \cap Req
        BY <4>1 DEF Past
      <4> QED BY <3>1, <4>2 DEF PastRow
    <3>2. CASE i % 2 # 1
      <4>1. i \div 2 \in 1 .. PastLength
        BY <3>2
      <4>2. Order[i \div 2] \in Past \cap Req
        BY <4>1 DEF Past
      <4> QED BY <3>2, <4>2 DEF PastRow
    <3> QED BY <3>1, <3>2
  <2>5. \A i \in 1 .. 2 * PastLength : t[i] \in 0 .. now
    BY <2>3 DEF PastTimes
  <2>6. \A s \in stored :
          /\ s \in StoredRow
          /\ \E r \in Past \cap Req : s.row = User(r) \/ s.row = Reply(r)
    BY <2>2, <2>4, <2>5, RowsDiffer DEF Stored, StoredRow
  <2>7. rows \subseteq Rows
    <3>1. rows = {s.row : s \in stored}
      BY <2>1 DEF PagedInit
    <3> QED BY <2>6, <3>1 DEF StoredRow
  <2>8. ScrollTypes
    <3>1. started \in [Req -> 0 .. now]
      BY <1>1, <2>3
    <3>2. /\ stored \subseteq StoredRow
          /\ shown \subseteq [row : Rows, at : 0 .. now, live : BOOLEAN]
      BY <1>1, <2>6
    <3> QED BY <1>1, <1>3, <2>3, <2>7, <3>1, <3>2 DEF ScrollTypes
  <2>9. FreshInv
    <3> SUFFICES ASSUME NEW r \in Req, pc[r] \in Ahead \cup {"asked"}
                 PROVE  \A s \in stored : s.row # User(r) /\ s.row # Reply(r)
      BY <1>1 DEF FreshInv
    <3>1. r \notin Past
      BY <2>2 DEF Ahead
    <3>2. \A q \in Req : Reply(q) = Reply(r) => q = r
      BY DEF Reply
    <3> QED BY <2>6, <3>1, <3>2, RowsDiffer
  <2> QED BY <1>2, <2>8, <2>9 DEF ScrollInv
<1> QED BY <1>4, <1>5

\* The invariant of the page is inductive.
LEMMA NextScroll == ScrollInv /\ [ScrollNext]_all => ScrollInv'
BY NextScrollTypes, NextFresh, NextLive, NextChat DEF ScrollInv

\* Theorem: with nothing under way the chat has no gap from its oldest message
\* on, whatever was stored, broadcast, scrolled and jumped to, over reconnects,
\* clears and restarts.
THEOREM NoHoles == ScrollSpec => []Contiguous
<1>1. ScrollInv => Contiguous
  <2> SUFFICES ASSUME ScrollInv, Settled, shown # {}, NEW s \in stored,
                      s.at >= Oldest(shown), Due(s)
               PROVE  Shows(s)
    BY DEF Contiguous
  <2>1. CASE s.row \in owed
    <3>1. Coming(s)
      BY <2>1 DEF ScrollInv, ChatInv, ShownInv, Settled, Filled
    <3> QED BY <3>1 DEF Coming, Settled
  <2>2. CASE s.row \notin owed
    BY <2>2 DEF Due, Settled, ScrollInv, LiveInv
  <2> QED BY <2>1, <2>2
<1> QED BY <1>1, InitScroll, NextScroll, PTL DEF ScrollSpec

\* What the page finds is a conversation whose requests are over and committed.
LEMMA PageFinds == ScrollInit => IInv /\ KeptInv
<1> SUFFICES ASSUME ScrollInit PROVE IInv /\ KeptInv
  OBVIOUS
<1>1. CASE ~paged
  BY <1>1, InitIInv, InitKept DEF ScrollInit
<1>2. CASE paged
  <2>1. PagedInit
    BY <1>2 DEF ScrollInit
  <2>2. /\ pc \in [Req -> {"done", "new", "dropped"}]
        /\ \A r \in Req : pc[r] = "done" <=> r \in Past
        /\ clears \in 0 .. MaxClears /\ life \in 1 .. MaxLives
    BY <2>1, ScrollbackAssumption, TranscriptAssumption DEF PagedInit
  <2>3. /\ memory = SubSeq(Order, 1, PastLength) /\ saved = memory /\ kept = memory
        /\ requested = FALSE /\ clearing = "no" /\ late = {} /\ escaped = {}
        /\ answered = Past /\ rows = {s.row : s \in stored}
    BY <2>1 DEF PagedInit
  <2>4. /\ memory \in Seq(Req) /\ Len(memory) = PastLength
        /\ \A i \in 1 .. Len(memory) : memory[i] = Order[i]
        /\ PastLength \in Nat /\ PastLength <= MaxTurns
    BY <2>3, ScrollbackAssumption
  <2>5. Turns(memory) = Past /\ Past \subseteq Req
    BY <2>4, ScrollbackAssumption DEF Turns, Past
  <2>6. rows \subseteq Rows /\ \A r \in Past : User(r) \in rows
    <3>1. rows \subseteq Rows
      BY InitScroll DEF ScrollInv, ScrollTypes
    <3>2. ASSUME NEW i \in 1 .. PastLength PROVE User(Order[i]) \in rows
      <4>1. PICK t : stored = {Stored(PastRow(j), t[j]) : j \in 1 .. 2 * PastLength}
        BY <2>1 DEF PagedInit
      <4>2. 2 * i - 1 \in 1 .. 2 * PastLength
        BY <2>4
      <4>3. PastRow(2 * i - 1) = User(Order[i])
        <5>1. (2 * i - 1) % 2 = 1 /\ (2 * i - 1 + 1) \div 2 = i
          BY <2>4
        <5> QED BY <5>1 DEF PastRow
      <4>4. Stored(PastRow(2 * i - 1), t[2 * i - 1]) \in stored
        BY <4>1, <4>2
      <4> QED BY <2>3, <4>3, <4>4 DEF Stored
    <3> QED BY <3>1, <3>2 DEF Past
  <2>7. \A r \in Req : pc[r] \in Ahead => User(r) \notin rows
    BY <2>3, InitScroll DEF ScrollInv, FreshInv
  <2>8. TypeOK
    BY <2>2, <2>3, <2>4, <2>5, <2>6 DEF TypeOK, Stages
  <2>9. IInv
    BY <2>2, <2>3, <2>5, <2>6, <2>7, <2>8
    DEF IInv, Alone, AskedInv, MemoryInv, SavedInv, ClearInv, LateInv, EarlyInv,
        Committing, Underway, Seen, Ahead
  <2>10. \A i \in 1 .. Len(kept) : kept[i] \in Turns(memory) /\ pc[kept[i]] = "done"
    BY <2>2, <2>3, <2>4, <2>5 DEF Turns
  <2>11. Holds(memory) /\ Holds(saved)
    BY <2>3, <2>10 DEF Holds
  <2>12. \A i, j \in 1 .. Len(memory) : memory[i] = memory[j] => i = j
    BY <2>4, ScrollbackAssumption
  <2>13. Ordered(memory) /\ Ordered(saved)
    <3>1. ASSUME NEW a \in 1 .. Len(memory), NEW b \in 1 .. Len(memory),
                 NEW i \in 1 .. Len(kept), NEW j \in 1 .. Len(kept),
                 a < b, memory[a] = kept[i], memory[b] = kept[j]
          PROVE  i < j
      <4>1. a = i /\ b = j
        BY <2>3, <2>12, <3>1
      <4> QED BY <3>1, <4>1
    <3>2. Ordered(memory)
      BY <3>1 DEF Ordered
    <3> QED BY <2>3, <3>2
  <2>14. kept # <<>> => kept[Len(kept)] \in Turns(memory)
    BY <2>3, <2>4, <2>10
  <2> QED
    BY <2>2, <2>3, <2>9, <2>10, <2>11, <2>13, <2>14
    DEF KeptInv, LastInv, ReturnedInv, OverInv, NewestInv, Recalled
<1> QED BY <1>1, <1>2

\* Theorem: so it is for the transcript that a page looks on, from a
\* conversation it finds: the snapshot is seen, and the committed turns are kept.
THEOREM SoWithAPage ==
  ASSUME ~Shared
  PROVE  ScrollSpec => [](SavedTurnsInTranscript /\ CommittedTurnsRemembered)
<1>1. ScrollInit => IInv /\ KeptInv
  BY PageFinds
<1>2. IInv /\ KeptInv /\ [ScrollNext]_all => IInv' /\ KeptInv'
  BY StepsAreTranscripts, NextIInv, NextKept
<1>3. IInv /\ KeptInv => SavedTurnsInTranscript /\ CommittedTurnsRemembered
  BY KeptIsRemembered DEF IInv, SavedInv, Seen, SavedTurnsInTranscript
<1> QED BY <1>1, <1>2, <1>3, PTL DEF ScrollSpec
=============================================================================
