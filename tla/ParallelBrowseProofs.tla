------------------------ MODULE ParallelBrowseProofs ------------------------
(***************************************************************************)
(* Proofs about ParallelBrowse for any number of calls, requests of the     *)
(* library and sockets.  The invariant says whom an id belongs to: on one   *)
(* socket, to one call or to one request of the library, in every table     *)
(* that holds it.                                                           *)
(*                                                                          *)
(* Proofs about LibraryAction, the tool that makes those calls, for any     *)
(* number of items, tracks, titles and references: the plan suits the       *)
(* request, what was counted was performed, and nothing else is played.     *)
(*                                                                          *)
(* Proofs about QueueFeed, whose items that tool queues, for any number of  *)
(* them and any number of events in flight: references follow the queue,    *)
(* and one that was shown resolves to its item.                             *)
(***************************************************************************)
EXTENDS ParallelBrowse, LibraryAction, QueueFeed, SequenceTheorems, FiniteSetTheorems,
        WellFoundedInduction, TLAPS

\* A call has an id once it was sent, a Future without a value until its reply
\* was handled, and the id of no other call of its socket.  Only once its socket
\* is gone can it be told another's answer.
CallInv ==
  \A c \in Call :
    /\ sock[c] <= socket
    /\ sock[c] = socket => id[c] < nextId
    /\ pc[c] \in {"idle", "entered"} => id[c] = 0 /\ result[c] = "none"
    /\ pc[c] \in {"waiting", "expired"} => id[c] # 0
    /\ pc[c] = "returned" => result[c] # "none"
    /\ result[c] = "foreign" => sock[c] # socket /\ id[c] # 0
    /\ \A d \in Call : id[c] = id[d] /\ sock[c] = sock[d] => c = d \/ id[c] = 0

\* A reply under way carries its request's id, and the library's no call's of
\* that socket.
WireInv ==
  /\ ~connected => wire = {}
  /\ \A m \in wire :
       /\ m.id < nextId
       /\ m.to \in Call => id[m.to] = m.id /\ sock[m.to] = socket
       /\ m.to \in Lib => \A c \in Call : id[c] = m.id => sock[c] # socket

\* The ids in the two tables are calls' ids, and a pending one has no answer;
\* replies were taken only for calls that have one.
TableInv ==
  /\ \A i \in DOMAIN pending : id[pending[i]] = i /\ result[pending[i]] = "none"
  /\ \A i \in DOMAIN late : i # 0 /\ id[late[i]] = i
  /\ \A s \in swallowed : id[s[2]] # 0

\* The reply being handled is the answer to the call it was claimed for, if that
\* was sent over this socket.
HandlingInv ==
  handling # None =>
    /\ handling.to = handling.call <=> sock[handling.call] = socket
    /\ id[handling.call] # 0
    /\ result[handling.call] = "none"
    /\ \A i \in DOMAIN pending : pending[i] # handling.call

IInv == /\ TypeOK /\ CallInv /\ WireInv /\ TableInv /\ HandlingInv
        /\ NothingSwallowed

-----------------------------------------------------------------------------
(* Types.                                                                   *)

\* Every step of a call, of the socket's thread and of the library keeps the
\* types.
LEMMA NextTypes == TypeOK /\ [Next]_vars => TypeOK'
<1> SUFFICES ASSUME TypeOK, [Next]_vars PROVE TypeOK'
  OBVIOUS
<1> USE BrowseAssumption DEF Stages, Results, Ids, Replies, calls,
        table, link, traffic
<1>1. ASSUME NEW c \in Call, Enter(c) PROVE TypeOK'
  <2>1. /\ pc' \in [Call -> Stages] /\ sock' \in [Call -> 0 .. MaxSocket]
        /\ patched' \subseteq 1 .. MaxSocket
    <3>1. /\ pc \in [Call -> Stages] /\ sock \in [Call -> 0 .. MaxSocket]
          /\ socket \in 0 .. MaxSocket
          /\ patched \cup {socket} \subseteq 1 .. MaxSocket
      BY DEF TypeOK
    <3>2. pc' \in [Call -> Stages]
      <4>1. /\ (IF connected THEN "entered" ELSE "none") \in Stages
            /\ pc' = [pc EXCEPT ![c] = IF connected THEN "entered" ELSE "none"]
        BY <1>1 DEF Enter, Advance
      <4> QED BY <3>1, <4>1
    <3>3. sock' \in [Call -> 0 .. MaxSocket] /\ patched' \subseteq 1 .. MaxSocket
      <4>1. sock' = [sock EXCEPT ![c] = socket] /\ patched' \subseteq patched \cup {socket}
        BY <1>1 DEF Enter, EnsureSocketPatched
      <4> QED BY <3>1, <4>1
    <3> QED BY <3>2, <3>3
  <2>2. UNCHANGED <<id, result, table, socket, connected, traffic, handling, swallowed>>
    BY <1>1 DEF Enter
  <2> QED BY <2>1, <2>2 DEF TypeOK
<1>2. ASSUME NEW c \in Call, Send(c) PROVE TypeOK'
  BY <1>2 DEF TypeOK, Send, Advance, Put
<1>3. ASSUME NEW c \in Call, SendFails(c) PROVE TypeOK'
  BY <1>3 DEF TypeOK, SendFails, Advance
<1>4. ASSUME NEW c \in Call, Returns(c) PROVE TypeOK'
  BY <1>4 DEF TypeOK, Returns, Advance
<1>5. ASSUME NEW c \in Call, ReturnsNone(c) PROVE TypeOK'
  BY <1>5 DEF TypeOK, ReturnsNone, Advance, Dropped, Restrict
<1>6. ASSUME NEW c \in Call, Expire(c) PROVE TypeOK'
  BY <1>6 DEF TypeOK, Expire, Advance
<1>7. ASSUME NEW c \in Call, GiveUp(c) PROVE TypeOK'
  <2>1. DOMAIN late' \subseteq Nat /\ \A i \in DOMAIN late' : late'[i] \in Call
    <3>1. id[c] \in Nat
      BY DEF TypeOK
    <3>2. PICK fresh \in SUBSET DOMAIN late : late' = Put(Restrict(late, fresh), id[c], c)
      BY <1>7 DEF GiveUp, RecordTimeout
    <3>3. /\ DOMAIN Restrict(late, fresh) = fresh
          /\ \A i \in fresh : Restrict(late, fresh)[i] = late[i]
      BY DEF Restrict
    <3> QED BY <3>1, <3>2, <3>3 DEF TypeOK, Put
  <2>2. /\ DOMAIN pending' \subseteq Ids
        /\ \A i \in DOMAIN pending' : pending'[i] \in Call
    BY <1>7 DEF TypeOK, GiveUp, Dropped, Restrict
  <2> QED BY <1>7, <2>1, <2>2 DEF TypeOK, GiveUp, Advance
<1>8. ASSUME NEW m \in wire, OnMessage(m) PROVE TypeOK'
  BY <1>8 DEF TypeOK, OnMessage, Claim, Awaited, CameLate, NotOurs, KeptFrom, Dropped, Restrict
<1>9. ASSUME NEW l \in Lib, LibSends(l) PROVE TypeOK'
  BY <1>9 DEF TypeOK, LibSends
<1>10. ASSUME Resolve PROVE TypeOK'
  BY <1>10 DEF TypeOK, Resolve
<1>11. ASSUME Drops PROVE TypeOK'
  BY <1>11 DEF TypeOK, Drops
<1>12. ASSUME Reconnects PROVE TypeOK'
  BY <1>12 DEF TypeOK, Reconnects
<1>13. ASSUME UNCHANGED vars PROVE TypeOK'
  BY <1>13 DEF TypeOK, vars
<1> QED BY <1>1, <1>2, <1>3, <1>4, <1>5, <1>6, <1>7, <1>8, <1>9, <1>10, <1>11, <1>12, <1>13 DEF Next, Finished

\* Type correctness.
THEOREM Typed == Spec => []TypeOK
<1>1. Init => TypeOK
  BY BrowseAssumption DEF Init, TypeOK, Stages, Results, Ids, Replies
<1> QED BY <1>1, NextTypes, PTL DEF Spec
-----------------------------------------------------------------------------
(* Whom an id belongs to.                                                   *)

\* A reply is claimed for the call it answers, a late one's id is a call's, and
\* a fresh id is nobody's.
LEMMA NextInv ==
  ASSUME IInv, [Next]_vars
  PROVE  IInv'
<1>1. TypeOK /\ TypeOK'
  BY NextTypes DEF IInv
<1> USE BrowseAssumption, <1>1 DEF IInv, TypeOK, Ids, Replies, NothingSwallowed,
        Dropped, Put, calls, table, link, traffic
<1> DEFINE Rest == CallInv' /\ WireInv' /\ TableInv' /\ HandlingInv'
                   /\ NothingSwallowed'
<1>2. ASSUME NEW c \in Call, Enter(c) PROVE Rest
  <2> USE <1>2 DEF Enter, EnsureSocketPatched, Advance
  <2>1. id[c] = 0 /\ result[c] = "none" /\ sock'[c] = socket
        /\ \A d \in Call \ {c} : sock'[d] = sock[d] /\ pc'[d] = pc[d]
    BY DEF CallInv
  <2>2. CallInv'
    BY <2>1 DEF CallInv
  <2>3. WireInv'
    BY <2>1 DEF WireInv
  <2>4. TableInv' /\ HandlingInv' /\ NothingSwallowed'
    <3>1. TableInv'
      BY DEF TableInv
    <3>2. HandlingInv'
      BY <2>1 DEF HandlingInv
    <3>3. NothingSwallowed'
      <4>1. \A s \in swallowed : s[2] \in Call /\ s[2] # c
        BY <2>1 DEF TableInv
      <4> QED BY <2>1, <4>1 DEF NothingSwallowed
    <3> QED BY <3>1, <3>2, <3>3
  <2> QED BY <2>2, <2>3, <2>4
<1>3. ASSUME NEW c \in Call, Send(c) PROVE Rest
  <2> USE <1>3 DEF Send, Advance
  <2>1. id[c] = 0 /\ result[c] = "none" /\ id'[c] = nextId
    BY DEF CallInv
  <2>2. CallInv'
    BY <2>1 DEF CallInv
  <2>3. WireInv'
    BY <2>1 DEF CallInv, WireInv
  <2>4. \A i \in DOMAIN pending' : id'[pending'[i]] = i /\ result'[pending'[i]] = "none"
    BY <2>1 DEF TableInv
  <2>5. \A i \in DOMAIN late' : i # 0 /\ id'[late'[i]] = i
    BY <2>1 DEF TableInv, CallInv
  <2>6. HandlingInv'
    BY <2>1 DEF CallInv, TableInv, HandlingInv
  <2>7. \A s \in swallowed' : id'[s[2]] # 0
    BY <2>1 DEF TableInv
  <2> QED BY <2>2, <2>3, <2>4, <2>5, <2>6, <2>7 DEF TableInv
<1>4. ASSUME NEW c \in Call, SendFails(c) PROVE Rest
  BY <1>4 DEF CallInv, WireInv, TableInv, HandlingInv, SendFails, Advance
<1>5. ASSUME NEW c \in Call, Returns(c) PROVE Rest
  BY <1>5 DEF CallInv, WireInv, TableInv, HandlingInv, Returns, Advance
<1>6. ASSUME NEW c \in Call, ReturnsNone(c) PROVE Rest
  BY <1>6 DEF CallInv, WireInv, TableInv, HandlingInv, ReturnsNone, Advance, Dropped, Restrict
<1>7. ASSUME NEW c \in Call, Expire(c) PROVE Rest
  BY <1>7 DEF CallInv, WireInv, TableInv, HandlingInv, Expire, Advance
<1>8. ASSUME NEW c \in Call, GiveUp(c) PROVE Rest
  BY <1>8 DEF CallInv, WireInv, TableInv, HandlingInv, GiveUp, RecordTimeout, Advance, Dropped, Restrict
<1>9. ASSUME NEW m \in wire, OnMessage(m) PROVE Rest
  BY <1>9 DEF CallInv, WireInv, TableInv, HandlingInv, OnMessage, Claim, Awaited, CameLate, NotOurs, KeptFrom, Dropped, Restrict
<1>10. ASSUME NEW l \in Lib, LibSends(l) PROVE Rest
  <2> USE <1>10 DEF LibSends
  <2>1. CallInv' /\ TableInv' /\ HandlingInv' /\ NothingSwallowed'
    BY DEF CallInv, TableInv, HandlingInv
  <2>2. WireInv'
    <3>1. \A c \in Call : id'[c] = id[c] /\ (id[c] = nextId => sock[c] # socket)
      BY DEF CallInv
    <3>2. l \notin Call /\ nextId' = nextId + 1
      OBVIOUS
    <3>3. \A m \in wire' : m \in wire \/ m = [id |-> nextId, to |-> l]
      OBVIOUS
    <3> QED BY <3>1, <3>2, <3>3 DEF WireInv
  <2> QED BY <2>1, <2>2
<1>11. ASSUME Resolve PROVE Rest
  <2> USE <1>11 DEF Resolve
  <2>1. PICK d : d = handling.call
    OBVIOUS
  <2>2. /\ d \in Call /\ id[d] # 0 /\ result[d] = "none"
        /\ \A i \in DOMAIN pending : pending[i] # d
        /\ handling.to = d <=> sock[d] = socket
    BY <2>1 DEF HandlingInv
  <2>3. PICK value : /\ result' = [result EXCEPT ![d] = value]
                     /\ value \in {"own", "foreign", "undecodable"}
                     /\ value = "foreign" => sock[d] # socket
    <3>1. PICK value \in {IF handling.to = d THEN "own" ELSE "foreign", "undecodable"} :
             result' = [result EXCEPT ![d] = value]
      BY <2>1
    <3>2. /\ value \in {"own", "foreign", "undecodable"}
          /\ value = "foreign" => sock[d] # socket
      BY <2>2, <3>1
    <3> QED BY <3>1, <3>2
  <2>4. result'[d] = value /\ \A c \in Call : c # d => result'[c] = result[c]
    BY <2>2, <2>3
  <2>5. id' = id /\ pc' = pc /\ sock' = sock /\ socket' = socket /\ nextId' = nextId
        /\ wire' = wire /\ pending' = pending /\ late' = late /\ swallowed' = swallowed
        /\ connected' = connected /\ handling' = None
    OBVIOUS
  <2>6. CallInv'
    <3> SUFFICES ASSUME NEW c \in Call
                 PROVE  /\ pc[c] \in {"idle", "entered"} => result'[c] = "none"
                        /\ pc[c] = "returned" => result'[c] # "none"
                        /\ result'[c] = "foreign" => sock[c] # socket /\ id[c] # 0
      BY <2>5 DEF CallInv
    <3>1. result'[c] # "none" \/ result'[c] = result[c]
      BY <2>3, <2>4
    <3>2. c = d => pc[c] \notin {"idle", "entered"}
      BY <2>2 DEF CallInv
    <3>3. result'[c] = "foreign" => sock[c] # socket /\ id[c] # 0
      BY <2>2, <2>3, <2>4 DEF CallInv
    <3> QED BY <2>3, <2>4, <3>1, <3>2, <3>3 DEF CallInv
  <2>7. WireInv' /\ HandlingInv' /\ NothingSwallowed'
    BY <2>5 DEF WireInv, HandlingInv
  <2>8. TableInv'
    BY <2>2, <2>4, <2>5 DEF TableInv
  <2> QED BY <2>6, <2>7, <2>8
<1>12. ASSUME Drops PROVE Rest
  BY <1>12 DEF CallInv, WireInv, TableInv, HandlingInv, Drops
<1>13. ASSUME Reconnects PROVE Rest
  BY <1>13 DEF CallInv, WireInv, TableInv, HandlingInv, Reconnects
<1>14. ASSUME UNCHANGED vars PROVE Rest
  BY <1>14 DEF CallInv, WireInv, TableInv, HandlingInv, vars
<1> QED BY <1>1, <1>2, <1>3, <1>4, <1>5, <1>6, <1>7, <1>8, <1>9, <1>10, <1>11, <1>12, <1>13, <1>14 DEF Next, Finished

\* The initial state has sent nothing.
LEMMA InvHolds == Spec => []IInv
<1>1. Init => IInv
  BY BrowseAssumption
  DEF Init, IInv, TypeOK, Stages, Results, Ids, Replies, CallInv, WireInv,
      TableInv, HandlingInv, NothingSwallowed
<1>2. IInv /\ [Next]_vars => IInv'
  BY NextInv
<1> QED BY <1>1, <1>2, PTL DEF Spec

\* "chain to the original": no reply to a request of the library is kept from it
\* for a call of the same socket, however calls and time-outs overlap.
THEOREM LibraryIsServed == Spec => []NothingSwallowed
<1>1. IInv => NothingSwallowed
  BY DEF IInv
<1> QED BY <1>1, InvHolds, PTL

-----------------------------------------------------------------------------
(* The refinement of RequestReply.                                          *)

Outcome == [c \in Call |-> OutcomeOf(c)]

\* A step that leaves what callers see of their calls is a stutter of the
\* promise, and one that changes it for a call is a step of that call.
LEMMA OutcomeMoves ==
  ASSUME NEW c \in Call,
         socket' = socket,
         \A d \in Call \ {c} : /\ pc'[d] = pc[d] /\ result'[d] = result[d]
                                /\ id'[d] = id[d] /\ sock'[d] = sock[d]
  PROVE  Outcome' = [Outcome EXCEPT ![c] = OutcomeOf(c)']
<1>1. \A d \in Call \ {c} : OutcomeOf(d)' = OutcomeOf(d)
  BY DEF OutcomeOf, Outlived
<1> QED BY <1>1 DEF Outcome

\* A step that leaves what each call got leaves the whole outcome.
LEMMA OutcomeStays ==
  ASSUME \A d \in Call : OutcomeOf(d)' = OutcomeOf(d)
  PROVE  Outcome' = Outcome
BY DEF Outcome

\* Every step of the dispatch is a step of the promise or none.
LEMMA StepsKeepPromise ==
  ASSUME IInv, [Next]_vars
  PROVE  [Promise!Next]_Outcome
<1> USE DEF IInv, TypeOK, calls, table, link, traffic
<1>1. ASSUME NEW c \in Call, Enter(c) PROVE Promise!Ask(c) \/ Promise!Refuse(c)
  <2>1. Outcome' = [Outcome EXCEPT ![c] = OutcomeOf(c)']
    BY <1>1, OutcomeMoves DEF Enter, EnsureSocketPatched, Advance, TypeOK
  <2> QED
    BY <1>1, <2>1
    DEF Enter, EnsureSocketPatched, Advance, Outcome, OutcomeOf, Outlived, CallInv, Results, Promise!Becomes, Promise!Ask, Promise!Refuse
<1>2. ASSUME NEW c \in Call, Send(c) PROVE Outcome' = Outcome
  BY <1>2, OutcomeStays DEF Send, Advance, OutcomeOf, Outlived, Stages, CallInv, HandlingInv
<1>3. ASSUME NEW c \in Call, SendFails(c) PROVE Promise!GiveUp(c)
  <2>1. Outcome' = [Outcome EXCEPT ![c] = OutcomeOf(c)']
    BY <1>3, OutcomeMoves DEF SendFails, Advance
  <2> QED
    BY <1>3, <2>1
    DEF SendFails, Advance, Outcome, OutcomeOf, Outlived, CallInv, Results, Promise!Becomes, Promise!GiveUp
<1>4. ASSUME NEW c \in Call, Returns(c) PROVE Promise!Answer(c) \/ Promise!Mislead(c)
  <2>1. Outcome' = [Outcome EXCEPT ![c] = OutcomeOf(c)']
    BY <1>4, OutcomeMoves DEF Returns, Advance
  <2>2. result[c] = "foreign" => Outlived(c)
    BY DEF CallInv, Outlived
  <2>3. result[c] = "own" => ~Outlived(c)
    BY DEF Outlived
  <2>4. /\ pc[c] = "waiting" /\ pc'[c] = "returned" /\ result[c] \in {"own", "foreign"}
        /\ result' = result
    BY <1>4 DEF Returns, Advance
  <2>5. /\ OutcomeOf(c)' = result[c]
        /\ OutcomeOf(c) = IF result[c] = "foreign" THEN "astray" ELSE "asked"
    BY <2>2, <2>3, <2>4 DEF OutcomeOf
  <2>6. Outcome[c] = OutcomeOf(c)
    BY DEF Outcome
  <2> QED BY <2>1, <2>4, <2>5, <2>6
          DEF Promise!Becomes, Promise!Answer, Promise!Mislead, Outcome
<1>5. ASSUME NEW c \in Call, ReturnsNone(c) PROVE Promise!GiveUp(c)
  <2>1. Outcome' = [Outcome EXCEPT ![c] = OutcomeOf(c)']
    BY <1>5, OutcomeMoves DEF ReturnsNone, Advance
  <2> QED
    BY <1>5, <2>1
    DEF ReturnsNone, Advance, Outcome, OutcomeOf, Outlived, CallInv, Results, Promise!Becomes, Promise!GiveUp
<1>6. ASSUME NEW c \in Call, Expire(c) PROVE Outcome' = Outcome
  BY <1>6, OutcomeStays DEF Expire, Advance, OutcomeOf, Outlived, Stages, CallInv, HandlingInv
<1>7. ASSUME NEW c \in Call, GiveUp(c) PROVE Promise!GiveUp(c)
  <2>1. Outcome' = [Outcome EXCEPT ![c] = OutcomeOf(c)']
    BY <1>7, OutcomeMoves DEF GiveUp, Advance
  <2> QED
    BY <1>7, <2>1
    DEF GiveUp, Advance, Outcome, OutcomeOf, Outlived, CallInv, Results, Promise!Becomes, Promise!GiveUp
<1>8. ASSUME NEW m \in wire, OnMessage(m) PROVE Outcome' = Outcome
  BY <1>8, OutcomeStays DEF OnMessage, OutcomeOf, Outlived, Stages, CallInv, HandlingInv
<1>9. ASSUME NEW l \in Lib, LibSends(l) PROVE Outcome' = Outcome
  BY <1>9, OutcomeStays DEF LibSends, OutcomeOf, Outlived, Stages, CallInv, HandlingInv
<1>10. ASSUME Resolve PROVE Outcome' = Outcome
  BY <1>10, OutcomeStays DEF Resolve, OutcomeOf, Outlived, Stages, CallInv, HandlingInv
<1>11. ASSUME Drops PROVE Outcome' = Outcome
  BY <1>11, OutcomeStays DEF Drops, OutcomeOf, Outlived, Stages, CallInv, HandlingInv
<1>12. ASSUME Reconnects PROVE \E S \in SUBSET Call : Promise!Outlive(S)
  <2> DEFINE S == {c \in Call : OutcomeOf(c) = "asked" /\ OutcomeOf(c)' = "astray"}
  <2>1. /\ UNCHANGED <<pc, sock, id, result>> /\ socket' = socket + 1
        /\ \A c \in Call : sock[c] <= socket
    BY <1>12 DEF Reconnects, CallInv
  <2>2. \A c \in Call : sock[c] # socket'
    BY <2>1
  <2>3. ASSUME NEW c \in Call
        PROVE  OutcomeOf(c)' = IF c \in S THEN "astray" ELSE OutcomeOf(c)
    <3>1. Outlived(c) => Outlived(c)'
      BY <2>1, <2>2 DEF Outlived
    <3>2. CASE pc[c] \in {"entered", "waiting", "expired"}
      <4>1. /\ OutcomeOf(c) = IF Outlived(c) THEN "astray" ELSE "asked"
            /\ OutcomeOf(c)' = IF Outlived(c)' THEN "astray" ELSE "asked"
        BY <2>1, <3>2 DEF OutcomeOf
      <4> QED BY <3>1, <4>1
    <3>3. CASE pc[c] \in {"idle", "returned", "none"}
      <4>1. OutcomeOf(c)' = OutcomeOf(c) /\ OutcomeOf(c) # "astray"
        BY <2>1, <3>3 DEF OutcomeOf, Results
      <4> QED BY <4>1
    <3> QED BY <3>2, <3>3 DEF Stages
  <2>4. \A c \in S : Outcome[c] = "asked"
    BY DEF Outcome
  <2>5. Outcome' = [c \in Call |-> IF c \in S THEN "astray" ELSE Outcome[c]]
    BY <2>3 DEF Outcome
  <2>6. S \in SUBSET Call
    OBVIOUS
  <2> HIDE DEF S
  <2> QED BY <2>4, <2>5, <2>6 DEF Promise!Outlive, Outcome
<1>13. ASSUME UNCHANGED vars PROVE Outcome' = Outcome
  BY <1>13, OutcomeStays DEF vars, OutcomeOf, Outlived, Stages, CallInv, HandlingInv
<1> QED BY <1>1, <1>2, <1>3, <1>4, <1>5, <1>6, <1>7, <1>8, <1>9, <1>10, <1>11, <1>12, <1>13 DEF Next, Finished, Promise!Next

\* Safety half of the refinement: a call that asked is answered with its own
\* answer or None, once, and what it was told stays; with another's only where
\* its socket was replaced while it waited.
THEOREM KeepsPromise == Spec => Promise!Safety
<1>1. Init => Promise!Init
  BY DEF Init, OutcomeOf, Promise!Init
<1>2. IInv /\ [Next]_vars => [Promise!Next]_Outcome
  BY StepsKeepPromise
<1> QED BY <1>1, <1>2, InvHolds, PTL DEF Spec, Promise!Safety, Outcome
-----------------------------------------------------------------------------
(* What the operators come to.                                               *)

\* What holds of the first of an interval, and of each one after one it holds
\* of, holds of all: induction, over a set of numbers.
LEMMA UpTo ==
  ASSUME NEW n \in Nat, NEW P, 0 \in P, \A i \in 1 .. n : i - 1 \in P => i \in P
  PROVE  \A i \in 0 .. n : i \in P
<1> DEFINE R == {p \in Nat \X Nat : p[1] < p[2]}
<1> DEFINE T == {i \in 0 .. n : i \notin P}
<1> SUFFICES ASSUME T # {} PROVE FALSE
  OBVIOUS
<1>1. IsWellFoundedOn(R, Nat)
  BY NatLessThanWellFounded DEF OpToRel
<1>2. T \in SUBSET Nat
  OBVIOUS
<1>3. PICK x \in T : \A y \in T : <<y, x>> \notin R
  <2> HIDE DEF R, T
  <2> QED BY <1>1, <1>2, WFMin
<1>4. x \in 1 .. n /\ x - 1 \in 0 .. n
  BY <1>3
<1>5. x - 1 \notin T
  <2>1. <<x - 1, x>> \in R
    BY <1>4
  <2> HIDE DEF R
  <2> QED BY <1>3, <2>1
<1> QED BY <1>3, <1>4, <1>5

\* n steps, each from one element of S to one, and what they make of z.
Steps(S, n) == [1 .. n -> [S -> S]]
Stepped(S, n, z, step) ==
  {f \in [0 .. n -> S] :
     f[0] = z /\ \A i \in 1 .. n : f[i] = step[i][f[i - 1]]}

\* A function whose every value is made of the one before exists.
LEMMA StepByStep ==
  ASSUME NEW S, NEW z \in S, NEW n \in Nat, NEW step \in Steps(S, n)
  PROVE  \E f : f \in Stepped(S, n, z, step)
<1> DEFINE Made(k) == Stepped(S, k, z, step)
<1> USE DEF Steps, Stepped
<1> DEFINE P == {k \in 0 .. n : Made(k) # {}}
<1>1. 0 \in P
  <2>1. [i \in 0 .. 0 |-> z] \in Made(0)
    OBVIOUS
  <2>2. Made(0) # {}
    BY <2>1
  <2> HIDE DEF Made
  <2> QED BY <2>2
<1>2. ASSUME NEW k \in 1 .. n, k - 1 \in P PROVE k \in P
  <2>1. PICK f : f \in Made(k - 1)
    BY <1>2
  <2> DEFINE g == [i \in 0 .. k |-> IF i = k THEN step[k][f[k - 1]] ELSE f[i]]
  <2>2. f[k - 1] \in S /\ step[k] \in [S -> S] /\ f \in [0 .. k - 1 -> S]
    BY <2>1
  <2>3. g \in Made(k)
    <3>1. g \in [0 .. k -> S]
      BY <2>2
    <3>2. \A i \in 1 .. k : g[i] = step[i][g[i - 1]]
      BY <2>1, <2>2
    <3>3. g[0] = z
      BY <2>1, <2>2
    <3> HIDE DEF g
    <3> QED BY <3>1, <3>2, <3>3
  <2>4. Made(k) # {}
    BY <2>3
  <2> HIDE DEF Made
  <2> QED BY <2>4
<1>3. n \in P
  <2> HIDE DEF P
  <2>1. \A i \in 0 .. n : i \in P
    BY <1>1, <1>2, UpTo
  <2> QED BY <2>1
<1> QED BY <1>3

\* Two sequences in a row hold what either holds.
LEMMA Concatenated ==
  ASSUME NEW S, NEW s \in Seq(S), NEW t \in Seq(S)
  PROVE  /\ s \o t \in Seq(S)
         /\ \A x : x \in ToSet(s \o t) <=> x \in ToSet(s) \/ x \in ToSet(t)
<1> DEFINE u == s \o t
<1>1. /\ u \in Seq(S) /\ DOMAIN u = 1 .. Len(s) + Len(t)
      /\ DOMAIN s = 1 .. Len(s) /\ DOMAIN t = 1 .. Len(t)
      /\ \A i \in 1 .. Len(s) : u[i] = s[i]
      /\ \A i \in 1 .. Len(s) + Len(t) : i > Len(s) => u[i] = t[i - Len(s)]
  BY ConcatProperties
<1>2. Len(s) \in Nat /\ Len(t) \in Nat
  OBVIOUS
<1> HIDE DEF u
<1>3. ASSUME NEW x \in ToSet(u) PROVE x \in ToSet(s) \/ x \in ToSet(t)
  <2>1. PICK i \in DOMAIN u : x = u[i]
    BY DEF ToSet
  <2>2. CASE i > Len(s)
    <3>1. i - Len(s) \in DOMAIN t /\ x = t[i - Len(s)]
      BY <1>1, <1>2, <2>1, <2>2
    <3> QED BY <3>1 DEF ToSet
  <2>3. CASE ~ (i > Len(s))
    <3>1. i \in DOMAIN s /\ x = s[i]
      BY <1>1, <1>2, <2>1, <2>3
    <3> QED BY <3>1 DEF ToSet
  <2> QED BY <2>2, <2>3
<1>4. ASSUME NEW x \in ToSet(s) PROVE x \in ToSet(u)
  <2>1. PICK i \in DOMAIN s : x = s[i]
    BY DEF ToSet
  <2>2. i \in DOMAIN u /\ x = u[i]
    BY <1>1, <1>2, <2>1
  <2> QED BY <2>2 DEF ToSet
<1>5. ASSUME NEW x \in ToSet(t) PROVE x \in ToSet(u)
  <2>1. PICK i \in DOMAIN t : x = t[i]
    BY DEF ToSet
  <2>2. Len(s) + i \in DOMAIN u /\ x = u[Len(s) + i]
    BY <1>1, <1>2, <2>1, SMTT(30)
  <2> QED BY <2>2 DEF ToSet
<1> QED BY <1>1, <1>3, <1>4, <1>5 DEF u

\* h is what the first 1, 2, ... of n + 1 sequences come to in a row.
InARow(S, n, seqs, h) ==
  /\ n \in Nat /\ seqs \in [1 .. n + 1 -> Seq(S)]
  /\ h[1] = seqs[1]
  /\ \A i \in 1 .. n : h[i + 1] = h[i] \o seqs[i + 1]

\* So does what several are joined to one after the other.
LEMMA Joined ==
  ASSUME NEW S, NEW n, NEW seqs, NEW h, InARow(S, n, seqs, h)
  PROVE  /\ h[n + 1] \in Seq(S)
         /\ \A x : x \in ToSet(h[n + 1]) <=>
                     \E i \in 1 .. n + 1 : x \in ToSet(seqs[i])
<1> DEFINE Ok(k) == /\ h[k + 1] \in Seq(S)
                    /\ \A x : x \in ToSet(h[k + 1]) <=>
                                \E i \in 1 .. k + 1 : x \in ToSet(seqs[i])
           P == {k \in 0 .. n : Ok(k)}
<1>0. InARow(S, n, seqs, h)
  OBVIOUS
<1> USE <1>0 DEF InARow
<1>1. 0 \in P
  <2>1. \A i \in 1 .. 0 + 1 : i = 1
    OBVIOUS
  <2>2. 1 \in 1 .. n + 1 /\ 1 \in 1 .. 0 + 1
    OBVIOUS
  <2> QED BY <2>1, <2>2
<1>2. ASSUME NEW k \in 1 .. n, k - 1 \in P PROVE k \in P
  <2>1. h[k + 1] = h[k] \o seqs[k + 1]
    OBVIOUS
  <2>2. k - 1 + 1 = k
    OBVIOUS
  <2>3. /\ h[k] \in Seq(S)
        /\ \A x : x \in ToSet(h[k]) <=> \E i \in 1 .. k : x \in ToSet(seqs[i])
    BY <1>2, <2>2
  <2>4. seqs[k + 1] \in Seq(S)
    OBVIOUS
  <2>5. /\ h[k + 1] \in Seq(S)
        /\ \A x : x \in ToSet(h[k + 1]) <=>
                    x \in ToSet(h[k]) \/ x \in ToSet(seqs[k + 1])
    BY <2>1, <2>3, <2>4, Concatenated
  <2>6. 1 .. k + 1 = (1 .. k) \cup {k + 1}
    OBVIOUS
  <2>7. Ok(k)
    BY <2>3, <2>5, <2>6
  <2> HIDE DEF Ok
  <2> QED BY <2>7
<1>3. n \in P
  <2> HIDE DEF P
  <2>1. \A i \in 0 .. n : i \in P
    BY <1>1, <1>2, UpTo
  <2> QED BY <2>1
<1> QED BY <1>3

\* The sequence that several make holds what they hold.
LEMMA Flattened ==
  ASSUME NEW S, NEW seqs \in Seq(Seq(S))
  PROVE  /\ FlattenSeq(seqs) \in Seq(S)
         /\ \A x : x \in ToSet(FlattenSeq(seqs)) <=>
                     \E i \in DOMAIN seqs : x \in ToSet(seqs[i])
<1>1. CASE Len(seqs) = 0
  BY <1>1 DEF FlattenSeq, ToSet
<1>2. CASE Len(seqs) # 0
  <2>1. PICK n \in Nat : Len(seqs) = n + 1
    BY <1>2
  <2>2. DOMAIN seqs = 1 .. n + 1 /\ seqs \in [1 .. n + 1 -> Seq(S)]
    BY <2>1
  <2> DEFINE Is(f) == f = [i \in 1 .. n + 1 |->
                             IF i = 1 THEN seqs[i] ELSE f[i - 1] \o seqs[i]]
             step == [i \in 1 .. n |-> [v \in Seq(S) |-> v \o seqs[i + 1]]]
  <2>3. step \in Steps(Seq(S), n)
    <3>1. ASSUME NEW i \in 1 .. n
          PROVE  [v \in Seq(S) |-> v \o seqs[i + 1]] \in [Seq(S) -> Seq(S)]
      <4>1. seqs[i + 1] \in Seq(S)
        BY <2>2
      <4>2. \A v \in Seq(S) : v \o seqs[i + 1] \in Seq(S)
        BY <4>1
      <4> QED BY <4>2
    <3> QED BY <3>1 DEF Steps
  <2>4. \A i \in 1 .. n, v \in Seq(S) : step[i][v] = v \o seqs[i + 1]
    OBVIOUS
  <2>5. seqs[1] \in Seq(S)
    BY <2>2
  <2> HIDE DEF step
  <2>6. PICK f : f \in Stepped(Seq(S), n, seqs[1], step)
    BY <2>1, <2>3, <2>5, StepByStep
  <2>7. \A i \in 1 .. n : f[i] = f[i - 1] \o seqs[i + 1]
    <3>1. \A i \in 1 .. n : i - 1 \in 0 .. n
      BY <2>1
    <3> QED BY <2>4, <2>6, <3>1 DEF Stepped
  <2> DEFINE g == [i \in 1 .. n + 1 |-> f[i - 1]]
             h == CHOOSE flatten : Is(flatten)
  <2>8. Is(g)
    <3>1. \A i \in 1 .. n + 1 : i # 1 =>
            /\ i - 1 \in 1 .. n /\ i - 1 \in 1 .. n + 1
            /\ (i - 1) - 1 = i - 2 /\ (i - 1) + 1 = i
      OBVIOUS
    <3>2. \A i \in 1 .. n + 1 : i # 1 => f[i - 1] = g[i - 1] \o seqs[i]
      BY <2>7, <3>1
    <3>3. f[1 - 1] = seqs[1]
      BY <2>6 DEF Stepped
    <3> QED BY <3>2, <3>3
  <2>9. Is(h)
    <3> HIDE DEF Is, g
    <3> QED BY <2>8
  <2>10. FlattenSeq(seqs) = h[n + 1]
    BY <1>2, <2>1 DEF FlattenSeq
  <2> HIDE DEF h
  <2>11. /\ h[1] = seqs[1]
         /\ \A i \in 1 .. n : h[i + 1] = h[i] \o seqs[i + 1]
    <3>1. \A i \in 1 .. n : i + 1 \in 1 .. n + 1 /\ i + 1 # 1 /\ (i + 1) - 1 = i
      OBVIOUS
    <3>2. 1 \in 1 .. n + 1
      OBVIOUS
    <3> QED BY <2>9, <3>1, <3>2
  <2> HIDE DEF Is
  <2>12. /\ h[n + 1] \in Seq(S)
         /\ \A x : x \in ToSet(h[n + 1]) <=>
                     \E i \in 1 .. n + 1 : x \in ToSet(seqs[i])
    <3>1. InARow(S, n, seqs, h)
      BY <2>1, <2>2, <2>11 DEF InARow
    <3> QED BY <3>1, Joined, ZenonT(40)
  <2> QED BY <2>2, <2>10, <2>12
<1> QED BY <1>1, <1>2

\* The smallest of a few numbers is one of them.
LEMMA SmallestOf ==
  ASSUME NEW S \in SUBSET Nat, S # {}
  PROVE  Smallest(S) \in S /\ \A m \in S : Smallest(S) <= m
<1> DEFINE R == {p \in Nat \X Nat : p[1] < p[2]}
<1>1. IsWellFoundedOn(R, Nat)
  BY NatLessThanWellFounded DEF OpToRel
<1>2. PICK x \in S : \A y \in S : <<y, x>> \notin R
  <2> HIDE DEF R
  <2> QED BY <1>1, WFMin
<1>3. \A y \in S : x <= y
  <2> SUFFICES ASSUME NEW y \in S PROVE x <= y
    OBVIOUS
  <2>1. x \in Nat /\ y \in Nat
    OBVIOUS
  <2>2. ~ (y < x)
    BY <1>2, <2>1
  <2> QED BY <2>1, <2>2
<1> QED BY <1>3 DEF Smallest

\* A row of the table of numbers is one.
LEMMA RowIsOne ==
  ASSUME NEW a \in Seq(Nat), NEW b \in Seq(Nat), NEW i \in 1 .. Len(a),
         NEW above \in [0 .. Len(b) -> Nat]
  PROVE  Row(a, b, i, above) \in [0 .. Len(b) -> Nat]
<1> DEFINE n == Len(b)
           Least(j, v) == Smallest({above[j] + 1, v + 1,
                            above[j - 1] + IF a[i] = b[j] THEN 0 ELSE 1})
           Is(row) == row = [j \in 0 .. Len(b) |->
             IF j = 0 THEN i
             ELSE Smallest({above[j] + 1, row[j - 1] + 1,
                            above[j - 1] + IF a[i] = b[j] THEN 0 ELSE 1})]
           step == [j \in 1 .. n |-> [v \in Nat |-> Least(j, v)]]
           h == CHOOSE row : Is(row)
<1>1. n \in Nat /\ i \in Nat
  OBVIOUS
<1>2. ASSUME NEW j \in 1 .. n, NEW v \in Nat PROVE Least(j, v) \in Nat
  <2> DEFINE few == {above[j] + 1, v + 1,
                     above[j - 1] + IF a[i] = b[j] THEN 0 ELSE 1}
  <2>1. above[j] \in Nat /\ above[j - 1] \in Nat
    <3>1. j \in 0 .. Len(b) /\ j - 1 \in 0 .. Len(b)
      BY <1>1
    <3> QED BY <3>1
  <2>2. few \in SUBSET Nat /\ few # {}
    BY <2>1, SMTT(30)
  <2> HIDE DEF few
  <2>3. Smallest(few) \in Nat
    BY <2>2, SmallestOf
  <2> QED BY <2>3 DEF few
<1> HIDE DEF Least
<1>3. step \in Steps(Nat, n)
  BY <1>2 DEF Steps
<1>4. \A j \in 1 .. n, v \in Nat : step[j][v] = Least(j, v)
  OBVIOUS
<1> HIDE DEF step, n
<1>5. PICK f : f \in Stepped(Nat, n, i, step)
  BY <1>1, <1>3, StepByStep
<1>6. /\ f \in [0 .. n -> Nat] /\ f[0] = i
      /\ \A j \in 1 .. n : f[j] = Least(j, f[j - 1])
  <2>1. f \in [0 .. n -> Nat] /\ f[0] = i
        /\ \A j \in 1 .. n : f[j] = step[j][f[j - 1]]
    BY <1>5 DEF Stepped
  <2>2. \A j \in 1 .. n : j - 1 \in 0 .. n
    BY <1>1
  <2> QED BY <1>4, <2>1, <2>2
<1>7. Is(f)
  <2>1. \A j \in 0 .. n : j # 0 => j \in 1 .. n
    BY <1>1
  <2> QED BY <1>6, <2>1 DEF Least, n
<1>8. Is(h)
  <2> HIDE DEF Is
  <2> QED BY <1>7
<1>9. Row(a, b, i, above) = h
  BY DEF Row
<1> HIDE DEF h
<1>10. /\ h = [j \in 0 .. n |-> h[j]]
       /\ h[0] = i /\ \A j \in 1 .. n : h[j] = Least(j, h[j - 1])
  <2>1. \A j \in 1 .. n : j # 0 /\ j \in 0 .. n
    BY <1>1
  <2>2. 0 \in 0 .. n
    BY <1>1
  <2> QED BY <1>8, <2>1, <2>2 DEF Least, n
<1> HIDE DEF Is
<1>11. \A j \in 0 .. n : h[j] \in Nat
  <2> DEFINE P == {j \in 0 .. n : h[j] \in Nat}
  <2>1. 0 \in P
    BY <1>1, <1>10
  <2>2. ASSUME NEW j \in 1 .. n, j - 1 \in P PROVE j \in P
    <3>1. h[j] \in Nat
      BY <1>2, <1>10, <2>2
    <3> QED BY <1>1, <3>1
  <2>3. \A j \in 0 .. n : j \in P
    <3> HIDE DEF P
    <3> QED BY <1>1, <2>1, <2>2, UpTo
  <2> QED BY <2>3
<1> QED BY <1>9, <1>10, <1>11 DEF n

\* How far two references are apart is a number.
LEMMA DistanceIsNat ==
  ASSUME NEW a \in Seq(Nat), NEW b \in Seq(Nat)
  PROVE  Distance(a, b) \in Nat
<1> DEFINE n == Len(a)
           Rows == [0 .. Len(b) -> Nat]
           first == [j \in 0 .. Len(b) |-> j]
           Is(rows) == rows = [i \in 0 .. Len(a) |->
             IF i = 0 THEN [j \in 0 .. Len(b) |-> j]
             ELSE Row(a, b, i, rows[i - 1])]
           step == [i \in 1 .. n |-> [above \in Rows |-> Row(a, b, i, above)]]
           h == CHOOSE rows : Is(rows)
<1>1. n \in Nat /\ Len(b) \in Nat /\ first \in Rows
  OBVIOUS
<1>2. ASSUME NEW i \in 1 .. n, NEW above \in Rows
      PROVE  Row(a, b, i, above) \in Rows
  BY RowIsOne
<1> HIDE DEF Rows, n
<1>3. step \in Steps(Rows, n)
  BY <1>2 DEF Steps
<1>4. \A i \in 1 .. n, above \in Rows : step[i][above] = Row(a, b, i, above)
  OBVIOUS
<1> HIDE DEF step, first
<1>5. PICK f : f \in Stepped(Rows, n, first, step)
  BY <1>1, <1>3, StepByStep
<1>6. /\ f \in [0 .. n -> Rows] /\ f[0] = first
      /\ \A i \in 1 .. n : f[i] = Row(a, b, i, f[i - 1])
  <2>1. f \in [0 .. n -> Rows] /\ f[0] = first
        /\ \A i \in 1 .. n : f[i] = step[i][f[i - 1]]
    BY <1>5 DEF Stepped
  <2>2. \A i \in 1 .. n : i - 1 \in 0 .. n
    BY <1>1
  <2> QED BY <1>4, <2>1, <2>2
<1>7. Is(f)
  <2>1. \A i \in 0 .. n : i # 0 => i \in 1 .. n
    BY <1>1
  <2> QED BY <1>6, <2>1 DEF first, n
<1>8. Is(h)
  <2> HIDE DEF Is
  <2> QED BY <1>7
<1>9. Distance(a, b) = h[Len(a)][Len(b)]
  BY DEF Distance
<1> HIDE DEF h
<1>10. h[0] = first /\ \A i \in 1 .. n : h[i] = Row(a, b, i, h[i - 1])
  <2>1. \A i \in 1 .. n : i # 0 /\ i \in 0 .. n
    BY <1>1
  <2>2. 0 \in 0 .. n
    BY <1>1
  <2> QED BY <1>8, <2>1, <2>2 DEF first, n
<1> HIDE DEF Is
<1>11. \A i \in 0 .. n : h[i] \in Rows
  <2> DEFINE P == {i \in 0 .. n : h[i] \in Rows}
  <2>1. 0 \in P
    BY <1>1, <1>10
  <2>2. ASSUME NEW i \in 1 .. n, i - 1 \in P PROVE i \in P
    <3>1. h[i] \in Rows
      BY <1>2, <1>10, <2>2
    <3> QED BY <1>1, <3>1
  <2>3. \A i \in 0 .. n : i \in P
    <3> HIDE DEF P
    <3> QED BY <1>1, <2>1, <2>2, UpTo
  <2> QED BY <2>3
<1>12. h[n] \in Rows /\ Len(b) \in 0 .. Len(b)
  BY <1>1, <1>11
<1> QED BY <1>9, <1>12 DEF Rows, n

\* What a sequence holds is finite.
LEMMA HeldFinite ==
  ASSUME NEW S, NEW s \in Seq(S)
  PROVE  IsFiniteSet(ToSet(s))
<1>1. IsFiniteSet(1 .. Len(s)) /\ DOMAIN s = 1 .. Len(s) /\ s \in [1 .. Len(s) -> S]
  BY FS_Interval
<1>2. s \in Surjection(1 .. Len(s), ToSet(s))
  BY <1>1 DEF Surjection, ToSet
<1> QED BY <1>1, <1>2, FS_Surjection

\* A sequence of one element holds it.
LEMMA OneHeld ==
  ASSUME NEW v
  PROVE  ToSet(<<v>>) = {v}
<1>1. DOMAIN <<v>> = {1} /\ <<v>>[1] = v
  OBVIOUS
<1> DEFINE s == <<v>>
<1>2. ToSet(s) = {v}
  <2> HIDE DEF s
  <2>1. DOMAIN s = {1} /\ s[1] = v
    BY <1>1 DEF s
  <2> QED BY <2>1 DEF ToSet
<1> QED BY <1>2

\* A bounded sequence is a sequence.
LEMMA BoundedIs ==
  ASSUME NEW S, NEW n \in Nat, NEW s \in BoundedSeq(S, n)
  PROVE  s \in Seq(S)
<1>1. PICK m \in 0 .. n : s \in [1 .. m -> S]
  BY DEF BoundedSeq, SeqOf
<1>2. m \in Nat
  BY <1>1
<1> QED BY <1>1, <1>2

\* An order of a finite set holds all of it.
LEMMA OrderHolds ==
  ASSUME NEW S, IsFiniteSet(S), NEW s \in SetToSeqs(S)
  PROVE  s \in Seq(S) /\ ToSet(s) = S
<1> DEFINE D == 1 .. Cardinality(S)
<1>1. Cardinality(S) \in Nat
  BY FS_CardinalityType
<1>2. s \in [D -> S] /\ \A i, j \in D : i # j => s[i] # s[j]
  BY DEF SetToSeqs
<1>3. IsFiniteSet(D) /\ Cardinality(D) = Cardinality(S)
  BY <1>1, FS_Interval
<1>4. s \in Injection(D, S)
  BY <1>2 DEF Injection, IsInjective
<1>5. s \in Surjection(D, S)
  <2> HIDE DEF D
  <2> QED BY <1>3, <1>4, FS_Injection
<1>6. s \in Seq(S)
  BY <1>1, <1>2
<1>7. DOMAIN s = D /\ \A x \in S : \E i \in D : s[i] = x
  BY <1>2, <1>5 DEF Surjection
<1> QED BY <1>2, <1>6, <1>7 DEF ToSet
-----------------------------------------------------------------------------
(* The invariant of a library action.                                        *)

\* What was said is about the items, and an item of another title than was said
\* is turned away.
RequestInv ==
  /\ title \in [Refs -> Titles] /\ held \in Seq(Refs) /\ known \subseteq Refs
  /\ request.verb \in Verbs /\ request.items \in Seq(Kinds)
  /\ request.said \in [Indices -> [title : Titles, ref : Refs \cup Slips]]
  /\ request.count \in [limit : BOOLEAN, n : Int]
  /\ \A i \in Indices :
       TurnedAway(held, title, request.said[i].title, request.said[i].ref) =>
         request.items[i] = "rejected"

Entry == [verb : Verbs, unit : Nat \X Nat]
Planned == {"snapshot", "dispatch", "reported", "done"}
Dispatched == {"dispatch", "reported", "done"}

\* What a plan is for a request: no entry is of an item turned away, none of
\* one that adds to the queue replaces it, and, when routing left no error,
\* every item has one, unless it has no tracks to shuffle.
Suits(p) ==
  /\ p \in Seq(Entry)
  /\ \A x \in ToSet(p) :
       /\ x.unit[1] \in Indices \ PreDispatch
       /\ Effective \in Appending => x.verb \in Appending
Covers(p) ==
  RoutingErrors = {} /\ request.count = Unlimited =>
    \A i \in Indices :
      \/ \E x \in ToSet(p) : x.unit[1] = i
      \/ request.verb = "Shuffle" /\ request.items[i] = "empty"

PlanInv ==
  /\ phase \in {"idle", "probing"} => plan = <<>>
  /\ Suits(plan)
  /\ phase \in Planned => Covers(plan)

\* The entries before next were counted, or left an error; those that were
\* counted were performed, and nothing else but with its answer lost.
DispatchInv ==
  /\ next \in 1 .. Len(plan) + 1 /\ successful \in 0 .. next - 1
  /\ acting \in BOOLEAN /\ lost \in BOOLEAN
  /\ acting => phase = "dispatch" /\ next <= Len(plan)
  /\ phase \notin Dispatched => next = 1 /\ performed = <<>>
  /\ performed \in Seq([verb : Verbs, unit : Nat \X Nat, ref : Refs \cup Slips])
  /\ \A n \in DOMAIN performed :
       \E m \in 1 .. Len(plan) :
         performed[n].verb = plan[m].verb /\ performed[n].unit = plan[m].unit
  /\ ~lost => Len(performed) = successful
  /\ phase \in Planned /\ successful = next - 1 =>
       /\ errors = RoutingErrors
       /\ \A m \in 1 .. next - 1 :
            \E n \in DOMAIN performed : performed[n].unit = plan[m].unit

\* The top line says what came of the entries.
ReportInv ==
  Over =>
    /\ report = "SUCCESSFUL" => successful = Total
    /\ report = "FAILED" => successful = 0

\* r is of the title that was said, and the nearest to what was said of it.
RightRef(said, r) ==
  /\ r \in Refs \cup Slips
  /\ r \in ToSet(held) => TitlesMatch(said.title, title[r])
  /\ r # said.ref =>
       \A q \in ToSet(held) \ {r} :
         title[q] = title[r] => Distance(r, said.ref) < Distance(q, said.ref)

RefInv ==
  /\ acting => RightRef(request.said[Item(next)], ref)
  /\ \A n \in DOMAIN performed :
       RightRef(request.said[performed[n].unit[1]], performed[n].ref)

ActionInv == RequestInv /\ PlanInv /\ DispatchInv /\ ReportInv /\ RefInv

\* Items and slices of a request.
LEMMA Shape ==
  ASSUME RequestInv
  PROVE  /\ Indices = 1 .. Len(request.items) /\ Len(request.items) \in Nat
         /\ IsFiniteSet(Indices)
         /\ \A i \in Indices : i \in Nat /\ request.items[i] \in Kinds
         /\ RoutingErrors = {} <=> Cardinality(RoutingErrors) = 0
         /\ Cardinality(RoutingErrors) \in Nat
<1>1. /\ Indices = 1 .. Len(request.items) /\ Len(request.items) \in Nat
      /\ \A i \in Indices : i \in Nat /\ request.items[i] \in Kinds
  BY DEF RequestInv, Indices
<1>2. IsFiniteSet(Indices)
  <2>1. PICK n \in Nat : Indices = 1 .. n
    BY <1>1
  <2>2. IsFiniteSet(1 .. n)
    BY FS_Interval
  <2> QED BY <2>1, <2>2
<1>3. ASSUME NEW why PROVE IsFiniteSet(Named(Indices, why))
  <2> DEFINE f == [i \in Indices |-> [item |-> i, why |-> why]]
  <2>1. f \in Surjection(Indices, Named(Indices, why))
    BY DEF Surjection, Named
  <2> QED BY <1>2, <2>1, FS_Surjection
<1> DEFINE All == (Named(Indices, "multi_persona") \cup Named(Indices, "other"))
                  \cup (Named(Indices, "not_found") \cup Named(Indices, "persona"))
<1>4. IsFiniteSet(All)
  BY <1>3, FS_Union
<1>5. RoutingErrors \subseteq All
  BY DEF RoutingErrors, Named, Of, PreDispatch
<1>6. IsFiniteSet(RoutingErrors)
  BY <1>4, <1>5, FS_Subset
<1> QED BY <1>1, <1>2, <1>6, FS_EmptySet, FS_CardinalityType

\* What an item adds to a shuffle is of it, and something unless it is empty.
LEMMA ExpandedIs ==
  ASSUME RequestInv, NEW i \in Indices
  PROVE  /\ Expanded(i) \in Seq(Nat \X Nat)
         /\ \A u \in ToSet(Expanded(i)) : u[1] = i
         /\ request.items[i] # "empty" => ToSet(Expanded(i)) # {}
<1>1. i \in Nat /\ AlbumTracks \in Nat /\ 1 \in 1 .. AlbumTracks
  BY Shape, LibraryAssumption
<1> DEFINE tracks == [k \in 1 .. AlbumTracks |-> <<i, k>>]
<1>2. tracks \in Seq(Nat \X Nat) /\ DOMAIN tracks = 1 .. AlbumTracks
  BY <1>1
<1>3. /\ \A u \in ToSet(tracks) : u[1] = i
      /\ <<i, 1>> \in ToSet(tracks)
  BY <1>1 DEF ToSet
<1>4. /\ << <<i, 0>> >> \in Seq(Nat \X Nat) /\ DOMAIN << <<i, 0>> >> = {1}
      /\ << <<i, 0>> >>[1] = <<i, 0>>
  BY <1>1
<1>5. /\ \A u \in ToSet(<< <<i, 0>> >>) : u[1] = i
      /\ <<i, 0>> \in ToSet(<< <<i, 0>> >>)
  BY <1>4 DEF ToSet
<1>6. << >> \in Seq(Nat \X Nat) /\ ToSet(<< >>) = {}
  BY DEF ToSet
<1>7. \/ Expanded(i) = tracks
      \/ Expanded(i) = << >> /\ request.items[i] = "empty"
      \/ Expanded(i) = << <<i, 0>> >>
  BY DEF Expanded
<1> HIDE DEF tracks
<1> QED BY <1>2, <1>3, <1>4, <1>5, <1>6, <1>7

\* The pool holds what the items that are routed add to it.
LEMMA PoolIs ==
  ASSUME RequestInv
  PROVE  /\ Pool \in Seq(Nat \X Nat) /\ IsFiniteSet(ToSet(Pool))
         /\ \A u : u \in ToSet(Pool) <=>
                     \E i \in Routable : u \in ToSet(Expanded(i))
<1> DEFINE U == Nat \X Nat
           parts == [i \in Indices |-> IF i \in Routable THEN Expanded(i) ELSE << >>]
<1>1. \A i \in Indices : parts[i] \in Seq(U)
  BY ExpandedIs
<1>2. parts \in Seq(Seq(U)) /\ DOMAIN parts = Indices
  BY <1>1, Shape
<1>3. /\ FlattenSeq(parts) \in Seq(U)
      /\ \A u : u \in ToSet(FlattenSeq(parts)) <=>
                  \E i \in DOMAIN parts : u \in ToSet(parts[i])
  <2> HIDE DEF U, parts
  <2> QED BY <1>2, Flattened
<1>4. IsFiniteSet(ToSet(FlattenSeq(parts)))
  <2> HIDE DEF U, parts
  <2> QED BY <1>3, HeldFinite
<1>5. \A u : \A i \in Indices :
        u \in ToSet(parts[i]) <=> i \in Routable /\ u \in ToSet(Expanded(i))
  BY DEF ToSet
<1>6. Routable \subseteq Indices
  BY DEF Routable
<1> HIDE DEF parts
<1> QED BY <1>2, <1>3, <1>4, <1>5, <1>6 DEF Pool, parts

\* A slice is of what it was taken of, and all of it when no count was given.
LEMMA TruncatedIs ==
  ASSUME RequestInv, NEW S, NEW s \in Seq(S)
  PROVE  /\ Truncated(s) \in Seq(S)
         /\ ToSet(Truncated(s)) \subseteq ToSet(s)
         /\ request.count = Unlimited => Truncated(s) = s
<1> DEFINE c == request.count
           last == IF c.n >= 0 THEN IF c.n < Len(s) THEN c.n ELSE Len(s)
                               ELSE Len(s) + c.n
<1>1. c.n \in Int /\ Len(s) \in Nat /\ DOMAIN s = 1 .. Len(s)
      /\ \A i \in 1 .. Len(s) : s[i] \in S
  BY DEF RequestInv
<1>2. last \in Int /\ last <= Len(s)
  BY <1>1
<1>3. Truncated(s) = s \/ Truncated(s) = SubSeq(s, 1, last)
  BY DEF Truncated
<1>4. request.count = Unlimited => Truncated(s) = s
  BY DEF Truncated, Unlimited
<1> HIDE DEF last
<1>5. \A i \in 1 .. last : s[i] \in S
  BY <1>1, <1>2
<1> DEFINE t == SubSeq(s, 1, last)
<1>6. /\ t \in Seq(S) /\ Len(t) = (IF 1 <= last THEN last - 1 + 1 ELSE 0)
      /\ \A i \in 1 .. last - 1 + 1 : t[i] = s[1 + i - 1]
  BY <1>2, <1>5, SubSeqProperties
<1> HIDE DEF t
<1>7. ToSet(t) \subseteq ToSet(s)
  <2> SUFFICES ASSUME NEW i \in DOMAIN t PROVE t[i] \in ToSet(s)
    BY DEF ToSet
  <2>1. i \in 1 .. last /\ i \in 1 .. Len(s)
    BY <1>1, <1>2, <1>6
  <2>2. t[i] = s[i]
    BY <1>2, <1>6, <2>1
  <2> QED BY <1>1, <2>1, <2>2 DEF ToSet
<1> QED BY <1>3, <1>4, <1>6, <1>7 DEF t

\* What an item is dispatched by when it is dispatched as it stands.
LEMMA EntriesAre ==
  ASSUME RequestInv, NEW i \in Indices
  PROVE  /\ EntriesOf(i) \in Seq(Entry)
         /\ \A x \in ToSet(EntriesOf(i)) :
              /\ x.unit[1] = i /\ i \notin PreDispatch
              /\ Effective \in Appending => x.verb \in Appending
         /\ \/ i \in Routable /\ Effective # "Shuffle"
            \/ request.items[i] = "persona" /\ Effective \notin Appending
            => \E x \in ToSet(EntriesOf(i)) : x.unit[1] = i
<1>1. i \in Nat
  BY Shape
<1>2. Effective \in Verbs
  BY DEF RequestInv, Effective, Verbs
<1> DEFINE whole == [verb |-> Effective, unit |-> <<i, 0>>]
           persona == PersonaEntry(i)
<1>3. whole \in Entry /\ whole.unit[1] = i /\ whole.verb = Effective
  BY <1>1, <1>2 DEF Entry
<1>4. persona \in Entry /\ persona.unit[1] = i
  BY <1>1, <1>2 DEF Entry, PersonaEntry, Verbs
<1> HIDE DEF whole, persona
<1>5. /\ <<whole>> \in Seq(Entry) /\ ToSet(<<whole>>) = {whole}
      /\ <<persona>> \in Seq(Entry) /\ ToSet(<<persona>>) = {persona}
      /\ << >> \in Seq(Entry) /\ ToSet(<< >>) = {}
  <2>1. ToSet(<<whole>>) = {whole} /\ ToSet(<<persona>>) = {persona}
    BY OneHeld
  <2>2. ToSet(<< >>) = {} /\ << >> \in Seq(Entry)
    BY DEF ToSet
  <2>3. <<whole>> \in Seq(Entry) /\ <<persona>> \in Seq(Entry)
    BY <1>3, <1>4
  <2> QED BY <2>1, <2>2, <2>3
<1>6. i \in Routable => i \notin PreDispatch /\ request.items[i] # "persona"
  BY DEF Routable, Of
<1>7. request.items[i] = "persona" => i \notin PreDispatch
  BY DEF PreDispatch, Of
<1>8. CASE request.items[i] = "persona" /\ Effective \in Appending
  BY <1>5, <1>6, <1>8 DEF EntriesOf
<1>9. CASE request.items[i] = "persona" /\ Effective \notin Appending
  <2>1. EntriesOf(i) = <<persona>>
    BY <1>9 DEF EntriesOf, persona
  <2> QED BY <1>4, <1>5, <1>7, <1>9, <2>1
<1>10. CASE request.items[i] # "persona" /\ i \in Routable /\ Effective # "Shuffle"
  <2>1. EntriesOf(i) = <<whole>>
    BY <1>10 DEF EntriesOf, whole
  <2> QED BY <1>3, <1>5, <1>6, <1>10, <2>1
<1>11. CASE request.items[i] # "persona" /\ ~ (i \in Routable /\ Effective # "Shuffle")
  <2>1. EntriesOf(i) = << >>
    BY <1>11 DEF EntriesOf
  <2> QED BY <1>5, <1>11, <2>1
<1> QED BY <1>8, <1>9, <1>10, <1>11

\* The plan of a request that is dispatched as it stands.
LEMMA OneByOneIs ==
  ASSUME RequestInv
  PROVE  /\ PlanOneByOne \in Seq(Entry)
         /\ \A x : x \in ToSet(PlanOneByOne) <=>
                     \E i \in Indices : x \in ToSet(EntriesOf(i))
<1> DEFINE parts == [i \in Indices |-> EntriesOf(i)]
<1>1. \A i \in Indices : parts[i] \in Seq(Entry)
  BY EntriesAre
<1>2. parts \in Seq(Seq(Entry)) /\ DOMAIN parts = Indices
  BY <1>1, Shape
<1>3. /\ FlattenSeq(parts) \in Seq(Entry)
      /\ \A x : x \in ToSet(FlattenSeq(parts)) <=>
                  \E i \in DOMAIN parts : x \in ToSet(parts[i])
  <2> HIDE DEF parts
  <2> QED BY <1>2, Flattened
<1>4. \A i \in Indices : parts[i] = EntriesOf(i)
  OBVIOUS
<1> HIDE DEF parts
<1> QED BY <1>2, <1>3, <1>4 DEF PlanOneByOne, parts

\* The plan of a pool in some order: an entry for each of its units.
LEMMA PlayThenQueueIs ==
  ASSUME NEW s \in Seq(Nat \X Nat)
  PROVE  /\ PlayThenQueue(s) \in Seq(Entry)
         /\ \A x \in ToSet(PlayThenQueue(s)) : x.unit \in ToSet(s)
         /\ \A u \in ToSet(s) : \E x \in ToSet(PlayThenQueue(s)) : x.unit = u
<1> DEFINE p == PlayThenQueue(s)
<1>1. /\ DOMAIN s = 1 .. Len(s) /\ Len(s) \in Nat /\ DOMAIN p = DOMAIN s
      /\ \A n \in DOMAIN s : s[n] \in Nat \X Nat
  BY DEF PlayThenQueue
<1>2. \A n \in DOMAIN p : p[n] \in Entry /\ p[n].unit = s[n]
  BY <1>1 DEF PlayThenQueue, Entry, Verbs
<1>3. p = [n \in DOMAIN s |-> p[n]]
  BY DEF PlayThenQueue
<1> HIDE DEF p
<1>4. p \in Seq(Entry)
  BY <1>1, <1>2, <1>3
<1> QED BY <1>1, <1>2, <1>4, ZenonT(40) DEF p, ToSet

\* Whatever routing comes to suits the request.
LEMMA RouteSuits ==
  ASSUME RequestInv, NEW p \in IF RejectsCall THEN { << >> } ELSE Plans
  PROVE  Suits(p) /\ Covers(p)
<1>1. << >> \in Seq(Entry) /\ ToSet(<< >>) = {}
  BY DEF ToSet
<1>2. CASE RejectsCall
  <2>1. PICK i : i \in Of({"persona"})
    BY <1>2 DEF RejectsCall
  <2>2. [item |-> i, why |-> "multi_persona"] \in RoutingErrors
    BY <1>2, <2>1 DEF RoutingErrors, Named
  <2> QED BY <1>1, <1>2, <2>2 DEF Suits, Covers
<1>3. CASE ~ RejectsCall /\ Effective = "Shuffle" /\ PreDispatch # {}
  <2>1. PICK i : i \in PreDispatch
    BY <1>3
  <2>2. [item |-> i, why |-> "other"] \in RoutingErrors
    BY <1>3, <2>1 DEF RoutingErrors, Named
  <2>3. p = << >>
    BY <1>3 DEF Plans
  <2> QED BY <1>1, <2>2, <2>3 DEF Suits, Covers
\* Routing left no error: an item that is not routed is a persona.
<1>4. ASSUME ~ RejectsCall, RoutingErrors = {}, NEW i \in Indices
      PROVE  /\ i \in Routable \/ request.items[i] = "persona"
             /\ request.items[i] = "persona" => Effective \notin Appending
  <2>1. Named(PreDispatch, "other") = {} /\ Named(Of({"not_found"}), "not_found") = {}
        /\ (Effective \in Appending => Named(Of({"persona"}), "persona") = {})
    BY <1>4 DEF RoutingErrors
  <2>2. \A T, why : Named(T, why) = {} => T = {}
    <3> SUFFICES ASSUME NEW T, NEW why, NEW x \in T PROVE Named(T, why) # {}
      OBVIOUS
    <3>1. [item |-> x, why |-> why] \in Named(T, why)
      BY DEF Named
    <3> QED BY <3>1
  <2>3. /\ PreDispatch = {} /\ Of({"not_found"}) = {}
        /\ Effective \in Appending => Of({"persona"}) = {}
    BY <2>1, <2>2
  <2> QED BY <1>4, <2>3 DEF Of, Routable
<1>5. CASE ~ RejectsCall /\ (Effective # "Shuffle" \/ (PreDispatch = {} /\ Pool = << >>))
  <2>1. p = PlanOneByOne
    BY <1>5 DEF Plans
  <2>2. Suits(p)
    BY <2>1, OneByOneIs, EntriesAre DEF Suits
  <2>3. ASSUME RoutingErrors = {}, NEW i \in Indices
        PROVE  \/ \E x \in ToSet(p) : x.unit[1] = i
               \/ request.verb = "Shuffle" /\ request.items[i] = "empty"
    <3>1. CASE request.items[i] = "persona" \/ Effective # "Shuffle"
      <4>1. \/ i \in Routable /\ Effective # "Shuffle"
            \/ request.items[i] = "persona" /\ Effective \notin Appending
        BY <1>4, <1>5, <2>3, <3>1
      <4>2. PICK x \in ToSet(EntriesOf(i)) : x.unit[1] = i
        BY <4>1, EntriesAre
      <4>3. x \in ToSet(p)
        BY <2>1, <4>2, OneByOneIs
      <4> QED BY <4>2, <4>3
    <3>2. CASE request.items[i] # "persona" /\ Effective = "Shuffle"
      <4>1. i \in Routable /\ ToSet(Pool) = {}
        BY <1>1, <1>4, <1>5, <2>3, <3>2
      <4>2. ToSet(Expanded(i)) = {}
        BY <4>1, PoolIs
      <4>3. request.items[i] = "empty"
        BY <4>2, ExpandedIs
      <4> QED BY <3>2, <4>3 DEF Effective
    <3> QED BY <3>1, <3>2
  <2> QED BY <2>2, <2>3 DEF Covers
<1>6. CASE ~ RejectsCall /\ Effective = "Shuffle" /\ PreDispatch = {} /\ Pool # << >>
  <2>1. PICK s \in SetToSeqs(ToSet(Pool)) : p = PlayThenQueue(Truncated(s))
    BY <1>6 DEF Plans, ShuffledPlans
  <2> DEFINE U == Nat \X Nat
             t == Truncated(s)
  <2>2. s \in Seq(U) /\ ToSet(s) = ToSet(Pool)
    <3>1. s \in Seq(ToSet(Pool)) /\ ToSet(s) = ToSet(Pool)
      BY <2>1, PoolIs, OrderHolds
    <3>2. ToSet(Pool) \subseteq U
      BY PoolIs DEF ToSet
    <3> QED BY <3>1, <3>2
  <2>3. /\ t \in Seq(U) /\ ToSet(t) \subseteq ToSet(Pool)
        /\ request.count = Unlimited => ToSet(t) = ToSet(Pool)
    <3> HIDE DEF U
    <3> QED BY <2>2, TruncatedIs
  <2> HIDE DEF t
  <2>4. /\ p \in Seq(Entry)
        /\ \A x \in ToSet(p) : x.unit \in ToSet(t)
        /\ \A u \in ToSet(t) : \E x \in ToSet(p) : x.unit = u
    BY <2>1, <2>3, PlayThenQueueIs DEF t
  <2>5. \A u \in ToSet(Pool) : \E i \in Routable : u \in ToSet(Expanded(i)) /\ u[1] = i
    BY PoolIs, ExpandedIs DEF Routable
  <2>6. Suits(p)
    <3>1. Effective \notin Appending
      BY <1>6 DEF Appending
    <3> QED BY <2>3, <2>4, <2>5, <3>1 DEF Suits, Routable
  <2>7. ASSUME RoutingErrors = {}, request.count = Unlimited, NEW i \in Indices,
               request.items[i] # "empty"
        PROVE  \E x \in ToSet(p) : x.unit[1] = i
    <3>1. i \in Routable
      <4> SUFFICES ASSUME request.items[i] = "persona" PROVE FALSE
        BY <1>4, <1>6, <2>7
      <4>1. PICK u : u \in ToSet(Pool)
        <5>1. Pool \in Seq(U) /\ Len(Pool) # 0
          BY <1>6, PoolIs
        <5>2. 1 \in DOMAIN Pool
          BY <5>1
        <5> QED BY <5>2 DEF ToSet
      <4>2. PICK j \in Routable : u \in ToSet(Expanded(j))
        BY <4>1, PoolIs
      <4>3. j # i /\ j \in Indices
        BY <4>2 DEF Routable, Of
      <4>4. Len(request.items) > 1
        BY <4>3, Shape
      <4>5. i \in Of({"persona"})
        BY DEF Of
      <4> QED BY <1>6, <4>4, <4>5 DEF RejectsCall
    <3>2. PICK u : u \in ToSet(Expanded(i))
      BY <2>7, ExpandedIs
    <3>3. u[1] = i /\ u \in ToSet(Pool)
      BY <3>1, <3>2, ExpandedIs, PoolIs
    <3> QED BY <2>3, <2>4, <2>7, <3>3
  <2>8. request.verb = "Shuffle"
    BY <1>6 DEF Effective
  <2> QED BY <2>6, <2>7, <2>8 DEF Covers
<1>7. \/ RejectsCall
      \/ ~ RejectsCall /\ Effective = "Shuffle" /\ PreDispatch # {}
      \/ ~ RejectsCall /\ (Effective # "Shuffle" \/ (PreDispatch = {} /\ Pool = << >>))
      \/ ~ RejectsCall /\ Effective = "Shuffle" /\ PreDispatch = {} /\ Pool # << >>
  OBVIOUS
<1> QED BY ONLY <1>2, <1>3, <1>5, <1>6, <1>7

\* No request is at hand when the agent starts.
LEMMA InitAction == ActionInit => ActionInv
<1> SUFFICES ASSUME ActionInit PROVE ActionInv
  OBVIOUS
<1>0. /\ phase = "idle" /\ title \in [Refs -> Titles]
      /\ request = [verb |-> "Queue", items |-> << >>, said |-> << >>,
                    count |-> Unlimited]
      /\ plan = << >> /\ next = 1 /\ acting = FALSE /\ successful = 0
      /\ performed = << >> /\ lost = FALSE
      /\ known \subseteq Refs
      /\ held = << >> \/ held \in BoundedSeq(Refs, MaxHeld)
  BY DEF ActionInit
<1> USE <1>0
<1>1. RequestInv
  <2>1. held \in Seq(Refs) /\ known \subseteq Refs
    <3>1. << >> \in Seq(Refs) /\ MaxHeld \in Nat
      BY LibraryAssumption
    <3> QED BY <3>1, BoundedIs
  <2>2. Indices = {} /\ request.items \in Seq(Kinds)
    BY DEF Indices
  <2>3. request.said \in [Indices -> [title : Titles, ref : Refs \cup Slips]]
    BY <2>2
  <2> QED BY <2>1, <2>2, <2>3 DEF RequestInv, Verbs, Unlimited
<1>2. PlanInv
  <2>1. plan \in Seq(Entry) /\ ToSet(plan) = {}
    BY DEF ToSet
  <2> QED BY <2>1 DEF PlanInv, Suits, Planned
<1>3. DispatchInv
  <2>1. /\ performed \in Seq([verb : Verbs, unit : Nat \X Nat, ref : Refs \cup Slips])
        /\ DOMAIN performed = {} /\ Len(performed) = 0 /\ Len(plan) = 0
    OBVIOUS
  <2>2. next \in 1 .. Len(plan) + 1 /\ successful \in 0 .. next - 1
    BY <2>1
  <2> QED BY ONLY <1>0, <2>1, <2>2 DEF DispatchInv, Dispatched, Planned
<1>4. ReportInv /\ RefInv
  BY DEF ReportInv, Over, RefInv
<1> QED BY <1>1, <1>2, <1>3, <1>4 DEF ActionInv

\* What routing makes of a request is the same while the request is.
LEMMA SameRequest ==
  ASSUME request' = request
  PROVE  /\ Indices' = Indices /\ Effective' = Effective
         /\ PreDispatch' = PreDispatch /\ RoutingErrors' = RoutingErrors
         /\ \A p : Suits(p)' <=> Suits(p)
         /\ \A p : Covers(p)' <=> Covers(p)
<1>1. /\ Indices' = Indices /\ Effective' = Effective
      /\ PreDispatch' = PreDispatch /\ RoutingErrors' = RoutingErrors
  BY DEF Indices, Effective, PreDispatch, RoutingErrors, RejectsCall, Of
<1> QED BY <1>1 DEF Suits, Covers

\* A request begins with nothing planned or dispatched.
LEMMA SubmitKeeps ==
  ASSUME ActionInv, Submit
  PROVE  ActionInv'
<1> USE DEF ActionInv
<1>0. /\ phase = "idle" /\ phase' = "probing"
      /\ title' = title /\ held' = held /\ known' = known /\ plan' = plan
      /\ next' = next /\ acting' = acting /\ successful' = successful
      /\ performed' = performed /\ lost' = lost
  BY DEF Submit, stores, world
<1>1. PICK verb \in Verbs, items \in BoundedSeq(Kinds, MaxItems) :
        \E c \in {Unlimited} \cup {[limit |-> TRUE, n |-> n] : n \in Counts},
           said \in Sayings(Len(items)) :
          /\ Judged(items, said)
          /\ request' = [verb |-> verb, items |-> items, said |-> said, count |-> c]
  BY DEF Submit
<1>2. PICK c \in {Unlimited} \cup {[limit |-> TRUE, n |-> n] : n \in Counts},
           said \in Sayings(Len(items)) :
        /\ Judged(items, said)
        /\ request' = [verb |-> verb, items |-> items, said |-> said, count |-> c]
  BY <1>1
<1>3. items \in Seq(Kinds) /\ DOMAIN items = 1 .. Len(items)
  <2>1. items \in Seq(Kinds)
    BY BoundedIs, LibraryAssumption
  <2> QED BY <2>1
<1>4. c \in [limit : BOOLEAN, n : Int]
  <2>1. Unlimited \in [limit : BOOLEAN, n : Int]
    BY DEF Unlimited
  <2>2. \A n \in Counts : [limit |-> TRUE, n |-> n] \in [limit : BOOLEAN, n : Int]
    BY LibraryAssumption
  <2> QED BY <2>1, <2>2
<1>5. said \in [1 .. Len(items) -> [title : Titles, ref : Refs \cup Slips]]
  <2>1. AnyTitle \in Titles /\ (CHOOSE r \in Refs : TRUE) \in Refs
    BY LibraryAssumption DEF AnyTitle
  <2> DEFINE one == [title |-> AnyTitle, ref |-> CHOOSE r \in Refs : TRUE]
  <2>2. one \in [title : Titles, ref : Refs \cup Slips]
    BY <2>1
  <2>3. \/ said = [i \in 1 .. Len(items) |-> one]
        \/ said \in [1 .. Len(items) -> [title : Titles, ref : Refs \cup Slips]]
    BY DEF Sayings
  <2> HIDE DEF one
  <2> QED BY <2>2, <2>3
<1>6. /\ request'.verb = verb /\ request'.items = items
      /\ request'.said = said /\ request'.count = c
  BY <1>2
<1>7. RequestInv'
  BY <1>0, <1>2, <1>3, <1>4, <1>5, <1>6 DEF RequestInv, Judged, Indices
<1>8. plan' = << >>
  BY <1>0 DEF PlanInv
<1>9. PlanInv'
  <2>1. << >> \in Seq(Entry) /\ ToSet(<< >>) = {}
    BY DEF ToSet
  <2> QED BY <1>0, <1>8, <2>1 DEF PlanInv, Suits, Planned
<1>10. /\ next' = 1 /\ successful' = 0 /\ performed' = << >> /\ acting' = FALSE
       /\ lost' \in BOOLEAN
  BY <1>0 DEF DispatchInv, Dispatched
<1>11. DispatchInv'
  BY <1>0, <1>8, <1>10 DEF DispatchInv, Dispatched, Planned
<1>12. ReportInv' /\ RefInv'
  BY <1>0, <1>10 DEF ReportInv, Over, RefInv
<1> QED BY <1>7, <1>9, <1>11, <1>12

\* Actions that leave the request, the plan and what came of it alone.
LEMMA AsideKeeps ==
  ASSUME ActionInv, Probe \/ Raises \/ Snapshot \/ Cancel \/ ZoneChanges
  PROVE  ActionInv'
<1>1. UNCHANGED <<stores, request, plan, errors, next, ref, acting, successful,
                  report, performed, lost>>
  BY DEF Probe, Raises, Snapshot, Cancel, ZoneChanges, stores, call, world
<1>2. \/ phase' = phase
      \/ phase = "probing" /\ phase' = "raised"
      \/ phase = "snapshot" /\ phase' = "dispatch"
  BY DEF Probe, Raises, Snapshot, Cancel, ZoneChanges, call
<1>3. /\ title' = title /\ held' = held /\ known' = known /\ request' = request
      /\ plan' = plan /\ next' = next /\ ref' = ref /\ acting' = acting
      /\ errors' = errors /\ successful' = successful /\ report' = report
      /\ performed' = performed /\ lost' = lost
  BY <1>1 DEF stores
<1> USE DEF ActionInv
<1>4. RequestInv'
  BY <1>3 DEF RequestInv, Indices
<1>5. PlanInv'
  BY <1>2, <1>3, SameRequest DEF PlanInv, Planned
<1>6. DispatchInv'
  BY <1>2, <1>3, SameRequest DEF DispatchInv, Dispatched, Planned
<1>7. ReportInv'
  BY <1>2, <1>3, SameRequest DEF ReportInv, Over, Total
<1>8. RefInv'
  BY <1>3 DEF RefInv, RightRef, Item
<1> QED BY <1>4, <1>5, <1>6, <1>7, <1>8

\* Planning an action keeps what the plan owes the request.
LEMMA RouteKeeps ==
  ASSUME ActionInv, Route
  PROVE  ActionInv'
<1> USE DEF ActionInv
<1>1. PICK p \in IF RejectsCall THEN { << >> } ELSE Plans : plan' = p
  BY DEF Route
<1>2. /\ title' = title /\ held' = held /\ known' = known /\ request' = request
      /\ next' = next /\ ref' = ref /\ acting' = acting
      /\ errors' = RoutingErrors /\ successful' = successful /\ report' = report
      /\ performed' = performed /\ lost' = lost
      /\ phase = "probing" /\ phase' \in {"raised", "snapshot"}
  BY DEF Route, stores, world
<1>3. RequestInv'
  BY <1>2 DEF RequestInv, Indices
<1>4. Suits(p) /\ Covers(p)
  BY <1>1, RouteSuits
<1>5. PlanInv'
  BY <1>1, <1>2, <1>4, SameRequest DEF PlanInv, Planned
<1>6. /\ next = 1 /\ successful = 0 /\ performed = << >> /\ acting = FALSE
      /\ lost \in BOOLEAN
  BY <1>2 DEF DispatchInv, Dispatched
<1>7. Len(p) \in Nat
  BY <1>4 DEF Suits
<1>8. DispatchInv'
  BY <1>1, <1>2, <1>6, <1>7, SameRequest DEF DispatchInv, Dispatched, Planned
<1>9. ReportInv' /\ RefInv'
  BY <1>2, <1>6 DEF ReportInv, Over, RefInv
<1> QED BY <1>3, <1>5, <1>8, <1>9

\* What is recovered is the only one of its title that is as near.
LEMMA RecoveredIsNearest ==
  ASSUME RequestInv, NEW said \in [title : Titles, ref : Refs \cup Slips],
         Recover(held, title, said.title, said.ref).why = "found"
  PROVE  RightRef(said, Recover(held, title, said.title, said.ref).ref)
<1> DEFINE found == Candidates(held, title, said.title)
           far(n) == Distance(held[n], said.ref)
           nearest == {n \in found : \A m \in found : far(n) <= far(m)}
           best == CHOOSE n \in nearest : TRUE
<1>1. \A n \in found : n \in DOMAIN held /\ title[held[n]] = said.title
  BY DEF Candidates
<1>2. /\ held \in Seq(Refs) /\ DOMAIN held = 1 .. Len(held)
      /\ \A n \in DOMAIN held : held[n] \in Refs
  BY DEF RequestInv
<1>3. \A n \in found : far(n) \in Nat
  <2>1. said.ref \in Seq(Nat)
    BY RecoveryAssumption, LibraryAssumption
  <2>2. \A n \in found : held[n] \in Seq(Nat)
    BY <1>1, <1>2, RecoveryAssumption
  <2> QED BY <2>1, <2>2, DistanceIsNat
<1>4. found # {} /\ ~ (Cardinality(nearest) > 1)
  BY DEF Recover, NotFound
<1>5. Recover(held, title, said.title, said.ref).ref = held[best]
  <2>1. Recover(held, title, said.title, said.ref) = Found(held[best])
    BY <1>4 DEF Recover
  <2> QED BY <2>1 DEF Found
<1>6. nearest # {}
  <2> DEFINE S == {far(n) : n \in found}
  <2>1. S \in SUBSET Nat /\ S # {}
    BY <1>3, <1>4
  <2>2. Smallest(S) \in S /\ \A m \in S : Smallest(S) <= m
    <3> HIDE DEF S
    <3> QED BY <2>1, SmallestOf
  <2>3. PICK n \in found : Smallest(S) = far(n)
    BY <2>2
  <2>4. \A m \in found : far(n) <= far(m)
    BY <2>2, <2>3
  <2> QED BY <2>4
<1>7. best \in nearest
  BY <1>6
<1>8. ASSUME NEW n \in nearest PROVE n = best
  <2>1. IsFiniteSet(DOMAIN held)
    BY <1>2, FS_Interval
  <2>2. nearest \subseteq DOMAIN held
    BY <1>1
  <2> HIDE DEF nearest, best
  <2>3. IsFiniteSet(nearest)
    BY <2>1, <2>2, FS_Subset
  <2>4. Cardinality(nearest) \in Nat /\ Cardinality(nearest) # 0
    BY <1>6, <2>3, FS_EmptySet, FS_CardinalityType
  <2>5. Cardinality(nearest) = 1
    BY <1>4, <2>4
  <2>6. PICK x : nearest = {x}
    BY <2>3, <2>5, FS_Singleton
  <2> QED BY <1>7, <1>8, <2>6
<1> HIDE DEF best
<1> DEFINE r == held[best]
<1>9. r \in Refs /\ title[r] = said.title
  BY <1>1, <1>2, <1>7
<1>10. ASSUME NEW q \in ToSet(held), q # r, title[q] = title[r]
       PROVE  Distance(r, said.ref) < Distance(q, said.ref)
  <2>1. PICK k \in DOMAIN held : q = held[k]
    BY DEF ToSet
  <2>2. k \in found /\ k # best
    BY <1>9, <1>10, <2>1 DEF Candidates
  <2>3. k \notin nearest
    BY <1>8, <2>2
  <2>4. PICK m \in found : ~ (far(k) <= far(m))
    BY <2>2, <2>3
  <2>5. far(best) <= far(m) /\ best \in found
    BY <1>7, <2>4
  <2>6. far(k) \in Nat /\ far(m) \in Nat /\ far(best) \in Nat
    BY <1>3, <2>2, <2>4, <2>5
  <2>7. far(best) < far(k)
    <3> HIDE DEF far
    <3> QED BY <2>4, <2>5, <2>6
  <2> QED BY <2>1, <2>7
<1>11. TitlesMatch(said.title, title[r])
  BY <1>9 DEF TitlesMatch
<1> QED BY <1>5, <1>9, <1>10, <1>11 DEF RightRef

\* So is what the dispatch goes by for an item that was not turned away.
LEMMA SoughtIsRight ==
  ASSUME RequestInv, NEW i \in Indices \ PreDispatch,
         Sought(request.said[i]).why = "found"
  PROVE  RightRef(request.said[i], Sought(request.said[i]).ref)
<1> DEFINE said == request.said[i]
           found == Recover(held, title, said.title, said.ref)
<1>1. said \in [title : Titles, ref : Refs \cup Slips]
  BY DEF RequestInv
<1>2. request.items[i] # "rejected"
  BY DEF PreDispatch, Of
<1>3. ~ TurnedAway(held, title, said.title, said.ref)
  BY <1>2 DEF RequestInv
<1> HIDE DEF said
<1>4. CASE said.ref \in known
  <2>1. Sought(said) = Found(said.ref)
    BY <1>4 DEF Sought
  <2>2. Sought(said).ref = said.ref
    BY <2>1 DEF Found
  <2>3. said.ref \in ToSet(held) => TitlesMatch(said.title, title[said.ref])
    BY <1>3 DEF TurnedAway, IsMismatch
  <2> QED BY <1>1, <2>2, <2>3 DEF RightRef, said
<1>5. CASE said.ref \notin known
  <2>1. Sought(said) = found
    <3>1. NotFound("unknown_ref").why # "found"
      BY DEF NotFound
    <3> QED BY <1>5, <3>1 DEF Sought, said
  <2>2. RightRef(said, found.ref)
    BY <1>1, <2>1, RecoveredIsNearest DEF said
  <2> QED BY <2>1, <2>2 DEF said
<1> QED BY <1>4, <1>5

\* The item of a plan entry was not turned away.
LEMMA ItemOf ==
  ASSUME ActionInv, NEW n \in 1 .. Len(plan)
  PROVE  /\ Item(n) \in Indices \ PreDispatch /\ plan[n] \in Entry
         /\ Effective \in Appending => plan[n].verb \in Appending
<1>1. plan \in Seq(Entry) /\ DOMAIN plan = 1 .. Len(plan)
  BY DEF ActionInv, PlanInv, Suits
<1>2. plan[n] \in Entry /\ plan[n] \in ToSet(plan)
  BY <1>1 DEF ToSet
<1> QED BY <1>2 DEF ActionInv, PlanInv, Suits, Item

\* So does resolving the next target of a plan.
LEMMA ResolveEntryKeeps ==
  ASSUME ActionInv, ResolveEntry
  PROVE  ActionInv'
<1> USE DEF ActionInv
<1>1. /\ title' = title /\ held' = held /\ known' = known /\ request' = request
      /\ plan' = plan /\ phase' = phase /\ phase = "dispatch"
      /\ successful' = successful /\ report' = report
      /\ performed' = performed /\ lost' = lost
      /\ ~ acting /\ next <= Len(plan)
  BY DEF ResolveEntry, stores, world
<1>2. \/ /\ acting' = TRUE /\ errors' = errors /\ next' = next
         /\ RightRef(request.said[Item(next)], ref')
      \/ acting' = FALSE /\ ref' = ref /\ next' = next + 1
  <2> DEFINE i == Item(next)
             sought == IF request.items[i] = "queue_ref" THEN NotFound("queue_ref")
                       ELSE Sought(request.said[i])
  <2>1. \/ sought.why = "found" /\ acting' = TRUE /\ ref' = sought.ref
           /\ errors' = errors /\ next' = next
        \/ next' = next + 1 /\ acting' = acting /\ ref' = ref
    BY DEF ResolveEntry
  <2>2. NotFound("queue_ref").why # "found"
    BY DEF NotFound
  <2>3. next \in 1 .. Len(plan)
    <3>1. next \in 1 .. Len(plan) + 1 /\ Len(plan) \in Nat
      BY DEF DispatchInv, PlanInv, Suits
    <3> QED BY <1>1, <3>1
  <2>4. i \in Indices \ PreDispatch
    BY <2>3, ItemOf
  <2>5. sought.why = "found" => RightRef(request.said[i], sought.ref)
    BY <2>2, <2>4, SoughtIsRight
  <2>6. acting = FALSE
    BY <1>1 DEF DispatchInv
  <2> HIDE DEF sought
  <2>7. CASE next' = next + 1 /\ acting' = acting /\ ref' = ref
    BY <2>6, <2>7
  <2>8. CASE sought.why = "found" /\ acting' = TRUE /\ ref' = sought.ref
             /\ errors' = errors /\ next' = next
    BY <2>5, <2>8
  <2> QED BY <2>1, <2>7, <2>8
<1>3. RequestInv'
  BY <1>1 DEF RequestInv, Indices
<1>4. PlanInv'
  BY <1>1, SameRequest DEF PlanInv
<1>5. Len(plan) \in Nat /\ next \in Nat /\ successful \in Nat
  BY DEF PlanInv, Suits, DispatchInv
<1>6. DispatchInv'
  <2>1. next' \in 1 .. Len(plan) + 1 /\ successful \in 0 .. next' - 1
    BY <1>1, <1>2, <1>5, SMTT(30) DEF DispatchInv
  <2>2. acting' \in BOOLEAN /\ (acting' => next' = next)
    BY <1>2
  <2>3. successful = next' - 1 => successful = next - 1 /\ next' = next /\ errors' = errors
    BY <1>2, <1>5 DEF DispatchInv
  <2> QED BY <1>1, <2>1, <2>2, <2>3, SameRequest DEF DispatchInv, Dispatched, Planned
<1>7. ReportInv'
  BY <1>1 DEF ReportInv, Over
<1>8. RefInv'
  <2>1. \A said, r : RightRef(said, r)' <=> RightRef(said, r)
    BY <1>1 DEF RightRef
  <2>2. acting' => Item(next)' = Item(next)
    BY <1>1, <1>2 DEF Item
  <2> QED BY <1>1, <1>2, <2>1, <2>2 DEF RefInv
<1> QED BY <1>3, <1>4, <1>6, <1>7, <1>8

\* What an answer leaves, or a failure, whether or not Roon performed the entry.
LEMMA AnsweredKeeps ==
  ASSUME ActionInv, Acted \/ ActFailed
  PROVE  ActionInv'
<1> USE DEF ActionInv
<1> DEFINE entry == [verb |-> plan[next].verb, unit |-> plan[next].unit, ref |-> ref]
<1>1. /\ title' = title /\ held' = held /\ known' = known /\ request' = request
      /\ plan' = plan /\ phase' = phase /\ phase = "dispatch" /\ acting
      /\ report' = report /\ acting' = FALSE /\ next' = next + 1 /\ ref' = ref
  BY DEF Acted, ActFailed, stores
<1>2. \/ /\ performed' = Append(performed, entry) /\ lost' = lost
         /\ successful' = successful + 1 /\ errors' = errors
      \/ /\ performed' = Append(performed, entry) /\ lost' = TRUE
         /\ successful' = successful
      \/ performed' = performed /\ lost' = lost /\ successful' = successful
  BY DEF Acted, ActFailed, Performs
<1>3. /\ Len(plan) \in Nat /\ next \in 1 .. Len(plan)
      /\ successful \in 0 .. next - 1 /\ lost \in BOOLEAN
  BY <1>1 DEF PlanInv, Suits, DispatchInv
<1>4. /\ entry.verb = plan[next].verb /\ entry.unit = plan[next].unit
      /\ entry.ref = ref
      /\ entry \in [verb : Verbs, unit : Nat \X Nat, ref : Refs \cup Slips]
  <2>1. plan[next] \in Entry
    BY <1>3, ItemOf
  <2>2. ref \in Refs \cup Slips
    BY <1>1 DEF RefInv, RightRef
  <2> QED BY <2>1, <2>2 DEF Entry
<1>5. RightRef(request.said[entry.unit[1]], entry.ref)
  BY <1>1, <1>4 DEF RefInv, Item
<1> HIDE DEF entry
<1> DEFINE Kept == [verb : Verbs, unit : Nat \X Nat, ref : Refs \cup Slips]
<1>6. performed \in Seq(Kept) /\ DOMAIN performed = 1 .. Len(performed)
      /\ Len(performed) \in Nat
  BY DEF DispatchInv
<1>7. \/ performed' = performed
      \/ /\ performed' \in Seq(Kept) /\ Len(performed') = Len(performed) + 1
         /\ DOMAIN performed' = 1 .. Len(performed) + 1
         /\ \A n \in 1 .. Len(performed) : performed'[n] = performed[n]
         /\ performed'[Len(performed) + 1] = entry
  <2> DEFINE longer == Append(performed, entry)
  <2>1. performed' = performed \/ performed' = longer
    BY <1>2
  <2>2. /\ longer \in Seq(Kept) /\ Len(longer) = Len(performed) + 1
        /\ \A n \in 1 .. Len(performed) : longer[n] = performed[n]
        /\ longer[Len(performed) + 1] = entry
    <3> HIDE DEF Kept
    <3> QED BY <1>4, <1>6, AppendProperties DEF Kept
  <2>3. DOMAIN longer = 1 .. Len(performed) + 1
    BY <2>2
  <2> HIDE DEF longer
  <2> QED BY <2>1, <2>2, <2>3
<1> HIDE DEF Kept
<1>8. /\ performed' \in Seq(Kept)
      /\ \A n \in DOMAIN performed' :
           \/ n \in DOMAIN performed /\ performed'[n] = performed[n]
           \/ performed'[n] = entry
      /\ \A n \in DOMAIN performed :
           n \in DOMAIN performed' /\ performed'[n] = performed[n]
  BY <1>6, <1>7
<1>9. RequestInv'
  BY <1>1 DEF RequestInv, Indices
<1>10. PlanInv'
  BY <1>1, SameRequest DEF PlanInv
<1>11. DispatchInv'
  <2>1. next' \in 1 .. Len(plan) + 1 /\ successful' \in 0 .. next' - 1
    BY <1>1, <1>2, <1>3
  <2>2. \A n \in DOMAIN performed' :
          \E m \in 1 .. Len(plan) :
            performed'[n].verb = plan[m].verb /\ performed'[n].unit = plan[m].unit
    <3> SUFFICES ASSUME NEW n \in DOMAIN performed'
                 PROVE  \E m \in 1 .. Len(plan) :
                          /\ performed'[n].verb = plan[m].verb
                          /\ performed'[n].unit = plan[m].unit
      OBVIOUS
    <3>1. CASE n \in DOMAIN performed /\ performed'[n] = performed[n]
      BY <3>1 DEF DispatchInv
    <3>2. CASE performed'[n] = entry
      BY <1>3, <1>4, <3>2
    <3> QED BY <1>8, <3>1, <3>2
  <2>3. ~ lost' => Len(performed') = successful'
    <3>1. CASE performed' = Append(performed, entry) /\ lost' = lost
               /\ successful' = successful + 1
      <4>1. Len(performed') = Len(performed) + 1
        BY <1>6, <3>1
      <4> QED BY <3>1, <4>1 DEF DispatchInv
    <3>2. CASE lost' = TRUE
      BY <3>2
    <3>3. CASE performed' = performed /\ lost' = lost /\ successful' = successful
      BY <3>3 DEF DispatchInv
    <3> QED BY <1>2, <3>1, <3>2, <3>3
  <2>4. ASSUME successful' = next' - 1
        PROVE  /\ errors' = RoutingErrors
               /\ \A m \in 1 .. next :
                    \E n \in DOMAIN performed' : performed'[n].unit = plan[m].unit
    <3>1. successful' = successful + 1 /\ successful = next - 1 /\ errors' = errors
          /\ performed' = Append(performed, entry)
      BY <1>1, <1>2, <1>3, <2>4
    <3>2. /\ errors = RoutingErrors
          /\ \A m \in 1 .. next - 1 :
               \E n \in DOMAIN performed : performed[n].unit = plan[m].unit
      BY <1>1, <3>1 DEF DispatchInv, Planned
    <3>3. \E n \in DOMAIN performed' : performed'[n] = entry
      <4>1. Len(performed') = Len(performed) + 1
        BY <1>6, <3>1
      <4>2. performed' # performed
        BY <1>6, <4>1
      <4>3. Len(performed) + 1 \in DOMAIN performed'
        BY <1>6, <1>7, <4>2
      <4> QED BY <1>7, <4>2, <4>3
    <3>4. \A m \in 1 .. next : m \in 1 .. next - 1 \/ m = next
      BY <1>3
    <3> QED BY <1>4, <1>8, <3>1, <3>2, <3>3, <3>4, SMTT(30)
  <2>5. next' - 1 = next
    BY <1>1, <1>3
  <2>6. lost' \in BOOLEAN
    BY <1>2, <1>3
  <2> QED BY <1>1, <1>8, <2>1, <2>2, <2>3, <2>4, <2>5, <2>6, SameRequest
          DEF DispatchInv, Dispatched, Kept
<1>12. ReportInv'
  BY <1>1 DEF ReportInv, Over
<1>13. RefInv'
  <2>1. \A said, r : RightRef(said, r)' <=> RightRef(said, r)
    BY <1>1 DEF RightRef
  <2>2. \A n \in DOMAIN performed' :
          RightRef(request.said[performed'[n].unit[1]], performed'[n].ref)
    BY <1>5, <1>8 DEF RefInv
  <2> QED BY <1>1, <2>1, <2>2 DEF RefInv
<1> QED BY <1>9, <1>10, <1>11, <1>12, <1>13

\* The report counts what was dispatched, and auto-start adds to it.
LEMMA ReportKeeps ==
  ASSUME ActionInv, Report \/ AutoStart
  PROVE  ActionInv'
<1> USE DEF ActionInv
<1>1. /\ title' = title /\ held' = held /\ known' = known /\ request' = request
      /\ plan' = plan /\ next' = next /\ ref' = ref /\ acting' = acting
      /\ errors' = errors /\ successful' = successful
      /\ performed' = performed /\ lost' = lost
  BY DEF Report, AutoStart, stores, world
<1>2. \/ /\ phase = "dispatch" /\ phase' = "reported" /\ ~ acting
         /\ report' = IF successful = Total THEN "SUCCESSFUL"
                      ELSE IF successful > 0 THEN "PARTIAL SUCCESS" ELSE "FAILED"
      \/ phase = "reported" /\ phase' = "done" /\ report' = report
  BY DEF Report, AutoStart
<1>3. RequestInv'
  BY <1>1 DEF RequestInv, Indices
<1>4. PlanInv'
  BY <1>1, <1>2, SameRequest DEF PlanInv, Planned
<1>5. DispatchInv'
  BY <1>1, <1>2, SameRequest DEF DispatchInv, Dispatched, Planned
<1>6. ReportInv'
  <2>1. Total' = Total
    BY <1>1, SameRequest DEF Total
  <2>2. successful \in Nat
    BY DEF DispatchInv
  <2>3. CASE phase' = "reported" /\
             report' = IF successful = Total THEN "SUCCESSFUL"
                       ELSE IF successful > 0 THEN "PARTIAL SUCCESS" ELSE "FAILED"
    <3>1. report' = "SUCCESSFUL" => successful = Total
      BY <2>3
    <3>2. report' = "FAILED" => ~ (successful > 0)
      BY <2>3
    <3> QED BY <1>1, <2>1, <2>2, <3>1, <3>2 DEF ReportInv
  <2>4. CASE phase = "reported" /\ report' = report
    BY <1>1, <2>1, <2>4 DEF ReportInv, Over
  <2> QED BY <1>2, <2>3, <2>4
<1>7. RefInv'
  BY <1>1 DEF RefInv, RightRef, Item
<1> QED BY <1>3, <1>4, <1>5, <1>6, <1>7

\* No step of a library action breaks the invariant.
LEMMA ActionStep ==
  ActionInv /\ [ActionNext]_action => ActionInv'
<1> SUFFICES ASSUME ActionInv, [ActionNext]_action PROVE ActionInv'
  OBVIOUS
<1>1. CASE Submit
  BY <1>1, SubmitKeeps
<1>2. CASE Probe \/ Raises \/ Snapshot \/ Cancel \/ ZoneChanges
  BY <1>2, AsideKeeps
<1>3. CASE Route
  BY <1>3, RouteKeeps
<1>4. CASE ResolveEntry
  BY <1>4, ResolveEntryKeeps
<1>5. CASE Acted \/ ActFailed
  BY <1>5, AnsweredKeeps
<1>6. CASE Report \/ AutoStart
  BY <1>6, ReportKeeps
<1>7. CASE UNCHANGED action
  <2>1. /\ title' = title /\ held' = held /\ known' = known /\ request' = request
        /\ plan' = plan /\ next' = next /\ ref' = ref /\ acting' = acting
        /\ errors' = errors /\ successful' = successful /\ report' = report
        /\ performed' = performed /\ lost' = lost /\ phase' = phase
    BY <1>7 DEF action, call, stores, world
  <2> USE DEF ActionInv
  <2>2. RequestInv' /\ PlanInv'
    BY <2>1, SameRequest DEF RequestInv, Indices, PlanInv
  <2>3. DispatchInv' /\ ReportInv'
    BY <2>1, SameRequest DEF DispatchInv, ReportInv, Over, Total
  <2>4. RefInv'
    BY <2>1 DEF RefInv, RightRef, Item
  <2> QED BY <2>2, <2>3, <2>4
<1> QED BY <1>1, <1>2, <1>3, <1>4, <1>5, <1>6, <1>7 DEF ActionNext

\* Every library action keeps to its plan: what it dispatched, reports and
\* resolves is what its request asked for.
THEOREM ActionHolds == ActionSpec => []ActionInv
<1> QED BY InitAction, ActionStep, PTL DEF ActionSpec

\* For any number of items, titles and references: SUCCESSFUL means that no item
\* left an error and every one reached the zone, FAILED or a raised error that
\* none did, or Roon's answer was lost.
THEOREM ReportsAreHonest == ActionSpec => []ReportIsHonest
<1>1. ActionInv => ReportIsHonest
  <2> SUFFICES ASSUME ActionInv PROVE ReportIsHonest
    OBVIOUS
  <2> USE DEF ActionInv
  <2>1. /\ RequestInv /\ Len(plan) \in Nat /\ next \in 1 .. Len(plan) + 1
        /\ successful \in 0 .. next - 1
    BY DEF PlanInv, Suits, DispatchInv
  <2>2. ASSUME Over, report = "SUCCESSFUL"
        PROVE  /\ errors = {}
               /\ request.count = Unlimited =>
                    \A i \in Indices :
                      Delivered(i) \/ (request.verb = "Shuffle" /\ request.items[i] = "empty")
    <3>1. successful = Len(plan) + Cardinality(RoutingErrors)
      BY <2>2 DEF ReportInv, Total
    <3>2. successful = next - 1 /\ next = Len(plan) + 1 /\ Cardinality(RoutingErrors) = 0
      BY <2>1, <3>1, Shape
    <3>3. RoutingErrors = {}
      BY <2>1, <3>2, Shape
    <3>4. phase \in Planned
      BY <2>2 DEF Over, Planned
    <3>5. /\ errors = RoutingErrors
          /\ \A m \in 1 .. next - 1 :
               \E n \in DOMAIN performed : performed[n].unit = plan[m].unit
      BY <3>2, <3>4 DEF DispatchInv
    <3>6. next - 1 = Len(plan)
      BY <2>1, <3>2
    <3>7. \A x \in ToSet(plan) : Delivered(x.unit[1])
      <4>1. DOMAIN plan = 1 .. Len(plan)
        BY DEF PlanInv, Suits
      <4> QED BY <3>5, <3>6, <4>1 DEF ToSet, Delivered
    <3>8. Covers(plan)
      BY <3>4 DEF PlanInv
    <3> QED BY <3>3, <3>5, <3>7, <3>8 DEF Covers
  <2>3. ASSUME Over, report = "FAILED", ~ lost PROVE performed = << >>
    <3>1. Len(performed) = 0
      BY <2>3 DEF DispatchInv, ReportInv
    <3> QED BY <3>1 DEF DispatchInv
  <2>4. phase = "raised" => performed = << >>
    BY DEF DispatchInv, Dispatched
  <2> QED BY <2>2, <2>3, <2>4 DEF ReportIsHonest
<1> QED BY <1>1, ActionHolds, PTL

\* A request that adds to the queue, or asks for several items to be played,
\* never has Roon perform what replaces the queue.
THEOREM TheQueueIsKept == ActionSpec => []QueueingKeepsTheQueue
<1>1. ActionInv => QueueingKeepsTheQueue
  <2> SUFFICES ASSUME ActionInv,
                      request.verb \in Appending
                        \/ (request.verb = "Play Now" /\ Len(request.items) > 1),
                      NEW n \in DOMAIN performed
               PROVE  performed[n].verb \in Appending
    BY DEF QueueingKeepsTheQueue
  <2>1. Effective \in Appending
    BY DEF Effective, Appending
  <2>2. PICK m \in 1 .. Len(plan) : performed[n].verb = plan[m].verb
    BY DEF ActionInv, DispatchInv
  <2> QED BY <2>1, <2>2, ItemOf
<1> QED BY <1>1, ActionHolds, PTL

\* Roon never performs an entry for an item whose title is known not to be the
\* one that was said, nor for one of several as near to what was said.
THEOREM NothingElseIsPlayed == ActionSpec => []NeverPlaysOther
<1>1. ActionInv => NeverPlaysOther
  BY DEF ActionInv, RefInv, RightRef, NeverPlaysOther
<1> QED BY <1>1, ActionHolds, PTL

-----------------------------------------------------------------------------
(* Queues and maps of references.                                           *)

\* A sequence holds nothing twice if its halves do not and share nothing.
LEMMA Apart ==
  ASSUME NEW S, NEW s \in Seq(S), NEW t \in Seq(S)
  PROVE  IsInjective(s \o t) <=>
           /\ IsInjective(s) /\ IsInjective(t)
           /\ \A x \in ToSet(s) : x \notin ToSet(t)
<1> DEFINE u == s \o t
           m == Len(s)
           n == Len(t)
<1>1. m \in Nat /\ n \in Nat /\ DOMAIN s = 1 .. m /\ DOMAIN t = 1 .. n
  OBVIOUS
<1>2. u \in Seq(S) /\ Len(u) = m + n
      /\ \A i \in 1 .. m + n : u[i] = IF i <= m THEN s[i] ELSE t[i - m]
  BY ConcatProperties
<1>3. DOMAIN u = 1 .. m + n
  BY <1>2
<1> HIDE DEF u, m, n
<1>4. \A i \in 1 .. m : i \in DOMAIN u /\ u[i] = s[i]
  BY <1>1, <1>2, <1>3
<1>5. \A i \in 1 .. n : m + i \in DOMAIN u /\ u[m + i] = t[i]
  <2> SUFFICES ASSUME NEW i \in 1 .. n
               PROVE  m + i \in DOMAIN u /\ u[m + i] = t[i]
    OBVIOUS
  <2>1. m + i \in 1 .. m + n /\ ~ (m + i <= m) /\ (m + i) - m = i
    BY <1>1
  <2> QED BY <1>2, <1>3, <2>1
<1>6. \A i \in DOMAIN u : i \in 1 .. m \/ \E j \in 1 .. n : i = m + j
  <2> SUFFICES ASSUME NEW i \in DOMAIN u, i \notin 1 .. m
               PROVE  \E j \in 1 .. n : i = m + j
    OBVIOUS
  <2>1. i - m \in 1 .. n /\ i = m + (i - m)
    BY <1>1, <1>3
  <2> QED BY <2>1
<1>7. ASSUME IsInjective(u)
      PROVE  /\ IsInjective(s) /\ IsInjective(t)
             /\ \A x \in ToSet(s) : x \notin ToSet(t)
  <2>1. \A i, j \in DOMAIN u : u[i] = u[j] => i = j
    BY <1>7 DEF IsInjective
  <2>2. IsInjective(s)
    BY <1>1, <1>4, <2>1 DEF IsInjective
  <2>3. IsInjective(t)
    <3> SUFFICES ASSUME NEW i \in 1 .. n, NEW j \in 1 .. n, t[i] = t[j]
                 PROVE  i = j
      BY <1>1 DEF IsInjective
    <3>1. m + i = m + j
      BY <1>5, <2>1
    <3> QED BY <1>1, <3>1
  <2>4. ASSUME NEW i \in 1 .. m, NEW j \in 1 .. n, s[i] = t[j] PROVE FALSE
    <3>1. i = m + j
      BY <1>4, <1>5, <2>1, <2>4
    <3> QED BY <1>1, <3>1
  <2>5. \A x \in ToSet(s) : x \notin ToSet(t)
    BY <1>1, <2>4 DEF ToSet
  <2> QED BY <2>2, <2>3, <2>5
<1>8. ASSUME IsInjective(s), IsInjective(t), \A x \in ToSet(s) : x \notin ToSet(t)
      PROVE  IsInjective(u)
  <2> SUFFICES ASSUME NEW i \in DOMAIN u, NEW j \in DOMAIN u, u[i] = u[j]
               PROVE  i = j
    BY DEF IsInjective
  <2>1. \A k \in 1 .. m : s[k] \in ToSet(s)
    BY <1>1 DEF ToSet
  <2>2. \A k \in 1 .. n : t[k] \in ToSet(t)
    BY <1>1 DEF ToSet
  <2>3. CASE i \in 1 .. m /\ j \in 1 .. m
    BY <1>1, <1>4, <1>8, <2>3 DEF IsInjective
  <2>4. CASE i \notin 1 .. m /\ j \notin 1 .. m
    <3>1. PICK k \in 1 .. n : i = m + k
      BY <1>6, <2>4
    <3>2. PICK l \in 1 .. n : j = m + l
      BY <1>6, <2>4
    <3>3. t[k] = t[l]
      BY <1>5, <3>1, <3>2
    <3> QED BY <1>1, <1>8, <3>1, <3>2, <3>3 DEF IsInjective
  <2>5. CASE i \in 1 .. m /\ j \notin 1 .. m
    <3>1. PICK l \in 1 .. n : j = m + l
      BY <1>6, <2>5
    <3>2. s[i] = t[l]
      BY <1>4, <1>5, <2>5, <3>1
    <3> QED BY <1>8, <2>1, <2>2, <2>5, <3>2
  <2>6. CASE i \notin 1 .. m /\ j \in 1 .. m
    <3>1. PICK k \in 1 .. n : i = m + k
      BY <1>6, <2>6
    <3>2. s[j] = t[k]
      BY <1>4, <1>5, <2>6, <3>1
    <3> QED BY <1>8, <2>1, <2>2, <2>6, <3>2
  <2> QED BY <2>3, <2>4, <2>5, <2>6
<1> QED BY <1>7, <1>8 DEF u

\* A list cut in two.
LEMMA Cut ==
  ASSUME NEW S, NEW s \in Seq(S), NEW at \in 0 .. Len(s)
  PROVE  /\ SubSeq(s, 1, at) \in Seq(S) /\ SubSeq(s, at + 1, Len(s)) \in Seq(S)
         /\ s = SubSeq(s, 1, at) \o SubSeq(s, at + 1, Len(s))
<1>1. /\ Len(s) \in Nat /\ \A i \in 1 .. Len(s) : s[i] \in S
      /\ at \in Int /\ at + 1 \in Int
      /\ \A i \in 1 .. at : i \in 1 .. Len(s)
      /\ \A i \in at + 1 .. Len(s) : i \in 1 .. Len(s)
  OBVIOUS
<1>2. SubSeq(s, 1, at) \in Seq(S)
  BY <1>1, SubSeqProperties
<1>3. SubSeq(s, at + 1, Len(s)) \in Seq(S)
  BY <1>1, SubSeqProperties
<1>4. SubSeq(s, 1, at) \o SubSeq(s, at + 1, Len(s)) = SubSeq(s, 1, Len(s))
  <2>1. 1 \in 1 .. Len(s) + 1 /\ at \in 1 - 1 .. Len(s) /\ Len(s) \in at .. Len(s)
    BY <1>1
  <2> QED BY <2>1, ConcatAdjacentSubSeq
<1>5. SubSeq(s, 1, Len(s)) = s
  BY SubSeqFull
<1> QED BY <1>2, <1>3, <1>4, <1>5

\* A list in three pieces: s is the whole, w lacks the middle one.
Parted(S, a, c, b, s, w) ==
  /\ a \in Seq(S) /\ b \in Seq(S) /\ c \in Seq(S)
  /\ s = (a \o c) \o b /\ w = a \o b

\* A list cut in three has the middle piece's items and the others', none twice
\* just when no piece has one twice or one of another's.
LEMMA Pieces ==
  ASSUME NEW S, NEW a, NEW c, NEW b, NEW s, NEW w, Parted(S, a, c, b, s, w)
  PROVE  /\ s \in Seq(S) /\ w \in Seq(S)
         /\ \A x : x \in ToSet(s) <=> x \in ToSet(w) \/ x \in ToSet(c)
         /\ IsInjective(s) <=> /\ IsInjective(w) /\ IsInjective(c)
                               /\ \A x \in ToSet(w) : x \notin ToSet(c)
<1> USE DEF Parted
<1>1. PICK ac : ac = a \o c
  OBVIOUS
<1>2. ac \in Seq(S) /\ \A x : x \in ToSet(ac) <=> x \in ToSet(a) \/ x \in ToSet(c)
  BY <1>1, Concatenated
<1>3. IsInjective(ac) <=>
        IsInjective(a) /\ IsInjective(c) /\ \A x \in ToSet(a) : x \notin ToSet(c)
  BY <1>1, Apart
<1>4. s = ac \o b
  BY <1>1
<1>5. s \in Seq(S) /\ \A x : x \in ToSet(s) <=> x \in ToSet(ac) \/ x \in ToSet(b)
  BY <1>2, <1>4, Concatenated
<1>6. IsInjective(s) <=>
        IsInjective(ac) /\ IsInjective(b) /\ \A x \in ToSet(ac) : x \notin ToSet(b)
  BY <1>2, <1>4, Apart
<1>7. w \in Seq(S) /\ \A x : x \in ToSet(w) <=> x \in ToSet(a) \/ x \in ToSet(b)
  BY Concatenated
<1>8. IsInjective(w) <=>
        IsInjective(a) /\ IsInjective(b) /\ \A x \in ToSet(a) : x \notin ToSet(b)
  BY Apart
<1>9. IsInjective(s) <=> /\ IsInjective(w) /\ IsInjective(c)
                         /\ \A x \in ToSet(w) : x \notin ToSet(c)
  BY <1>2, <1>3, <1>5, <1>6, <1>7, <1>8
<1> QED BY <1>2, <1>5, <1>7, <1>9

\* A list without n items after position at.
LEMMA WithoutIs ==
  ASSUME NEW S, NEW s \in Seq(S), NEW at \in Nat, NEW n \in Nat, at + n <= Len(s)
  PROVE  LET w == Without(s, at, n)
             c == SubSeq(s, at + 1, at + n)
         IN /\ w \in Seq(S) /\ c \in Seq(S)
            /\ \A x : x \in ToSet(s) <=> x \in ToSet(w) \/ x \in ToSet(c)
            /\ IsInjective(s) =>
                 IsInjective(w) /\ \A x \in ToSet(w) : x \notin ToSet(c)
<1> DEFINE a == SubSeq(s, 1, at)
           b == SubSeq(s, at + n + 1, Len(s))
           c == SubSeq(s, at + 1, at + n)
           w == Without(s, at, n)
<1>1. Len(s) \in Nat /\ at + n \in 0 .. Len(s) /\ at \in 0 .. Len(s)
      /\ \A i \in 1 .. Len(s) : s[i] \in S
  OBVIOUS
<1>2. /\ SubSeq(s, 1, at + n) \in Seq(S) /\ b \in Seq(S)
      /\ s = SubSeq(s, 1, at + n) \o b
  BY <1>1, Cut
<1>3. a \in Seq(S)
  BY <1>1, Cut
<1>4. c \in Seq(S)
  <2>1. at + 1 \in Int /\ at + n \in Int /\ \A i \in at + 1 .. at + n : s[i] \in S
    BY <1>1
  <2> QED BY <2>1, SubSeqProperties
<1>5. a \o c = SubSeq(s, 1, at + n)
  <2>1. 1 \in 1 .. Len(s) + 1 /\ at \in 1 - 1 .. Len(s) /\ at + n \in at .. Len(s)
    BY <1>1
  <2> QED BY <2>1, ConcatAdjacentSubSeq
<1>6. w = a \o b
  BY DEF Without
<1>7. s = (a \o c) \o b
  BY <1>2, <1>5
<1>9. Parted(S, a, c, b, s, w)
  BY <1>2, <1>3, <1>4, <1>6, <1>7 DEF Parted
<1> HIDE DEF a, b, c, w
<1>8. /\ \A x : x \in ToSet(s) <=> x \in ToSet(w) \/ x \in ToSet(c)
      /\ w \in Seq(S)
      /\ IsInjective(s) =>
           IsInjective(w) /\ \A x \in ToSet(w) : x \notin ToSet(c)
  BY <1>9, Pieces
<1> QED BY <1>4, <1>8 DEF w, c

\* A list with an item after position at.
LEMMA WithItemIs ==
  ASSUME NEW S, NEW s \in Seq(S), NEW at \in 0 .. Len(s), NEW x \in S
  PROVE  LET t == SubSeq(s, 1, at) \o <<x>> \o SubSeq(s, at + 1, Len(s))
         IN /\ t \in Seq(S)
            /\ \A y : y \in ToSet(t) <=> y \in ToSet(s) \/ y = x
            /\ IsInjective(s) /\ x \notin ToSet(s) => IsInjective(t)
<1> DEFINE a == SubSeq(s, 1, at)
           b == SubSeq(s, at + 1, Len(s))
           one == <<x>>
           t == SubSeq(s, 1, at) \o <<x>> \o SubSeq(s, at + 1, Len(s))
<1>1. a \in Seq(S) /\ b \in Seq(S) /\ s = a \o b
  BY Cut
<1>2. one \in Seq(S) /\ IsInjective(one)
  BY DEF IsInjective
<1>3. ToSet(one) = {x}
  BY OneHeld
<1>4. t = (a \o one) \o b
  OBVIOUS
<1>7. Parted(S, a, one, b, t, s)
  BY <1>1, <1>2, <1>4 DEF Parted
<1> HIDE DEF a, b, one, t
<1>5. /\ t \in Seq(S)
      /\ \A y : y \in ToSet(t) <=> y \in ToSet(s) \/ y \in ToSet(one)
      /\ IsInjective(t) <=> /\ IsInjective(s) /\ IsInjective(one)
                            /\ \A y \in ToSet(s) : y \notin ToSet(one)
  BY <1>7, Pieces
<1>6. /\ t \in Seq(S)
      /\ \A y : y \in ToSet(t) <=> y \in ToSet(s) \/ y = x
      /\ IsInjective(s) /\ x \notin ToSet(s) => IsInjective(t)
  BY <1>2, <1>3, <1>5
<1> QED BY <1>6 DEF t

\* A finite set put in a row is all there.
LEMMA RowOf ==
  ASSUME NEW S, IsFiniteSet(S)
  PROVE  SetToSeq(S) \in Seq(S) /\ ToSet(SetToSeq(S)) = S
<1> DEFINE D == 1 .. Cardinality(S)
           C(f) == f \in [D -> S] /\ IsInjective(f)
           r == CHOOSE f : C(f)
<1>1. \E f : C(f)
  BY FS_CardinalityType DEF ExistsBijection, Bijection, Injection
<1>2. C(r)
  <2> HIDE DEF C
  <2> QED BY <1>1
<1>3. SetToSeq(S) = r
  BY DEF SetToSeq
<1>4. r \in SetToSeqs(S)
  <2>1. r \in [D -> S] /\ \A i, j \in D : i # j => r[i] # r[j]
    <3> HIDE DEF r
    <3> QED BY <1>2 DEF IsInjective
  <2> HIDE DEF r
  <2> QED BY <2>1 DEF SetToSeqs
<1> HIDE DEF r
<1> QED BY <1>3, <1>4, OrderHolds

\* A finite set of numbers has a largest.
LEMMA LargestOf ==
  ASSUME NEW S \in SUBSET Nat, S # {}, IsFiniteSet(S)
  PROVE  Max(S) \in S /\ \A x \in S : x <= Max(S)
<1> DEFINE B == {b \in Nat : \A x \in S : x <= b}
<1>1. PICK s \in Seq(S) : ToSet(s) = S
  BY RowOf
<1>2. Len(s) \in Nat /\ \A i \in 1 .. Len(s) : s[i] \in Nat
  <2>1. Len(s) \in Nat /\ \A i \in 1 .. Len(s) : s[i] \in S
    OBVIOUS
  <2>2. \A x \in S : x \in Nat
    OBVIOUS
  <2> QED BY <2>1, <2>2
<1> DEFINE P == {k \in 0 .. Len(s) : \E b \in Nat : \A i \in 1 .. k : s[i] <= b}
<1>3. 0 \in P
  BY <1>2
<1>4. ASSUME NEW k \in 1 .. Len(s), k - 1 \in P PROVE k \in P
  <2>1. PICK b \in Nat : \A i \in 1 .. k - 1 : s[i] <= b
    BY <1>4
  <2>2. \A i \in 1 .. k : s[i] <= b + s[k]
    <3> TAKE i \in 1 .. k
    <3>1. s[k] \in Nat /\ s[i] \in Nat
      BY <1>2
    <3>2. i = k \/ i \in 1 .. k - 1
      OBVIOUS
    <3>3. CASE i = k
      BY <3>1, <3>3
    <3>4. CASE i \in 1 .. k - 1
      <4>1. s[i] <= b
        BY <2>1, <3>4
      <4> HIDE <2>1
      <4> QED BY <3>1, <4>1
    <3> QED BY <3>2, <3>3, <3>4
  <2>3. b + s[k] \in Nat /\ k \in 0 .. Len(s)
    BY <1>2
  <2> QED BY <2>2, <2>3
<1>5. Len(s) \in P
  <2> HIDE DEF P
  <2>1. \A k \in 0 .. Len(s) : k \in P
    BY <1>2, <1>3, <1>4, UpTo
  <2> QED BY <1>2, <2>1
<1>6. PICK b \in Nat : \A i \in 1 .. Len(s) : s[i] <= b
  BY <1>5
<1>7. B \in SUBSET Nat /\ B # {}
  <2>1. b \in B
    BY <1>1, <1>6 DEF ToSet
  <2> QED BY <2>1
<1> DEFINE m == Smallest(B)
<1>8. m \in B /\ \A c \in B : m <= c
  <2> HIDE DEF B
  <2> QED BY <1>7, SmallestOf
<1> HIDE DEF m
<1>9. m \in S
  <2> SUFFICES ASSUME m \notin S PROVE FALSE
    OBVIOUS
  <2>1. \A x \in S : x <= m - 1
    BY <1>8
  <2>2. m - 1 \in Nat
    <3>1. PICK x \in S : x <= m - 1
      BY <2>1
    <3>2. m \in Nat /\ x \in Nat
      BY <1>8
    <3> HIDE <2>1
    <3> QED BY <3>1, <3>2
  <2> QED BY <1>8, <2>1, <2>2
<1> DEFINE Top(x) == x \in S /\ \A y \in S : x >= y
           t == CHOOSE x : Top(x)
<1>10. Top(m)
  BY <1>8, <1>9
<1>11. Top(t)
  <2> HIDE DEF Top
  <2> QED BY <1>10
<1>12. Max(S) = t
  BY DEF Max
<1> HIDE DEF t
<1> QED BY <1>11, <1>12

\* Each item has a reference of its own.
MapInv(m) ==
  /\ m = [refs |-> m.refs, invalidated |-> m.invalidated]
  /\ IsFiniteSet(Active(m)) /\ Active(m) \subseteq Nat
  /\ m.refs \in [Active(m) -> Nat] /\ IsInjective(m.refs)
  /\ m.invalidated \in Seq(Nat)

\* n has the references that m has for the items of S.
Keeps(m, n, S) == \A q \in S : q \in Active(m) => n.refs[q] = m.refs[q]

\* An empty map and the mark that there is none.
LEMMA EmptyIs ==
  /\ MapInv(EmptyMap) /\ Active(EmptyMap) = {}
  /\ MapInv(NoMap) /\ Active(NoMap) = {}
<1>1. DOMAIN <<>> = {} /\ <<>> \in [{} -> Nat] /\ <<>> \in Seq(Nat) /\ <<0>> \in Seq(Nat)
  OBVIOUS
<1>2. IsFiniteSet({})
  BY FS_EmptySet
<1>3. EmptyMap.refs = <<>> /\ NoMap.refs = <<>>
      /\ EmptyMap.invalidated = <<>> /\ NoMap.invalidated = <<0>>
  BY DEF EmptyMap, NoMap
<1>4. Active(EmptyMap) = {} /\ Active(NoMap) = {}
  BY <1>1, <1>3 DEF Active
<1>5. \A m \in {EmptyMap, NoMap} : IsInjective(m.refs)
  BY <1>1, <1>3 DEF IsInjective
<1>6. /\ EmptyMap = [refs |-> EmptyMap.refs, invalidated |-> EmptyMap.invalidated]
      /\ NoMap = [refs |-> NoMap.refs, invalidated |-> NoMap.invalidated]
  BY DEF EmptyMap, NoMap
<1> QED BY <1>1, <1>2, <1>3, <1>4, <1>5, <1>6 DEF MapInv

\* Starting from no map is starting from an empty one.
LEMMA OrEmptyIs ==
  ASSUME NEW m, MapInv(m)
  PROVE  /\ MapInv(OrEmpty(m)) /\ Active(OrEmpty(m)) = Active(m)
         /\ \A q \in Active(m) : OrEmpty(m).refs[q] = m.refs[q]
BY EmptyIs DEF OrEmpty

\* Minting gives each item without a reference one that nobody had.
LEMMA MintIs ==
  ASSUME NEW m, MapInv(m), NEW items \in Seq(Nat), NEW hex \in Nat,
         \A q \in Active(m) : m.refs[q] <= hex,
         NEW r, r = MintAll(m, items, hex)
  PROVE  /\ MapInv(r) /\ Active(r) = Active(m) \cup ToSet(items)
         /\ Keeps(m, r, Active(m))
<1> DEFINE A == Active(m) \cup ToSet(items)
           At(q) == CHOOSE n \in DOMAIN items : items[n] = q
           f == [q \in A |-> IF q \in Active(m) THEN m.refs[q] ELSE hex + At(q)]
<1>1. A = Active(m) \cup Unminted(m, items)
  BY DEF Unminted
<1>2. r = [refs |-> f, invalidated |-> m.invalidated]
  BY <1>1 DEF MapInv, MintAll
<1>3. r.refs = f /\ r.invalidated = m.invalidated /\ Active(r) = A
      /\ r = [refs |-> r.refs, invalidated |-> r.invalidated]
  BY <1>2 DEF Active
<1>4. /\ \A q \in Active(m) : m.refs[q] \in Nat
      /\ \A p, q \in Active(m) : m.refs[p] = m.refs[q] => p = q
  BY DEF MapInv, IsInjective, Active
<1>5. ASSUME NEW q \in A, q \notin Active(m)
      PROVE  At(q) \in 1 .. Len(items) /\ items[At(q)] = q
  <2>1. \E n \in DOMAIN items : items[n] = q
    BY <1>5 DEF ToSet
  <2> QED BY <2>1
<1> HIDE DEF At
<1>6. Len(items) \in Nat
  OBVIOUS
<1>7. \A q \in A : f[q] \in Nat
  BY <1>4, <1>5, <1>6
<1>8. \A q \in A : q \notin Active(m) => f[q] > hex
  BY <1>5, <1>6
<1>9. \A p, q \in A : f[p] = f[q] => p = q
  <2> SUFFICES ASSUME NEW p \in A, NEW q \in A, f[p] = f[q] PROVE p = q
    OBVIOUS
  <2>1. CASE p \in Active(m) /\ q \in Active(m)
    BY <1>4, <2>1
  <2>2. CASE p \notin Active(m) /\ q \notin Active(m)
    <3>1. At(p) = At(q)
      <4>1. At(p) \in Nat /\ At(q) \in Nat /\ hex + At(p) = hex + At(q)
        BY <1>5, <1>6, <2>2
      <4> QED BY <4>1
    <3> QED BY <1>5, <2>2, <3>1
  <2>3. CASE p \in Active(m) /\ q \notin Active(m)
    <3>1. f[p] <= hex /\ f[q] > hex /\ f[p] \in Nat /\ f[q] \in Nat
      BY <1>7, <1>8, <2>3
    <3> QED BY <3>1
  <2>4. CASE p \notin Active(m) /\ q \in Active(m)
    <3>1. f[q] <= hex /\ f[p] > hex /\ f[p] \in Nat /\ f[q] \in Nat
      BY <1>7, <1>8, <2>4
    <3> QED BY <3>1
  <2> QED BY <2>1, <2>2, <2>3, <2>4
<1>10. IsFiniteSet(A) /\ A \subseteq Nat
  <2>1. IsFiniteSet(ToSet(items)) /\ ToSet(items) \subseteq Nat
    BY HeldFinite DEF ToSet
  <2>2. IsFiniteSet(Active(m)) /\ Active(m) \subseteq Nat
    BY DEF MapInv
  <2> QED BY <2>1, <2>2, FS_Union
<1>11. Keeps(m, r, Active(m))
  BY <1>3 DEF Keeps
<1>12. r.refs \in [A -> Nat] /\ IsInjective(r.refs)
  <2>1. f \in [A -> Nat]
    BY <1>7
  <2>2. DOMAIN f = A
    OBVIOUS
  <2>3. IsInjective(f)
    <3> HIDE DEF f
    <3> QED BY <1>9, <2>2 DEF IsInjective
  <2> QED BY <1>3, <2>1, <2>3
<1>13. m.invalidated \in Seq(Nat)
  BY DEF MapInv
<1> HIDE DEF A, f
<1> QED BY <1>3, <1>10, <1>11, <1>12, <1>13 DEF MapInv, A

\* Invalidating takes the references of the items away, and no other.
LEMMA InvalidateIs ==
  ASSUME NEW m, MapInv(m), NEW items \in Seq(Nat),
         NEW r, r = InvalidateAll(m, items)
  PROVE  /\ MapInv(r) /\ Active(r) = Active(m) \ ToSet(items)
         /\ Keeps(m, r, Active(r))
<1> DEFINE A == Active(m) \ ToSet(items)
           each == [n \in DOMAIN items |->
             IF items[n] \in Active(m) THEN << m.refs[items[n]] >> ELSE <<>>]
           gone == FlattenSeq(each)
           f == [q \in A |-> m.refs[q]]
<1>1. r = [refs |-> f, invalidated |-> Trimmed(m.invalidated \o gone)]
  BY DEF InvalidateAll
<1>2. r.refs = f /\ r.invalidated = Trimmed(m.invalidated \o gone) /\ Active(r) = A
      /\ r = [refs |-> r.refs, invalidated |-> r.invalidated]
  BY <1>1 DEF Active
<1>3. /\ \A q \in Active(m) : m.refs[q] \in Nat
      /\ \A p, q \in Active(m) : m.refs[p] = m.refs[q] => p = q
  BY DEF MapInv, IsInjective, Active
<1>4. gone \in Seq(Nat)
  <2>1. \A n \in 1 .. Len(items) : each[n] \in Seq(Nat)
    BY <1>3
  <2>2. each \in Seq(Seq(Nat))
    <3>1. each = [n \in 1 .. Len(items) |-> each[n]] /\ Len(items) \in Nat
      OBVIOUS
    <3> HIDE DEF each
    <3> QED BY <2>1, <3>1
  <2> HIDE DEF each
  <2> QED BY <2>2, Flattened
<1> HIDE DEF gone
<1>5. m.invalidated \o gone \in Seq(Nat)
  BY <1>4, Concatenated DEF MapInv
<1> DEFINE old == m.invalidated \o gone
<1>6. Trimmed(old) \in Seq(Nat)
  <2> HIDE DEF old
  <2>1. old \in Seq(Nat)
    BY <1>5 DEF old
  <2>2. CASE Len(old) > MaxInvalidated
    <3>1. MaxInvalidated \in Nat /\ Len(old) \in Nat
      BY <2>1, QueueFeedAssumption
    <3>2. /\ Len(old) - MaxInvalidated + 1 \in Int
          /\ \A i \in Len(old) - MaxInvalidated + 1 .. Len(old) : old[i] \in Nat
      BY <2>1, <2>2, <3>1
    <3>3. SubSeq(old, Len(old) - MaxInvalidated + 1, Len(old)) \in Seq(Nat)
      BY <3>1, <3>2, SubSeqProperties
    <3> QED BY <2>2, <3>3 DEF Trimmed
  <2>3. CASE ~ (Len(old) > MaxInvalidated)
    BY <2>1, <2>3 DEF Trimmed
  <2> QED BY <2>2, <2>3
<1>7. IsFiniteSet(A) /\ A \subseteq Nat
  BY FS_Difference DEF MapInv
<1>8. f \in [A -> Nat] /\ IsInjective(f)
  BY <1>3 DEF IsInjective
<1>9. Keeps(m, r, Active(r))
  BY <1>2 DEF Keeps
<1> HIDE DEF A, f, old
<1> QED BY <1>2, <1>6, <1>7, <1>8, <1>9 DEF MapInv, A, old

\* After a full list, the items with a reference are the listed ones.
LEMMA ReconcileIs ==
  ASSUME NEW m, MapInv(m), NEW items \in Seq(Nat), NEW hex \in Nat,
         \A q \in Active(m) : m.refs[q] <= hex,
         NEW r, r = Reconcile(m, items, hex)
  PROVE  /\ MapInv(r) /\ Active(r) = ToSet(items)
         /\ Keeps(m, r, ToSet(items))
<1> DEFINE away == Active(m) \ ToSet(items)
           gone == SetToSeq(away)
           k == InvalidateAll(m, gone)
<1>1. IsFiniteSet(away) /\ away \subseteq Nat
  BY FS_Difference DEF MapInv
<1>2. gone \in Seq(Nat) /\ ToSet(gone) = away
  <2>1. gone \in Seq(away) /\ ToSet(gone) = away
    <3> HIDE DEF away
    <3> QED BY <1>1, RowOf
  <2> HIDE DEF gone
  <2>2. \A i \in 1 .. Len(gone) : gone[i] \in away
    BY <2>1
  <2> QED BY <1>1, <2>1
<1>3. r = MintAll(k, items, hex)
  BY DEF Reconcile
<1> HIDE DEF gone
<1>4. MapInv(k) /\ Active(k) = Active(m) \ ToSet(gone) /\ Keeps(m, k, Active(k))
  BY <1>2, InvalidateIs
<1> HIDE DEF k
<1>5. Active(k) = Active(m) \cap ToSet(items)
  BY <1>2, <1>4
<1>6. \A q \in Active(k) : k.refs[q] <= hex
  BY <1>4, <1>5 DEF Keeps
<1>7. /\ MapInv(r) /\ Active(r) = Active(k) \cup ToSet(items)
      /\ Keeps(k, r, Active(k))
  BY <1>3, <1>4, <1>6, MintIs
<1> QED BY <1>4, <1>5, <1>7 DEF Keeps

-----------------------------------------------------------------------------
(* The queue of a zone.  The Core's list and the agent's differ by what is  *)
(* on its way, so the invariant remembers the Core's list as it was at each *)
(* event not yet handled.                                                   *)

\* The Core's queue at some moment, and whether the agent's list follows it.
Moment == [list : Seq(Nat), made : Nat, fed : BOOLEAN]

Event ==
  [kind : {"full"}, items : Seq(Nat)]
    \cup [kind : {"insert"}, at : Nat, items : Seq(Nat)]
    \cup [kind : {"remove"}, at : Nat, n : Nat]
    \cup [kind : {"zones_added", "zones_removed"}]

\* Event e reports what became of the queue between two moments.
Leads(was, e, is) ==
  \/ e.kind = "full" /\ is.fed /\ e.items = is.list
  \/ /\ e.kind = "insert" /\ was.fed /\ is.fed
     /\ was.made < is.made /\ e.items = <<is.made>> /\ e.at \in 0 .. Len(was.list)
     /\ is.list = SubSeq(was.list, 1, e.at) \o e.items
                    \o SubSeq(was.list, e.at + 1, Len(was.list))
  \/ /\ e.kind = "remove" /\ was.fed /\ is.fed
     /\ e.at \in Nat /\ e.n \in Nat /\ e.at + e.n <= Len(was.list)
     /\ is.list = Without(was.list, e.at, e.n)
  \/ e.kind \in {"zones_added", "zones_removed"} /\ ~is.fed

\* A queue of items made so far, none twice.
Queued(s, n) == s \in Seq(1 .. n) /\ IsInjective(s)

\* What s holds of the first n items made is also in t: none comes back.
NoneBack(t, n, s) == \A x \in ToSet(s) : x <= n => x \in ToSet(t)

\* One moment is before another: none of its items comes back in between.
Before(was, is) ==
  was.made <= is.made /\ NoneBack(was.list, was.made, is.list)

\* past is the Core's queue at the last event handled, and at each one on its way.
Follows(past) ==
  /\ past \in [0 .. Len(channel) -> Moment]
  /\ \A k \in 0 .. Len(channel) :
       /\ Queued(past[k].list, past[k].made)
       /\ past[k].made <= made /\ NoneBack(past[k].list, past[k].made, queue)
       /\ \A j \in 0 .. k : Before(past[j], past[k])
  /\ \A k \in 1 .. Len(channel) : Leads(past[k - 1], channel[k], past[k])
  /\ streaming => past[Len(channel)].fed /\ past[Len(channel)].list = queue
  /\ past[0].fed => cache = past[0].list

CoreInv ==
  /\ made \in Nat /\ Queued(queue, made)
  /\ channel \in Seq(Event)
  /\ ~present => ~streaming

ShownInv(S) == IsFiniteSet(S) /\ S \subseteq Nat \X Nat \X BOOLEAN

\* What was shown with a reference still has it in m, if it is or may be listed.
Known(m, S, top, due) ==
  \A s \in S : /\ s[1] <= top
               /\ s[3] /\ s[1] \in due => s[1] \in Active(m) /\ m.refs[s[1]] = s[2]

\* What the agent lists, and what its list is to become.
Due(now) == ToSet(List) \cup ToSet(now.list)

AgentInv(now) ==
  /\ cache \in Seq(Nat) /\ ToSet(List) \subseteq 1 .. now.made
  /\ read \in Seq(1 .. now.made) /\ (read # <<>> => stage = "live")
  /\ Known(IF stage = "live" THEN map ELSE snapshot.map, shown, now.made, Due(now))
  /\ Known(snapshot.map, snapshot.shown, now.made, Due(now))

StoreInv ==
  /\ MapInv(map) /\ MapInv(snapshot.map)
  /\ ShownInv(shown) /\ ShownInv(snapshot.shown)
  /\ snapshot = [map |-> snapshot.map, shown |-> snapshot.shown]

FeedInv ==
  /\ CoreInv /\ StoreInv /\ RefsFollowQueue
  /\ \E past : Follows(past) /\ AgentInv(past[0])

\* A map holds a finite set of references.
LEMMA HeldIs ==
  ASSUME NEW m, MapInv(m)
  PROVE  /\ IsFiniteSet(Held(m)) /\ Held(m) \subseteq Nat
         /\ \A q \in Active(m) : m.refs[q] \in Held(m)
<1> DEFINE R == {m.refs[q] : q \in Active(m)}
<1>1. IsFiniteSet(Active(m)) /\ m.refs \in [Active(m) -> Nat] /\ m.invalidated \in Seq(Nat)
  BY DEF MapInv
<1>2. m.refs \in Surjection(Active(m), R)
  BY <1>1 DEF Surjection
<1>3. IsFiniteSet(R) /\ R \subseteq Nat
  BY <1>1, <1>2, FS_Surjection
<1>4. IsFiniteSet(ToSet(m.invalidated)) /\ ToSet(m.invalidated) \subseteq Nat
  BY <1>1, HeldFinite DEF ToSet
<1>5. IsFiniteSet(R \cup ToSet(m.invalidated))
  <2> HIDE DEF R
  <2> QED BY <1>3, <1>4, FS_Union
<1> QED BY <1>3, <1>4, <1>5 DEF Held

\* A fresh reference is above every one in use.
LEMMA FreshIs ==
  ASSUME StoreInv
  PROVE  Fresh \in Nat /\ \A q \in Active(map) : map.refs[q] <= Fresh
<1> DEFINE told == shown \cup snapshot.shown
           by == [s \in told |-> s[2]]
           refs == {s[2] : s \in told}
           all == {0} \cup Held(map) \cup Held(snapshot.map) \cup refs
<1>1. IsFiniteSet(told) /\ told \subseteq Nat \X Nat \X BOOLEAN
  BY FS_Union DEF StoreInv, ShownInv
<1>2. by \in Surjection(told, refs)
  BY DEF Surjection
<1>3. IsFiniteSet(refs) /\ refs \subseteq Nat
  <2>1. refs \subseteq Nat
    BY <1>1
  <2> HIDE DEF told, by, refs
  <2> QED BY <1>1, <1>2, <2>1, FS_Surjection
<1>4. /\ IsFiniteSet(Held(map)) /\ Held(map) \subseteq Nat
      /\ IsFiniteSet(Held(snapshot.map)) /\ Held(snapshot.map) \subseteq Nat
      /\ \A q \in Active(map) : map.refs[q] \in Held(map)
  BY HeldIs DEF StoreInv
<1>5. IsFiniteSet(all) /\ all \in SUBSET Nat /\ all # {}
  <2>1. IsFiniteSet({0})
    BY FS_Singleton
  <2> HIDE DEF refs
  <2>2. IsFiniteSet({0} \cup Held(map))
    BY <1>4, <2>1, FS_Union
  <2>3. IsFiniteSet({0} \cup Held(map) \cup Held(snapshot.map))
    BY <1>4, <2>2, FS_Union
  <2>4. IsFiniteSet(all)
    BY <1>3, <2>3, FS_Union
  <2>5. \A x \in all : x \in Nat
    BY <1>3, <1>4
  <2>6. 0 \in all
    OBVIOUS
  <2> HIDE DEF all
  <2> QED BY <2>4, <2>5, <2>6
<1>6. Fresh = Max(all)
  BY DEF Fresh
<1>7. \A x \in Held(map) : x \in all
  OBVIOUS
<1> HIDE DEF all
<1>8. Max(all) \in all /\ \A x \in all : x <= Max(all)
  BY <1>5, LargestOf
<1> QED BY <1>4, <1>5, <1>6, <1>7, <1>8

\* At first nothing is queued, listed or shown.
LEMMA InitFeed == FeedInit => FeedInv
<1> SUFFICES ASSUME FeedInit PROVE FeedInv
  OBVIOUS
<1> USE DEF FeedInit
<1>1. <<>> \in Seq(1 .. 0) /\ IsInjective(<<>>) /\ ToSet(<<>>) = {} /\ <<>> \in Seq(Nat)
  BY DEF IsInjective, ToSet
<1>2. CoreInv
  BY <1>1 DEF CoreInv, Queued
<1>3. StoreInv
  BY EmptyIs, FS_EmptySet DEF StoreInv, ShownInv
<1>4. RefsFollowQueue
  BY DEF RefsFollowQueue
<1> DEFINE now == [list |-> <<>>, made |-> 0, fed |-> FALSE]
           past == [k \in 0 .. 0 |-> now]
<1>5. now \in Moment /\ Before(now, now)
  BY <1>1 DEF Moment, Before, NoneBack
<1>6. past[0] = now /\ Len(channel) = 0 /\ past \in [0 .. 0 -> Moment]
  BY <1>5
<1>7. \A k \in 0 .. 0 : k = 0
  OBVIOUS
<1>8. \A k \in 1 .. 0 : FALSE
  OBVIOUS
<1>9. Queued(now.list, now.made) /\ now.made <= made /\ NoneBack(now.list, now.made, queue)
  BY <1>1 DEF Queued, NoneBack
<1>10. now.list = <<>> /\ now.made = 0 /\ ~now.fed
  OBVIOUS
<1> HIDE DEF past, now
<1>11. Follows(past)
  BY <1>5, <1>6, <1>7, <1>8, <1>9, <1>10 DEF Follows
<1>12. cache \in Seq(Nat) /\ List = <<>>
  BY DEF List, NoList
<1>13. AgentInv(past[0])
  BY <1>1, <1>6, <1>10, <1>12 DEF AgentInv, Known
<1> QED BY <1>2, <1>3, <1>4, <1>11, <1>13 DEF FeedInv

\* Something happens to the queue, and an event that says so is sent.
LEMMA Emitted ==
  ASSUME NEW past, Follows(past), CoreInv, NEW e \in Event, NEW fed \in BOOLEAN,
         channel' = Append(channel, e), cache' = cache,
         made' \in Nat, made <= made', Queued(queue', made'),
         NoneBack(queue, made, queue'),
         Leads(past[Len(channel)], e,
               [list |-> queue', made |-> made', fed |-> fed]),
         streaming' => fed
  PROVE  /\ channel' \in Seq(Event)
         /\ \E new : Follows(new)' /\ new[0] = past[0]
<1> DEFINE n == Len(channel)
           now == [list |-> queue', made |-> made', fed |-> fed]
<1>1. PICK is : is = now
  OBVIOUS
<1>2. channel \in Seq(Event) /\ n \in Nat /\ made \in Nat
  BY DEF CoreInv
<1>3. /\ channel' \in Seq(Event) /\ Len(channel') = n + 1
      /\ \A k \in 1 .. n : channel'[k] = channel[k]
      /\ channel'[n + 1] = e
  BY <1>2
<1>4. is \in Moment
  <2>1. \A i \in 1 .. Len(queue') : queue'[i] \in Nat
    BY DEF Queued
  <2>2. queue' \in Seq(Nat)
    BY <2>1 DEF Queued
  <2> QED BY <1>1, <2>2 DEF Moment
<1>5. PICK new : new = [k \in 0 .. n + 1 |-> IF k <= n THEN past[k] ELSE is]
  OBVIOUS
<1>6. \A k \in 0 .. n : new[k] = past[k]
  BY <1>2, <1>5
<1>7. new[n + 1] = is
  BY <1>2, <1>5
<1>8. \A k \in 0 .. n + 1 : k \in 0 .. n \/ k = n + 1
  BY <1>2
<1>9. \A k \in 0 .. n : past[k] \in Moment
  BY DEF Follows
<1>10. new \in [0 .. n + 1 -> Moment]
  BY <1>2, <1>4, <1>5, <1>9
<1> HIDE DEF n
<1>11. is.list = queue' /\ is.made = made' /\ is.fed = fed
  BY <1>1
<1>12. \A k \in 0 .. n :
         /\ Queued(past[k].list, past[k].made)
         /\ past[k].made \in Nat /\ past[k].made <= made'
         /\ NoneBack(past[k].list, past[k].made, queue')
  <2> TAKE k \in 0 .. n
  <2>1. /\ Queued(past[k].list, past[k].made)
        /\ past[k].made <= made /\ NoneBack(past[k].list, past[k].made, queue)
    BY DEF Follows, n
  <2>2. past[k].made \in Nat
    BY <1>9 DEF Moment
  <2>3. past[k].made <= made'
    BY <1>2, <2>1, <2>2
  <2>4. ASSUME NEW x \in ToSet(queue'), x <= past[k].made
        PROVE  x \in ToSet(past[k].list)
    <3>1. x \in Nat
      BY <2>4 DEF Queued, ToSet
    <3>2. x <= made
      BY <1>2, <2>1, <2>2, <2>4, <3>1
    <3>3. x \in ToSet(queue)
      BY <2>4, <3>2 DEF NoneBack
    <3> QED BY <2>1, <2>4, <3>3 DEF NoneBack
  <2> QED BY <2>1, <2>2, <2>3, <2>4 DEF NoneBack
<1>13. \A k \in 0 .. n + 1 :
         /\ Queued(new[k].list, new[k].made)
         /\ new[k].made <= made' /\ NoneBack(new[k].list, new[k].made, queue')
         /\ \A j \in 0 .. k : Before(new[j], new[k])
  <2> TAKE k \in 0 .. n + 1
  <2>1. CASE k \in 0 .. n
    <3>1. \A j \in 0 .. k : j \in 0 .. n /\ Before(past[j], past[k])
      BY <2>1, <1>2 DEF Follows, n
    <3> QED BY <1>6, <1>12, <2>1, <3>1
  <2>2. CASE k = n + 1
    <3>1. NoneBack(queue', made', queue')
      BY DEF NoneBack
    <3>2. \A j \in 0 .. n : Before(past[j], is)
      BY <1>11, <1>12 DEF Before
    <3>3. Before(is, is)
      BY <1>11, <3>1 DEF Before
    <3>4. \A j \in 0 .. k : Before(new[j], new[k])
      BY <1>6, <1>7, <1>8, <2>2, <3>2, <3>3
    <3> QED BY <1>7, <1>11, <2>2, <3>1, <3>4
  <2> QED BY <1>8, <2>1, <2>2
<1>14. \A k \in 1 .. n + 1 : Leads(new[k - 1], channel'[k], new[k])
  <2> TAKE k \in 1 .. n + 1
  <2>1. CASE k \in 1 .. n
    <3>1. k \in 0 .. n /\ k - 1 \in 0 .. n
      BY <1>2, <2>1
    <3>2. Leads(past[k - 1], channel[k], past[k])
      BY <2>1 DEF Follows, n
    <3> QED BY <1>3, <1>6, <2>1, <3>1, <3>2
  <2>2. CASE k = n + 1
    <3>1. k - 1 = n /\ n \in 0 .. n
      BY <1>2, <2>2
    <3>2. Leads(past[n], e, is)
      BY <1>1 DEF n
    <3> QED BY <1>3, <1>6, <1>7, <2>2, <3>1, <3>2
  <2>3. k \in 1 .. n \/ k = n + 1
    BY <1>2
  <2> QED BY <2>1, <2>2, <2>3
<1>15. new[0] = past[0]
  BY <1>2, <1>6
<1>16. past[0].fed => cache' = past[0].list
  BY DEF Follows
<1>17. Follows(new)'
  BY <1>3, <1>7, <1>10, <1>11, <1>13, <1>14, <1>15, <1>16 DEF Follows
<1> QED BY <1>3, <1>15, <1>17

\* Nothing is sent: the Core sends nothing, or its queue stays.
LEMMA Unsent ==
  ASSUME NEW past, Follows(past), CoreInv,
         channel' = channel, cache' = cache,
         made' \in Nat, made <= made', Queued(queue', made'),
         NoneBack(queue, made, queue'),
         streaming' => streaming /\ queue' = queue
  PROVE  Follows(past)'
<1>1. made \in Nat /\ past \in [0 .. Len(channel) -> Moment]
  BY DEF CoreInv, Follows
<1>2. \A k \in 0 .. Len(channel) :
        past[k].made <= made' /\ NoneBack(past[k].list, past[k].made, queue')
  <2> TAKE k \in 0 .. Len(channel)
  <2>1. past[k].made <= made /\ NoneBack(past[k].list, past[k].made, queue)
    BY DEF Follows
  <2>2. past[k].made \in Nat
    BY <1>1 DEF Moment
  <2>3. past[k].made <= made'
    BY <1>1, <2>1, <2>2
  <2>4. ASSUME NEW x \in ToSet(queue'), x <= past[k].made
        PROVE  x \in ToSet(past[k].list)
    <3>1. x \in Nat
      BY <2>4 DEF Queued, ToSet
    <3>2. x <= made
      BY <1>1, <2>1, <2>2, <2>4, <3>1
    <3>3. x \in ToSet(queue)
      BY <2>4, <3>2 DEF NoneBack
    <3> QED BY <2>1, <2>4, <3>3 DEF NoneBack
  <2> QED BY <2>3, <2>4 DEF NoneBack
<1> QED BY <1>2 DEF Follows

\* While the Core sends, the last event left its queue as it is.
LEMMA LastIs ==
  ASSUME NEW past, Follows(past), CoreInv, streaming
  PROVE  LET was == past[Len(channel)]
         IN was.fed /\ was.list = queue /\ was.made <= made /\ was.made \in Nat
<1>1. Len(channel) \in 0 .. Len(channel)
  BY DEF CoreInv
<1> QED BY <1>1 DEF Follows, Moment

\* What the agent holds is not touched by the Core.
LEMMA CoreAside ==
  ASSUME FeedInv, UNCHANGED agent, CoreInv',
         \A past : Follows(past) => \E new : Follows(new)' /\ new[0] = past[0]
  PROVE  FeedInv'
<1> USE DEF agent
<1>1. StoreInv' /\ RefsFollowQueue'
  BY DEF FeedInv, StoreInv, RefsFollowQueue, NoList, Active
<1>2. PICK past : Follows(past) /\ AgentInv(past[0])
  BY DEF FeedInv
<1>3. PICK new : Follows(new)' /\ new[0] = past[0]
  BY <1>2
<1>4. AgentInv(new[0])'
  BY <1>2, <1>3 DEF AgentInv, Known, Due, List, Active
<1> QED BY <1>1, <1>3, <1>4 DEF FeedInv

\* The queue changes: what is sent of it says how.
LEMMA QueueChanges ==
  ASSUME FeedInv, present, UNCHANGED <<present, streaming, agent>>, NEW e \in Event,
         channel' = Emits(e), made' \in Nat, made <= made', Queued(queue', made'),
         NoneBack(queue, made, queue'),
         \A was : was.fed /\ was.list = queue /\ was.made <= made /\ was.made \in Nat =>
                    Leads(was, e, [list |-> queue', made |-> made', fed |-> TRUE])
  PROVE  FeedInv'
<1>1. CoreInv
  BY DEF FeedInv
<1>2. cache' = cache
  BY DEF agent
<1>3. ASSUME NEW past, Follows(past)
      PROVE  /\ channel' \in Seq(Event)
             /\ \E new : Follows(new)' /\ new[0] = past[0]
  <2>1. CASE streaming
    <3>1. channel' = Append(channel, e)
      BY <2>1 DEF Emits
    <3>2. Leads(past[Len(channel)], e,
                [list |-> queue', made |-> made', fed |-> TRUE])
      BY <1>1, <1>3, <2>1, LastIs
    <3> QED BY <1>1, <1>2, <1>3, <3>1, <3>2, Emitted
  <2>2. CASE ~streaming
    <3>1. channel' = channel /\ ~streaming'
      BY <2>2 DEF Emits
    <3>2. Follows(past)'
      BY <1>1, <1>2, <1>3, <3>1, Unsent
    <3> QED BY <1>1, <3>1, <3>2 DEF CoreInv
  <2> QED BY <2>1, <2>2
<1>4. channel' \in Seq(Event)
  BY <1>3 DEF FeedInv
<1>5. CoreInv'
  BY <1>4 DEF CoreInv
<1> QED BY <1>3, <1>5, CoreAside

\* The Core replaces the queue.
LEMMA ReplacedFeed == FeedInv /\ Replaced => FeedInv'
<1> SUFFICES ASSUME FeedInv, Replaced PROVE FeedInv'
  OBVIOUS
<1> DEFINE e == [kind |-> "full", items |-> queue']
<1>1. /\ made \in Nat /\ made' = made + 1 /\ queue' = <<made + 1>>
      /\ present /\ UNCHANGED <<present, streaming, agent>> /\ channel' = Emits(e)
  BY DEF Replaced, FeedInv, CoreInv
<1>2. queue' \in Seq(1 .. made') /\ queue' \in Seq(Nat) /\ IsInjective(queue')
  BY <1>1 DEF IsInjective
<1>3. ToSet(queue') = {made + 1}
  BY <1>1, OneHeld
<1>4. e \in Event
  BY <1>2 DEF Event
<1>5. NoneBack(queue, made, queue')
  BY <1>1, <1>3 DEF NoneBack
<1>6. ASSUME NEW was
      PROVE  Leads(was, e, [list |-> queue', made |-> made', fed |-> TRUE])
  BY DEF Leads
<1>7. Queued(queue', made') /\ made' \in Nat /\ made <= made'
  BY <1>1, <1>2 DEF Queued
<1> HIDE DEF e
<1> QED BY <1>1, <1>4, <1>5, <1>6, <1>7, QueueChanges

\* The Core inserts an item.
LEMMA InsertedFeed == FeedInv /\ Inserted => FeedInv'
<1> SUFFICES ASSUME FeedInv, Inserted PROVE FeedInv'
  OBVIOUS
<1>1. PICK at \in 0 .. Len(queue) :
        /\ queue' = SubSeq(queue, 1, at) \o <<made + 1>>
                      \o SubSeq(queue, at + 1, Len(queue))
        /\ channel' = Emits([kind |-> "insert", at |-> at, items |-> <<made + 1>>])
  BY DEF Inserted
<1> DEFINE e == [kind |-> "insert", at |-> at, items |-> <<made + 1>>]
<1>2. /\ made \in Nat /\ made' = made + 1
      /\ present /\ UNCHANGED <<present, streaming, agent>>
      /\ queue \in Seq(1 .. made) /\ IsInjective(queue)
  BY DEF Inserted, FeedInv, CoreInv, Queued
<1>3. queue \in Seq(1 .. made + 1) /\ made + 1 \in 1 .. made + 1
      /\ Len(queue) \in Nat
  <2>1. Len(queue) \in Nat /\ \A i \in 1 .. Len(queue) : queue[i] \in 1 .. made
    BY <1>2
  <2>2. \A i \in 1 .. Len(queue) : queue[i] \in 1 .. made + 1
    BY <1>2, <2>1
  <2> QED BY <1>2, <2>1, <2>2
<1>4. made + 1 \notin ToSet(queue)
  <2>1. \A x \in ToSet(queue) : x \in 1 .. made
    BY <1>2 DEF ToSet
  <2> QED BY <1>2, <2>1
<1>5. /\ queue' \in Seq(1 .. made + 1) /\ IsInjective(queue')
      /\ \A y : y \in ToSet(queue') <=> y \in ToSet(queue) \/ y = made + 1
  BY <1>1, <1>2, <1>3, <1>4, WithItemIs, SMTT(30)
<1>6. e \in Event
  BY <1>2 DEF Event
<1>7. NoneBack(queue, made, queue')
  BY <1>2, <1>5 DEF NoneBack
<1>8. ASSUME NEW was, was.fed, was.list = queue, was.made <= made, was.made \in Nat
      PROVE  Leads(was, e, [list |-> queue', made |-> made', fed |-> TRUE])
  <2> DEFINE is == [list |-> queue', made |-> made', fed |-> TRUE]
  <2>1. is.list = queue' /\ is.made = made + 1 /\ is.fed
    BY <1>2
  <2>2. e.kind = "insert" /\ e.at = at /\ e.items = <<made + 1>>
    OBVIOUS
  <2> HIDE DEF e, is
  <2>3. was.made < made + 1
    BY <1>2, <1>8
  <2>4. is.list = SubSeq(was.list, 1, e.at) \o e.items
                    \o SubSeq(was.list, e.at + 1, Len(was.list))
    BY <1>1, <1>8, <2>1, <2>2
  <2>5. Leads(was, e, is)
    BY <1>8, <2>1, <2>2, <2>3, <2>4 DEF Leads
  <2> QED BY <2>5 DEF is
<1> HIDE DEF e
<1>9. channel' = Emits(e) /\ made' \in Nat /\ made <= made' /\ Queued(queue', made')
  BY <1>1, <1>2, <1>5 DEF Queued, e
<1> QED BY <1>2, <1>6, <1>7, <1>8, <1>9, QueueChanges

\* The Core removes a span of items.
LEMMA RemovedFeed == FeedInv /\ Removed => FeedInv'
<1> SUFFICES ASSUME FeedInv, Removed PROVE FeedInv'
  OBVIOUS
<1>1. PICK at \in 0 .. Len(queue) - 1, n \in 1 .. Len(queue) :
        /\ at + n <= Len(queue) /\ queue' = Without(queue, at, n)
        /\ channel' = Emits([kind |-> "remove", at |-> at, n |-> n])
  BY DEF Removed
<1> DEFINE e == [kind |-> "remove", at |-> at, n |-> n]
<1>2. /\ made \in Nat /\ made' = made
      /\ present /\ UNCHANGED <<present, streaming, agent>>
      /\ queue \in Seq(1 .. made) /\ IsInjective(queue)
  BY DEF Removed, FeedInv, CoreInv, Queued
<1>3. at \in Nat /\ n \in Nat
  BY <1>1, <1>2
<1>4. /\ queue' \in Seq(1 .. made) /\ IsInjective(queue')
      /\ \A y \in ToSet(queue') : y \in ToSet(queue)
  BY <1>1, <1>2, <1>3, WithoutIs
<1>5. e \in Event
  BY <1>3 DEF Event
<1>6. NoneBack(queue, made, queue')
  BY <1>4 DEF NoneBack
<1>7. ASSUME NEW was, was.fed, was.list = queue
      PROVE  Leads(was, e, [list |-> queue', made |-> made', fed |-> TRUE])
  BY <1>1, <1>3, <1>7 DEF Leads
<1>8. channel' = Emits(e) /\ made' \in Nat /\ made <= made' /\ Queued(queue', made')
  BY <1>1, <1>2, <1>4 DEF Queued
<1> HIDE DEF e
<1> QED BY <1>2, <1>5, <1>6, <1>7, <1>8, QueueChanges

\* The zone and its subscription come and go: an event is sent whether or not
\* the Core sends the queue.
LEMMA ZoneMoves ==
  ASSUME FeedInv, UNCHANGED agent, made' = made, NEW e \in Event, NEW fed \in BOOLEAN,
         channel' = Append(channel, e), queue' \in {queue, <<>>}, streaming' => fed,
         ~present' => ~streaming',
         \A was : Leads(was, e, [list |-> queue', made |-> made', fed |-> fed])
  PROVE  FeedInv'
<1>1. CoreInv /\ made \in Nat /\ Queued(queue, made)
  BY DEF FeedInv, CoreInv
<1>2. cache' = cache
  BY DEF agent
<1>3. Queued(queue', made') /\ NoneBack(queue, made, queue')
  <2>1. Queued(<<>>, made) /\ ToSet(<<>>) = {}
    BY DEF Queued, IsInjective, ToSet
  <2> QED BY <1>1, <2>1 DEF NoneBack
<1>4. ASSUME NEW past, Follows(past)
      PROVE  /\ channel' \in Seq(Event)
             /\ \E new : Follows(new)' /\ new[0] = past[0]
  <2>1. Leads(past[Len(channel)], e, [list |-> queue', made |-> made', fed |-> fed])
    OBVIOUS
  <2> QED BY <1>1, <1>2, <1>3, <1>4, <2>1, Emitted
<1>5. channel' \in Seq(Event)
  BY <1>4 DEF FeedInv
<1>6. CoreInv'
  BY <1>1, <1>3, <1>5 DEF CoreInv
<1> QED BY <1>4, <1>6, CoreAside

\* The zone goes, comes back, or is answered with its whole queue.
LEMMA ZoneFeed == FeedInv /\ (ZoneGoes \/ ZoneReturns \/ Answers) => FeedInv'
<1>1. ASSUME FeedInv, ZoneGoes PROVE FeedInv'
  <2> DEFINE e == [kind |-> "zones_removed"]
  <2>1. /\ UNCHANGED agent /\ made' = made /\ channel' = Append(channel, e)
        /\ queue' \in {queue, <<>>} /\ ~streaming'
    BY <1>1 DEF ZoneGoes
  <2>2. e \in Event
    BY DEF Event
  <2>3. \A was : Leads(was, e, [list |-> queue', made |-> made', fed |-> FALSE])
    BY <2>1 DEF Leads
  <2> HIDE DEF e
  <2> QED BY <1>1, <2>1, <2>2, <2>3, ZoneMoves
<1>2. ASSUME FeedInv, ZoneReturns PROVE FeedInv'
  <2> DEFINE e == [kind |-> "zones_added"]
  <2>1. /\ UNCHANGED agent /\ made' = made /\ channel' = Append(channel, e)
        /\ queue' = queue /\ ~streaming' /\ present'
    BY <1>2 DEF ZoneReturns, FeedInv, CoreInv
  <2>2. e \in Event
    BY DEF Event
  <2>3. \A was : Leads(was, e, [list |-> queue', made |-> made', fed |-> FALSE])
    BY DEF Leads
  <2> HIDE DEF e
  <2> QED BY <1>2, <2>1, <2>2, <2>3, ZoneMoves
<1>3. ASSUME FeedInv, Answers PROVE FeedInv'
  <2> DEFINE e == [kind |-> "full", items |-> queue]
  <2>1. /\ UNCHANGED agent /\ made' = made /\ channel' = Append(channel, e)
        /\ queue' = queue /\ present'
    BY <1>3 DEF Answers
  <2>2. e \in Event
    <3>1. queue \in Seq(Nat)
      <4>1. queue \in Seq(1 .. made) /\ \A i \in 1 .. Len(queue) : queue[i] \in Nat
        BY <1>3 DEF FeedInv, CoreInv, Queued
      <4> QED BY <4>1
    <3> QED BY <3>1 DEF Event
  <2>3. \A was : Leads(was, e, [list |-> queue', made |-> made', fed |-> TRUE])
    BY <2>1 DEF Leads
  <2> HIDE DEF e
  <2> QED BY <1>3, <2>1, <2>2, <2>3, ZoneMoves
<1> QED BY <1>1, <1>2, <1>3

\* What was on its way is lost: the next the agent hears is which zones there are.
LEMMA ReconnectsFeed == FeedInv /\ FeedReconnects => FeedInv'
<1> SUFFICES ASSUME FeedInv, FeedReconnects PROVE FeedInv'
  OBVIOUS
<1>1. /\ UNCHANGED <<queue, made, present, agent>> /\ ~streaming'
      /\ channel' = IF present THEN << [kind |-> "zones_added"] >>
                    ELSE << [kind |-> "zones_removed"] >>
  BY DEF FeedReconnects
<1>2. /\ made \in Nat /\ Queued(queue, made) /\ queue \in Seq(Nat)
  <2>1. queue \in Seq(1 .. made) /\ \A i \in 1 .. Len(queue) : queue[i] \in Nat
    BY DEF FeedInv, CoreInv, Queued
  <2> QED BY <2>1 DEF FeedInv, CoreInv
<1>3. PICK e \in Event : /\ channel' = <<e>>
                         /\ e.kind \in {"zones_added", "zones_removed"}
  <2> DEFINE back == [kind |-> "zones_added"]
             away == [kind |-> "zones_removed"]
  <2>1. /\ back \in Event /\ away \in Event
        /\ back.kind = "zones_added" /\ away.kind = "zones_removed"
    BY DEF Event
  <2>2. channel' = <<back>> \/ channel' = <<away>>
    BY <1>1
  <2> HIDE DEF back, away
  <2> QED BY <2>1, <2>2
<1>4. channel' \in Seq(Event) /\ Len(channel') = 1 /\ channel'[1] = e
  BY <1>3
<1>5. CoreInv'
  BY <1>1, <1>4 DEF FeedInv, CoreInv
<1>6. PICK is : is = [list |-> queue, made |-> made, fed |-> FALSE]
  OBVIOUS
<1>7. /\ is \in Moment /\ is.list = queue /\ is.made = made /\ ~is.fed
      /\ \A was : Leads(was, e, is)
  BY <1>2, <1>3, <1>6 DEF Moment, Leads
<1>8. ASSUME NEW past, Follows(past)
      PROVE  \E new : Follows(new)' /\ new[0] = past[0]
  <2>1. PICK was : was = past[0]
    OBVIOUS
  <2>2. /\ was \in Moment /\ Queued(was.list, was.made)
        /\ was.made <= made /\ NoneBack(was.list, was.made, queue)
        /\ Before(was, was) /\ (was.fed => cache = was.list)
    <3>1. 0 \in 0 .. Len(channel) /\ 0 \in 0 .. 0
      BY DEF FeedInv, CoreInv
    <3> QED BY <1>8, <2>1, <3>1 DEF Follows
  <2>3. PICK new : new = [k \in 0 .. 1 |-> IF k = 0 THEN was ELSE is]
    OBVIOUS
  <2>4. new \in [0 .. 1 -> Moment] /\ new[0] = was /\ new[1] = is
    BY <1>7, <2>2, <2>3
  <2>5. Before(was, is) /\ Before(is, is) /\ NoneBack(queue, made, queue)
    BY <1>2, <1>7, <2>2 DEF Before, NoneBack
  <2>6. \A k \in 0 .. 1 : k = 0 \/ k = 1
    OBVIOUS
  <2>7. (\A j \in 0 .. 0 : j = 0) /\ (\A k \in 1 .. 1 : k = 1) /\ 1 - 1 = 0
    OBVIOUS
  <2>8. \A k \in 0 .. 1 :
          /\ Queued(new[k].list, new[k].made)
          /\ new[k].made <= made /\ NoneBack(new[k].list, new[k].made, queue)
          /\ \A j \in 0 .. k : Before(new[j], new[k])
    <3>1. Queued(is.list, is.made) /\ is.made <= made
      BY <1>2, <1>7
    <3> QED BY <1>7, <2>2, <2>4, <2>5, <2>6, <2>7, <3>1
  <2>9. \A k \in 1 .. 1 : Leads(new[k - 1], e, new[k])
    BY <1>7, <2>4, <2>7
  <2>10. cache' = cache
    BY <1>1 DEF agent
  <2>11. Follows(new)'
    BY <1>1, <1>4, <2>2, <2>4, <2>7, <2>8, <2>9, <2>10 DEF Follows
  <2> QED BY <2>1, <2>4, <2>11
<1> QED BY <1>1, <1>5, <1>8, CoreAside

\* The agent starts again with what it saved, and a list of nothing.
LEMMA CrashFeed == FeedInv /\ Crash => FeedInv'
<1> SUFFICES ASSUME FeedInv, Crash PROVE FeedInv'
  OBVIOUS
<1>1. /\ UNCHANGED <<queue, made, present, snapshot>> /\ ~streaming'
      /\ channel' = <<>> /\ stage' = "down" /\ cache' = NoList /\ map' = NoMap
      /\ read' = <<>> /\ shown' = snapshot.shown
  BY DEF Crash
<1>2. PICK past : Follows(past) /\ AgentInv(past[0])
  BY DEF FeedInv
<1>3. CoreInv'
  BY <1>1 DEF FeedInv, CoreInv
<1>4. StoreInv'
  <2>1. MapInv(NoMap)
    BY EmptyIs
  <2>2. MapInv(map')
    BY <1>1, <2>1
  <2> QED BY <1>1, <2>2 DEF FeedInv, StoreInv, MapInv, Active, ShownInv
<1>5. RefsFollowQueue'
  BY <1>1 DEF RefsFollowQueue
<1>6. PICK was : was = past[0]
  OBVIOUS
<1>7. /\ was \in Moment /\ Queued(was.list, was.made)
      /\ was.made <= made /\ NoneBack(was.list, was.made, queue)
      /\ Before(was, was)
  <2>1. 0 \in 0 .. Len(channel) /\ 0 \in 0 .. 0
    BY DEF FeedInv, CoreInv
  <2> QED BY <1>2, <1>6, <2>1 DEF Follows
<1>8. PICK is : is = [list |-> was.list, made |-> was.made, fed |-> FALSE]
  OBVIOUS
<1>9. is \in Moment /\ is.list = was.list /\ is.made = was.made /\ ~is.fed
  BY <1>7, <1>8 DEF Moment
<1>10. PICK new : new = [k \in 0 .. 0 |-> is]
  OBVIOUS
<1>11. new \in [0 .. 0 -> Moment] /\ new[0] = is /\ Len(channel') = 0
  BY <1>1, <1>9, <1>10
<1>12. (\A k \in 0 .. 0 : k = 0) /\ (\A k \in 1 .. 0 : FALSE)
  OBVIOUS
<1>13. \A k \in 0 .. 0 :
         /\ Queued(new[k].list, new[k].made)
         /\ new[k].made <= made /\ NoneBack(new[k].list, new[k].made, queue)
         /\ \A j \in 0 .. k : Before(new[j], new[k])
  BY <1>7, <1>9, <1>11, <1>12 DEF Before
<1>14. Follows(new)'
  BY <1>1, <1>9, <1>11, <1>12, <1>13 DEF Follows
<1>15. AgentInv(new[0])'
  <2>1. cache' \in Seq(Nat) /\ List' = <<>> /\ ToSet(<<>>) = {}
    BY <1>1 DEF List, NoList, ToSet
  <2>2. \A x \in Due(is)' : x \in Due(was)
    BY <1>9, <2>1 DEF Due
  <2>3. Known(snapshot.map, snapshot.shown, was.made, Due(was))
    BY <1>2, <1>6 DEF AgentInv
  <2>4. Known(snapshot.map, snapshot.shown, is.made, Due(is))'
    BY <1>1, <1>9, <2>2, <2>3 DEF Known, Active
  <2>5. Known(snapshot.map, shown, is.made, Due(is))'
    BY <1>1, <2>4
  <2>6. <<>> \in Seq(1 .. is.made) /\ stage' # "live"
    BY <1>1
  <2>7. AgentInv(is)'
    BY <1>1, <2>1, <2>4, <2>5, <2>6 DEF AgentInv
  <2> QED BY <1>11, <2>7
<1> QED BY <1>3, <1>4, <1>5, <1>14, <1>15 DEF FeedInv

\* What a map keeps of the items that matter stays known.
LEMMA StillKnown ==
  ASSUME NEW m, NEW n, NEW S, ShownInv(S), NEW top \in Nat, NEW next2 \in Nat,
         NEW due, NEW due2, Known(m, S, top, due), top <= next2,
         \A x \in due2 : x <= top => x \in due,
         \A x \in due2 : x \in Active(m) => x \in Active(n) /\ n.refs[x] = m.refs[x]
  PROVE  Known(n, S, next2, due2)
<1> SUFFICES ASSUME NEW s \in S
             PROVE  /\ s[1] <= next2
                    /\ s[3] /\ s[1] \in due2 =>
                         s[1] \in Active(n) /\ n.refs[s[1]] = s[2]
  BY DEF Known
<1>1. s[1] <= top /\ s[1] \in Nat
  BY DEF Known, ShownInv
<1>2. s[1] <= next2
  BY <1>1
<1>3. ASSUME s[3], s[1] \in due2
      PROVE  s[1] \in Active(n) /\ n.refs[s[1]] = s[2]
  <2>1. s[1] \in due
    BY <1>1, <1>3
  <2>2. s[1] \in Active(m) /\ m.refs[s[1]] = s[2]
    BY <1>3, <2>1 DEF Known
  <2> QED BY <1>3, <2>2
<1> QED BY <1>2, <1>3

\* When an event is handled, the ones behind it remain.
LEMMA Shifted ==
  ASSUME NEW past, Follows(past), CoreInv, channel # <<>>, channel' = Tail(channel),
         UNCHANGED core, past[1].fed => cache' = past[1].list
  PROVE  /\ channel' \in Seq(Event)
         /\ \E new : Follows(new)' /\ new[0] = past[1]
<1> USE DEF core
<1> DEFINE n == Len(channel)
<1>1. channel \in Seq(Event) /\ n \in Nat /\ n # 0
  BY DEF CoreInv
<1>2. /\ channel' \in Seq(Event) /\ Len(channel') = n - 1
      /\ \A k \in 1 .. n - 1 : channel'[k] = channel[k + 1]
  BY <1>1
<1>3. PICK new : new = [k \in 0 .. n - 1 |-> past[k + 1]]
  OBVIOUS
<1>4. \A k \in 0 .. n - 1 : k + 1 \in 0 .. n /\ new[k] = past[k + 1]
  BY <1>1, <1>3
<1>5. new \in [0 .. n - 1 -> Moment]
  BY <1>3, <1>4 DEF Follows
<1>6. new[0] = past[1] /\ new[n - 1] = past[n]
  <2>1. 0 \in 0 .. n - 1 /\ n - 1 \in 0 .. n - 1 /\ n - 1 + 1 = n /\ 0 + 1 = 1
    BY <1>1
  <2> QED BY <1>4, <2>1
<1>7. \A k \in 0 .. n - 1 :
        /\ Queued(new[k].list, new[k].made)
        /\ new[k].made <= made /\ NoneBack(new[k].list, new[k].made, queue)
        /\ \A j \in 0 .. k : Before(new[j], new[k])
  <2> TAKE k \in 0 .. n - 1
  <2>1. \A j \in 0 .. k : j \in 0 .. n - 1 /\ j + 1 \in 0 .. k + 1
    BY <1>1
  <2> QED BY <1>4, <2>1 DEF Follows
<1>8. \A k \in 1 .. n - 1 : Leads(new[k - 1], channel'[k], new[k])
  <2> TAKE k \in 1 .. n - 1
  <2>1. k \in 0 .. n - 1 /\ k - 1 \in 0 .. n - 1 /\ k - 1 + 1 = k
        /\ k + 1 \in 1 .. n /\ k + 1 - 1 = k
    BY <1>1
  <2>2. Leads(past[k + 1 - 1], channel[k + 1], past[k + 1])
    BY <2>1 DEF Follows
  <2> QED BY <1>2, <1>4, <2>1, <2>2
<1>9. streaming => new[n - 1].fed /\ new[n - 1].list = queue
  BY <1>6 DEF Follows
<1> HIDE DEF n
<1>10. Follows(new)'
  BY <1>2, <1>5, <1>6, <1>7, <1>8, <1>9 DEF Follows
<1> QED BY <1>2, <1>6, <1>10

\* Handling an event makes the agent's list and map what the next moment needs.
Handled(was, is) ==
  /\ MapInv(map') /\ RefsFollowQueue'
  /\ is.fed => cache' = is.list
  /\ cache' \in Seq(Nat) /\ ToSet(List') \subseteq 1 .. is.made
  /\ \A x \in Due(is)' : x <= was.made => x \in Due(was)
  /\ \/ /\ shown' = shown
        /\ \A x \in Due(is)' : x \in Active(map) => x \in Active(map)'
                                                   /\ map'.refs[x] = map.refs[x]
     \/ shown' = Voided(shown)

\* Of what is voided nothing is known any more, whatever the map and the list.
LEMMA VoidedIs ==
  ASSUME NEW S, ShownInv(S)
  PROVE  /\ ShownInv(Voided(S))
         /\ \A m, top, due, n, due2 : Known(m, S, top, due) => Known(n, Voided(S), top, due2)
<1> DEFINE void == [s \in S |-> <<s[1], 0, FALSE>>]
<1>1. IsFiniteSet(S) /\ S \subseteq Nat \X Nat \X BOOLEAN
  BY DEF ShownInv
<1>2. void \in Surjection(S, Voided(S))
  BY DEF Surjection, Voided
<1>3. IsFiniteSet(Voided(S))
  <2> HIDE DEF void
  <2> QED BY <1>1, <1>2, FS_Surjection
<1>4. \A v \in Voided(S) : \E s \in S : v = <<s[1], 0, FALSE>>
  BY DEF Voided
<1>5. \A v \in Voided(S) : /\ v \in Nat \X Nat \X BOOLEAN
                            /\ v[3] = FALSE /\ \E s \in S : v[1] = s[1]
  <2> TAKE v \in Voided(S)
  <2>1. PICK s \in S : v = <<s[1], 0, FALSE>>
    BY <1>4
  <2>2. PICK x \in Nat : x = s[1]
    BY <1>1
  <2>3. v = <<x, 0, FALSE>>
    BY <2>1, <2>2
  <2>4. v \in Nat \X Nat \X BOOLEAN /\ v[1] = x /\ v[3] = FALSE
    BY <2>3
  <2> QED BY <2>2, <2>4
<1>6. ASSUME NEW m, NEW top, NEW due, NEW n, NEW due2, Known(m, S, top, due)
      PROVE  Known(n, Voided(S), top, due2)
  BY <1>5, <1>6 DEF Known
<1> QED BY <1>3, <1>5, <1>6 DEF ShownInv

\* Once the event is handled, the past is remembered from the next moment on.
LEMMA DeliverFeed ==
  ASSUME FeedInv, Deliver, NEW past, Follows(past), AgentInv(past[0]),
         Handled(past[0], past[1])
  PROVE  FeedInv'
<1>1. /\ channel # <<>> /\ channel' = Tail(channel)
      /\ UNCHANGED <<core, stage, read, snapshot>>
  BY DEF Deliver
<1>2. CoreInv /\ StoreInv
  BY DEF FeedInv
<1>3. PICK was, is : was = past[0] /\ is = past[1]
  OBVIOUS
<1>4. was \in Moment /\ is \in Moment /\ Before(was, is)
  <2>1. 0 \in 0 .. Len(channel) /\ 1 \in 0 .. Len(channel) /\ 0 \in 0 .. 1
    BY <1>1, <1>2 DEF CoreInv
  <2> QED BY <1>3, <2>1 DEF Follows
<1>5. Handled(was, is) /\ AgentInv(was)
  BY <1>3
<1>6. /\ channel' \in Seq(Event)
      /\ \E new : Follows(new)' /\ new[0] = is
  BY <1>1, <1>2, <1>3, <1>5, Shifted DEF Handled
<1>7. CoreInv'
  BY <1>1, <1>2, <1>6 DEF CoreInv, core
<1>8. StoreInv'
  <2>1. ShownInv(shown')
    BY <1>2, <1>5, VoidedIs DEF StoreInv, Handled
  <2> QED BY <1>1, <1>2, <1>5, <2>1 DEF StoreInv, Handled, MapInv, ShownInv, Active
<1>9. AgentInv(is)'
  <2>1. was.made \in Nat /\ is.made \in Nat /\ was.made <= is.made
    BY <1>4 DEF Moment, Before
  <2>2. read' \in Seq(1 .. is.made) /\ (read' # <<>> => stage' = "live")
    <3>1. read \in Seq(1 .. was.made) /\ (read # <<>> => stage = "live")
      BY <1>5 DEF AgentInv
    <3>2. \A i \in 1 .. Len(read) : read[i] \in 1 .. is.made
      BY <2>1, <3>1
    <3>3. read \in Seq(1 .. is.made)
      <4> DEFINE T == 1 .. is.made
      <4>1. read \in Seq(1 .. was.made) /\ \A i \in 1 .. Len(read) : read[i] \in T
        BY <3>1, <3>2
      <4> HIDE DEF T
      <4>2. read \in Seq(T)
        BY <4>1
      <4> QED BY <4>2 DEF T
    <3> QED BY <1>1, <3>1, <3>3
  <2>3. ASSUME NEW m, NEW n, NEW S, ShownInv(S), Known(m, S, was.made, Due(was)),
               \A x \in Due(is)' : x \in Active(m) =>
                 x \in Active(n) /\ n.refs[x] = m.refs[x]
        PROVE  Known(n, S, is.made, Due(is)')
    <3>1. \A x \in Due(is)' : x <= was.made => x \in Due(was)
      BY <1>5 DEF Handled
    <3> QED BY <2>1, <2>3, <3>1, StillKnown
  <2>4. PICK d : d = Due(is)'
    OBVIOUS
  <2>5. Known(snapshot.map, snapshot.shown, was.made, Due(was))
    BY <1>5 DEF AgentInv
  <2>6. Known(snapshot.map, snapshot.shown, is.made, Due(is)')
    BY <1>2, <2>3, <2>5 DEF StoreInv
  <2>7. Known(snapshot.map, snapshot.shown, is.made, Due(is))'
    BY <1>1, <2>6 DEF Known, Active
  <2>8. PICK old, n : /\ old = (IF stage = "live" THEN map ELSE snapshot.map)
                      /\ n = (IF stage = "live" THEN map' ELSE snapshot.map)
    OBVIOUS
  <2>9. Known(old, shown, was.made, Due(was)) /\ ShownInv(shown)
    BY <1>2, <1>5, <2>8 DEF AgentInv, StoreInv
  <2>10. Known(n, shown', is.made, Due(is)')
    <3>1. CASE /\ shown' = shown
               /\ \A x \in Due(is)' : x \in Active(map) =>
                    x \in Active(map)' /\ map'.refs[x] = map.refs[x]
      <4>1. \A x \in Due(is)' : x \in Active(old) => x \in Active(n) /\ n.refs[x] = old.refs[x]
        BY <2>8, <3>1 DEF Active
      <4>2. Known(n, shown, is.made, Due(is)')
        BY <2>3, <2>9, <4>1
      <4> QED BY <3>1, <4>2
    <3>2. CASE shown' = Voided(shown)
      <4>2. Known(n, Voided(shown), was.made, Due(is)')
        BY <2>9, VoidedIs
      <4>3. \A s \in Voided(shown) : s[1] \in Nat
        BY <2>9, VoidedIs DEF ShownInv
      <4>4. Known(n, Voided(shown), is.made, Due(is)')
        BY <2>1, <4>2, <4>3 DEF Known
      <4> QED BY <3>2, <4>4
    <3> QED BY <1>5, <3>1, <3>2 DEF Handled
  <2>11. Known(IF stage = "live" THEN map ELSE snapshot.map, shown, is.made, Due(is))'
    BY <1>1, <2>8, <2>10 DEF Known, Active
  <2>12. cache' \in Seq(Nat) /\ ToSet(List') \subseteq 1 .. is.made
    BY <1>5 DEF Handled
  <2> QED BY <2>2, <2>7, <2>11, <2>12 DEF AgentInv
<1>10. RefsFollowQueue'
  BY <1>5 DEF Handled
<1> QED BY <1>6, <1>7, <1>8, <1>9, <1>10 DEF FeedInv

\* The event at hand, between the moments before and after it.
Arrives(was, e, is) ==
  /\ e \in Event /\ Leads(was, e, is) /\ Before(was, is)
  /\ Queued(was.list, was.made) /\ was.list \in Seq(Nat) /\ was.made \in Nat
  /\ Queued(is.list, is.made) /\ is.list \in Seq(Nat) /\ is.made \in Nat
  /\ ToSet(is.list) \subseteq 1 .. is.made
  /\ was.fed => cache = was.list /\ List = was.list
  /\ cache \in Seq(Nat) /\ ToSet(List) \subseteq 1 .. was.made

\* A queue of made items is not the mark of an absent one.
LEMMA QueuedIs ==
  ASSUME NEW n \in Nat, NEW s, Queued(s, n)
  PROVE  s # NoList /\ ToSet(s) \subseteq 1 .. n
<1>1. s \in Seq(1 .. n) /\ DOMAIN s = 1 .. Len(s) /\ \A i \in 1 .. Len(s) : s[i] \in 1 .. n
  BY DEF Queued
<1>2. ASSUME s = NoList PROVE FALSE
  <2>1. 1 \in 1 .. Len(s) /\ s[1] = 0
    BY <1>2 DEF NoList
  <2> QED BY <1>1, <2>1
<1> QED BY <1>1, <1>2 DEF ToSet

\* The event handled next reports what became of the list the agent has.
LEMMA ArrivesIs ==
  ASSUME FeedInv, channel # <<>>, NEW past, Follows(past), AgentInv(past[0])
  PROVE  Arrives(past[0], Head(channel), past[1])
<1>1. PICK was, is, e : was = past[0] /\ is = past[1] /\ e = Head(channel)
  OBVIOUS
<1>2. channel \in Seq(Event) /\ Len(channel) \in Nat /\ Len(channel) # 0
  BY DEF FeedInv, CoreInv
<1>3. e = channel[1] /\ e \in Event
  BY <1>1, <1>2
<1>4. 0 \in 0 .. Len(channel) /\ 1 \in 0 .. Len(channel) /\ 0 \in 0 .. 1
      /\ 1 \in 1 .. Len(channel) /\ 1 - 1 = 0
  BY <1>2
<1>5. /\ was \in Moment /\ is \in Moment /\ Before(was, is)
      /\ Queued(was.list, was.made) /\ Queued(is.list, is.made)
      /\ (was.fed => cache = was.list)
  BY <1>1, <1>4 DEF Follows
<1>6. Leads(was, e, is)
  <2>1. Leads(past[1 - 1], channel[1], past[1])
    BY <1>4 DEF Follows
  <2> QED BY <1>1, <1>3, <1>4, <2>1
<1>7. /\ was.list \in Seq(Nat) /\ was.made \in Nat
      /\ is.list \in Seq(Nat) /\ is.made \in Nat
  BY <1>5 DEF Moment
<1>8. was.list # NoList
  BY <1>5, <1>7, QueuedIs
<1>9. was.fed => List = was.list
  BY <1>5, <1>8 DEF List
<1>10. cache \in Seq(Nat) /\ ToSet(List) \subseteq 1 .. was.made
  BY <1>1 DEF AgentInv
<1>11. ToSet(is.list) \subseteq 1 .. is.made
  BY <1>5, <1>7, QueuedIs
<1> QED BY <1>1, <1>3, <1>5, <1>6, <1>7, <1>9, <1>10, <1>11 DEF Arrives

\* A list the same as the Core's names only what is queued there.
LEMMA DueIs ==
  ASSUME NEW was, NEW e, NEW is, Arrives(was, e, is), cache' = is.list
  PROVE  /\ \A x \in Due(is)' : x \in ToSet(is.list)
         /\ \A x \in Due(is)' : x <= was.made => x \in Due(was)
         /\ cache' \in Seq(Nat) /\ ToSet(List') \subseteq 1 .. is.made
<1>1. \A x \in ToSet(List') : x \in ToSet(is.list)
  BY DEF List, ToSet
<1>2. \A x \in Due(is)' : x \in ToSet(is.list)
  BY <1>1 DEF Due
<1>3. \A x \in ToSet(is.list) : x <= was.made => x \in ToSet(was.list)
  BY DEF Arrives, Before, NoneBack
<1> QED BY <1>1, <1>2, <1>3 DEF Arrives, Due

\* Handling a full list reconciles the references with it.
LEMMA FullHandled ==
  ASSUME StoreInv, NEW was, NEW e, NEW is, Arrives(was, e, is), e.kind = "full",
         OnFullList(e)
  PROVE  Handled(was, is)
<1>1. e.items = is.list /\ is.list \in Seq(Nat)
  BY DEF Arrives, Leads
<1>2. cache' = is.list /\ map' = Reconcile(OrEmpty(map), is.list, Fresh)
  BY <1>1 DEF OnFullList
<1>3. PICK m, n : m = OrEmpty(map) /\ n = map'
  OBVIOUS
<1>4. MapInv(m) /\ Active(m) = Active(map)
      /\ \A q \in Active(map) : m.refs[q] = map.refs[q]
  BY <1>3, OrEmptyIs DEF StoreInv
<1>5. Fresh \in Nat /\ \A q \in Active(m) : m.refs[q] <= Fresh
  BY <1>4, FreshIs
<1>6. MapInv(n) /\ Active(n) = ToSet(is.list) /\ Keeps(m, n, ToSet(is.list))
  BY <1>1, <1>2, <1>3, <1>4, <1>5, ReconcileIs
<1>7. /\ \A x \in Due(is)' : x \in ToSet(is.list)
      /\ \A x \in Due(is)' : x <= was.made => x \in Due(was)
      /\ cache' \in Seq(Nat) /\ ToSet(List') \subseteq 1 .. is.made
  BY <1>2, DueIs
<1>8. MapInv(map') /\ Active(map)' = Active(n) /\ map'.refs = n.refs
  BY <1>3, <1>6 DEF Active
<1>9. RefsFollowQueue'
  BY <1>2, <1>6, <1>8 DEF RefsFollowQueue
<1>10. \A x \in Due(is)' : x \in Active(map) =>
         x \in Active(map)' /\ map'.refs[x] = map.refs[x]
  BY <1>4, <1>6, <1>7, <1>8 DEF Keeps
<1> QED BY <1>2, <1>7, <1>8, <1>9, <1>10 DEF Handled, OnFullList

\* Handling an insertion mints references for the inserted alone.
LEMMA InsertHandled ==
  ASSUME StoreInv, RefsFollowQueue, stage' = stage,
         NEW was, NEW e, NEW is, Arrives(was, e, is), e.kind = "insert", OnInsert(e)
  PROVE  Handled(was, is)
<1>1. /\ was.fed /\ e.items = <<is.made>> /\ e.at \in 0 .. Len(was.list)
      /\ is.list = SubSeq(was.list, 1, e.at) \o e.items
                     \o SubSeq(was.list, e.at + 1, Len(was.list))
      /\ cache = was.list /\ List = was.list
      /\ was.list \in Seq(Nat) /\ is.made \in Nat
  BY DEF Arrives, Leads
<1>2. cache' = is.list /\ map' = MintAll(OrEmpty(map), e.items, Fresh)
  BY <1>1 DEF OnInsert
<1>3. PICK m, n : m = OrEmpty(map) /\ n = map'
  OBVIOUS
<1>4. MapInv(m) /\ Active(m) = Active(map)
      /\ \A q \in Active(map) : m.refs[q] = map.refs[q]
  BY <1>3, OrEmptyIs DEF StoreInv
<1>5. Fresh \in Nat /\ \A q \in Active(m) : m.refs[q] <= Fresh
  BY <1>4, FreshIs
<1>6. e.items \in Seq(Nat) /\ ToSet(e.items) = {is.made}
  BY <1>1, OneHeld, SMTT(30)
<1>7. MapInv(n) /\ Active(n) = Active(m) \cup {is.made} /\ Keeps(m, n, Active(m))
  BY <1>2, <1>3, <1>4, <1>5, <1>6, MintIs
<1>8. \A x : x \in ToSet(is.list) <=> x \in ToSet(was.list) \/ x = is.made
  <2>1. PICK s, t, at, x : s = was.list /\ t = is.list /\ at = e.at /\ x = is.made
    OBVIOUS
  <2>2. /\ s \in Seq(Nat) /\ at \in 0 .. Len(s) /\ x \in Nat
        /\ t = SubSeq(s, 1, at) \o <<x>> \o SubSeq(s, at + 1, Len(s))
    BY <1>1, <2>1
  <2>3. \A y : y \in ToSet(t) <=> y \in ToSet(s) \/ y = x
    BY <2>2, WithItemIs
  <2> QED BY <2>1, <2>3
<1>9. /\ \A x \in Due(is)' : x <= was.made => x \in Due(was)
      /\ cache' \in Seq(Nat) /\ ToSet(List') \subseteq 1 .. is.made
  BY <1>2, DueIs
<1>10. MapInv(map') /\ Active(map)' = Active(n) /\ map'.refs = n.refs
  BY <1>3, <1>7 DEF Active
<1>11. RefsFollowQueue'
  <2> SUFFICES ASSUME intact', stage' = "live", cache' # NoList
               PROVE  Active(map)' = ToSet(cache')
    BY <1>10 DEF RefsFollowQueue, Active
  <2>1. intact /\ stage = "live"
    BY DEF OnInsert
  <2>2. cache # NoList
    BY <1>1, QueuedIs DEF Arrives
  <2>3. Active(map) = ToSet(was.list)
    BY <1>1, <2>1, <2>2 DEF RefsFollowQueue
  <2> QED BY <1>2, <1>4, <1>7, <1>8, <1>10, <2>3
<1>12. \A x \in Due(is)' : x \in Active(map) =>
         x \in Active(map)' /\ map'.refs[x] = map.refs[x]
  BY <1>4, <1>7, <1>10 DEF Keeps
<1> QED BY <1>2, <1>9, <1>10, <1>11, <1>12 DEF Handled, OnInsert

\* Handling a removal retires the references of the removed alone.
LEMMA RemoveHandled ==
  ASSUME StoreInv, RefsFollowQueue, stage' = stage,
         NEW was, NEW e, NEW is, Arrives(was, e, is), e.kind = "remove", OnRemove(e)
  PROVE  Handled(was, is)
<1> DEFINE c == SubSeq(was.list, e.at + 1, e.at + e.n)
<1>1. /\ was.fed /\ e.at \in Nat /\ e.n \in Nat /\ e.at + e.n <= Len(was.list)
      /\ is.list = Without(was.list, e.at, e.n)
      /\ cache = was.list /\ List = was.list
      /\ was.list \in Seq(Nat) /\ IsInjective(was.list)
  BY DEF Arrives, Leads, Queued
<1>2. cache' = is.list /\ map' = InvalidateAll(OrEmpty(map), c)
  BY <1>1 DEF OnRemove
<1>3. PICK m, n : m = OrEmpty(map) /\ n = map'
  OBVIOUS
<1>4. MapInv(m) /\ Active(m) = Active(map)
      /\ \A q \in Active(map) : m.refs[q] = map.refs[q]
  BY <1>3, OrEmptyIs DEF StoreInv
<1>5. /\ c \in Seq(Nat)
      /\ \A x : x \in ToSet(was.list) <=> x \in ToSet(is.list) \/ x \in ToSet(c)
      /\ \A x \in ToSet(is.list) : x \notin ToSet(c)
  <2>1. PICK s, at, n2 : s = was.list /\ at = e.at /\ n2 = e.n
    OBVIOUS
  <2>2. s \in Seq(Nat) /\ at \in Nat /\ n2 \in Nat /\ at + n2 <= Len(s) /\ IsInjective(s)
    BY <1>1, <2>1
  <2>3. LET w == Without(s, at, n2)
            d == SubSeq(s, at + 1, at + n2)
        IN /\ d \in Seq(Nat)
           /\ \A x : x \in ToSet(s) <=> x \in ToSet(w) \/ x \in ToSet(d)
           /\ \A x \in ToSet(w) : x \notin ToSet(d)
    BY <2>2, WithoutIs
  <2> QED BY <1>1, <2>1, <2>3
<1> HIDE DEF c
<1>6. MapInv(n) /\ Active(n) = Active(m) \ ToSet(c) /\ Keeps(m, n, Active(n))
  BY <1>2, <1>3, <1>4, <1>5, InvalidateIs
<1>7. /\ \A x \in Due(is)' : x \in ToSet(is.list)
      /\ \A x \in Due(is)' : x <= was.made => x \in Due(was)
      /\ cache' \in Seq(Nat) /\ ToSet(List') \subseteq 1 .. is.made
  BY <1>2, DueIs
<1>8. MapInv(map') /\ Active(map)' = Active(n) /\ map'.refs = n.refs
  BY <1>3, <1>6 DEF Active
<1>9. RefsFollowQueue'
  <2> SUFFICES ASSUME intact', stage' = "live", cache' # NoList
               PROVE  Active(map)' = ToSet(cache')
    BY <1>8 DEF RefsFollowQueue, Active
  <2>1. intact /\ stage = "live"
    BY DEF OnRemove
  <2>2. cache # NoList
    BY <1>1, QueuedIs DEF Arrives
  <2>3. Active(map) = ToSet(was.list)
    BY <1>1, <2>1, <2>2 DEF RefsFollowQueue
  <2> QED BY <1>2, <1>4, <1>5, <1>6, <1>8, <2>3
<1>10. \A x \in Due(is)' : x \in Active(map) =>
         x \in Active(map)' /\ map'.refs[x] = map.refs[x]
  BY <1>4, <1>5, <1>6, <1>7, <1>8 DEF Keeps
<1> QED BY <1>2, <1>7, <1>8, <1>9, <1>10 DEF Handled, OnRemove

\* Handling a zone's going or return keeps the references with the list.
LEMMA ZonesHandled ==
  ASSUME StoreInv, RefsFollowQueue, stage' = stage,
         NEW was, NEW e, NEW is, Arrives(was, e, is),
         \/ e.kind = "zones_added" /\ OnZonesAdded
         \/ e.kind = "zones_removed" /\ OnZonesRemoved
  PROVE  Handled(was, is)
<1>1. ~is.fed
  BY DEF Arrives, Leads
<1>2. CASE e.kind = "zones_added" /\ OnZonesAdded
  <2>1. UNCHANGED <<map, cache, intact, shown>>
    BY <1>2 DEF OnZonesAdded
  <2>2. MapInv(map') /\ RefsFollowQueue' /\ Active(map)' = Active(map)
    BY <2>1 DEF StoreInv, RefsFollowQueue, MapInv, Active
  <2>3. List' = List
    BY <2>1 DEF List
  <2>4. /\ ToSet(List) \subseteq 1 .. was.made /\ was.made <= is.made
        /\ was.made \in Nat /\ is.made \in Nat /\ cache \in Seq(Nat)
    BY DEF Arrives, Before
  <2>5. ToSet(List') \subseteq 1 .. is.made
    BY <2>3, <2>4
  <2>6. \A x \in ToSet(is.list) : x <= was.made => x \in ToSet(was.list)
    BY DEF Arrives, Before, NoneBack
  <2>7. \A x \in Due(is)' : x <= was.made => x \in Due(was)
    BY <2>3, <2>6 DEF Due
  <2> QED BY <1>1, <2>1, <2>2, <2>4, <2>5, <2>7 DEF Handled
<1>3. CASE e.kind = "zones_removed" /\ OnZonesRemoved
  <2>1. cache' = NoList /\ map' = NoMap /\ shown' = Voided(shown)
    BY <1>3 DEF OnZonesRemoved
  <2>2. MapInv(NoMap)
    BY EmptyIs
  <2>3. MapInv(map') /\ RefsFollowQueue' /\ cache' \in Seq(Nat)
    BY <2>1, <2>2 DEF RefsFollowQueue, NoList
  <2>4. List' = <<>> /\ ToSet(<<>>) = {}
    BY <2>1 DEF List, ToSet
  <2>5. ToSet(List') = {} /\ Due(is)' = ToSet(is.list)
    BY <2>4 DEF Due
  <2>6. \A x \in Due(is)' : x <= was.made => x \in Due(was)
    BY <2>5 DEF Arrives, Before, NoneBack, Due
  <2> QED BY <1>1, <2>1, <2>3, <2>5, <2>6 DEF Handled
<1> QED BY <1>2, <1>3

\* Whichever event is handled, the references follow the queue.
LEMMA DeliversFeed == FeedInv /\ Deliver => FeedInv'
<1> SUFFICES ASSUME FeedInv, Deliver PROVE FeedInv'
  OBVIOUS
<1>1. PICK past : Follows(past) /\ AgentInv(past[0])
  BY DEF FeedInv
<1>2. PICK was, e, is : was = past[0] /\ e = Head(channel) /\ is = past[1]
  OBVIOUS
<1>3. StoreInv /\ RefsFollowQueue /\ stage' = stage /\ channel # <<>>
  BY DEF FeedInv, Deliver
<1>4. Arrives(was, e, is)
  BY <1>1, <1>2, <1>3, ArrivesIs
<1>5. \/ e.kind = "full" /\ OnFullList(e)
      \/ e.kind = "insert" /\ OnInsert(e)
      \/ e.kind = "remove" /\ OnRemove(e)
      \/ e.kind = "zones_added" /\ OnZonesAdded
      \/ e.kind = "zones_removed" /\ OnZonesRemoved
  <2>1. e.kind \in {"full", "insert", "remove", "zones_added", "zones_removed"}
    BY <1>4 DEF Arrives, Leads
  <2> QED BY <1>2, <2>1 DEF Deliver
<1>6. Handled(was, is)
  BY <1>3, <1>4, <1>5, FullHandled, InsertHandled, RemoveHandled, ZonesHandled
<1> QED BY <1>1, <1>2, <1>6, DeliverFeed

\* The agent's other threads leave the Core and what it sends alone.
LEMMA AgentAside ==
  ASSUME FeedInv, UNCHANGED <<core, channel, cache>>, StoreInv', RefsFollowQueue',
         \A was : was.made \in Nat /\ AgentInv(was) => AgentInv(was)'
  PROVE  FeedInv'
<1> USE DEF core
<1>1. CoreInv'
  BY DEF FeedInv, CoreInv
<1>2. PICK past : Follows(past) /\ AgentInv(past[0])
  BY DEF FeedInv
<1>3. Follows(past)'
  BY <1>2 DEF Follows
<1>4. past[0].made \in Nat
  <2>1. 0 \in 0 .. Len(channel)
    BY DEF FeedInv, CoreInv
  <2> QED BY <1>2, <2>1 DEF Follows, Moment
<1>5. PICK was : was = past[0]
  OBVIOUS
<1>6. AgentInv(was)'
  BY <1>2, <1>4, <1>5
<1> QED BY <1>1, <1>3, <1>5, <1>6 DEF FeedInv

\* Starting, restoring a snapshot, committing one and clearing keep the references.
LEMMA LifeFeed == FeedInv /\ (Start \/ Restore \/ Commit \/ Clear) => FeedInv'
<1> USE DEF core
<1>1. ASSUME FeedInv, Start PROVE FeedInv'
  <2>1. /\ UNCHANGED <<core, channel, cache, map, read, shown, snapshot, intact>>
        /\ stage = "down" /\ stage' = "connecting"
    BY <1>1 DEF Start
  <2>2. StoreInv' /\ RefsFollowQueue'
    BY <1>1, <2>1 DEF FeedInv, StoreInv, MapInv, ShownInv, Active, RefsFollowQueue
  <2>3. \A was : AgentInv(was) => AgentInv(was)'
    BY <2>1 DEF AgentInv, Known, Due, List, Active
  <2> QED BY <1>1, <2>1, <2>2, <2>3, AgentAside
<1>2. ASSUME FeedInv, Restore PROVE FeedInv'
  <2>1. /\ UNCHANGED <<core, channel, cache, read, shown, snapshot>>
        /\ stage = "connecting" /\ stage' = "live"
        /\ map' = IF snapshot.map = NoMap THEN map ELSE snapshot.map
        /\ intact' = (cache = NoList)
    BY <1>2 DEF Restore, line
  <2>2. RefsFollowQueue'
    BY <2>1 DEF RefsFollowQueue
  <2>3. StoreInv'
    BY <1>2, <2>1 DEF FeedInv, StoreInv, MapInv, ShownInv, Active
  <2>4. ASSUME NEW was, AgentInv(was) PROVE AgentInv(was)'
    <3>1. Known(snapshot.map, shown, was.made, Due(was))
      BY <2>1, <2>4 DEF AgentInv
    <3>2. PICK n : n = map'
      OBVIOUS
    <3>3. Known(n, shown, was.made, Due(was))
      <4>1. CASE snapshot.map = NoMap
        <5>1. Active(snapshot.map) = {}
          BY <4>1, EmptyIs
        <5> QED BY <3>1, <5>1 DEF Known
      <4>2. CASE snapshot.map # NoMap
        BY <2>1, <3>1, <3>2, <4>2
      <4> QED BY <4>1, <4>2
    <3>4. Known(map, shown, was.made, Due(was))'
      BY <2>1, <3>2, <3>3 DEF Known, Active, Due, List
    <3>5. Known(snapshot.map, snapshot.shown, was.made, Due(was))'
      BY <2>1, <2>4 DEF AgentInv, Known, Active, Due, List
    <3> QED BY <2>1, <2>4, <3>4, <3>5 DEF AgentInv, List
  <2> QED BY <1>2, <2>1, <2>2, <2>3, <2>4, AgentAside
<1>3. ASSUME FeedInv, Commit PROVE FeedInv'
  <2>1. /\ UNCHANGED <<core, channel, cache, map, read, shown, stage, intact>>
        /\ stage = "live" /\ snapshot' = [map |-> map, shown |-> shown]
    BY <1>3 DEF Commit, line
  <2>2. snapshot'.map = map /\ snapshot'.shown = shown
    BY <2>1
  <2>3. StoreInv' /\ RefsFollowQueue'
    BY <1>3, <2>1, <2>2
       DEF FeedInv, StoreInv, MapInv, ShownInv, Active, RefsFollowQueue
  <2>4. ASSUME NEW was, AgentInv(was) PROVE AgentInv(was)'
    <3>1. Known(map, shown, was.made, Due(was))
      BY <2>1, <2>4 DEF AgentInv
    <3>2. Known(map, shown, was.made, Due(was))'
      BY <2>1, <3>1 DEF Known, Active, Due, List
    <3>3. Known(snapshot.map, snapshot.shown, was.made, Due(was))'
      BY <2>1, <2>2, <3>1 DEF Known, Active, Due, List
    <3> QED BY <2>1, <2>4, <3>2, <3>3 DEF AgentInv, List
  <2> QED BY <1>3, <2>1, <2>3, <2>4, AgentAside
<1>4. ASSUME FeedInv, Clear PROVE FeedInv'
  <2>1. /\ UNCHANGED <<core, channel, cache, read, stage>>
        /\ stage = "live" /\ snapshot' = [map |-> NoMap, shown |-> {}]
        /\ map' = NoMap /\ shown' \in {{}, Voided(shown)} /\ ~intact'
    BY <1>4 DEF Clear, line
  <2>2. snapshot'.map = NoMap /\ snapshot'.shown = {}
    BY <2>1
  <2>3. MapInv(NoMap) /\ IsFiniteSet({})
    BY EmptyIs, FS_EmptySet
  <2>4. StoreInv' /\ RefsFollowQueue'
    <3>1. ShownInv(shown) /\ ShownInv({})
      BY <1>4, <2>3 DEF FeedInv, StoreInv, ShownInv
    <3>2. ShownInv(shown')
      BY <2>1, <3>1, VoidedIs
    <3> QED BY <2>1, <2>2, <2>3, <3>1, <3>2 DEF StoreInv, ShownInv, RefsFollowQueue
  <2>5. ASSUME NEW was, AgentInv(was) PROVE AgentInv(was)'
    <3>1. Known(map, shown, was.made, Due(was))'
      <4>1. Known(map, shown, was.made, Due(was)) /\ ShownInv(shown)
        BY <1>4, <2>1, <2>5 DEF AgentInv, FeedInv, StoreInv
      <4>2. \A n, due : Known(n, Voided(shown), was.made, due)
        BY <4>1, VoidedIs
      <4>3. \A n, due : Known(n, {}, was.made, due)
        BY DEF Known
      <4>4. \A n, due : Known(n, shown', was.made, due)
        BY <2>1, <4>2, <4>3
      <4>5. Known(map', shown', was.made, Due(was)')
        BY <4>4
      <4> QED BY <4>5 DEF Known, Active
    <3>2. Known(snapshot.map, snapshot.shown, was.made, Due(was))'
      BY <2>2 DEF Known
    <3> QED BY <2>1, <2>5, <3>1, <3>2 DEF AgentInv, List
  <2> QED BY <1>4, <2>1, <2>4, <2>5, AgentAside
<1> QED BY <1>1, <1>2, <1>3, <1>4

\* Reading the queue and showing it tell references the map still holds.
LEMMA StatusFeed == FeedInv /\ (ReadQueue \/ ShowQueue) => FeedInv'
<1> USE DEF core
<1>1. ASSUME FeedInv, ReadQueue PROVE FeedInv'
  <2>1. /\ UNCHANGED <<core, channel, cache, map, shown, stage, snapshot, intact>>
        /\ stage = "live" /\ read' = List
    BY <1>1 DEF ReadQueue, line
  <2>2. StoreInv' /\ RefsFollowQueue'
    BY <1>1, <2>1 DEF FeedInv, StoreInv, MapInv, ShownInv, Active, RefsFollowQueue
  <2>3. ASSUME NEW was, was.made \in Nat, AgentInv(was) PROVE AgentInv(was)'
    <3> DEFINE T == 1 .. was.made
    <3>1. List \in Seq(Nat) /\ ToSet(List) \subseteq T
      BY <2>3 DEF AgentInv, List
    <3>2. \A i \in 1 .. Len(List) : List[i] \in T
      BY <3>1 DEF ToSet
    <3> HIDE DEF T
    <3>3. List \in Seq(T)
      BY <3>1, <3>2
    <3>4. /\ Known(map, shown, was.made, Due(was))'
          /\ Known(snapshot.map, snapshot.shown, was.made, Due(was))'
      BY <2>1, <2>3 DEF AgentInv, Known, Active, Due, List
    <3> QED BY <2>1, <2>3, <3>3, <3>4 DEF AgentInv, List, T
  <2> QED BY <1>1, <2>1, <2>2, <2>3, AgentAside
<1>2. ASSUME FeedInv, ShowQueue PROVE FeedInv'
  <2> DEFINE told == [n \in DOMAIN read |->
               IF read[n] \in Active(map) THEN <<read[n], map.refs[read[n]], TRUE>>
               ELSE <<read[n], 0, FALSE>>]
             more == {told[n] : n \in DOMAIN read}
  <2>1. /\ UNCHANGED <<core, channel, cache, map, stage, snapshot, intact>>
        /\ read # <<>> /\ read' = <<>> /\ shown' = shown \cup more
    BY <1>2 DEF ShowQueue, line
  <2>2. PICK past : Follows(past) /\ AgentInv(past[0])
    BY <1>2 DEF FeedInv
  <2>3. stage = "live"
    BY <2>1, <2>2 DEF AgentInv
  <2>4. StoreInv /\ MapInv(map) /\ Fresh \in Nat
    BY <1>2, FreshIs DEF FeedInv, StoreInv
  <2>5. /\ \A q \in Active(map) : map.refs[q] \in Nat
    BY <2>4 DEF MapInv
  <2>6. read \in Seq(Nat)
    <3>1. 0 \in 0 .. Len(channel)
      BY <1>2 DEF FeedInv, CoreInv
    <3>2. past[0].made \in Nat
      BY <2>2, <3>1 DEF Follows, Moment
    <3>3. read \in Seq(1 .. past[0].made)
      BY <2>2 DEF AgentInv
    <3>4. \A i \in 1 .. Len(read) : read[i] \in Nat
      BY <3>2, <3>3
    <3> QED BY <3>3, <3>4
  <2>7. more \subseteq Nat \X Nat \X BOOLEAN
    <3>1. \A n \in DOMAIN read : n \in Nat /\ read[n] \in Nat
      BY <2>6
    <3>2. \A n \in DOMAIN read : told[n] \in Nat \X Nat \X BOOLEAN
      <4> TAKE n \in DOMAIN read
      <4>1. \E a, b \in Nat, c \in BOOLEAN : told[n] = <<a, b, c>>
        <5>1. CASE read[n] \in Active(map)
          <6>1. map.refs[read[n]] \in Nat /\ told[n] = <<read[n], map.refs[read[n]], TRUE>>
            BY <2>5, <5>1
          <6> HIDE DEF told
          <6> QED BY <3>1, <6>1
        <5>2. CASE read[n] \notin Active(map)
          <6>1. told[n] = <<read[n], 0, FALSE>>
            BY <5>2
          <6> HIDE DEF told
          <6> QED BY <3>1, <6>1
        <5> QED BY <5>1, <5>2
      <4> HIDE DEF told
      <4> QED BY <4>1
    <3> HIDE DEF told
    <3> QED BY <3>2
  <2>8. IsFiniteSet(more)
    <3>1. DOMAIN read = 1 .. Len(read) /\ Len(read) \in Nat
      BY <2>6
    <3>2. IsFiniteSet(DOMAIN read)
      BY <3>1, FS_Interval
    <3>3. told \in Surjection(DOMAIN read, more)
      BY DEF Surjection
    <3> HIDE DEF told, more
    <3> QED BY <3>2, <3>3, FS_Surjection
  <2>9. ShownInv(shown')
    <3>1. ShownInv(shown)
      BY <2>4 DEF StoreInv
    <3> HIDE DEF more
    <3> QED BY <2>1, <2>7, <2>8, <3>1, FS_Union DEF ShownInv
  <2>10. StoreInv' /\ RefsFollowQueue'
    <3> HIDE DEF more
    <3> QED BY <1>2, <2>1, <2>4, <2>9
            DEF FeedInv, StoreInv, MapInv, ShownInv, Active, RefsFollowQueue
  <2>11. ASSUME NEW was, was.made \in Nat, AgentInv(was) PROVE AgentInv(was)'
    <3>1. read \in Seq(1 .. was.made)
      BY <2>11 DEF AgentInv
    <3>2. \A n \in DOMAIN read : read[n] <= was.made
      BY <2>11, <3>1
    <3>3. Known(map, more, was.made, Due(was))
      <4>1. ASSUME NEW n \in DOMAIN read
            PROVE  /\ told[n][1] <= was.made
                   /\ told[n][3] => told[n][1] \in Active(map)
                                      /\ map.refs[told[n][1]] = told[n][2]
        BY <3>2
      <4> HIDE DEF told
      <4> QED BY <4>1 DEF Known
    <3> HIDE DEF more
    <3>4. Known(map, shown, was.made, Due(was))
      BY <2>3, <2>11 DEF AgentInv
    <3>5. Known(map, shown, was.made, Due(was))'
      BY <2>1, <3>3, <3>4 DEF Known, Active, Due, List
    <3>6. Known(snapshot.map, snapshot.shown, was.made, Due(was))'
      BY <2>1, <2>11 DEF AgentInv, Known, Active, Due, List
    <3> QED BY <2>1, <2>3, <2>11, <3>5, <3>6 DEF AgentInv, List
  <2> HIDE DEF more
  <2> QED BY <1>2, <2>1, <2>10, <2>11, AgentAside
<1> QED BY <1>1, <1>2

\* No step of the feed breaks the invariant.
LEMMA FeedStep == FeedInv /\ [FeedNext]_feed => FeedInv'
<1>1. ASSUME FeedInv, UNCHANGED feed PROVE FeedInv'
  <2>1. UNCHANGED <<queue, made, present, streaming, channel, stage, cache, map, read,
                    shown, snapshot, intact>>
    BY <1>1 DEF feed, core, line, agent
  <2>2. StoreInv' /\ RefsFollowQueue'
    BY <1>1, <2>1 DEF FeedInv, StoreInv, MapInv, ShownInv, Active, RefsFollowQueue
  <2>3. \A was : AgentInv(was) => AgentInv(was)'
    BY <2>1 DEF AgentInv, Known, Due, List, Active
  <2> QED BY <1>1, <2>1, <2>2, <2>3, AgentAside DEF core
<1>2. ASSUME FeedInv, FeedNext PROVE FeedInv'
  BY <1>2, ReplacedFeed, InsertedFeed, RemovedFeed, ZoneFeed, ReconnectsFeed, CrashFeed,
     DeliversFeed, LifeFeed, StatusFeed DEF FeedNext
<1> QED BY <1>1, <1>2

\* The feed of a queue keeps its invariant: the agent's list is the Core's as
\* of the last event handled, and the references shown for it are still the
\* map's, whatever is on its way.
THEOREM FeedHolds == FeedSpec => []FeedInv
BY InitFeed, FeedStep, PTL DEF FeedSpec

\* RefsFollowQueue always holds: while no restore went astray, the references in
\* force are those of exactly the items the agent lists (queue_cache and
\* reference_map move together under every event).
THEOREM RefsFollow == FeedSpec => []RefsFollowQueue
<1>1. FeedInv => RefsFollowQueue
  BY DEF FeedInv
<1> QED BY <1>1, FeedHolds, PTL

\* ShownRefsResolve always holds: a reference shown from the map for an item
\* resolves to that item, and to no other, for as long as the item is listed and
\* neither a clear nor the zone's going drops the map, over every insertion,
\* removal, reconnection and restart.
THEOREM ShownResolve == FeedSpec => []ShownRefsResolve
<1>1. FeedInv => ShownRefsResolve
  <2> SUFFICES ASSUME FeedInv, stage = "live", NEW s \in shown, s[3],
                      s[1] \in ToSet(List)
               PROVE  Resolved(map, s[2]) = {s[1]}
    BY DEF ShownRefsResolve, Honoured
  <2>1. PICK past : AgentInv(past[0])
    BY DEF FeedInv
  <2>2. s[1] \in Active(map) /\ map.refs[s[1]] = s[2]
    BY <2>1 DEF AgentInv, Known, Due
  <2>3. \A p, q \in Active(map) : map.refs[p] = map.refs[q] => p = q
    BY DEF FeedInv, StoreInv, MapInv, IsInjective, Active
  <2> QED BY <2>2, <2>3 DEF Resolved
<1> QED BY <1>1, FeedHolds, PTL
=============================================================================
