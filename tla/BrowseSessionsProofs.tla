------------------------ MODULE BrowseSessionsProofs ------------------------
(***************************************************************************)
(* Proofs about BrowseSessions, for any threads, searches, pool and tree:   *)
(* two operations under way never work on one session of the Core, and what *)
(* an operation opens is what its reference stands for, unless its session  *)
(* is suspect.                                                              *)
(*                                                                          *)
(* A drill is safe either because acquire reserved the session it works on, *)
(* or because the session was recycled for it: then no other reference to   *)
(* that session has a key, and a drill of one would recover elsewhere.      *)
(*                                                                          *)
(* It opens the right item because a key was found in the results of the    *)
(* search the session's cursor is still in, and the depth tracked for the   *)
(* session is the cursor's, so that its reset leads to their root.          *)
(***************************************************************************)
EXTENDS BrowseSessions, SequenceTheorems, TLAPS

\* What BrowseSessions names as breaking the property: two drills of one
\* reference, an action beside drills, and a pool that comes round.
Ordinary == {"same", "overlap", "recycle"} \cap Allowed = {}

\* References: a sequence of records with, at least, a session and a key.
Values(rs) == {rs[r] : r \in DOMAIN rs}
Bound(rs) ==
  /\ rs \in Seq(Values(rs))
  /\ \A r \in DOMAIN rs : {"key", "sess"} \subseteq DOMAIN rs[r] /\ rs[r].sess \in Session

ShapeInv ==
  /\ counter \in Nat
  /\ Bound(refs)
  /\ saved # None => saved.counter \in Nat /\ Bound(saved.refs)
  /\ op \in [Thread -> [stage : Stages, ref : Nat, act : BOOLEAN, granted : Session]]

Busy(t) == op[t].stage # "idle"
OnSession == {"reset", "walk", "resolved", "drilled"}
Works(t) == op[t].stage \in OnSession \cup {"relocate"}

\* The session of an operation: of its reference, once it has been moved.
Cursor(t) == IF op[t].stage = "relocate" THEN op[t].granted ELSE refs[op[t].ref].sess

\* An action is alone, and drills are of different references and reserve
\* different sessions.
OpInv ==
  /\ \A t \in Thread : ~Busy(t) => op[t] = Idle
  /\ \A t \in Thread : Busy(t) => op[t].ref \in DOMAIN refs
  /\ \A t \in Thread : Busy(t) /\ ~op[t].act => op[t].granted \in inUse
  /\ \A t, u \in Thread : op[t].act /\ t # u => op[u] = Idle
  /\ \A t, u \in Thread :
       Busy(t) /\ Busy(u) /\ t # u => /\ op[t].ref # op[u].ref
                                      /\ op[t].granted # op[u].granted

CursorInv ==
  \A t, u \in Thread : Works(t) /\ Works(u) /\ t # u => Cursor(t) # Cursor(u)

\* A drill that went to a session it did not reserve is the only one with a key
\* there.
AloneThere(t) ==
  op[t].stage \in OnSession /\ refs[op[t].ref].sess # op[t].granted
  => \A r \in DOMAIN refs :
       r # op[t].ref /\ refs[r].sess = refs[op[t].ref].sess => refs[r].key = None
BorrowInv == \A t \in Thread : AloneThere(t)

IInv == ShapeInv /\ OpInv /\ CursorInv /\ BorrowInv

-----------------------------------------------------------------------------
(* Lemmas on the references.                                                *)

\* The next slot of the rotation is a session, and never the recovery one.
LEMMA SlotIsSession == counter \in Nat => Slot \in Session /\ Slot # Recovery
BY SessionsAssumption DEF Slot, Session, Recovery

\* The references are numbered from 1.
LEMMA BoundShape ==
  ASSUME NEW rs, Bound(rs)
  PROVE  Len(rs) \in Nat /\ DOMAIN rs = 1 .. Len(rs)
BY DEF Bound

\* A function on the same indices is a sequence of its values.
LEMMA SameIndices ==
  ASSUME NEW rs, Bound(rs), NEW rt,
         rt = [r \in DOMAIN rs |-> rt[r]],
         \A r \in DOMAIN rs : {"key", "sess"} \subseteq DOMAIN rt[r] /\ rt[r].sess \in Session
  PROVE  Bound(rt)
<1>1. Len(rs) \in Nat /\ DOMAIN rt = 1 .. Len(rs) /\ DOMAIN rs = 1 .. Len(rs)
  BY BoundShape
<1>2. rt \in [1 .. Len(rs) -> Values(rt)]
  BY <1>1 DEF Values
<1>3. rt \in Seq(Values(rt))
  BY <1>1, <1>2
<1> QED BY <1>1, <1>3 DEF Bound

\* Recycling a session takes the keys of its references, and nothing else.
LEMMA RecycledKeeps ==
  ASSUME Bound(refs), NEW s
  PROVE  /\ Bound(Recycled(s)) /\ DOMAIN Recycled(s) = DOMAIN refs
         /\ \A r \in DOMAIN refs :
              /\ Recycled(s)[r].sess = refs[r].sess
              /\ refs[r].sess = s => Recycled(s)[r].key = None
              /\ refs[r].sess # s => Recycled(s)[r] = refs[r]
<1> DEFINE rt == Recycled(s)
<1>1. DOMAIN rt = DOMAIN refs /\ rt = [r \in DOMAIN refs |-> rt[r]]
  BY DEF Recycled
<1>2. \A r \in DOMAIN refs :
        /\ rt[r].sess = refs[r].sess /\ {"key", "sess"} \subseteq DOMAIN rt[r]
        /\ refs[r].sess = s => rt[r].key = None
        /\ refs[r].sess # s => rt[r] = refs[r]
  BY DEF Recycled, Bound
<1>3. \A r \in DOMAIN refs : refs[r].sess \in Session
  BY DEF Bound
<1> HIDE DEF rt
<1>4. Bound(rt)
  BY <1>1, <1>2, <1>3, SameIndices
<1> QED BY <1>1, <1>2, <1>4 DEF rt

\* Minting adds at most one reference, of the session it was listed on.
LEMMA MintAdds ==
  ASSUME NEW rs, Bound(rs), NEW s \in Session, NEW item, NEW path
  PROVE  LET rt == Mint(rs, s, item, path) IN
         /\ Bound(rt) /\ DOMAIN rs \subseteq DOMAIN rt
         /\ \A r \in DOMAIN rs : rt[r] = rs[r]
         /\ \A r \in DOMAIN rt \ DOMAIN rs : rt[r].sess = s
<1> DEFINE e == [item |-> item, key |-> item, sess |-> s, path |-> path, means |-> {item}]
           rt == Append(rs, e)
           all == Values(rs) \cup {e}
<1>1. e.sess = s /\ {"key", "sess"} \subseteq DOMAIN e
  OBVIOUS
<1>2. rs \in Seq(all) /\ e \in all
  <2>1. rs \in Seq(Values(rs))
    BY DEF Bound
  <2>2. Values(rs) \subseteq all
    OBVIOUS
  <2> HIDE DEF all
  <2>3. rs \in Seq(all)
    BY <2>1, <2>2
  <2> QED BY <2>3 DEF all
<1> HIDE DEF e, all
<1>3. /\ Len(rs) \in Nat /\ DOMAIN rs = 1 .. Len(rs) /\ DOMAIN rt = 1 .. Len(rs) + 1
      /\ rt[Len(rs) + 1] = e /\ \A r \in DOMAIN rs : rt[r] = rs[r]
      /\ rt \in Seq(all)
  BY <1>2, BoundShape
<1>4. Mint(rs, s, item, path) \in {rs, rt}
  BY DEF Mint, e
<1> HIDE DEF rt
<1>5. rt \in Seq(Values(rt))
  <2>1. Len(rt) = Len(rs) + 1 /\ rt \in [1 .. Len(rs) + 1 -> all]
    BY <1>3
  <2>2. rt \in [1 .. Len(rs) + 1 -> Values(rt)]
    BY <2>1 DEF Values
  <2> QED BY <1>3, <2>2
<1>6. \A r \in DOMAIN rt : r \in DOMAIN rs \/ r = Len(rs) + 1
  BY <1>3
<1>7. Bound(rt)
  <2> SUFFICES ASSUME NEW r \in DOMAIN rt
               PROVE  {"key", "sess"} \subseteq DOMAIN rt[r] /\ rt[r].sess \in Session
    BY <1>5 DEF Bound
  <2>1. CASE r \in DOMAIN rs
    BY <1>3, <2>1 DEF Bound
  <2>2. CASE r = Len(rs) + 1
    BY <1>1, <1>3, <2>2
  <2> QED BY <1>6, <2>1, <2>2
<1>8. DOMAIN rs \subseteq DOMAIN rt /\ \A r \in DOMAIN rt \ DOMAIN rs : rt[r].sess = s
  BY <1>1, <1>3, <1>6
<1> QED BY <1>3, <1>4, <1>7, <1>8

\* An assignment to fields of one reference.
LEMMA OneChanges ==
  ASSUME NEW rs, Bound(rs), NEW x \in DOMAIN rs, NEW e,
         {"key", "sess"} \subseteq DOMAIN e, e.sess \in Session
  PROVE  LET rt == [rs EXCEPT ![x] = e] IN
         /\ Bound(rt) /\ DOMAIN rt = DOMAIN rs /\ rt[x] = e
         /\ \A r \in DOMAIN rs \ {x} : rt[r] = rs[r]
<1> DEFINE rt == [rs EXCEPT ![x] = e]
<1>1. /\ DOMAIN rt = DOMAIN rs /\ rt[x] = e /\ rt = [r \in DOMAIN rs |-> rt[r]]
      /\ \A r \in DOMAIN rs \ {x} : rt[r] = rs[r]
  OBVIOUS
<1>2. \A r \in DOMAIN rs : {"key", "sess"} \subseteq DOMAIN rt[r] /\ rt[r].sess \in Session
  BY <1>1 DEF Bound
<1> HIDE DEF rt
<1>3. Bound(rt)
  BY <1>1, <1>2, SameIndices
<1> QED BY <1>1, <1>3 DEF rt

\* Binding a reference to a session.
LEMMA BindMoves ==
  ASSUME NEW rs, Bound(rs), NEW x \in DOMAIN rs, NEW s \in Session, NEW item, NEW path
  PROVE  LET rt == [rs EXCEPT ![x].key = item, ![x].sess = s, ![x].path = path] IN
         /\ Bound(rt) /\ DOMAIN rt = DOMAIN rs /\ rt[x].sess = s
         /\ \A r \in DOMAIN rs \ {x} : rt[r] = rs[r]
<1> DEFINE e == [rs[x] EXCEPT !.key = item, !.sess = s, !.path = path]
           rt == [rs EXCEPT ![x].key = item, ![x].sess = s, ![x].path = path]
<1>1. {"key", "sess"} \subseteq DOMAIN e /\ e.sess = s
  BY DEF Bound
<1>2. rt = [rs EXCEPT ![x] = e]
  OBVIOUS
<1>3. e.sess \in Session
  BY <1>1
<1> HIDE DEF e
<1>4. /\ Bound(rt) /\ DOMAIN rt = DOMAIN rs /\ rt[x] = e
      /\ \A r \in DOMAIN rs \ {x} : rt[r] = rs[r]
  <2> DEFINE changed == [rs EXCEPT ![x] = e]
  <2>1. /\ Bound(changed) /\ DOMAIN changed = DOMAIN rs /\ changed[x] = e
        /\ \A r \in DOMAIN rs \ {x} : changed[r] = rs[r]
    BY <1>1, <1>3, OneChanges
  <2>2. rt = changed
    BY <1>2
  <2> HIDE DEF changed, rt
  <2> QED BY <2>1, <2>2
<1> HIDE DEF rt
<1> QED BY <1>1, <1>4 DEF rt

-----------------------------------------------------------------------------
(* What the steps do to the sessions in use.                                *)

\* Without recycling, a slot that is leased is no operation's.
LEMMA SlotFree ==
  ASSUME Ordinary, CanLease
  PROVE  \A t \in Thread : Busy(t) => op[t].granted # Slot /\ refs[op[t].ref].sess # Slot
BY DEF Ordinary, CanLease, Used, UsedBy, Busy

\* With every operation over, there is nothing to say.
LEMMA AllOver ==
  ASSUME \A t \in Thread : op'[t] = Idle
  PROVE  OpInv' /\ CursorInv' /\ BorrowInv'
<1>1. \A t \in Thread : op'[t].stage = "idle" /\ ~op'[t].act
  BY DEF Idle
<1> QED BY <1>1 DEF OpInv, CursorInv, BorrowInv, AloneThere, Busy, Works, OnSession

\* A step of one operation on its own session: it goes on, falls back or ends,
\* and no key but its own reference's is touched on sessions of others.
LEMMA Steady ==
  ASSUME IInv, NEW t \in Thread, Busy(t), NEW o,
         op' = [op EXCEPT ![t] = o],
         \/ o = Idle /\ inUse \ {op[t].granted} \subseteq inUse'
         \/ /\ inUse' = inUse
            /\ \E st \in OnSession \cup {"recover"} : o = [op[t] EXCEPT !.stage = st]
            /\ o.stage \in OnSession => op[t].stage \in OnSession,
         Bound(refs'), DOMAIN refs \subseteq DOMAIN refs',
         \A r \in DOMAIN refs :
           /\ refs'[r].sess = refs[r].sess
           /\ \/ refs'[r].key = refs[r].key
              \/ r = op[t].ref /\ op[t].stage \in OnSession,
         \A r \in DOMAIN refs' \ DOMAIN refs :
           /\ o = Idle /\ op[t].stage \in OnSession
           /\ refs'[r].sess = refs[op[t].ref].sess,
         counter' = counter, saved' = saved
  PROVE  IInv'
<1> USE DEF Busy
<1>1. op \in [Thread -> [stage : Stages, ref : Nat, act : BOOLEAN, granted : Session]]
  BY DEF IInv, ShapeInv
<1>2. /\ o.stage = "idle" => o = Idle
      /\ o.stage # "idle" => /\ inUse' = inUse /\ o.ref = op[t].ref
                             /\ o.act = op[t].act /\ o.granted = op[t].granted
                             /\ o.stage \in OnSession \cup {"recover"}
                             /\ o.stage \in OnSession => op[t].stage \in OnSession
  BY <1>1 DEF Idle, OnSession
<1>3. o \in [stage : Stages, ref : Nat, act : BOOLEAN, granted : Session]
  <2>1. Idle \in [stage : Stages, ref : Nat, act : BOOLEAN, granted : Session]
    BY SessionsAssumption DEF Idle, Stages, Session
  <2>2. ASSUME NEW st \in OnSession \cup {"recover"}
        PROVE  [op[t] EXCEPT !.stage = st]
                 \in [stage : Stages, ref : Nat, act : BOOLEAN, granted : Session]
    BY <1>1 DEF OnSession, Stages
  <2> QED BY <2>1, <2>2
<1>4. op'[t] = o /\ \A u \in Thread \ {t} : op'[u] = op[u]
  BY <1>1
<1>5. o.act => op[t].act
  <2>1. ~Idle.act
    BY DEF Idle
  <2>2. o.stage = "idle" => ~o.act
    BY <1>2, <2>1, Zenon
  <2>3. o.stage # "idle" => o.act = op[t].act
    BY <1>2, Zenon
  <2> QED BY <2>2, <2>3, Zenon
<1>6. ShapeInv'
  BY <1>1, <1>3 DEF IInv, ShapeInv
<1>7. OpInv'
  <2> USE DEF IInv, OpInv
  <2>1. \A u \in Thread : (~Busy(u) => op[u] = Idle)'
    BY <1>2, <1>4
  <2>2. \A u \in Thread : (Busy(u) => op[u].ref \in DOMAIN refs)'
    BY <1>2, <1>4
  <2>3. \A u \in Thread : (Busy(u) /\ ~op[u].act => op[u].granted \in inUse)'
    <3> SUFFICES ASSUME NEW u \in Thread, Busy(u)', ~op'[u].act PROVE op'[u].granted \in inUse'
      OBVIOUS
    <3>1. CASE u = t
      BY <1>2, <1>4, <3>1
    <3>2. CASE u # t
      <4>1. Busy(u) /\ ~op[u].act /\ op'[u].granted = op[u].granted
        BY <1>4, <3>2, Zenon
      <4>2. op[u].granted \in inUse
        BY <4>1
      <4>3. op[u].granted # op[t].granted
        BY <3>2, <4>1
      <4> QED BY <4>1, <4>2, <4>3
    <3> QED BY <3>1, <3>2
  <2>4. \A u, v \in Thread : (op[u].act /\ u # v => op[v] = Idle)'
    <3> SUFFICES ASSUME NEW u \in Thread, NEW v \in Thread, op'[u].act, u # v
                 PROVE  op'[v] = Idle
      OBVIOUS
    <3>1. op[u].act
      <4>1. CASE u = t
        <5>1. op'[u].act = o.act /\ op[u].act = op[t].act
          BY <1>4, <4>1
        <5> QED BY <1>5, <5>1, Zenon
      <4>2. CASE u # t
        BY <1>4, <4>2
      <4> QED BY <4>1, <4>2
    <3>2. op[v] = Idle
      BY <3>1
    <3>3. v = t => o = Idle
      BY <1>2, <3>2 DEF Idle
    <3> QED BY <1>4, <3>2, <3>3
  <2>5. \A u, v \in Thread :
          (Busy(u) /\ Busy(v) /\ u # v => /\ op[u].ref # op[v].ref
                                          /\ op[u].granted # op[v].granted)'
    BY <1>2, <1>4
  <2> QED BY <2>1, <2>2, <2>3, <2>4, <2>5
<1>8. ASSUME NEW u \in Thread, Works(u)' PROVE Works(u) /\ Cursor(u)' = Cursor(u)
  BY <1>2, <1>4, <1>8 DEF Works, Cursor, IInv, OpInv, OnSession, Idle
<1>9. CursorInv'
  BY <1>8 DEF CursorInv, IInv
<1>10. BorrowInv'
  <2> SUFFICES ASSUME NEW u \in Thread, op'[u].stage \in OnSession,
                      refs'[op'[u].ref].sess # op'[u].granted,
                      NEW r \in DOMAIN refs', r # op'[u].ref,
                      refs'[r].sess = refs'[op'[u].ref].sess
               PROVE  refs'[r].key = None
    BY DEF BorrowInv, AloneThere
  <2>1. op[u].stage \in OnSession /\ op'[u].ref = op[u].ref /\ op'[u].granted = op[u].granted
    BY <1>2, <1>4 DEF OnSession, Idle
  <2>2. op[u].ref \in DOMAIN refs
    BY <2>1 DEF IInv, OpInv, OnSession
  <2>3. u # t /\ op[t].stage \in OnSession => refs[op[t].ref].sess # refs[op[u].ref].sess
    BY <2>1 DEF IInv, CursorInv, Works, Cursor, OnSession
  <2>4. r \in DOMAIN refs
    BY <1>4, <2>1, <2>2, <2>3 DEF OnSession, Idle
  <2>5. refs[r].sess = refs[op[u].ref].sess /\ refs[op[u].ref].sess # op[u].granted /\ r # op[u].ref
    BY <2>1, <2>2, <2>4
  <2>6. refs[r].key = None
    BY <2>1, <2>4, <2>5 DEF IInv, BorrowInv, AloneThere
  <2>7. refs'[r].key = refs[r].key
    BY <2>3, <2>4, <2>5
  <2> QED BY <2>6, <2>7
<1> QED BY <1>6, <1>7, <1>9, <1>10 DEF IInv

-----------------------------------------------------------------------------
(* The actions.                                                             *)

\* An operation under way is about a reference there is.
LEMMA BusyRef ==
  ASSUME IInv, NEW t \in Thread, Busy(t)
  PROVE  op[t].ref \in DOMAIN refs
BY DEF IInv, OpInv

\* A step within the operation that leaves the references be.
LEMMA GoesOn ==
  ASSUME IInv, NEW t \in Thread, NEW st \in OnSession \cup {"recover"},
         op[t].stage \in OnSession, Goes(t, st),
         UNCHANGED <<inUse, counter, refs, saved>>
  PROVE  IInv'
<1> DEFINE o == [op[t] EXCEPT !.stage = st]
<1>1. op' = [op EXCEPT ![t] = o]
  BY DEF Goes
<1>2. Busy(t) /\ Bound(refs)
  BY DEF Busy, OnSession, IInv, ShapeInv
<1>3. \E s \in OnSession \cup {"recover"} : o = [op[t] EXCEPT !.stage = s]
  OBVIOUS
<1> HIDE DEF o
<1> QED BY <1>1, <1>2, <1>3, Steady

\* The end of an operation that leaves the references be.
LEMMA Ends ==
  ASSUME IInv, NEW t \in Thread, Busy(t), Release(t), UNCHANGED <<counter, refs, saved>>
  PROVE  IInv'
<1>1. op' = [op EXCEPT ![t] = Idle] /\ inUse \ {op[t].granted} \subseteq inUse'
  BY DEF Release
<1>2. Bound(refs)
  BY DEF IInv, ShapeInv
<1> QED BY <1>1, <1>2, Steady

\* Walking to a recorded position keeps the operations apart.
LEMMA WalkKeeps ==
  ASSUME IInv, NEW t \in Thread, Walk(t)
  PROVE  IInv'
<1> DEFINE r == op[t].ref
           s == refs[r].sess
           path == refs[r].path
           parents == IF path = <<>> THEN <<>> ELSE Front(path)
           there == Walked(core[s], parents)
           fresh == Child(there, Last(path))
<1>1. op[t].stage = "walk" /\ UNCHANGED <<inUse, counter, saved>>
  BY DEF Walk, At, disk
<1>2. \/ Goes(t, "resolved") /\ refs' \in {refs, [refs EXCEPT ![r].key = fresh]}
      \/ Goes(t, "recover") /\ refs' = refs
  BY DEF Walk
<1> HIDE DEF fresh, r
<1>3. CASE refs' = refs
  BY <1>1, <1>2, <1>3, GoesOn DEF OnSession
<1>4. CASE refs' = [refs EXCEPT ![r].key = fresh] /\ Goes(t, "resolved")
  <2> DEFINE e == [refs[r] EXCEPT !.key = fresh]
             o == [op[t] EXCEPT !.stage = "resolved"]
             rt == [refs EXCEPT ![r] = e]
  <2>1. Busy(t) /\ Bound(refs) /\ r \in DOMAIN refs
    BY <1>1, BusyRef DEF Busy, IInv, ShapeInv, r
  <2>2. {"key", "sess"} \subseteq DOMAIN e /\ e.sess = refs[r].sess /\ e.sess \in Session
    BY <2>1 DEF Bound
  <2>3. refs' = rt
    BY <1>4
  <2> HIDE DEF e
  <2>4. /\ Bound(rt) /\ DOMAIN rt = DOMAIN refs /\ rt[r] = e
        /\ \A x \in DOMAIN refs \ {r} : rt[x] = refs[x]
    BY <2>1, <2>2, OneChanges
  <2> HIDE DEF rt
  <2>5. op' = [op EXCEPT ![t] = o] /\ op[t].stage \in OnSession
    BY <1>1, <1>4 DEF Goes, OnSession
  <2>6. \E st \in OnSession \cup {"recover"} : o = [op[t] EXCEPT !.stage = st]
    BY DEF OnSession
  <2> HIDE DEF o
  <2>7. \A x \in DOMAIN refs : /\ refs'[x].sess = refs[x].sess
                              /\ \/ refs'[x].key = refs[x].key
                                 \/ x = op[t].ref /\ op[t].stage \in OnSession
    BY <2>2, <2>3, <2>4, <2>5 DEF r
  <2>8. Bound(refs') /\ DOMAIN refs' = DOMAIN refs
    BY <2>3, <2>4
  <2> QED BY <1>1, <2>1, <2>5, <2>6, <2>7, <2>8, Steady
<1> QED BY <1>2, <1>3, <1>4

\* So does the end of a drill, which mints what it found.
LEMMA FinishKeeps ==
  ASSUME IInv, NEW t \in Thread, NEW i \in 1 .. Width, Finish(t, i)
  PROVE  IInv'
<1> DEFINE s == refs[op[t].ref].sess
<1>1. op[t].stage = "drilled" /\ Release(t) /\ UNCHANGED <<counter, saved>>
  BY DEF Finish, At, disk
<1>2. \/ refs' = refs
      \/ \E item, path : refs' = Mint(refs, s, item, path)
  BY DEF Finish
<1>3. Busy(t) /\ op[t].stage \in OnSession /\ Bound(refs) /\ s \in Session
  BY <1>1, BusyRef DEF Busy, OnSession, IInv, ShapeInv, Bound
<1>4. CASE refs' = refs
  BY <1>1, <1>3, <1>4, Ends
<1>5. ASSUME NEW item, NEW path, refs' = Mint(refs, s, item, path) PROVE IInv'
  <2> HIDE DEF s
  <2>1. /\ Bound(refs') /\ DOMAIN refs \subseteq DOMAIN refs'
        /\ \A r \in DOMAIN refs : refs'[r] = refs[r]
        /\ \A r \in DOMAIN refs' \ DOMAIN refs : refs'[r].sess = s
    BY <1>3, <1>5, MintAdds
  <2>2. op' = [op EXCEPT ![t] = Idle] /\ inUse \ {op[t].granted} \subseteq inUse'
    BY <1>1 DEF Release
  <2> QED BY <1>1, <1>3, <2>1, <2>2, Steady DEF s
<1> QED BY <1>2, <1>4, <1>5

\* The other steps on the operation's own session.
LEMMA OwnStepsKeep ==
  ASSUME IInv, NEW t \in Thread,
         \/ Reset(t) \/ ResetLost(t) \/ Expires(t) \/ Drill(t) \/ DrillTimesOut(t)
         \/ Act(t) \/ ActFails(t)
  PROVE  IInv'
<1>1. CASE Reset(t) \/ ResetLost(t)
  <2>1. op[t].stage = "reset" /\ Goes(t, "walk") /\ UNCHANGED <<inUse, counter, refs, saved>>
    BY <1>1 DEF Reset, ResetLost, At, disk
  <2> QED BY <2>1, GoesOn DEF OnSession
<1>2. ASSUME Drill(t), Goes(t, "drilled"), UNCHANGED inUse PROVE IInv'
  <2>1. op[t].stage = "resolved" /\ UNCHANGED <<counter, refs, saved>>
    BY <1>2 DEF Drill, At, disk
  <2> QED BY <1>2, <2>1, GoesOn DEF OnSession
<1>3. CASE Expires(t) \/ (Drill(t) /\ Release(t)) \/ DrillTimesOut(t) \/ Act(t) \/ ActFails(t)
  <2>1. Busy(t) /\ Release(t) /\ UNCHANGED <<counter, refs, saved>>
    BY <1>3 DEF Expires, Drill, DrillTimesOut, Act, ActFails, At, Busy, disk
  <2> QED BY <2>1, Ends
<1>4. Drill(t) => Release(t) \/ (Goes(t, "drilled") /\ UNCHANGED inUse)
  BY DEF Drill
<1> QED BY <1>1, <1>2, <1>3, <1>4

\* Only references on session s are touched, or come to it.
TouchesOnly(s) ==
  /\ Bound(refs') /\ DOMAIN refs \subseteq DOMAIN refs'
  /\ \A r \in DOMAIN refs :
       \/ refs'[r].sess = s
       \/ refs'[r].sess = refs[r].sess /\ refs'[r].key = refs[r].key
  /\ \A r \in DOMAIN refs' \ DOMAIN refs : refs'[r].sess = s

\* It does not concern an operation on another session.
LEMMA Elsewhere ==
  ASSUME IInv, NEW s, TouchesOnly(s), NEW t \in Thread, op'[t] = op[t], Works(t), Cursor(t) # s,
         refs'[op[t].ref].sess = refs[op[t].ref].sess
  PROVE  Cursor(t)' = Cursor(t) /\ AloneThere(t)'
<1>1. Cursor(t)' = Cursor(t)
  BY DEF Cursor
<1>2. ASSUME op[t].stage \in OnSession, refs[op[t].ref].sess # op[t].granted,
             NEW r \in DOMAIN refs', r # op[t].ref, refs'[r].sess = refs[op[t].ref].sess
      PROVE  refs'[r].key = None
  <2>1. refs'[r].sess # s
    BY <1>2 DEF Cursor, OnSession
  <2>2. r \in DOMAIN refs
    BY <1>2, <2>1 DEF TouchesOnly
  <2>3. refs'[r].sess = refs[r].sess /\ refs'[r].key = refs[r].key
    BY <2>1, <2>2 DEF TouchesOnly
  <2>4. refs[r].key = None
    BY <1>2, <2>2, <2>3 DEF IInv, BorrowInv, AloneThere
  <2> QED BY <2>3, <2>4
<1>3. AloneThere(t)'
  BY <1>2 DEF AloneThere
<1> QED BY <1>1, <1>3

\* Recycling a slot touches references on that slot alone.
LEMMA RecycledTouches ==
  ASSUME Bound(refs), refs' = Recycled(Slot)
  PROVE  TouchesOnly(Slot)
BY RecycledKeeps DEF TouchesOnly

\* A new search, on the next slot, keeps the operations apart.
LEMMA NewSearchKeeps ==
  ASSUME Ordinary, IInv, NEW t \in Thread, NEW q \in Search, NEW i \in 1 .. Width,
         NewSearch(t, q, i)
  PROVE  IInv'
<1>1. /\ CanLease /\ UNCHANGED <<op, inUse, saved>> /\ counter \in Nat /\ counter' \in Nat
      /\ Bound(refs)
  BY DEF NewSearch, disk, IInv, ShapeInv
<1>2. \E item, path : refs' = Mint(Recycled(Slot), Slot, item, path)
  BY DEF NewSearch
<1>3. /\ TouchesOnly(Slot)
      /\ \A r \in DOMAIN refs : refs'[r].sess = refs[r].sess
  <2> PICK item, path : refs' = Mint(Recycled(Slot), Slot, item, path)
    BY <1>2
  <2> DEFINE rt == Recycled(Slot)
  <2>1. /\ Bound(rt) /\ DOMAIN rt = DOMAIN refs
        /\ \A r \in DOMAIN refs : /\ rt[r].sess = refs[r].sess
                                  /\ refs[r].sess # Slot => rt[r] = refs[r]
    BY <1>1, RecycledKeeps
  <2>2. Slot \in Session /\ refs' = Mint(rt, Slot, item, path)
    BY <1>1, SlotIsSession
  <2> HIDE DEF rt
  <2>3. /\ Bound(refs') /\ DOMAIN rt \subseteq DOMAIN refs'
        /\ \A r \in DOMAIN rt : refs'[r] = rt[r]
        /\ \A r \in DOMAIN refs' \ DOMAIN rt : refs'[r].sess = Slot
    BY <2>1, <2>2, MintAdds
  <2> QED BY <2>1, <2>3 DEF TouchesOnly
<1>4. ShapeInv'
  BY <1>1, <1>3 DEF IInv, ShapeInv, TouchesOnly
<1>5. OpInv'
  BY <1>1, <1>3 DEF IInv, OpInv, TouchesOnly, Busy
<1>6. \A u \in Thread : Works(u) => Busy(u) /\ op[u].ref \in DOMAIN refs /\ Cursor(u) # Slot
  BY <1>1, SlotFree, BusyRef DEF Works, Busy, OnSession, Cursor
<1>7. \A u \in Thread : Works(u) => Cursor(u)' = Cursor(u) /\ AloneThere(u)'
  BY <1>1, <1>3, <1>6, Elsewhere
<1>8. CursorInv'
  BY <1>1, <1>7 DEF CursorInv, IInv, Works
<1>9. BorrowInv'
  BY <1>1, <1>7 DEF BorrowInv, AloneThere, Works
<1> QED BY <1>4, <1>5, <1>8, <1>9 DEF IInv

\* An operation that begins, where it may: its reference is no other's, and what
\* is reserved for it nobody else has.
LEMMA Joins ==
  ASSUME IInv, NEW t \in Thread, op[t] = Idle,
         NEW o \in [stage : Stages, ref : Nat, act : BOOLEAN, granted : Session],
         o.stage # "idle", o.ref \in DOMAIN refs, op' = [op EXCEPT ![t] = o],
         DOMAIN refs' = DOMAIN refs, inUse \subseteq inUse',
         ~o.act => o.granted \in inUse',
         \A u \in Thread :
           Busy(u) => op[u].ref # o.ref /\ op[u].granted # o.granted /\ ~op[u].act,
         o.act => \A u \in Thread : op[u] = Idle
  PROVE  /\ op'[t] = o /\ \A u \in Thread \ {t} : op'[u] = op[u]
         /\ op' \in [Thread -> [stage : Stages, ref : Nat, act : BOOLEAN, granted : Session]]
         /\ OpInv'
<1>1. op \in [Thread -> [stage : Stages, ref : Nat, act : BOOLEAN, granted : Session]]
  BY DEF IInv, ShapeInv
<1>5. op'[t] = o /\ \A u \in Thread \ {t} : op'[u] = op[u]
  BY <1>1
<1>6. op' \in [Thread -> [stage : Stages, ref : Nat, act : BOOLEAN, granted : Session]]
  BY <1>1
<1>7. OpInv'
  <2> USE DEF IInv, OpInv, Busy
  <2>1. \A u \in Thread : (~Busy(u) => op[u] = Idle)'
    BY <1>5
  <2>2. \A u \in Thread : (Busy(u) => op[u].ref \in DOMAIN refs)'
    BY <1>5
  <2>3. \A u \in Thread : (Busy(u) /\ ~op[u].act => op[u].granted \in inUse)'
    <3> SUFFICES ASSUME NEW u \in Thread, Busy(u)', ~op'[u].act PROVE op'[u].granted \in inUse'
      OBVIOUS
    <3>1. CASE u = t
      <4>1. op'[u].act = o.act /\ op'[u].granted = o.granted
        BY <1>5, <3>1
      <4>2. ~o.act
        BY <4>1, Zenon
      <4> QED BY <4>1, <4>2
    <3>2. CASE u # t
      <4>1. Busy(u) /\ ~op[u].act /\ op'[u] = op[u]
        BY <1>5, <3>2, Zenon
      <4> QED BY <4>1
    <3> QED BY <3>1, <3>2
  <2>4. \A u, v \in Thread : (op[u].act /\ u # v => op[v] = Idle)'
    <3> SUFFICES ASSUME NEW u \in Thread, NEW v \in Thread, op'[u].act, u # v
                 PROVE  op'[v] = Idle
      OBVIOUS
    <3>1. CASE u = t
      <4>1. op'[u].act = o.act /\ op'[v] = op[v]
        BY <1>5, <3>1
      <4>2. o.act
        BY <4>1, Zenon
      <4> QED BY <4>1, <4>2
    <3>2. CASE u # t
      <4>1. op[u].act
        BY <1>5, <3>2, Zenon
      <4>2. ~Idle.act
        BY DEF Idle
      <4>3. ~Busy(u) => ~op[u].act
        BY <4>2, Zenon
      <4> QED BY <4>1, <4>3
    <3> QED BY <3>1, <3>2
  <2>5. \A u, v \in Thread :
          (Busy(u) /\ Busy(v) /\ u # v => /\ op[u].ref # op[v].ref
                                          /\ op[u].granted # op[v].granted)'
    BY <1>5
  <2> QED BY <2>1, <2>2, <2>3, <2>4, <2>5
<1> QED BY <1>5, <1>6, <1>7

\* So does beginning to act on a reference.
LEMMA BeginActKeeps ==
  ASSUME Ordinary, IInv, NEW t \in Thread, NEW r \in DOMAIN refs, BeginAct(t, r)
  PROVE  IInv'
<1>1. /\ \A u \in Thread : op[u] = Idle
      /\ Begins(t, r, TRUE, Tier(r), refs[r].sess) /\ UNCHANGED <<refs, inUse, counter, saved>>
  BY DEF BeginAct, Ordinary, disk
<1>2. Tier(r) \in {"reset", "recover"} /\ refs[r].sess \in Session /\ Idle.stage = "idle"
  BY DEF Tier, Idle, IInv, ShapeInv, Bound
<1>3. \A u \in Thread : ~Busy(u)
  BY <1>1, <1>2 DEF Busy
<1> DEFINE o == [stage |-> Tier(r), ref |-> r, act |-> TRUE, granted |-> refs[r].sess]
<1>4. /\ op'[t] = o /\ \A u \in Thread \ {t} : op'[u] = op[u]
      /\ op' \in [Thread -> [stage : Stages, ref : Nat, act : BOOLEAN, granted : Session]]
      /\ OpInv'
  <2>1. o \in [stage : Stages, ref : Nat, act : BOOLEAN, granted : Session]
    BY <1>2, BoundShape DEF Stages, IInv, ShapeInv
  <2>2. o.stage # "idle" /\ o.ref = r /\ o.act /\ op' = [op EXCEPT ![t] = o]
    BY <1>1, <1>2 DEF Begins
  <2> HIDE DEF o
  <2> QED BY <1>1, <1>3, <2>1, <2>2, Joins
<1>5. ShapeInv'
  BY <1>1, <1>4 DEF IInv, ShapeInv
<1>6. CursorInv'
  BY <1>3, <1>4 DEF CursorInv, Works, Busy, OnSession
<1>7. BorrowInv'
  BY <1>1, <1>3, <1>4 DEF BorrowInv, AloneThere, Busy, OnSession
<1> QED BY <1>4, <1>5, <1>6, <1>7 DEF IInv

\* So does beginning to drill into one.
LEMMA BeginDrillKeeps ==
  ASSUME Ordinary, IInv, NEW t \in Thread, NEW r \in DOMAIN refs, BeginDrill(t, r)
  PROVE  IInv'
<1>1. /\ op[t] = Idle /\ UNCHANGED saved /\ Bound(refs)
      /\ \A u \in Thread : ~op[u].act /\ op[u].ref # r
  BY DEF BeginDrill, Ordinary, disk, IInv, ShapeInv
<1>2. refs[r].sess \in Session /\ Idle.stage = "idle"
  BY <1>1 DEF Idle, Bound
<1>3. \A u \in Thread : Works(u) => Busy(u) /\ op[u].ref \in DOMAIN refs /\ op[u].granted \in inUse
  BY <1>1 DEF Works, Busy, OnSession, IInv, OpInv
\* On the reference's own session, which nobody reserves.
<1>4. CASE refs[r].sess \notin inUse
  <2> DEFINE s == refs[r].sess
             o == [stage |-> Tier(r), ref |-> r, act |-> FALSE, granted |-> s]
  <2>1. /\ Begins(t, r, FALSE, Tier(r), s) /\ inUse' = inUse \cup {s}
        /\ UNCHANGED <<counter, refs>>
    BY <1>4 DEF BeginDrill
  <2>2. Tier(r) \in {"reset", "recover"} /\ (Tier(r) = "reset" <=> refs[r].key # None)
    BY DEF Tier
  <2>3. \A u \in Thread : Busy(u) => op[u].granted # s
    BY <1>1, <1>4 DEF IInv, OpInv
  <2>4. /\ op'[t] = o /\ \A u \in Thread \ {t} : op'[u] = op[u]
        /\ op' \in [Thread -> [stage : Stages, ref : Nat, act : BOOLEAN, granted : Session]]
        /\ OpInv'
    <3>1. o \in [stage : Stages, ref : Nat, act : BOOLEAN, granted : Session]
      BY <1>1, <1>2, <2>2, BoundShape DEF Stages
    <3>2. /\ o.stage # "idle" /\ o.ref = r /\ ~o.act /\ o.granted = s
          /\ op' = [op EXCEPT ![t] = o]
      BY <2>1, <2>2 DEF Begins
    <3> HIDE DEF o
    <3> QED BY <1>1, <2>1, <2>3, <3>1, <3>2, Joins
  <2>5. ShapeInv'
    BY <1>1, <2>1, <2>4 DEF IInv, ShapeInv
  \* With a key, it is not where another drill has recovered to.
  <2>6. ASSUME NEW u \in Thread, Works(u), refs[r].key # None PROVE Cursor(u) # s
    <3>1. op[u].granted # s
      BY <1>3, <1>4, <2>6
    <3>2. ASSUME op[u].stage # "relocate", refs[op[u].ref].sess = s PROVE FALSE
      <4>1. op[u].stage \in OnSession
        BY <2>6, <3>2 DEF Works
      <4> QED BY <1>1, <2>6, <3>1, <3>2, <4>1 DEF IInv, BorrowInv, AloneThere
    <3> QED BY <3>1, <3>2 DEF Cursor
  <2>7. \A u \in Thread \ {t} :
          (Works(u)' <=> Works(u)) /\ Cursor(u)' = Cursor(u) /\ (AloneThere(u)' <=> AloneThere(u))
    BY <2>1, <2>4 DEF Works, Cursor, AloneThere
  <2>8. Works(t)' => refs[r].key # None /\ Cursor(t)' = s
    BY <2>1, <2>2, <2>4 DEF Works, Cursor, OnSession
  <2>9. AloneThere(t)'
    BY <2>1, <2>4 DEF AloneThere
  <2> HIDE DEF s
  <2>10. CursorInv'
    BY <2>6, <2>7, <2>8 DEF CursorInv, IInv
  <2>11. BorrowInv'
    BY <2>7, <2>9 DEF BorrowInv, IInv
  <2> QED BY <2>4, <2>5, <2>10, <2>11 DEF IInv
\* On a session of its own: the next slot.
<1>5. CASE refs[r].sess \in inUse
  <2> DEFINE o == [stage |-> "relocate", ref |-> r, act |-> FALSE, granted |-> Slot]
  <2>1. /\ CanLease /\ Begins(t, r, FALSE, "relocate", Slot) /\ inUse' = inUse \cup {Slot}
        /\ refs' = Recycled(Slot) /\ counter \in Nat /\ counter' \in Nat
    <3>1. CanLease /\ Begins(t, r, FALSE, "relocate", Slot)
      BY <1>5 DEF BeginDrill
    <3>2. inUse' = inUse \cup {Slot} /\ refs' = Recycled(Slot) /\ counter' = counter + 1
      BY <1>5 DEF BeginDrill
    <3>3. counter \in Nat /\ counter' \in Nat
      BY <3>2 DEF IInv, ShapeInv
    <3> QED BY <3>1, <3>2, <3>3
  <2>2. \A u \in Thread : Busy(u) => op[u].granted # Slot /\ refs[op[u].ref].sess # Slot
    BY <2>1, SlotFree
  <2>3. /\ TouchesOnly(Slot) /\ Bound(refs') /\ DOMAIN refs' = DOMAIN refs
        /\ \A x \in DOMAIN refs : refs'[x].sess = refs[x].sess
    BY <1>1, <2>1, RecycledKeeps, RecycledTouches
  <2>4. Slot \in Session
    BY <2>1, SlotIsSession
  <2>5. /\ op'[t] = o /\ \A u \in Thread \ {t} : op'[u] = op[u]
        /\ op' \in [Thread -> [stage : Stages, ref : Nat, act : BOOLEAN, granted : Session]]
        /\ OpInv'
    <3>1. o \in [stage : Stages, ref : Nat, act : BOOLEAN, granted : Session]
      BY <1>1, <2>4, BoundShape DEF Stages
    <3>2. /\ o.stage # "idle" /\ o.ref = r /\ ~o.act /\ o.granted = Slot
          /\ op' = [op EXCEPT ![t] = o]
      BY <2>1 DEF Begins
    <3> HIDE DEF o
    <3> QED BY <1>1, <2>1, <2>2, <2>3, <3>1, <3>2, Joins
  <2>6. ShapeInv'
    BY <1>1, <2>1, <2>3, <2>5 DEF IInv, ShapeInv
  <2>7. \A u \in Thread \ {t} : Works(u) => Cursor(u) # Slot
    BY <1>3, <2>2 DEF Cursor
  <2>8. \A u \in Thread \ {t} : Works(u) => Cursor(u)' = Cursor(u) /\ AloneThere(u)'
    BY <1>3, <2>3, <2>5, <2>7, Elsewhere
  <2>9. \A u \in Thread \ {t} : Works(u)' <=> Works(u)
    BY <2>5 DEF Works
  <2>10. Cursor(t)' = Slot /\ AloneThere(t)'
    BY <2>5 DEF Cursor, AloneThere, OnSession
  <2>11. CursorInv'
    BY <2>7, <2>8, <2>9, <2>10 DEF CursorInv, IInv
  <2>12. BorrowInv'
    BY <2>8, <2>9, <2>10 DEF BorrowInv, AloneThere, Works
  <2> QED BY <2>5, <2>6, <2>11, <2>12 DEF IInv
<1> QED BY <1>4, <1>5

\* A drill that finds its item again, on the session s: its own already, or a
\* slot of which every other reference has lost its key.
LEMMA Moves ==
  ASSUME IInv, NEW t \in Thread, Busy(t), NEW s \in Session,
         op' = [op EXCEPT ![t].stage = "resolved"],
         TouchesOnly(s), DOMAIN refs' = DOMAIN refs,
         \A r \in DOMAIN refs \ {op[t].ref} : refs'[r].sess = refs[r].sess,
         refs'[op[t].ref].sess = s,
         \A u \in Thread \ {t} : Works(u) => Cursor(u) # s,
         \/ s = op[t].granted
         \/ \A r \in DOMAIN refs \ {op[t].ref} : refs[r].sess = s => refs'[r].key = None,
         counter' \in Nat, UNCHANGED <<inUse, saved>>
  PROVE  IInv'
<1>1. op \in [Thread -> [stage : Stages, ref : Nat, act : BOOLEAN, granted : Session]]
  BY DEF IInv, ShapeInv
<1>2. /\ op'[t].stage = "resolved" /\ op'[t].ref = op[t].ref /\ op'[t].act = op[t].act
      /\ op'[t].granted = op[t].granted /\ \A u \in Thread \ {t} : op'[u] = op[u]
      /\ op' \in [Thread -> [stage : Stages, ref : Nat, act : BOOLEAN, granted : Session]]
  BY <1>1 DEF Stages
<1>3. op[t].ref \in DOMAIN refs /\ Bound(refs')
  BY BusyRef DEF TouchesOnly
<1>4. ShapeInv'
  BY <1>2, <1>3 DEF IInv, ShapeInv
<1>5. OpInv'
  <2> USE DEF IInv, OpInv, Busy
  <2>1. \A u \in Thread : (~Busy(u) => op[u] = Idle)'
    BY <1>2
  <2>2. \A u \in Thread : (Busy(u) => op[u].ref \in DOMAIN refs)'
    BY <1>2, <1>3
  <2>3. \A u \in Thread : (Busy(u) /\ ~op[u].act => op[u].granted \in inUse)'
    <3>1. \A u \in Thread : op'[u].act = op[u].act /\ op'[u].granted = op[u].granted
      BY <1>2
    <3>2. \A u \in Thread : Busy(u)' => Busy(u)
      BY <1>2
    <3>3. \A u \in Thread : ~op'[u].act <=> ~op[u].act
      BY <3>1, Zenon
    <3> QED BY <3>1, <3>2, <3>3
  <2>4. \A u, v \in Thread : (op[u].act /\ u # v => op[v] = Idle)'
    <3> SUFFICES ASSUME NEW u \in Thread, NEW v \in Thread, op'[u].act, u # v
                 PROVE  op'[v] = Idle
      OBVIOUS
    <3>1. op'[u].act = op[u].act
      BY <1>2
    <3>2. op[u].act
      BY <3>1, Zenon
    <3>3. op[v] = Idle
      BY <3>2
    <3>4. v # t
      BY <3>3 DEF Idle
    <3> QED BY <1>2, <3>3, <3>4
  <2>5. \A u, v \in Thread :
          (Busy(u) /\ Busy(v) /\ u # v => /\ op[u].ref # op[v].ref
                                          /\ op[u].granted # op[v].granted)'
    BY <1>2
  <2> QED BY <2>1, <2>2, <2>3, <2>4, <2>5
<1>6. Cursor(t)' = s
  BY <1>2 DEF Cursor
<1>7. \A u \in Thread \ {t} : Works(u)' <=> Works(u)
  BY <1>2 DEF Works
<1>8. \A u \in Thread \ {t} : Works(u) => Cursor(u)' = Cursor(u) /\ AloneThere(u)'
  <2> SUFFICES ASSUME NEW u \in Thread \ {t}, Works(u)
               PROVE  Cursor(u)' = Cursor(u) /\ AloneThere(u)'
    OBVIOUS
  <2>1. Busy(u)
    BY DEF Works, Busy, OnSession
  <2>2. op[u].ref \in DOMAIN refs /\ op[u].ref # op[t].ref
    BY <2>1, BusyRef DEF IInv, OpInv
  <2> QED BY <1>2, <2>2, Elsewhere
<1>9. AloneThere(t)'
  <2> SUFFICES ASSUME s # op[t].granted, NEW r \in DOMAIN refs, r # op[t].ref, refs'[r].sess = s
               PROVE  refs'[r].key = None
    BY <1>2 DEF AloneThere
  <2>1. refs[r].sess = s
    OBVIOUS
  <2> QED BY <2>1
<1>10. CursorInv'
  BY <1>6, <1>7, <1>8 DEF CursorInv, IInv
<1>11. BorrowInv'
  BY <1>7, <1>8, <1>9 DEF BorrowInv, AloneThere, Works
<1> QED BY <1>4, <1>5, <1>10, <1>11 DEF IInv

\* So does moving a reference to the session leased for its drill.
LEMMA RelocateKeeps ==
  ASSUME IInv, NEW t \in Thread, Relocate(t)
  PROVE  IInv'
<1> DEFINE x == op[t].ref
           s == op[t].granted
           item == refs[x].item
           path == item.path
<1>1. /\ op[t].stage = "relocate" /\ op' = [op EXCEPT ![t].stage = "resolved"]
      /\ UNCHANGED <<inUse, counter, saved>>
  BY DEF Relocate, Bind, Goes, At, disk
<1>2. refs' = [refs EXCEPT ![x].key = item, ![x].sess = s, ![x].path = path]
  BY DEF Relocate, Bind
<1>3. Busy(t) /\ x \in DOMAIN refs /\ s \in Session /\ Bound(refs) /\ counter \in Nat
  BY <1>1, BusyRef DEF Busy, IInv, ShapeInv
<1> HIDE DEF x, s, item, path
<1>4. /\ Bound(refs') /\ DOMAIN refs' = DOMAIN refs /\ refs'[x].sess = s
      /\ \A r \in DOMAIN refs \ {x} : refs'[r] = refs[r]
  <2> DEFINE rt == [refs EXCEPT ![x].key = item, ![x].sess = s, ![x].path = path]
  <2>1. /\ Bound(rt) /\ DOMAIN rt = DOMAIN refs /\ rt[x].sess = s
        /\ \A r \in DOMAIN refs \ {x} : rt[r] = refs[r]
    BY <1>2, <1>3, BindMoves
  <2>2. refs' = rt
    BY <1>2
  <2> HIDE DEF rt
  <2> QED BY <2>1, <2>2
<1>5. TouchesOnly(s)
  BY <1>4 DEF TouchesOnly
<1>6. \A u \in Thread \ {t} : Works(u) => Cursor(u) # s
  BY <1>1 DEF IInv, CursorInv, Works, Cursor, s
<1>7. /\ \A r \in DOMAIN refs \ {op[t].ref} : refs'[r].sess = refs[r].sess
      /\ refs'[op[t].ref].sess = s /\ s = op[t].granted
  BY <1>4 DEF x, s
<1> QED BY <1>1, <1>3, <1>4, <1>5, <1>6, <1>7, Moves

\* So does searching again for a reference's item.
LEMMA RecoverKeeps ==
  ASSUME Ordinary, IInv, NEW t \in Thread, Recover(t)
  PROVE  IInv'
<1> DEFINE x == op[t].ref
           rs == Recycled(Slot)
           item == rs[x].item
           path == item.path
<1>1. /\ op[t].stage = "recover" /\ op' = [op EXCEPT ![t].stage = "resolved"]
      /\ CanLease /\ counter' = counter + 1 /\ UNCHANGED <<inUse, saved>>
  BY DEF Recover, Bind, Goes, At, disk
<1>2. refs' = [rs EXCEPT ![x].key = item, ![x].sess = Slot, ![x].path = path]
  BY DEF Recover, Bind
<1>3. Busy(t) /\ x \in DOMAIN refs /\ Bound(refs) /\ counter \in Nat
  BY <1>1, BusyRef DEF Busy, IInv, ShapeInv
<1>4. Slot \in Session
  BY <1>3, SlotIsSession
<1>5. /\ Bound(rs) /\ DOMAIN rs = DOMAIN refs
      /\ \A r \in DOMAIN refs : /\ rs[r].sess = refs[r].sess
                                /\ refs[r].sess = Slot => rs[r].key = None
                                /\ refs[r].sess # Slot => rs[r] = refs[r]
  BY <1>3, RecycledKeeps
<1> HIDE DEF x, rs, item, path
<1>6. /\ Bound(refs') /\ DOMAIN refs' = DOMAIN refs /\ refs'[x].sess = Slot
      /\ \A r \in DOMAIN refs \ {x} : refs'[r] = rs[r]
  <2> DEFINE rt == [rs EXCEPT ![x].key = item, ![x].sess = Slot, ![x].path = path]
  <2>1. /\ Bound(rt) /\ DOMAIN rt = DOMAIN rs /\ rt[x].sess = Slot
        /\ \A r \in DOMAIN rs \ {x} : rt[r] = rs[r]
    BY <1>2, <1>3, <1>4, <1>5, BindMoves
  <2>2. refs' = rt
    BY <1>2
  <2> HIDE DEF rt
  <2> QED BY <1>5, <2>1, <2>2
<1>7. TouchesOnly(Slot)
  BY <1>5, <1>6 DEF TouchesOnly
<1>8. \A u \in Thread \ {t} : Works(u) => Cursor(u) # Slot
  BY <1>1, SlotFree DEF Works, Busy, OnSession, Cursor
<1>9. /\ \A r \in DOMAIN refs \ {op[t].ref} :
           refs'[r].sess = refs[r].sess /\ (refs[r].sess = Slot => refs'[r].key = None)
      /\ refs'[op[t].ref].sess = Slot
  BY <1>5, <1>6 DEF x
<1>10. counter' \in Nat
  BY <1>1, <1>3
<1> QED BY <1>1, <1>3, <1>4, <1>6, <1>7, <1>8, <1>9, <1>10, Moves

\* So does an action that corrects the category of its item.
LEMMA ActCorrectedKeeps ==
  ASSUME IInv, NEW t \in Thread, ActCorrected(t)
  PROVE  IInv'
<1> DEFINE x == op[t].ref
           album == Album(refs[x].item)
           e == [refs[x] EXCEPT !.key = album, !.sess = Recovery, !.path = album.path,
                                !.means = @ \cup {album}]
<1>1. /\ op[t].stage = "resolved" /\ op[t].act /\ op' = [op EXCEPT ![t] = Idle]
      /\ UNCHANGED <<counter, saved>>
  BY DEF ActCorrected, Release, At, disk
<1>2. refs' = [refs EXCEPT ![x] = e]
  BY DEF ActCorrected
<1>3. Busy(t) /\ x \in DOMAIN refs /\ Bound(refs) /\ Recovery \in Session
  BY <1>1, BusyRef, SessionsAssumption DEF Busy, IInv, ShapeInv, Recovery, Session
<1>4. {"key", "sess"} \subseteq DOMAIN e /\ e.sess \in Session
  BY <1>3 DEF Bound
<1> HIDE DEF e, x
<1>5. Bound(refs')
  BY <1>2, <1>3, <1>4, OneChanges
<1>6. op \in [Thread -> [stage : Stages, ref : Nat, act : BOOLEAN, granted : Session]]
  BY DEF IInv, ShapeInv
<1>7. \A u \in Thread \ {t} : op[u] = Idle
  BY <1>1 DEF IInv, OpInv
<1>8. \A u \in Thread : op'[u] = Idle
  BY <1>1, <1>6, <1>7
<1>9. Idle \in [stage : Stages, ref : Nat, act : BOOLEAN, granted : Session]
  BY SessionsAssumption DEF Idle, Stages, Session
<1>10. ShapeInv'
  BY <1>1, <1>5, <1>6, <1>9 DEF IInv, ShapeInv
<1> QED BY <1>8, <1>10, AllOver DEF IInv

\* So does a restart, which resumes from the snapshot.
LEMMA RestartKeeps ==
  ASSUME IInv, Restart
  PROVE  IInv'
<1>1. /\ op' = [t \in Thread |-> Idle] /\ saved' = None /\ saved # None
      /\ counter' = saved.counter /\ refs' = saved.refs
  BY DEF Restart
<1>2. Idle \in [stage : Stages, ref : Nat, act : BOOLEAN, granted : Session]
  BY SessionsAssumption DEF Idle, Stages, Session
<1>3. ShapeInv'
  BY <1>1, <1>2 DEF IInv, ShapeInv
<1> QED BY <1>1, <1>3, AllOver DEF IInv

\* So does writing the snapshot.
LEMMA CommitKeeps ==
  ASSUME IInv, Commit
  PROVE  IInv'
<1>1. /\ saved'.counter = counter /\ saved'.refs = refs
      /\ UNCHANGED <<counter, refs, op, inUse>>
  BY DEF Commit
<1>2. ShapeInv'
  BY <1>1 DEF IInv, ShapeInv
<1>3. OpInv' /\ CursorInv' /\ BorrowInv'
  BY <1>1 DEF IInv, OpInv, CursorInv, BorrowInv, AloneThere, Busy, Works, Cursor
<1> QED BY <1>2, <1>3 DEF IInv

\* At first no operation is under way.
LEMMA InitIInv == Init => IInv
<1> SUFFICES ASSUME Init PROVE IInv
  OBVIOUS
<1> USE DEF Init
<1>1. Idle \in [stage : Stages, ref : Nat, act : BOOLEAN, granted : Session] /\ Idle.stage = "idle"
  BY SessionsAssumption DEF Idle, Stages, Session
<1>2. Bound(refs)
  BY DEF Bound, Values
<1>3. ShapeInv
  BY <1>1, <1>2 DEF ShapeInv
<1>4. \A t \in Thread : op[t] = Idle /\ ~op[t].act
  BY DEF Idle
<1>5. OpInv /\ CursorInv /\ BorrowInv
  BY <1>1, <1>4 DEF OpInv, CursorInv, BorrowInv, AloneThere, Busy, Works, OnSession
<1> QED BY <1>3, <1>5 DEF IInv

\* No step breaks it, if nothing but the ordinary overlaps.
LEMMA NextIInv == Ordinary /\ IInv /\ [Next]_vars => IInv'
<1> SUFFICES ASSUME Ordinary, IInv, [Next]_vars PROVE IInv'
  OBVIOUS
<1>1. CASE UNCHANGED vars
  BY <1>1 DEF vars, disk, IInv, ShapeInv, OpInv, CursorInv, BorrowInv, AloneThere, Busy, Works, Cursor
<1> QED
  BY <1>1, NewSearchKeeps, BeginDrillKeeps, BeginActKeeps, OwnStepsKeep, WalkKeeps,
     RelocateKeeps, RecoverKeeps, FinishKeeps, ActCorrectedKeeps, CommitKeeps, RestartKeeps
  DEF Next, Finished

\* "so the two never share one Roon browse cursor" (browse_session.py, acquire):
\* over searches, splits, recoveries, unanswered calls, corrections and restarts
\* two operations under way never work on one session, unless the pool comes round
\* to a session in use, an action runs beside drills, or drills share a reference.
THEOREM CursorsAreApart == Ordinary /\ Spec => []NeverShareCursor
<1>1. IInv => NeverShareCursor
  BY DEF IInv, CursorInv, NeverShareCursor, Works, Cursor, OnSession
<1>2. SUFFICES ASSUME Ordinary PROVE Spec => []NeverShareCursor
  OBVIOUS
<1>3. IInv /\ [Next]_vars => IInv'
  BY <1>2, NextIInv
<1> QED BY <1>1, <1>3, InitIInv, PTL DEF Spec

-----------------------------------------------------------------------------
(* Places in the trees of results, and the ways up and down them.           *)

Paths == BoundedSeq(1 .. Width, Depth)
Item == {p \in Place : p.path # <<>>}

\* A function on the first numbers is a sequence of that length.
LEMMA Numbered ==
  ASSUME NEW S, NEW m \in Nat, NEW p
  PROVE  p \in [1 .. m -> S] <=> p \in Seq(S) /\ Len(p) = m
<1>1. ASSUME p \in [1 .. m -> S] PROVE p \in Seq(S) /\ Len(p) = m
  <2>1. p \in Seq(S)
    BY <1>1
  <2>2. Len(p) \in Nat /\ 1 .. Len(p) = 1 .. m
    BY <1>1, <2>1
  <2> QED BY <2>1, <2>2
<1>2. ASSUME p \in Seq(S), Len(p) = m PROVE p \in [1 .. m -> S]
  BY <1>2
<1> QED BY <1>1, <1>2

\* Sequences of positions no longer than the tree is deep.
LEMMA PathsAre == Paths = {p \in Seq(1 .. Width) : Len(p) <= Depth}
<1> DEFINE S == 1 .. Width
<1>1. Depth \in Nat /\ Paths = UNION {[1 .. m -> S] : m \in 0 .. Depth}
  BY SessionsAssumption DEF Paths, BoundedSeq, SeqOf
<1> HIDE DEF S
<1>2. ASSUME NEW p \in Paths PROVE p \in Seq(S) /\ Len(p) <= Depth
  <2>1. PICK m \in 0 .. Depth : p \in [1 .. m -> S]
    BY <1>1
  <2>2. m \in Nat /\ m <= Depth
    BY <1>1, <2>1
  <2> QED BY <2>1, <2>2, Numbered
<1>3. ASSUME NEW p \in Seq(S), Len(p) <= Depth PROVE p \in Paths
  <2>1. Len(p) \in Nat /\ Len(p) \in 0 .. Depth
    BY <1>1, <1>3
  <2>2. p \in [1 .. Len(p) -> S]
    BY <2>1, Numbered
  <2> QED BY <1>1, <2>1, <2>2
<1> QED BY <1>2, <1>3 DEF S

\* The first few of a sequence.
LEMMA First ==
  ASSUME NEW S, NEW w \in Seq(S), NEW k \in 0 .. Len(w)
  PROVE  SubSeq(w, 1, k) \in Seq(S) /\ Len(SubSeq(w, 1, k)) = k
<1>1. k \in Int /\ 1 \in Int /\ \A i \in 1 .. k : w[i] \in S
  OBVIOUS
<1>2. (IF 1 <= k THEN k - 1 + 1 ELSE 0) = k
  BY <1>1
<1> QED BY <1>1, <1>2, SubSeqProperties

\* A place is where a search and positions in it lead.
LEMMA PlaceIs ==
  ASSUME NEW p
  PROVE  /\ p \in Place <=> /\ p = [search |-> p.search, path |-> p.path]
                            /\ p.search \in Search
                            /\ p.path \in Seq(1 .. Width) /\ Len(p.path) <= Depth
         /\ p \in Item <=> p \in Place /\ p.path # <<>>
         /\ p \in Place => Len(p.path) \in Nat
         /\ p \in Item => p # None
<1>1. p \in Place <=> /\ p = [search |-> p.search, path |-> p.path]
                      /\ p.search \in Search /\ p.path \in Paths
  BY DEF Place, Paths
<1> QED BY <1>1, PathsAre, PlaceAssumption DEF Item

\* Popping the levels the cursor has leads to the root.
LEMMA UpIs ==
  ASSUME NEW p \in Place, NEW n \in Nat, NEW q \in Up(p, n)
  PROVE  q \in Place /\ q.search = p.search /\ (n = Len(p.path) => q.path = <<>>)
<1>1. PICK w : w = p.path
  OBVIOUS
<1>2. /\ p = [search |-> p.search, path |-> w] /\ p.search \in Search
      /\ w \in Seq(1 .. Width) /\ Len(w) <= Depth /\ Len(w) \in Nat /\ Depth \in Nat
  BY <1>1, PlaceIs, SessionsAssumption
<1>3. PICK k \in 0 .. Len(w) : /\ q = [search |-> p.search, path |-> SubSeq(w, 1, k)]
                               /\ n = Len(w) => k = 0
  <2>1. CASE n <= Len(w)
    <3>1. Len(w) - n \in 0 .. Len(w) /\ (n = Len(w) => Len(w) - n = 0)
      BY <1>2, <2>1
    <3>2. q = [search |-> p.search, path |-> SubSeq(w, 1, Len(w) - n)]
      BY <1>1, <1>2, <2>1 DEF Up
    <3> QED BY <3>1, <3>2
  <2>2. CASE ~(n <= Len(w))
    <3>1. n # Len(w)
      BY <1>2, <2>2
    <3>2. \E k \in 0 .. Len(w) : q = [search |-> p.search, path |-> SubSeq(w, 1, k)]
      BY <1>1, <1>2, <2>2 DEF Up
    <3> QED BY <3>1, <3>2
  <2> QED BY <2>1, <2>2
<1>4. PICK v : v = SubSeq(w, 1, k)
  OBVIOUS
<1>5. v \in Seq(1 .. Width) /\ Len(v) = k /\ (k = 0 => v = <<>>)
  <2>1. v \in Seq(1 .. Width) /\ Len(v) = k
    BY <1>2, <1>4, First
  <2> QED BY <2>1
<1>6. q = [search |-> p.search, path |-> v]
  BY <1>3, <1>4
<1>7. q.search = p.search /\ q.path = v /\ Len(v) <= Depth
  BY <1>2, <1>5, <1>6
<1>8. q \in Place
  BY <1>2, <1>5, <1>6, <1>7, PlaceIs
<1> QED BY <1>1, <1>3, <1>5, <1>7, <1>8

\* The list that holds an item is one level above it.
LEMMA ParentIs ==
  ASSUME NEW k \in Item
  PROVE  /\ Parent(k) \in Place /\ k \in Place
         /\ Parent(k).search = k.search /\ Len(k.path) = Len(Parent(k).path) + 1
         /\ Len(k.path) = 1 => Parent(k).path = <<>>
<1>1. PICK w : w = k.path
  OBVIOUS
<1>2. /\ k = [search |-> k.search, path |-> w] /\ k.search \in Search /\ w # <<>>
      /\ w \in Seq(1 .. Width) /\ Len(w) <= Depth /\ Len(w) \in Nat /\ Depth \in Nat
  BY <1>1, PlaceIs, SessionsAssumption
<1>3. PICK v : v = Front(w)
  OBVIOUS
<1>4. v \in Seq(1 .. Width) /\ Len(v) = Len(w) - 1 /\ Len(w) # 0
  <2>1. Len(w) - 1 \in 0 .. Len(w) /\ Len(w) # 0
    BY <1>2
  <2>2. v = SubSeq(w, 1, Len(w) - 1)
    BY <1>3 DEF Front
  <2>3. v \in Seq(1 .. Width) /\ Len(v) = Len(w) - 1
    BY <1>2, <2>1, <2>2, First
  <2> QED BY <2>1, <2>3
<1>5. PICK p : p = Parent(k)
  OBVIOUS
<1>6. p = [search |-> k.search, path |-> v]
  BY <1>1, <1>2, <1>3, <1>5 DEF Parent
<1>7. p.search = k.search /\ p.path = v /\ Len(v) \in Nat /\ Len(v) + 1 = Len(w) /\ Len(v) <= Depth
  BY <1>2, <1>4, <1>6
<1>8. p \in Place
  BY <1>2, <1>4, <1>6, <1>7, PlaceIs
<1>9. Len(w) = 1 => v = <<>>
  BY <1>4
<1> QED BY <1>1, <1>5, <1>7, <1>8, <1>9, PlaceIs

\* An item of a list is one level below it.
LEMMA ChildIs ==
  ASSUME NEW p \in Place, ~IsLeaf(p), NEW i \in 1 .. Width
  PROVE  /\ Child(p, i) \in Item /\ Child(p, i).search = p.search
         /\ Child(p, i).path = Append(p.path, i)
<1>1. PICK w : w = p.path
  OBVIOUS
<1>2. /\ p = [search |-> p.search, path |-> w] /\ p.search \in Search
      /\ w \in Seq(1 .. Width) /\ Len(w) <= Depth /\ Len(w) \in Nat /\ Depth \in Nat
  BY <1>1, PlaceIs, SessionsAssumption
<1>3. PICK v : v = Append(w, i)
  OBVIOUS
<1>4. v \in Seq(1 .. Width) /\ Len(v) = Len(w) + 1 /\ v # <<>> /\ Len(v) <= Depth
  <2>1. Len(w) # Depth
    BY <1>1 DEF IsLeaf
  <2> QED BY <1>2, <1>3, <2>1
<1>5. PICK q : q = Child(p, i)
  OBVIOUS
<1>6. q = [search |-> p.search, path |-> v]
  BY <1>1, <1>2, <1>3, <1>5 DEF Child
<1>7. q.search = p.search /\ q.path = v
  BY <1>6
<1>8. q \in Item
  BY <1>2, <1>4, <1>6, <1>7, PlaceIs
<1> QED BY <1>1, <1>3, <1>5, <1>7, <1>8

\* Following positions leads that many levels down, from the root to them.
LEMMA WalkedIs ==
  ASSUME NEW p \in Place, NEW w \in Seq(1 .. Width), CanWalk(p, w)
  PROVE  /\ Walked(p, w) \in Place /\ Walked(p, w).search = p.search
         /\ Len(Walked(p, w).path) = Len(p.path) + Len(w)
         /\ p.path = <<>> => Walked(p, w).path = w
<1>1. PICK u : u = p.path
  OBVIOUS
<1>2. /\ p = [search |-> p.search, path |-> u] /\ p.search \in Search
      /\ u \in Seq(1 .. Width) /\ Len(u) \in Nat
  BY <1>1, PlaceIs
<1>3. PICK v : v = u \o w
  OBVIOUS
<1>4. v \in Seq(1 .. Width) /\ Len(v) = Len(u) + Len(w) /\ (u = <<>> => v = w)
  BY <1>2, <1>3
<1>5. Len(v) <= Depth
  BY <1>1, <1>4 DEF CanWalk
<1>6. PICK q : q = Walked(p, w)
  OBVIOUS
<1>7. q = [search |-> p.search, path |-> v]
  BY <1>1, <1>2, <1>3, <1>6 DEF Walked
<1>8. q.search = p.search /\ q.path = v
  BY <1>7
<1>9. q \in Place
  BY <1>2, <1>4, <1>5, <1>7, <1>8, PlaceIs
<1> QED BY <1>1, <1>4, <1>6, <1>8, <1>9

-----------------------------------------------------------------------------
(* Where the cursors are.                                                   *)

\* What a reference holds.
Full == [item : Item, key : Item \cup {None}, sess : Session, path : Seq(1 .. Width),
         means : SUBSET Place]
Fit(e) == e \in Full /\ e.item \in e.means

\* A key found in the results the cursor c is in, at the depth d it is tracked at.
Good(e, c, d) ==
  e.key # None =>
    /\ e.key \in e.means /\ c.search = e.key.search /\ d = Len(c.path)
    /\ e.path = e.key.path \/ (e.path = <<>> /\ Len(e.key.path) = 1)
Sound(e, c, d, bad) == Fit(e) /\ c \in Place /\ (~bad => Good(e, c, d))

PlacesInv ==
  /\ core \in [Session -> Place \cup {None}]
  /\ depth \in [Session -> Nat]
  /\ listed \in [Session -> Place \cup {None}]

RefsInv ==
  \A r \in DOMAIN refs :
    Sound(refs[r], core[refs[r].sess], depth[refs[r].sess], refs[r].sess \in suspect)

\* The snapshot's references are good where the cursors were.
SavedInv ==
  saved # None =>
    /\ saved.core \in [Session -> Place \cup {None}]
    /\ saved.depth \in [Session -> Nat]
    /\ saved.listed \in [Session -> Place \cup {None}]
    /\ \A r \in DOMAIN saved.refs :
         LET e == saved.refs[r] IN
         /\ Fit(e) /\ core[e.sess] \in Place
         /\ Good(e, saved.core[e.sess], saved.depth[e.sess])

\* How an operation finds its reference e, the cursor c and the list l.
Ready(o, e, c, l, bad) ==
  /\ o.stage \in {"reset", "walk", "drilled"} => e.key # None
  /\ ~bad => /\ o.stage = "walk" => c.path = <<>>
             /\ o.stage = "drilled" => l = e.key
             /\ o.stage = "recover" => e.key = None
ReadyInv ==
  \A t \in Thread :
    Busy(t) => LET e == refs[op[t].ref] IN
               Ready(op[t], e, core[e.sess], listed[e.sess], e.sess \in suspect)

\* On a session leased for a drill nothing has a key.
LeasedInv ==
  \A t \in Thread :
    op[t].stage = "relocate" =>
      /\ op[t].granted # Recovery
      /\ \A r \in DOMAIN refs : refs[r].sess = op[t].granted => refs[r].key = None

\* What is reserved is a drill's.
HeldInv ==
  \A s \in inUse : \E t \in Thread : Busy(t) /\ ~op[t].act /\ op[t].granted = s

Leaving(r) == \E t \in Thread : op[t].stage = "relocate" /\ op[t].ref = r
Staying == {r \in DOMAIN refs : refs[r].sess = Recovery /\ ~Leaving(r)}

\* The recovery session is at its root, with no reference, until one is bound to
\* it, and then one always is.
RecoveryInv ==
  ~restarted /\ Recovery \notin suspect =>
    /\ \A r \in DOMAIN refs : refs[r].sess = Recovery => refs[r].key # None
    /\ \A t \in Thread : Busy(t) /\ op[t].granted = Recovery => refs[op[t].ref].sess = Recovery
    /\ Staying = {} => ~Corrected /\ depth[Recovery] = 0

NavInv ==
  /\ PlacesInv /\ RefsInv /\ SavedInv /\ ReadyInv /\ LeasedInv /\ HeldInv
  /\ RecoveryInv /\ FALSE \notin astray

Same(q) ==
  /\ core'[q] = core[q] /\ depth'[q] = depth[q] /\ listed'[q] = listed[q]
  /\ q \in suspect' <=> q \in suspect

\* The snapshot stays good while no cursor is lost.
LEMMA SavedStays ==
  ASSUME SavedInv, saved' = saved,
         \A q \in Session : core[q] \in Place => core'[q] \in Place
  PROVE  SavedInv'
BY DEF SavedInv, Fit, Full

\* A step of an operation on its own session.
OwnStep(t, o, s) ==
  /\ op[t].stage \in OnSession /\ s = refs[op[t].ref].sess
  /\ PlacesInv' /\ core'[s] \in Place /\ \A q \in Session : q # s => Same(q)
  /\ suspect \subseteq suspect' /\ UNCHANGED <<restarted, saved>>
  /\ op' = [op EXCEPT ![t] = o]
  /\ \/ o = Idle /\ inUse' = IF op[t].act THEN inUse ELSE inUse \ {op[t].granted}
     \/ /\ inUse' = inUse /\ o.stage \notin {"relocate", "idle"}
        /\ o.ref = op[t].ref /\ o.act = op[t].act /\ o.granted = op[t].granted
  /\ DOMAIN refs \subseteq DOMAIN refs'
  /\ \A r \in DOMAIN refs : r # op[t].ref => refs'[r] = refs[r]
  /\ refs'[op[t].ref].sess = s
  /\ refs[op[t].ref].key # None => refs'[op[t].ref].key # None
  /\ \A r \in DOMAIN refs' \ DOMAIN refs : refs'[r].sess = s /\ refs'[r].key # None
  /\ \A r \in DOMAIN refs' :
       refs'[r].sess = s => Sound(refs'[r], core'[s], depth'[s], s \in suspect')
  /\ o # Idle => Ready(o, refs'[op[t].ref], core'[s], listed'[s], s \in suspect')

\* It leaves what holds of the others, and of the recovery session.
LEMMA OwnKeeps ==
  ASSUME IInv, NavInv, NEW t \in Thread, NEW o, NEW s, OwnStep(t, o, s),
         FALSE \notin astray'
  PROVE  NavInv'
<1> DEFINE x == op[t].ref
<1>0. OwnStep(t, o, s)
  OBVIOUS
<1>1. op \in [Thread -> [stage : Stages, ref : Nat, act : BOOLEAN, granted : Session]]
  BY DEF IInv, ShapeInv
<1>2. op'[t] = o /\ \A u \in Thread \ {t} : op'[u] = op[u]
  BY <1>0, <1>1 DEF OwnStep
<1>3. Busy(t) /\ x \in DOMAIN refs /\ s \in Session /\ op[t].stage # "relocate"
  BY <1>0, BusyRef DEF OwnStep, Busy, OnSession, IInv, ShapeInv, Bound
<1>4. o.stage = "idle" => o = Idle
  BY <1>0 DEF OwnStep
<1>5. o.stage # "relocate" /\ Idle.stage = "idle"
  BY <1>0 DEF OwnStep, Idle
<1>6. \A r \in DOMAIN refs : refs[r].sess \in Session /\ refs'[r].sess = refs[r].sess
  BY <1>0 DEF OwnStep, IInv, ShapeInv, Bound
<1>7. \A r \in DOMAIN refs' : refs'[r].sess # s => r \in DOMAIN refs /\ refs'[r] = refs[r]
  BY <1>0 DEF OwnStep
<1>8. RefsInv'
  <2> SUFFICES ASSUME NEW r \in DOMAIN refs'
               PROVE  Sound(refs'[r], core'[refs'[r].sess], depth'[refs'[r].sess],
                            refs'[r].sess \in suspect')
    BY DEF RefsInv
  <2>1. CASE refs'[r].sess = s
    BY <1>0, <2>1 DEF OwnStep
  <2>2. CASE refs'[r].sess # s
    <3>1. r \in DOMAIN refs /\ refs'[r] = refs[r] /\ Same(refs[r].sess)
      BY <1>0, <1>6, <1>7, <2>2 DEF OwnStep
    <3> QED BY <3>1 DEF Same, NavInv, RefsInv
  <2> QED BY <2>1, <2>2
<1>9. SavedInv'
  <2>1. \A q \in Session : core[q] \in Place => core'[q] \in Place
    BY <1>0 DEF OwnStep, Same
  <2> QED BY <1>0, <2>1, SavedStays DEF OwnStep, NavInv
<1>10. ReadyInv'
  <2> SUFFICES ASSUME NEW u \in Thread, op'[u].stage # "idle"
               PROVE  Ready(op'[u], refs'[op'[u].ref], core'[refs'[op'[u].ref].sess],
                            listed'[refs'[op'[u].ref].sess], refs'[op'[u].ref].sess \in suspect')
    BY DEF ReadyInv, Busy
  <2>1. CASE u = t
    BY <1>0, <1>2, <1>5, <2>1 DEF OwnStep
  <2>2. CASE u # t
    <3>1. op'[u] = op[u] /\ Busy(u) /\ op[u].ref \in DOMAIN refs /\ op[u].ref # x
      BY <1>2, <1>3, <2>2, BusyRef DEF Busy, IInv, OpInv
    <3>2. PICK e, q : e = refs[op[u].ref] /\ q = e.sess
      OBVIOUS
    <3>3. refs'[op[u].ref] = e /\ q \in Session
      BY <1>0, <1>6, <3>1, <3>2 DEF OwnStep
    <3>4. Ready(op[u], e, core[q], listed[q], q \in suspect)
      BY <3>1, <3>2 DEF NavInv, ReadyInv
    <3>5. CASE op[u].stage \in OnSession
      <4>1. q # s
        BY <1>0, <2>2, <3>2, <3>5 DEF OwnStep, IInv, CursorInv, Works, Cursor, OnSession
      <4>2. Same(q)
        BY <1>0, <3>3, <4>1 DEF OwnStep
      <4> QED BY <3>1, <3>2, <3>3, <3>4, <4>2 DEF Same
    <3>6. CASE op[u].stage \notin OnSession
      <4>1. q \in suspect => q \in suspect'
        BY <1>0 DEF OwnStep
      <4>2. Ready(op[u], e, core'[q], listed'[q], q \in suspect')
        BY <3>4, <3>6, <4>1 DEF Ready, OnSession
      <4> QED BY <3>1, <3>2, <3>3, <4>2
    <3> QED BY <3>5, <3>6
  <2> QED BY <2>1, <2>2
<1>11. LeasedInv'
  <2> SUFFICES ASSUME NEW u \in Thread, op'[u].stage = "relocate"
               PROVE  /\ op'[u].granted # Recovery
                      /\ \A r \in DOMAIN refs' : refs'[r].sess = op'[u].granted => refs'[r].key = None
    BY DEF LeasedInv
  <2>1. u # t /\ op'[u] = op[u]
    BY <1>2, <1>5
  <2>2. op[u].granted # s
    BY <1>0, <2>1 DEF OwnStep, IInv, CursorInv, Works, Cursor, OnSession
  <2> QED BY <1>7, <2>1, <2>2 DEF NavInv, LeasedInv
<1>12. HeldInv'
  <2> SUFFICES ASSUME NEW q \in inUse'
               PROVE  \E u \in Thread : op'[u].stage # "idle" /\ ~op'[u].act /\ op'[u].granted = q
    BY DEF HeldInv, Busy
  <2>1. q \in inUse
    BY <1>0 DEF OwnStep
  <2>2. PICK u \in Thread : Busy(u) /\ ~op[u].act /\ op[u].granted = q
    BY <2>1 DEF NavInv, HeldInv
  <2>3. CASE u # t
    BY <1>2, <2>2, <2>3 DEF Busy
  <2>4. CASE u = t
    <3>0. ~op[t].act
      BY <2>2, <2>4, Zenon
    <3>1. inUse' = (IF op[t].act THEN inUse ELSE inUse \ {op[t].granted}) \/ o.stage # "idle"
      BY <1>0 DEF OwnStep
    <3>2. inUse' = inUse \ {op[t].granted} \/ o.stage # "idle"
      BY <3>0, <3>1, Zenon
    <3>3. o # Idle
      BY <1>5, <2>2, <2>4, <3>2
    <3>4. o.stage # "idle" /\ o.act = op[t].act /\ o.granted = q
      BY <1>0, <2>2, <2>4, <3>3 DEF OwnStep
    <3> QED BY <1>2, <2>2, <2>4, <3>4
  <2> QED BY <2>3, <2>4
<1>13. RecoveryInv'
  <2> SUFFICES ASSUME ~restarted', Recovery \notin suspect' PROVE RecoveryInv'
    BY DEF RecoveryInv
  <2>1. /\ ~restarted /\ Recovery \notin suspect
        /\ \A r \in DOMAIN refs : refs[r].sess = Recovery => refs[r].key # None
        /\ \A u \in Thread : Busy(u) /\ op[u].granted = Recovery => refs[op[u].ref].sess = Recovery
        /\ Staying = {} => ~Corrected /\ depth[Recovery] = 0
    BY <1>0 DEF OwnStep, NavInv, RecoveryInv
  <2>2. \A r \in DOMAIN refs' : refs'[r].sess = Recovery => refs'[r].key # None
    BY <1>0, <1>6, <2>1 DEF OwnStep
  <2>3. \A u \in Thread : op'[u].stage # "idle" /\ op'[u].granted = Recovery
                            => refs'[op'[u].ref].sess = Recovery
    <3> SUFFICES ASSUME NEW u \in Thread, op'[u].stage # "idle", op'[u].granted = Recovery
                 PROVE  refs'[op'[u].ref].sess = Recovery
      OBVIOUS
    <3>1. Busy(u) /\ op'[u].ref = op[u].ref /\ op'[u].granted = op[u].granted
      BY <1>0, <1>2, <1>3, <1>5 DEF OwnStep, Busy
    <3> QED BY <1>6, <2>1, <3>1, BusyRef
  <2>4. \A r \in DOMAIN refs : Leaving(r)' => Leaving(r)
    BY <1>2, <1>5 DEF Leaving
  <2>5. \A r \in Staying : r \in Staying'
    BY <1>0, <1>6, <2>4 DEF Staying, OwnStep
  <2>6. ASSUME Staying' = {} PROVE ~Corrected' /\ depth'[Recovery] = 0
    <3>1. ~Corrected /\ depth[Recovery] = 0
      BY <2>1, <2>5, <2>6
    <3>2. s # Recovery
      BY <1>0, <1>3, <3>1 DEF OwnStep, Corrected
    <3>3. Recovery \in Session
      BY SessionsAssumption DEF Recovery, Session
    <3>4. Same(Recovery)
      BY <1>0, <3>2, <3>3 DEF OwnStep
    <3>5. ~Corrected'
      BY <1>7, <3>1, <3>2 DEF Corrected
    <3> QED BY <3>1, <3>4, <3>5 DEF Same
  <2> QED BY <2>2, <2>3, <2>6 DEF RecoveryInv, Busy
<1>14. PlacesInv'
  BY <1>0 DEF OwnStep
<1> QED BY <1>8, <1>9, <1>10, <1>11, <1>12, <1>13, <1>14 DEF NavInv

\* A step that touches a slot no other operation works on.
SlotStep(t, s) ==
  /\ s \in Session /\ s # Recovery
  /\ PlacesInv' /\ (core[s] \in Place => core'[s] \in Place)
  /\ \A q \in Session : q # s => Same(q)
  /\ UNCHANGED <<restarted, saved>>
  /\ \A u \in Thread : u # t => op'[u] = op[u]
  /\ \A u \in Thread :
       u # t /\ Busy(u) =>
         /\ op[u].granted # s
         /\ refs[op[u].ref].sess = s => op[u].stage \notin OnSession /\ refs[op[u].ref].key = None
         /\ refs'[op[u].ref].sess = refs[op[u].ref].sess
         /\ refs[op[u].ref].key = None => refs'[op[u].ref].key = None
  /\ DOMAIN refs \subseteq DOMAIN refs'
  /\ \A r \in DOMAIN refs' : refs'[r].sess # s => r \in DOMAIN refs /\ refs'[r] = refs[r]
  /\ \A r \in DOMAIN refs' :
       refs'[r].sess = s => Sound(refs'[r], core'[s], depth'[s], s \in suspect')

\* What the operation that takes it has to bring about.
Taken(t, s) ==
  /\ op'[t].stage \notin {"reset", "walk", "drilled", "recover"}
  /\ op'[t].stage = "relocate" =>
       op'[t].granted = s /\ \A r \in DOMAIN refs' : refs'[r].sess = s => refs'[r].key = None
  /\ \A q \in inUse' : q \notin inUse =>
       op'[t].stage # "idle" /\ ~op'[t].act /\ op'[t].granted = q
  /\ Busy(t) => op'[t] = [op[t] EXCEPT !.stage = op'[t].stage] /\ op'[t].stage # "idle"
  /\ ~restarted /\ Recovery \notin suspect =>
       /\ op'[t].stage # "idle" /\ op'[t].granted = Recovery => refs'[op'[t].ref].sess = Recovery
       /\ Staying # {} => Staying' # {}

\* Such a step leaves the rest as it is.
LEMMA SlotKeeps ==
  ASSUME IInv, NavInv, NEW t \in Thread, NEW s, SlotStep(t, s), Taken(t, s),
         FALSE \notin astray'
  PROVE  NavInv'
<1>0. SlotStep(t, s) /\ Taken(t, s)
  OBVIOUS
<1>1. op \in [Thread -> [stage : Stages, ref : Nat, act : BOOLEAN, granted : Session]]
  BY DEF IInv, ShapeInv
<1>2. \A r \in DOMAIN refs : refs[r].sess \in Session
  BY DEF IInv, ShapeInv, Bound
<1>3. Recovery \in Session
  BY SessionsAssumption DEF Recovery, Session
<1>4. RefsInv'
  <2> SUFFICES ASSUME NEW r \in DOMAIN refs'
               PROVE  Sound(refs'[r], core'[refs'[r].sess], depth'[refs'[r].sess],
                            refs'[r].sess \in suspect')
    BY DEF RefsInv
  <2>1. CASE refs'[r].sess = s
    BY <1>0, <2>1 DEF SlotStep
  <2>2. CASE refs'[r].sess # s
    <3>1. r \in DOMAIN refs /\ refs'[r] = refs[r] /\ Same(refs[r].sess)
      BY <1>0, <1>2, <2>2 DEF SlotStep
    <3> QED BY <3>1 DEF Same, NavInv, RefsInv
  <2> QED BY <2>1, <2>2
<1>5. SavedInv'
  <2>1. \A q \in Session : core[q] \in Place => core'[q] \in Place
    BY <1>0 DEF SlotStep, Same
  <2> QED BY <1>0, <2>1, SavedStays DEF SlotStep, NavInv
<1>6. ReadyInv'
  <2> SUFFICES ASSUME NEW u \in Thread, op'[u].stage # "idle"
               PROVE  Ready(op'[u], refs'[op'[u].ref], core'[refs'[op'[u].ref].sess],
                            listed'[refs'[op'[u].ref].sess], refs'[op'[u].ref].sess \in suspect')
    BY DEF ReadyInv, Busy
  <2>1. CASE u = t
    BY <1>0, <2>1 DEF Taken, Ready
  <2>2. CASE u # t
    <3>1. op'[u] = op[u] /\ Busy(u) /\ op[u].ref \in DOMAIN refs
      BY <1>0, <2>2, BusyRef DEF Busy, SlotStep
    <3>2. PICK e, f, q : e = refs[op[u].ref] /\ f = refs'[op[u].ref] /\ q = e.sess
      OBVIOUS
    <3>3. q \in Session /\ f.sess = q /\ op[u].ref \in DOMAIN refs'
      BY <1>0, <1>2, <2>2, <3>1, <3>2 DEF SlotStep
    <3>4. Ready(op[u], e, core[q], listed[q], q \in suspect)
      BY <3>1, <3>2 DEF NavInv, ReadyInv
    <3>5. CASE q # s
      <4>1. f = e /\ Same(q)
        BY <1>0, <3>2, <3>3, <3>5 DEF SlotStep
      <4> QED BY <3>1, <3>2, <3>4, <4>1 DEF Same
    <3>6. CASE q = s
      <4>1. op[u].stage \notin OnSession /\ f.key = None
        BY <1>0, <2>2, <3>1, <3>2, <3>6 DEF SlotStep
      <4>2. Ready(op[u], f, core'[q], listed'[q], q \in suspect')
        BY <4>1 DEF Ready, OnSession
      <4> QED BY <3>1, <3>2, <3>3, <4>2
    <3> QED BY <3>5, <3>6
  <2> QED BY <2>1, <2>2
<1>7. LeasedInv'
  <2> SUFFICES ASSUME NEW u \in Thread, op'[u].stage = "relocate"
               PROVE  /\ op'[u].granted # Recovery
                      /\ \A r \in DOMAIN refs' : refs'[r].sess = op'[u].granted => refs'[r].key = None
    BY DEF LeasedInv
  <2>1. CASE u = t
    BY <1>0, <2>1 DEF Taken, SlotStep
  <2>2. CASE u # t
    <3>1. op'[u] = op[u] /\ Busy(u)
      BY <1>0, <2>2 DEF SlotStep, Busy
    <3>2. op[u].granted # s
      BY <1>0, <2>2, <3>1 DEF SlotStep
    <3> QED BY <1>0, <3>1, <3>2 DEF SlotStep, NavInv, LeasedInv
  <2> QED BY <2>1, <2>2
<1>8. HeldInv'
  <2> SUFFICES ASSUME NEW q \in inUse'
               PROVE  \E u \in Thread : op'[u].stage # "idle" /\ ~op'[u].act /\ op'[u].granted = q
    BY DEF HeldInv, Busy
  <2>1. CASE q \notin inUse
    BY <1>0, <2>1 DEF Taken
  <2>2. CASE q \in inUse
    <3>1. PICK u \in Thread : Busy(u) /\ ~op[u].act /\ op[u].granted = q
      BY <2>2 DEF NavInv, HeldInv
    <3>2. CASE u # t
      BY <1>0, <3>1, <3>2 DEF Busy, SlotStep
    <3>3. CASE u = t
      <4>1. op'[t] = [op[t] EXCEPT !.stage = op'[t].stage] /\ op'[t].stage # "idle"
        BY <1>0, <3>1, <3>3 DEF Taken
      <4>2. op'[t].act = op[t].act /\ op'[t].granted = op[t].granted
        BY <1>1, <4>1
      <4> QED BY <3>1, <3>3, <4>1, <4>2
    <3> QED BY <3>2, <3>3
  <2> QED BY <2>1, <2>2
<1>9. RecoveryInv'
  <2> SUFFICES ASSUME ~restarted', Recovery \notin suspect' PROVE RecoveryInv'
    BY DEF RecoveryInv
  <2>1. /\ ~restarted /\ Recovery \notin suspect /\ Same(Recovery) /\ s # Recovery
        /\ \A r \in DOMAIN refs : refs[r].sess = Recovery => refs[r].key # None
        /\ \A u \in Thread : Busy(u) /\ op[u].granted = Recovery => refs[op[u].ref].sess = Recovery
        /\ Staying = {} => ~Corrected /\ depth[Recovery] = 0
    BY <1>0, <1>3 DEF SlotStep, NavInv, RecoveryInv, Same
  <2>2. \A r \in DOMAIN refs' : refs'[r].sess = Recovery => refs'[r].key # None
    BY <1>0, <2>1 DEF SlotStep
  <2>3. \A u \in Thread : op'[u].stage # "idle" /\ op'[u].granted = Recovery
                            => refs'[op'[u].ref].sess = Recovery
    <3> SUFFICES ASSUME NEW u \in Thread, op'[u].stage # "idle", op'[u].granted = Recovery
                 PROVE  refs'[op'[u].ref].sess = Recovery
      OBVIOUS
    <3>1. CASE u = t
      BY <1>0, <2>1, <3>1 DEF Taken
    <3>2. CASE u # t
      BY <1>0, <2>1, <3>2 DEF SlotStep, Busy
    <3> QED BY <3>1, <3>2
  <2>4. ASSUME Staying' = {} PROVE ~Corrected' /\ depth'[Recovery] = 0
    <3>1. ~Corrected /\ depth[Recovery] = 0
      BY <1>0, <2>1, <2>4 DEF Taken
    <3>2. ~Corrected'
      BY <1>0, <2>1, <3>1 DEF Corrected, SlotStep
    <3> QED BY <2>1, <3>1, <3>2 DEF Same
  <2> QED BY <2>2, <2>3, <2>4 DEF RecoveryInv, Busy
<1>10. PlacesInv'
  BY <1>0 DEF SlotStep
<1> QED BY <1>4, <1>5, <1>6, <1>7, <1>8, <1>9, <1>10 DEF NavInv

-----------------------------------------------------------------------------
(* What moving a cursor does to the references of its session.              *)

\* Popping the levels counted leads to the root.
LEMMA SoundUp ==
  ASSUME NEW e, NEW c, NEW d \in Nat, NEW bad, Sound(e, c, d, bad), NEW p \in Up(c, d)
  PROVE  p \in Place /\ Sound(e, p, 0, bad)
<1>1. /\ p \in Place /\ p.search = c.search
      /\ d = Len(c.path) => p.path = <<>> /\ Len(p.path) = 0
  BY UpIs DEF Sound
<1> QED BY <1>1 DEF Sound, Good

\* Opening an item of the list that holds it leads one level down.
LEMMA SoundOpen ==
  ASSUME NEW e, NEW k \in Item, NEW d \in Nat, NEW bad, Sound(e, Parent(k), d, bad)
  PROVE  Sound(e, k, d + 1, bad)
BY ParentIs DEF Sound, Good

\* So does following positions, as many as they are.
LEMMA SoundWalk ==
  ASSUME NEW e, NEW c, NEW d, NEW bad, Sound(e, c, d, bad),
         NEW w \in Seq(1 .. Width), CanWalk(c, w)
  PROVE  Walked(c, w) \in Place /\ Sound(e, Walked(c, w), d + Len(w), bad)
<1>1. /\ Walked(c, w) \in Place /\ Walked(c, w).search = c.search
      /\ Len(Walked(c, w).path) = Len(c.path) + Len(w)
  BY WalkedIs DEF Sound
<1> QED BY <1>1 DEF Sound, Good

\* On a session given up as misled any place will do.
LEMMA SoundLost ==
  ASSUME NEW e, NEW c, NEW d, NEW bad, Sound(e, c, d, bad), NEW p \in Place, NEW n
  PROVE  Sound(e, p, n, TRUE)
BY DEF Sound

\* A reference without a key is good anywhere.
LEMMA SoundWithout ==
  ASSUME NEW e, Fit(e), e.key = None, NEW c \in Place, NEW d, NEW bad
  PROVE  Sound(e, c, d, bad)
BY DEF Sound, Good

\* What an operation on a session starts from.
LEMMA OnOwn ==
  ASSUME IInv, NavInv, NEW t \in Thread, op[t].stage \in OnSession,
         NEW s, s = refs[op[t].ref].sess
  PROVE  /\ op[t].ref \in DOMAIN refs /\ s \in Session /\ Fit(refs[op[t].ref])
         /\ core[s] \in Place /\ depth[s] \in Nat /\ listed[s] \in Place \cup {None}
         /\ \A r \in DOMAIN refs :
              refs[r].sess = s => Sound(refs[r], core[s], depth[s], s \in suspect)
         /\ Ready(op[t], refs[op[t].ref], core[s], listed[s], s \in suspect)
<1>1. Busy(t)
  BY DEF Busy, OnSession
<1>2. op[t].ref \in DOMAIN refs /\ s \in Session
  BY <1>1, BusyRef DEF IInv, ShapeInv, Bound
<1>3. \A r \in DOMAIN refs :
        refs[r].sess = s => Sound(refs[r], core[s], depth[s], s \in suspect)
  BY DEF NavInv, RefsInv
<1>4. Ready(op[t], refs[op[t].ref], core[s], listed[s], s \in suspect)
  BY <1>1 DEF NavInv, ReadyInv
<1>5. depth[s] \in Nat /\ listed[s] \in Place \cup {None}
  BY <1>2 DEF NavInv, PlacesInv
<1> QED BY <1>2, <1>3, <1>4, <1>5 DEF Sound

\* A step that moves the cursor of the operation's session and nothing else there.
Moved(t, s, c, d, l, o) ==
  /\ core' = [core EXCEPT ![s] = c] /\ c \in Place
  /\ depth' = [depth EXCEPT ![s] = d] /\ d \in Nat
  /\ listed' = [listed EXCEPT ![s] = l] /\ l \in Place \cup {None}
  /\ UNCHANGED <<refs, restarted, saved>>
  /\ suspect' \in {suspect, suspect \cup {s}}
  /\ op' = [op EXCEPT ![t] = o]
  /\ \/ o = Idle /\ inUse' = IF op[t].act THEN inUse ELSE inUse \ {op[t].granted}
     \/ \E st \in Stages \ {"idle", "relocate"} :
          inUse' = inUse /\ o = [op[t] EXCEPT !.stage = st]
  /\ \A r \in DOMAIN refs : refs[r].sess = s => Sound(refs[r], c, d, s \in suspect')
  /\ o # Idle => Ready(o, refs[op[t].ref], c, l, s \in suspect')

\* Such a step keeps what the invariant says.
LEMMA MovedKeeps ==
  ASSUME IInv, NavInv, NEW t \in Thread, op[t].stage \in OnSession,
         NEW s, s = refs[op[t].ref].sess, NEW c, NEW d, NEW l, NEW o, Moved(t, s, c, d, l, o),
         FALSE \notin astray'
  PROVE  NavInv'
<1>0. Moved(t, s, c, d, l, o)
  OBVIOUS
<1>1. s \in Session /\ op[t].ref \in DOMAIN refs
  BY OnOwn
<1>2. PlacesInv /\ op \in [Thread -> [stage : Stages, ref : Nat, act : BOOLEAN, granted : Session]]
  BY DEF NavInv, IInv, ShapeInv
<1>3. PlacesInv'
  BY <1>0, <1>1, <1>2 DEF PlacesInv, Moved
<1>4. core'[s] = c /\ depth'[s] = d /\ listed'[s] = l
  BY <1>0, <1>1, <1>2 DEF PlacesInv, Moved
<1>5. \A q \in Session : q # s => Same(q)
  BY <1>0, <1>1, <1>2 DEF PlacesInv, Moved, Same
<1>6. \/ o = Idle /\ inUse' = IF op[t].act THEN inUse ELSE inUse \ {op[t].granted}
      \/ /\ inUse' = inUse /\ o.stage \notin {"relocate", "idle"}
         /\ o.ref = op[t].ref /\ o.act = op[t].act /\ o.granted = op[t].granted
  BY <1>0, <1>2 DEF Moved
<1>7. refs' = refs /\ suspect \subseteq suspect'
  BY <1>0 DEF Moved
<1>8. OwnStep(t, o, s)
  BY <1>0, <1>1, <1>3, <1>4, <1>5, <1>6, <1>7 DEF OwnStep, Moved
<1> QED BY <1>8, OwnKeeps

\* An assignment of what is there changes nothing.
LEMMA Unmoved ==
  ASSUME NavInv, NEW s \in Session
  PROVE  /\ core = [core EXCEPT ![s] = core[s]] /\ depth = [depth EXCEPT ![s] = depth[s]]
         /\ listed = [listed EXCEPT ![s] = listed[s]]
BY DEF NavInv, PlacesInv

-----------------------------------------------------------------------------
(* The steps on an operation's own session.                                 *)

\* Going back to the root keeps the keys good, whether or not the Core heard of it.
LEMMA ResetNav ==
  ASSUME IInv, NavInv, NEW t \in Thread, Reset(t) \/ ResetLost(t)
  PROVE  NavInv'
<1> DEFINE s == refs[op[t].ref].sess
           o == [op[t] EXCEPT !.stage = "walk"]
<1>1. /\ op[t].stage = "reset" /\ op[t].stage \in OnSession
      /\ op' = [op EXCEPT ![t] = o] /\ astray' = astray /\ FALSE \notin astray'
      /\ depth' = [depth EXCEPT ![s] = 0] /\ UNCHANGED <<refs, listed, inUse, restarted, saved>>
  BY DEF Reset, ResetLost, At, Goes, disk, OnSession, NavInv
<1>2. \/ \E p \in Up(core[s], depth[s]) : core' = [core EXCEPT ![s] = p] /\ suspect' = suspect
      \/ core' = core /\ suspect' = suspect \cup {s}
  BY DEF Reset, ResetLost
<1>3. o.stage = "walk" /\ "walk" \in Stages \ {"idle", "relocate"} /\ o # Idle
  <2>1. op \in [Thread -> [stage : Stages, ref : Nat, act : BOOLEAN, granted : Session]]
    BY DEF IInv, ShapeInv
  <2>2. o.stage = "walk" /\ Idle.stage = "idle"
    BY <2>1 DEF Idle
  <2> QED BY <2>2 DEF Stages
<1>4. \E st \in Stages \ {"idle", "relocate"} : o = [op[t] EXCEPT !.stage = st]
  BY <1>3
<1> HIDE DEF s, o
<1>5. s = refs[op[t].ref].sess
  BY DEF s
<1>6. /\ s \in Session /\ core[s] \in Place /\ depth[s] \in Nat /\ listed[s] \in Place \cup {None}
      /\ \A r \in DOMAIN refs :
           refs[r].sess = s => Sound(refs[r], core[s], depth[s], s \in suspect)
      /\ Ready(op[t], refs[op[t].ref], core[s], listed[s], s \in suspect)
      /\ op[t].ref \in DOMAIN refs
  BY <1>1, <1>5, OnOwn
<1>7. listed' = [listed EXCEPT ![s] = listed[s]] /\ core = [core EXCEPT ![s] = core[s]]
  BY <1>1, <1>6, Unmoved
<1>8. PICK e : e = refs[op[t].ref]
  OBVIOUS
<1>9. e.key # None /\ Sound(e, core[s], depth[s], s \in suspect)
  BY <1>1, <1>5, <1>6, <1>8 DEF Ready
<1>10. ASSUME NEW p \in Up(core[s], depth[s]), core' = [core EXCEPT ![s] = p], suspect' = suspect
       PROVE  NavInv'
  <2>1. p \in Place /\ \A r \in DOMAIN refs : refs[r].sess = s => Sound(refs[r], p, 0, s \in suspect)
    BY <1>6, <1>9, <1>10, SoundUp
  <2>2. s \notin suspect => p.path = <<>>
    <3>1. s \notin suspect => depth[s] = Len(core[s].path)
      BY <1>9 DEF Sound, Good
    <3> QED BY <1>6, <3>1, UpIs
  <2>3. Ready(o, e, p, listed[s], s \in suspect')
    BY <1>3, <1>9, <1>10, <2>2 DEF Ready
  <2>4. Moved(t, s, p, 0, listed[s], o)
    BY <1>1, <1>4, <1>6, <1>7, <1>8, <1>10, <2>1, <2>3 DEF Moved
  <2> QED BY <1>1, <1>5, <2>4, MovedKeeps
<1>11. ASSUME core' = core, suspect' = suspect \cup {s} PROVE NavInv'
  <2>1. \A r \in DOMAIN refs : refs[r].sess = s => Sound(refs[r], core[s], 0, s \in suspect')
    BY <1>6, <1>11, SoundLost
  <2>2. Ready(o, e, core[s], listed[s], s \in suspect')
    BY <1>3, <1>9, <1>11 DEF Ready
  <2>3. Moved(t, s, core[s], 0, listed[s], o)
    BY <1>1, <1>4, <1>6, <1>7, <1>8, <1>11, <2>1, <2>2 DEF Moved
  <2> QED BY <1>1, <1>5, <2>3, MovedKeeps
<1> QED BY <1>2, <1>10, <1>11

\* What a step that opens the item of the operation's reference starts from.
LEMMA OnOpen ==
  ASSUME IInv, NavInv, NEW t \in Thread, op[t].stage \in OnSession,
         NEW s, s = refs[op[t].ref].sess, NEW k, k = refs[op[t].ref].key, Opens(s, k)
  PROVE  /\ k \in Item /\ k \in Place /\ core[s] = Parent(k)
         /\ \A r \in DOMAIN refs : refs[r].sess = s => Sound(refs[r], k, depth[s] + 1, s \in suspect)
         /\ s \notin suspect => k \in refs[op[t].ref].means
<1>1. /\ op[t].ref \in DOMAIN refs /\ Fit(refs[op[t].ref]) /\ depth[s] \in Nat
      /\ \A r \in DOMAIN refs :
           refs[r].sess = s => Sound(refs[r], core[s], depth[s], s \in suspect)
  BY OnOwn
<1>2. k # None /\ core[s] = Parent(k)
  BY DEF Opens
<1>3. k \in Item /\ k \in Place
  <2>1. k \in Item
    BY <1>1, <1>2 DEF Fit, Full
  <2> QED BY <2>1, ParentIs
<1>4. \A r \in DOMAIN refs : refs[r].sess = s => Sound(refs[r], k, depth[s] + 1, s \in suspect)
  BY <1>1, <1>2, <1>3, SoundOpen
<1>5. s \notin suspect => k \in refs[op[t].ref].means
  <2>1. PICK e : e = refs[op[t].ref]
    OBVIOUS
  <2>2. Sound(e, core[s], depth[s], s \in suspect) /\ e.key = k
    BY <1>1, <2>1
  <2> QED BY <1>2, <2>1, <2>2 DEF Sound, Good
<1> QED BY <1>2, <1>3, <1>4, <1>5

\* A drill that opens its item, answered or not, leaves the keys good there or the
\* session suspect; one that does not leaves everything.
LEMMA DrillNav ==
  ASSUME IInv, NavInv, NEW t \in Thread, Drill(t) \/ DrillTimesOut(t)
  PROVE  NavInv'
<1> DEFINE s == refs[op[t].ref].sess
           k == refs[op[t].ref].key
           o == [op[t] EXCEPT !.stage = "drilled"]
<1>1. /\ op[t].stage \in OnSession /\ FALSE \notin astray'
      /\ UNCHANGED <<refs, restarted, saved>>
  BY DEF Drill, DrillTimesOut, At, disk, OnSession, NavInv
<1>2. \/ /\ Opens(s, k) /\ core' = [core EXCEPT ![s] = k]
         /\ depth' = [depth EXCEPT ![s] = @ + 1] /\ listed' = [listed EXCEPT ![s] = k]
         /\ op' = [op EXCEPT ![t] = o] /\ inUse' = inUse /\ suspect' = suspect
      \/ Release(t) /\ UNCHANGED <<core, depth, listed, suspect>>
      \/ /\ Opens(s, k) /\ core' = [core EXCEPT ![s] = k] /\ Release(t)
         /\ suspect' = suspect \cup {s} /\ UNCHANGED <<depth, listed>>
  BY DEF Drill, DrillTimesOut, Goes
<1>3. o.stage = "drilled" /\ o # Idle
      /\ \E st \in Stages \ {"idle", "relocate"} : o = [op[t] EXCEPT !.stage = st]
  <2>1. op \in [Thread -> [stage : Stages, ref : Nat, act : BOOLEAN, granted : Session]]
    BY DEF IInv, ShapeInv
  <2>2. o.stage = "drilled" /\ Idle.stage = "idle" /\ "drilled" \in Stages \ {"idle", "relocate"}
    BY <2>1 DEF Idle, Stages
  <2> QED BY <2>2
<1>4. Release(t) => /\ op' = [op EXCEPT ![t] = Idle]
                    /\ inUse' = IF op[t].act THEN inUse ELSE inUse \ {op[t].granted}
  BY DEF Release
<1> HIDE DEF s, k, o
<1>5. s = refs[op[t].ref].sess /\ k = refs[op[t].ref].key
  BY DEF s, k
<1>6. /\ s \in Session /\ core[s] \in Place /\ depth[s] \in Nat /\ listed[s] \in Place \cup {None}
      /\ \A r \in DOMAIN refs :
           refs[r].sess = s => Sound(refs[r], core[s], depth[s], s \in suspect)
      /\ op[t].ref \in DOMAIN refs
  BY <1>1, <1>5, OnOwn
<1>7. /\ core = [core EXCEPT ![s] = core[s]] /\ depth = [depth EXCEPT ![s] = depth[s]]
      /\ listed = [listed EXCEPT ![s] = listed[s]]
  BY <1>6, Unmoved
<1>8. Opens(s, k) =>
        /\ k \in Item /\ k \in Place
        /\ \A r \in DOMAIN refs : refs[r].sess = s => Sound(refs[r], k, depth[s] + 1, s \in suspect)
  BY <1>1, <1>5, OnOpen
<1>9. CASE /\ Opens(s, k) /\ core' = [core EXCEPT ![s] = k]
           /\ depth' = [depth EXCEPT ![s] = @ + 1] /\ listed' = [listed EXCEPT ![s] = k]
           /\ op' = [op EXCEPT ![t] = o] /\ inUse' = inUse /\ suspect' = suspect
  <2>1. k # None
    BY <1>9 DEF Opens
  <2>2. Ready(o, refs[op[t].ref], k, k, s \in suspect')
    BY <1>3, <1>5, <2>1 DEF Ready
  <2>3. depth' = [depth EXCEPT ![s] = depth[s] + 1] /\ depth[s] + 1 \in Nat
    BY <1>6, <1>9
  <2>4. Moved(t, s, k, depth[s] + 1, k, o)
    BY <1>1, <1>3, <1>8, <1>9, <2>2, <2>3 DEF Moved
  <2> QED BY <1>1, <1>5, <2>4, MovedKeeps
<1>10. CASE Release(t) /\ UNCHANGED <<core, depth, listed, suspect>>
  <2>1. Moved(t, s, core[s], depth[s], listed[s], Idle)
    BY <1>1, <1>4, <1>6, <1>7, <1>10 DEF Moved
  <2> QED BY <1>1, <1>5, <2>1, MovedKeeps
<1>11. CASE /\ Opens(s, k) /\ core' = [core EXCEPT ![s] = k] /\ Release(t)
            /\ suspect' = suspect \cup {s} /\ UNCHANGED <<depth, listed>>
  <2>1. \A r \in DOMAIN refs : refs[r].sess = s => Sound(refs[r], k, depth[s], s \in suspect')
    BY <1>6, <1>8, <1>11, SoundLost
  <2>2. Moved(t, s, k, depth[s], listed[s], Idle)
    BY <1>1, <1>4, <1>6, <1>7, <1>8, <1>11, <2>1 DEF Moved
  <2> QED BY <1>1, <1>5, <2>2, MovedKeeps
<1> QED BY <1>2, <1>9, <1>10, <1>11

\* What an operation opens on a session that is not suspect its reference may mean.
LEMMA OpenedIs ==
  ASSUME FALSE \notin astray, NEW r, NEW place, Opened(r, place),
         refs[r].sess \notin suspect => place \in refs[r].means
  PROVE  FALSE \notin astray'
BY DEF Opened

\* An action goes back to the root, or fails one level down.
LEMMA ActNav ==
  ASSUME IInv, NavInv, NEW t \in Thread, Act(t) \/ ActFails(t)
  PROVE  NavInv'
<1> DEFINE s == refs[op[t].ref].sess
           k == refs[op[t].ref].key
<1>1. /\ op[t].stage \in OnSession /\ Release(t)
      /\ UNCHANGED <<refs, restarted, saved, listed, suspect>>
  BY DEF Act, ActFails, At, disk, OnSession
<1>2. \/ /\ Opens(s, k) /\ \E p \in Up(k, depth[s] + 1) : core' = [core EXCEPT ![s] = p]
         /\ depth' = [depth EXCEPT ![s] = 0] /\ Opened(op[t].ref, k)
      \/ UNCHANGED <<core, depth, astray>>
      \/ /\ Opens(s, k) /\ core' = [core EXCEPT ![s] = k]
         /\ depth' = [depth EXCEPT ![s] = @ + 1] /\ UNCHANGED astray
  BY DEF Act, ActFails
<1>3. /\ op' = [op EXCEPT ![t] = Idle]
      /\ inUse' = IF op[t].act THEN inUse ELSE inUse \ {op[t].granted}
  BY <1>1 DEF Release
<1> HIDE DEF s, k
<1>4. s = refs[op[t].ref].sess /\ k = refs[op[t].ref].key /\ FALSE \notin astray
  BY DEF s, k, NavInv
<1>5. /\ s \in Session /\ core[s] \in Place /\ depth[s] \in Nat /\ listed[s] \in Place \cup {None}
      /\ \A r \in DOMAIN refs :
           refs[r].sess = s => Sound(refs[r], core[s], depth[s], s \in suspect)
      /\ depth[s] + 1 \in Nat
  BY <1>1, <1>4, OnOwn
<1>6. /\ core = [core EXCEPT ![s] = core[s]] /\ depth = [depth EXCEPT ![s] = depth[s]]
      /\ listed' = [listed EXCEPT ![s] = listed[s]]
  BY <1>1, <1>5, Unmoved
<1>7. Opens(s, k) =>
        /\ k \in Item /\ k \in Place
        /\ \A r \in DOMAIN refs : refs[r].sess = s => Sound(refs[r], k, depth[s] + 1, s \in suspect)
        /\ s \notin suspect => k \in refs[op[t].ref].means
  BY <1>1, <1>4, OnOpen
<1>8. ASSUME Opens(s, k), NEW p \in Up(k, depth[s] + 1), core' = [core EXCEPT ![s] = p],
             depth' = [depth EXCEPT ![s] = 0], Opened(op[t].ref, k)
      PROVE  NavInv'
  <2>1. FALSE \notin astray'
    BY <1>4, <1>7, <1>8, OpenedIs
  <2>2. p \in Place
    BY <1>5, <1>7, <1>8, UpIs
  <2>3. \A r \in DOMAIN refs : refs[r].sess = s => Sound(refs[r], p, 0, s \in suspect')
    BY <1>1, <1>5, <1>7, <1>8, SoundUp
  <2>4. Moved(t, s, p, 0, listed[s], Idle)
    BY <1>1, <1>3, <1>5, <1>6, <1>8, <2>2, <2>3 DEF Moved
  <2> QED BY <1>1, <1>4, <2>1, <2>4, MovedKeeps
<1>9. CASE UNCHANGED <<core, depth, astray>>
  <2>1. Moved(t, s, core[s], depth[s], listed[s], Idle)
    BY <1>1, <1>3, <1>5, <1>6, <1>9 DEF Moved
  <2> QED BY <1>1, <1>4, <1>9, <2>1, MovedKeeps
<1>10. CASE /\ Opens(s, k) /\ core' = [core EXCEPT ![s] = k]
            /\ depth' = [depth EXCEPT ![s] = @ + 1] /\ UNCHANGED astray
  <2>1. depth' = [depth EXCEPT ![s] = depth[s] + 1]
    BY <1>10
  <2>2. Moved(t, s, k, depth[s] + 1, listed[s], Idle)
    BY <1>1, <1>3, <1>5, <1>6, <1>7, <1>10, <2>1 DEF Moved
  <2> QED BY <1>1, <1>4, <1>10, <2>2, MovedKeeps
<1> QED BY <1>2, <1>8, <1>9, <1>10

\* A sequence is its front and its last element.
LEMMA FrontLast ==
  ASSUME NEW S, NEW w \in Seq(S), w # <<>>
  PROVE  /\ Front(w) \in Seq(S) /\ Len(Front(w)) + 1 = Len(w) /\ Last(w) \in S
         /\ Append(Front(w), Last(w)) = w
<1>1. Len(w) \in Nat /\ Len(w) # 0 /\ Len(w) - 1 \in 0 .. Len(w)
  OBVIOUS
<1>2. PICK v, n : v = SubSeq(w, 1, n) /\ n = Len(w) - 1
  OBVIOUS
<1>3. Front(w) = v /\ Last(w) = w[Len(w)] /\ w[Len(w)] \in S
  BY <1>1, <1>2 DEF Front, Last
<1>4. v \in Seq(S) /\ Len(v) = n
  BY <1>1, <1>2, First
<1>5. \A j \in 1 .. n : v[j] = w[j]
  <2>1. n \in Int /\ 1 \in Int /\ \A j \in 1 .. n : w[j] \in S
    BY <1>1, <1>2
  <2>2. \A j \in 1 .. n : v[j] = w[1 + j - 1]
    BY <1>1, <1>2, <1>4, <2>1, SubSeqProperties
  <2> QED BY <1>1, <1>2, <2>2
<1>6. PICK x : x = w[Len(w)]
  OBVIOUS
<1>7. /\ Append(v, x) \in Seq(S) /\ Len(Append(v, x)) = Len(w)
      /\ \A j \in 1 .. Len(w) : Append(v, x)[j] = w[j]
  <2>1. x \in S
    BY <1>3, <1>6
  <2>2. Append(v, x) \in Seq(S) /\ Len(Append(v, x)) = n + 1 /\ n + 1 = Len(w) /\ n \in Nat
    BY <1>1, <1>2, <1>4, <2>1
  <2>3. \A j \in 1 .. Len(w) : Append(v, x)[j] = IF j <= n THEN v[j] ELSE x
    BY <1>4, <2>1, <2>2
  <2>4. \A j \in 1 .. Len(w) : (j <= n => j \in 1 .. n) /\ (~(j <= n) => j = Len(w))
    BY <2>2
  <2> QED BY <1>5, <1>6, <2>2, <2>3, <2>4
<1>8. Append(v, x) = w
  BY <1>7, SeqEqual
<1> QED BY <1>1, <1>2, <1>3, <1>4, <1>6, <1>8

\* The item at the end of the recorded positions, from the root, is the key's.
LEMMA FreshIs ==
  ASSUME NEW e, NEW c, NEW d, Sound(e, c, d, FALSE), e.key # None, c.path = <<>>,
         e.path # <<>>, CanWalk(c, Front(e.path)), ~IsLeaf(Walked(c, Front(e.path)))
  PROVE  Child(Walked(c, Front(e.path)), Last(e.path)) = e.key
<1>1. PICK w, k : w = e.path /\ k = e.key
  OBVIOUS
<1>2. /\ w \in Seq(1 .. Width) /\ w # <<>> /\ k \in Item /\ k.path = w /\ c \in Place
      /\ c.search = k.search
  BY <1>1 DEF Sound, Fit, Full, Good
<1>3. Front(w) \in Seq(1 .. Width) /\ Last(w) \in 1 .. Width /\ Append(Front(w), Last(w)) = w
  BY <1>2, FrontLast
<1>4. PICK p : p = Walked(c, Front(w))
  OBVIOUS
<1>5. p \in Place /\ p.search = c.search /\ p.path = Front(w) /\ ~IsLeaf(p)
  BY <1>1, <1>2, <1>3, <1>4, WalkedIs
<1>6. PICK f : f = Child(p, Last(w))
  OBVIOUS
<1>7. f \in Item /\ f.search = k.search /\ f.path = w
  BY <1>2, <1>3, <1>5, <1>6, ChildIs
<1>8. f = [search |-> f.search, path |-> f.path] /\ k = [search |-> k.search, path |-> k.path]
  BY <1>2, <1>7, PlaceIs
<1>9. f = k
  BY <1>2, <1>7, <1>8
<1> QED BY <1>1, <1>4, <1>6, <1>9

\* From the root a recorded position can be walked to.
LEMMA WalkCan ==
  ASSUME NEW e, NEW c, NEW d, Sound(e, c, d, FALSE), e.key # None, c.path = <<>>
  PROVE  CanWalk(c, IF e.path = <<>> THEN <<>> ELSE Front(e.path))
<1>1. PICK w, k : w = e.path /\ k = e.key
  OBVIOUS
<1>2. /\ w \in Seq(1 .. Width) /\ (w = <<>> \/ w = k.path) /\ Len(k.path) <= Depth
      /\ Depth \in Nat
  BY <1>1, PlaceIs, SessionsAssumption DEF Sound, Fit, Full, Good
<1>3. CASE w = <<>>
  BY <1>1, <1>2, <1>3 DEF CanWalk
<1>4. CASE w # <<>>
  <2>1. Front(w) \in Seq(1 .. Width) /\ Len(Front(w)) + 1 = Len(w) /\ Len(w) <= Depth
    BY <1>2, <1>4, FrontLast
  <2>2. Len(Front(w)) \in Nat /\ Len(Front(w)) <= Depth
    BY <1>2, <2>1
  <2> QED BY <1>1, <1>4, <2>2 DEF CanWalk
<1> QED BY <1>3, <1>4

\* Walking to the recorded positions gives the reference the key it had, unless the
\* session is suspect.
LEMMA WalkNav ==
  ASSUME IInv, NavInv, NEW t \in Thread, Walk(t)
  PROVE  NavInv'
<1> DEFINE r == op[t].ref
           e == refs[r]
           s == e.sess
           c == core[s]
           ps == IF e.path = <<>> THEN <<>> ELSE Front(e.path)
           there == Walked(c, ps)
           fresh == Child(there, Last(e.path))
           f == [e EXCEPT !.key = fresh]
           o(st) == [op[t] EXCEPT !.stage = st]
<1>1. /\ op[t].stage = "walk" /\ op[t].stage \in OnSession
      /\ UNCHANGED <<restarted, saved, listed, inUse, suspect, astray>>
  BY DEF Walk, At, disk, OnSession
<1>2. /\ CanWalk(c, ps) => /\ core' = [core EXCEPT ![s] = there]
                           /\ depth' = [depth EXCEPT ![s] = @ + Len(ps)]
                           /\ refs' = IF e.path # <<>> /\ ~IsLeaf(there)
                                      THEN [refs EXCEPT ![r].key = fresh] ELSE refs
                           /\ op' = [op EXCEPT ![t] = o("resolved")]
      /\ ~CanWalk(c, ps) => /\ op' = [op EXCEPT ![t] = o("recover")]
                            /\ UNCHANGED <<core, depth, refs>>
  BY DEF Walk, Goes
<1>3. /\ r \in DOMAIN refs /\ s \in Session /\ Fit(e) /\ c \in Place /\ depth[s] \in Nat
      /\ listed[s] \in Place \cup {None}
      /\ \A x \in DOMAIN refs :
           refs[x].sess = s => Sound(refs[x], c, depth[s], s \in suspect)
      /\ Ready(op[t], e, c, listed[s], s \in suspect)
  BY <1>1, OnOwn
<1>4. e.key # None /\ (s \notin suspect => c.path = <<>>)
  BY <1>1, <1>3 DEF Ready
<1>5. Sound(e, c, depth[s], s \in suspect) /\ (s \notin suspect => Sound(e, c, depth[s], FALSE))
  BY <1>3 DEF Sound
<1>6. e.path \in Seq(1 .. Width) /\ ps \in Seq(1 .. Width) /\ Len(ps) \in Nat
  <2>1. e.path \in Seq(1 .. Width)
    BY <1>3 DEF Fit, Full
  <2>2. e.path # <<>> => Front(e.path) \in Seq(1 .. Width)
    BY <2>1, FrontLast
  <2> QED BY <2>1, <2>2
<1>7. ASSUME NEW st \in {"resolved", "recover"}
      PROVE  /\ o(st).stage = st /\ o(st) # Idle /\ o(st).ref = r /\ o(st).act = op[t].act
             /\ o(st).granted = op[t].granted
             /\ \E x \in Stages \ {"idle", "relocate"} : o(st) = [op[t] EXCEPT !.stage = x]
  <2>1. op \in [Thread -> [stage : Stages, ref : Nat, act : BOOLEAN, granted : Session]]
    BY DEF IInv, ShapeInv
  <2>2. o(st).stage = st /\ Idle.stage = "idle" /\ st # "idle" /\ st \in Stages \ {"idle", "relocate"}
    BY <2>1 DEF Idle, Stages
  <2> QED BY <2>1, <2>2
<1>8. /\ core = [core EXCEPT ![s] = c] /\ depth = [depth EXCEPT ![s] = depth[s]]
      /\ listed' = [listed EXCEPT ![s] = listed[s]] /\ FALSE \notin astray'
  BY <1>1, <1>3, Unmoved DEF NavInv
<1>9. CASE ~CanWalk(c, ps)
  <2>1. s \in suspect
    BY <1>4, <1>5, <1>9, WalkCan
  <2>2. Ready(o("recover"), e, c, listed[s], s \in suspect')
    BY <1>1, <1>7, <2>1 DEF Ready
  <2>3. Moved(t, s, c, depth[s], listed[s], o("recover"))
    <3> HIDE DEF o, ps
    <3>1. op' = [op EXCEPT ![t] = o("recover")] /\ UNCHANGED <<core, depth, refs>>
      BY <1>2, <1>9
    <3> QED BY <1>1, <1>3, <1>7, <1>8, <2>2, <3>1 DEF Moved
  <2> QED BY <1>1, <1>8, <2>3, MovedKeeps
<1>10. CASE CanWalk(c, ps)
  <2>1. /\ core' = [core EXCEPT ![s] = there] /\ depth' = [depth EXCEPT ![s] = depth[s] + Len(ps)]
        /\ refs' = IF e.path # <<>> /\ ~IsLeaf(there)
                   THEN [refs EXCEPT ![r].key = fresh] ELSE refs
        /\ op' = [op EXCEPT ![t] = o("resolved")]
    BY <1>2, <1>10
  <2>2. there \in Place /\ depth[s] + Len(ps) \in Nat
    BY <1>3, <1>6, <1>10, WalkedIs
  <2>3. \A x \in DOMAIN refs :
          refs[x].sess = s => Sound(refs[x], there, depth[s] + Len(ps), s \in suspect)
    BY <1>3, <1>6, <1>10, SoundWalk
  <2>4. CASE refs' = refs
    <3>1. Ready(o("resolved"), e, there, listed[s], s \in suspect')
      BY <1>7 DEF Ready
    <3>2. Moved(t, s, there, depth[s] + Len(ps), listed[s], o("resolved"))
      <4> HIDE DEF o, ps, there
      <4> QED BY <1>1, <1>3, <1>7, <1>8, <2>1, <2>2, <2>3, <2>4, <3>1 DEF Moved
    <3> QED BY <1>1, <1>8, <3>2, MovedKeeps
  <2>5. CASE e.path # <<>> /\ ~IsLeaf(there)
    <3>1. Last(e.path) \in 1 .. Width /\ ps = Front(e.path)
      BY <1>6, <2>5, FrontLast
    <3>2. fresh \in Item /\ fresh # None
      <4>1. fresh \in Item
        BY <2>2, <2>5, <3>1, ChildIs
      <4> QED BY <4>1, PlaceIs
    <3>3. s \notin suspect => fresh = e.key
      BY <1>4, <1>5, <1>10, <2>5, <3>1, FreshIs
    <3>4. refs' = [refs EXCEPT ![r] = f]
      BY <2>1, <2>5
    <3> HIDE DEF fresh, there, ps
    <3>5. Sound(f, there, depth[s] + Len(ps), s \in suspect) /\ f.sess = s /\ f.key = fresh
      <4>1. e \in Full /\ e.item \in e.means
        BY <1>3 DEF Fit
      <4>2. /\ f.key = fresh /\ f.sess = e.sess /\ f.path = e.path /\ f.means = e.means
            /\ f.item = e.item /\ f \in Full
        BY <3>2, <4>1 DEF Full
      <4>3. Sound(e, there, depth[s] + Len(ps), s \in suspect)
        BY <1>3, <2>3
      <4> HIDE DEF f
      <4>4. Fit(f)
        BY <4>1, <4>2 DEF Fit
      <4> QED BY <1>4, <3>3, <4>2, <4>3, <4>4 DEF Sound, Good
    <3> HIDE DEF f, o
    <3>6. /\ DOMAIN refs' = DOMAIN refs /\ refs'[r] = f
          /\ \A x \in DOMAIN refs : x # r => refs'[x] = refs[x]
      BY <1>3, <3>4
    <3>7. core'[s] = there /\ depth'[s] = depth[s] + Len(ps) /\ listed'[s] = listed[s]
      BY <1>1, <1>3, <2>1 DEF NavInv, PlacesInv
    <3>8. PlacesInv' /\ \A q \in Session : q # s => Same(q)
      BY <1>1, <1>3, <2>1, <2>2 DEF NavInv, PlacesInv, Same
    <3>9. Ready(o("resolved"), f, there, listed[s], s \in suspect')
      BY <1>7 DEF Ready
    <3>10. \A x \in DOMAIN refs' :
             refs'[x].sess = s => Sound(refs'[x], core'[s], depth'[s], s \in suspect')
      BY <1>1, <2>3, <3>5, <3>6, <3>7
    <3>11. /\ op[t].stage \in OnSession /\ s = refs[r].sess
           /\ PlacesInv' /\ core'[s] \in Place /\ \A q \in Session : q # s => Same(q)
           /\ suspect \subseteq suspect' /\ UNCHANGED <<restarted, saved>>
           /\ op' = [op EXCEPT ![t] = o("resolved")] /\ inUse' = inUse
           /\ o("resolved").stage \notin {"relocate", "idle"}
           /\ o("resolved").ref = r /\ o("resolved").act = op[t].act
           /\ o("resolved").granted = op[t].granted
      BY <1>1, <1>7, <2>1, <2>2, <3>7, <3>8
    <3>12. /\ DOMAIN refs \subseteq DOMAIN refs'
           /\ \A x \in DOMAIN refs : x # r => refs'[x] = refs[x]
           /\ refs'[r].sess = s /\ refs'[r].key # None
           /\ \A x \in DOMAIN refs' \ DOMAIN refs : refs'[x].sess = s /\ refs'[x].key # None
           /\ Ready(o("resolved"), refs'[r], core'[s], listed'[s], s \in suspect')
      BY <3>2, <3>5, <3>6, <3>7, <3>9
    <3>13. OwnStep(t, o("resolved"), s)
      BY <3>10, <3>11, <3>12 DEF OwnStep
    <3> QED BY <1>8, <3>13, OwnKeeps
  <2> QED BY <2>1, <2>4, <2>5
<1> QED BY <1>9, <1>10

\* What a minted reference holds.
Minted(s, item, path) ==
  [item |-> item, key |-> item, sess |-> s, path |-> path, means |-> {item}]

\* Minting adds that, or nothing.
LEMMA MintNew ==
  ASSUME NEW rs, Bound(rs), NEW s, NEW item, NEW path
  PROVE  \A r \in DOMAIN Mint(rs, s, item, path) \ DOMAIN rs :
           Mint(rs, s, item, path)[r] = Minted(s, item, path)
<1>1. PICK e : e = Minted(s, item, path)
  OBVIOUS
<1>2. Mint(rs, s, item, path) \in {rs, Append(rs, e)}
  BY <1>1 DEF Mint, Minted
<1>3. Len(rs) \in Nat /\ DOMAIN rs = 1 .. Len(rs) /\ rs \in Seq(Values(rs) \cup {e})
  <2>1. rs \in Seq(Values(rs)) /\ Values(rs) \subseteq Values(rs) \cup {e}
    BY DEF Bound
  <2>2. PICK S, T : S = Values(rs) /\ T = Values(rs) \cup {e}
    OBVIOUS
  <2>3. rs \in Seq(T)
    BY <2>1, <2>2
  <2> QED BY <2>2, <2>3, BoundShape
<1>4. PICK rt : rt = Append(rs, e)
  OBVIOUS
<1>5. DOMAIN rt = 1 .. Len(rs) + 1 /\ rt[Len(rs) + 1] = e
  BY <1>3, <1>4
<1>6. \A r \in DOMAIN rt \ DOMAIN rs : rt[r] = e
  BY <1>3, <1>5
<1> QED BY <1>1, <1>2, <1>4, <1>6

\* A minted reference to a place below the root is fit.
LEMMA MintedFit ==
  ASSUME NEW s \in Session, NEW item \in Item, NEW path \in Seq(1 .. Width)
  PROVE  Fit(Minted(s, item, path))
BY PlaceIs DEF Fit, Full, Minted

\* One element, or one more, as a sequence.
LEMMA OneMore ==
  ASSUME NEW S, NEW w \in Seq(S), NEW i \in S
  PROVE  /\ w \o <<i>> = Append(w, i) /\ w \o <<i>> \in Seq(S)
         /\ Len(w) = 1 => <<Last(w)>> = w
<1>1. Append(w, i) \in Seq(S) /\ w \o <<i>> \in Seq(S) /\ w \o <<i>> = Append(w, i)
  OBVIOUS
<1>2. ASSUME Len(w) = 1 PROVE <<Last(w)>> = w
  <2>0. Last(w) = w[Len(w)]
    BY DEF Last
  <2>1. Last(w) = w[1] /\ w[1] \in S
    <3>1. \A j \in 1 .. Len(w) : w[j] \in S
      OBVIOUS
    <3>2. 1 \in 1 .. Len(w)
      BY <1>2
    <3> QED BY <1>2, <2>0, <3>1, <3>2
  <2>2. PICK v : v = <<Last(w)>>
    OBVIOUS
  <2>3. v \in Seq(S) /\ Len(v) = 1 /\ v[1] = w[1]
    BY <2>1, <2>2
  <2>4. \A j \in 1 .. Len(v) : v[j] = w[j]
    BY <2>3
  <2> QED BY <1>2, <2>2, <2>3, <2>4, SeqEqual
<1> QED BY <1>1, <1>2

\* The positions recorded for an item of the list of e's item lead to it.
LEMMA ListedPath ==
  ASSUME NEW e, Fit(e), e.key # None, NEW i \in 1 .. Width,
         NEW v, v = (IF e.path = <<>> THEN <<Last(e.key.path)>> ELSE e.path) \o <<i>>
  PROVE  /\ v \in Seq(1 .. Width)
         /\ e.path = e.key.path \/ (e.path = <<>> /\ Len(e.key.path) = 1)
              => v = Append(e.key.path, i)
<1>1. PICK w, k : w = e.path /\ k = e.key
  OBVIOUS
<1>2. PICK kp : kp = k.path
  OBVIOUS
<1>3. /\ w \in Seq(1 .. Width) /\ kp \in Seq(1 .. Width) /\ kp # <<>>
  <2>1. k \in Item /\ w \in Seq(1 .. Width)
    BY <1>1 DEF Fit, Full
  <2> QED BY <1>2, <2>1, PlaceIs
<1>4. Last(kp) \in 1 .. Width
  BY <1>3, FrontLast
<1>5. PICK u : u = IF w = <<>> THEN <<Last(kp)>> ELSE w
  OBVIOUS
<1>6. u \in Seq(1 .. Width) /\ v = u \o <<i>>
  <2>1. w # <<>> => u = w
    BY <1>5
  <2>2. w = <<>> => u = <<Last(kp)>>
    BY <1>5
  <2>3. <<Last(kp)>> \in Seq(1 .. Width)
    BY <1>4
  <2>4. u \in Seq(1 .. Width)
    BY <1>3, <2>1, <2>2, <2>3
  <2> QED BY <1>1, <1>2, <1>5, <2>4
<1>7. v = Append(u, i) /\ v \in Seq(1 .. Width)
  BY <1>6, OneMore
<1>8. w = kp \/ (w = <<>> /\ Len(kp) = 1) => u = kp
  BY <1>3, <1>5, OneMore
<1> QED BY <1>1, <1>2, <1>7, <1>8

\* So the reference minted for it is as good as e.
LEMMA ListedSound ==
  ASSUME NEW e, NEW c, NEW d, NEW bad, Sound(e, c, d, bad), e.key # None,
         NEW got \in Place, ~IsLeaf(got), ~bad => got = e.key, NEW i \in 1 .. Width,
         NEW s \in Session, NEW v,
         v = (IF e.path = <<>> THEN <<Last(e.key.path)>> ELSE e.path) \o <<i>>
  PROVE  Child(got, i) # None /\ Sound(Minted(s, Child(got, i), v), c, d, bad)
<1>1. PICK ch, n : ch = Child(got, i) /\ n = Minted(s, ch, v)
  OBVIOUS
<1>2. ch \in Item /\ ch.search = got.search /\ ch.path = Append(got.path, i)
  BY <1>1, ChildIs
<1>3. v \in Seq(1 .. Width)
  BY ListedPath DEF Sound
<1>4. /\ Fit(n) /\ n.key = ch /\ n.key # None /\ n.sess = s /\ n.path = v /\ n.means = {ch}
  <2>1. n.key = ch /\ n.sess = s /\ n.path = v /\ n.means = {ch}
    BY <1>1 DEF Minted
  <2>2. Fit(n)
    BY <1>1, <1>2, <1>3, MintedFit
  <2>3. ch # None
    BY <1>2, PlaceIs
  <2> QED BY <2>1, <2>2, <2>3
<1>5. ASSUME ~bad PROVE Good(n, c, d)
  <2>1. got = e.key /\ Good(e, c, d)
    BY <1>5 DEF Sound
  <2>2. c.search = got.search /\ d = Len(c.path) /\ v = Append(got.path, i)
    BY <2>1, ListedPath DEF Good, Sound
  <2> QED BY <1>2, <1>4, <2>2 DEF Good
<1>6. Sound(n, c, d, bad)
  BY <1>4, <1>5 DEF Sound
<1> QED BY <1>1, <1>4, <1>6

\* The end of a drill opened the item of its reference, and mints one of what it
\* found, where it is.
LEMMA FinishNav ==
  ASSUME IInv, NavInv, NEW t \in Thread, NEW i \in 1 .. Width, Finish(t, i)
  PROVE  NavInv'
<1> DEFINE r == op[t].ref
           e == refs[r]
           s == e.sess
           c == core[s]
           got == listed[s]
           v == (IF e.path = <<>> THEN <<Last(e.key.path)>> ELSE e.path) \o <<i>>
<1>1. /\ op[t].stage = "drilled" /\ op[t].stage \in OnSession /\ Release(t)
      /\ UNCHANGED <<restarted, saved, core, depth, listed, suspect>>
  BY DEF Finish, At, disk, OnSession
<1>2. IF got = None THEN UNCHANGED <<refs, astray>>
      ELSE /\ Opened(r, got)
           /\ refs' = IF IsLeaf(got) THEN refs ELSE Mint(refs, s, Child(got, i), v)
  BY DEF Finish
<1>3. /\ r \in DOMAIN refs /\ s \in Session /\ Fit(e) /\ c \in Place /\ depth[s] \in Nat
      /\ got \in Place \cup {None}
      /\ \A x \in DOMAIN refs :
           refs[x].sess = s => Sound(refs[x], c, depth[s], s \in suspect)
      /\ Ready(op[t], e, c, got, s \in suspect)
  BY <1>1, OnOwn
<1>4. e.key # None /\ (s \notin suspect => got = e.key /\ e.key \in e.means)
  <2>1. e.key # None /\ (s \notin suspect => got = e.key)
    BY <1>1, <1>3 DEF Ready
  <2>2. Sound(e, c, depth[s], s \in suspect)
    BY <1>3
  <2> QED BY <2>1, <2>2 DEF Sound, Good
<1>5. /\ op' = [op EXCEPT ![t] = Idle]
      /\ inUse' = IF op[t].act THEN inUse ELSE inUse \ {op[t].granted}
  BY <1>1 DEF Release
<1>6. FALSE \notin astray'
  <2>1. CASE got = None
    BY <1>2, <2>1 DEF NavInv
  <2>2. CASE got # None
    <3>1. FALSE \notin astray /\ Opened(r, got)
      BY <1>2, <2>2 DEF NavInv
    <3> QED BY <1>4, <3>1, OpenedIs
  <2> QED BY <2>1, <2>2
<1>7. /\ core' = [core EXCEPT ![s] = c] /\ depth' = [depth EXCEPT ![s] = depth[s]]
      /\ listed' = [listed EXCEPT ![s] = got]
  BY <1>1, <1>3, Unmoved
<1>8. CASE refs' = refs
  <2>1. Moved(t, s, c, depth[s], got, Idle)
    BY <1>1, <1>3, <1>5, <1>7, <1>8 DEF Moved
  <2> QED BY <1>1, <1>6, <2>1, MovedKeeps
<1>9. CASE got # None /\ ~IsLeaf(got)
  <2> DEFINE item == Child(got, i)
  <2>1. refs' = Mint(refs, s, item, v) /\ Bound(refs)
    BY <1>2, <1>9 DEF IInv, ShapeInv
  <2>2. /\ Sound(Minted(s, item, v), c, depth[s], s \in suspect)
        /\ Minted(s, item, v).key # None
    <3>1. got \in Place /\ Sound(e, c, depth[s], s \in suspect)
      BY <1>3, <1>9
    <3>2. v = (IF e.path = <<>> THEN <<Last(e.key.path)>> ELSE e.path) \o <<i>>
      OBVIOUS
    <3>3. PICK d, bad : d = depth[s] /\ bad = (s \in suspect)
      OBVIOUS
    <3>4. /\ e.key # None /\ (~bad => got = e.key) /\ Sound(e, c, d, bad) /\ got \in Place
          /\ ~IsLeaf(got) /\ s \in Session
      BY <1>3, <1>4, <1>9, <3>1, <3>3
    <3> HIDE DEF got, s, c, e, v
    <3>5. Sound(Minted(s, item, v), c, d, bad) /\ item # None
      BY <3>2, <3>4, ListedSound
    <3>6. Minted(s, item, v).key = item
      BY DEF Minted
    <3> HIDE DEF item
    <3> QED BY <3>3, <3>5, <3>6
  <2> HIDE DEF v, item
  <2>3. /\ DOMAIN refs \subseteq DOMAIN refs' /\ \A x \in DOMAIN refs : refs'[x] = refs[x]
        /\ \A x \in DOMAIN refs' \ DOMAIN refs : refs'[x].sess = s
    BY <1>3, <2>1, MintAdds
  <2>4. \A x \in DOMAIN refs' \ DOMAIN refs : refs'[x] = Minted(s, item, v)
    BY <2>1, MintNew
  <2>5. \A x \in DOMAIN refs' : refs'[x].sess = s => Sound(refs'[x], c, depth[s], s \in suspect)
    BY <1>3, <2>2, <2>3, <2>4
  <2>6. PlacesInv' /\ \A q \in Session : Same(q)
    BY <1>1 DEF NavInv, PlacesInv, Same
  <2>7. OwnStep(t, Idle, s)
    <3>1. /\ op[t].stage \in OnSession /\ s = refs[r].sess
          /\ PlacesInv' /\ core'[s] \in Place /\ \A q \in Session : q # s => Same(q)
          /\ suspect \subseteq suspect' /\ UNCHANGED <<restarted, saved>>
      BY <1>1, <1>3, <2>6
    <3>2. /\ DOMAIN refs \subseteq DOMAIN refs' /\ refs'[r] = e
          /\ \A x \in DOMAIN refs : x # r => refs'[x] = refs[x]
          /\ \A x \in DOMAIN refs' \ DOMAIN refs : refs'[x].sess = s /\ refs'[x].key # None
      BY <1>3, <2>2, <2>3, <2>4
    <3>3. \A x \in DOMAIN refs' :
            refs'[x].sess = s => Sound(refs'[x], core'[s], depth'[s], s \in suspect')
      BY <1>1, <2>5
    <3> QED BY <1>5, <3>1, <3>2, <3>3 DEF OwnStep
  <2> QED BY <1>6, <2>7, OwnKeeps
<1>10. got = None \/ IsLeaf(got) => refs' = refs
  BY <1>2
<1> QED BY <1>8, <1>9, <1>10

-----------------------------------------------------------------------------
(* The steps that begin and give up operations.                             *)

\* Nothing changes but what is under way.
Quiet ==
  /\ UNCHANGED <<core, depth, listed, refs, suspect, saved, restarted, astray>>

\* Then what holds of the references and the snapshot does.
LEMMA QuietKeeps ==
  ASSUME NavInv, Quiet
  PROVE  /\ PlacesInv' /\ RefsInv' /\ SavedInv' /\ FALSE \notin astray'
<1>1. UNCHANGED <<core, depth, listed, refs, suspect, saved, restarted, astray>>
  BY DEF Quiet
<1>2. PlacesInv /\ RefsInv /\ SavedInv /\ FALSE \notin astray
  BY DEF NavInv
<1>3. PlacesInv'
  BY <1>1, <1>2 DEF PlacesInv
<1>4. RefsInv'
  BY <1>1, <1>2 DEF RefsInv
<1>5. SavedInv'
  BY <1>1, <1>2 DEF SavedInv
<1> QED BY <1>1, <1>2, <1>3, <1>4, <1>5

\* An operation that begins on its reference's own session finds it as it should.
LEMMA BeginsNav ==
  ASSUME IInv, NavInv, NEW t \in Thread, NEW r \in DOMAIN refs, NEW act \in BOOLEAN,
         op[t] = Idle, Begins(t, r, act, Tier(r), refs[r].sess), Quiet,
         \/ act = FALSE /\ inUse' = inUse \cup {refs[r].sess}
         \/ inUse' = inUse
  PROVE  NavInv'
<1> DEFINE s == refs[r].sess
           o == [stage |-> Tier(r), ref |-> r, act |-> act, granted |-> s]
<1>1. UNCHANGED <<core, depth, listed, refs, suspect, saved, restarted, astray>>
  BY DEF Quiet
<1>2. /\ op'[t] = o /\ \A u \in Thread : u # t => op'[u] = op[u]
  BY DEF Begins, IInv, ShapeInv
<1>3. /\ o.stage \in {"reset", "recover"} /\ (o.stage = "reset" <=> refs[r].key # None)
      /\ o.ref = r /\ o.granted = s
  BY DEF Tier
<1>4. act = FALSE => o.act = FALSE
  OBVIOUS
<1> HIDE DEF o
<1>5. ~Busy(t) /\ op[t].stage # "relocate"
  BY DEF Busy, Idle
<1>6. ReadyInv'
  <2> SUFFICES ASSUME NEW u \in Thread, op'[u].stage # "idle"
               PROVE  Ready(op'[u], refs[op'[u].ref], core[refs[op'[u].ref].sess],
                            listed[refs[op'[u].ref].sess], refs[op'[u].ref].sess \in suspect)
    BY <1>1 DEF ReadyInv, Busy
  <2>1. CASE u = t
    <3>1. Ready(o, refs[r], core[s], listed[s], s \in suspect)
      BY <1>3 DEF Ready
    <3> QED BY <1>2, <1>3, <2>1, <3>1
  <2>2. CASE u # t
    BY <1>2, <2>2 DEF NavInv, ReadyInv, Busy
  <2> QED BY <2>1, <2>2
<1>7. LeasedInv'
  BY <1>1, <1>2, <1>3 DEF NavInv, LeasedInv
<1>8. HeldInv'
  <2> SUFFICES ASSUME NEW q \in inUse'
               PROVE  \E u \in Thread : op'[u].stage # "idle" /\ ~op'[u].act /\ op'[u].granted = q
    BY DEF HeldInv, Busy
  <2>1. CASE q \in inUse
    <3>1. PICK u \in Thread : Busy(u) /\ ~op[u].act /\ op[u].granted = q
      BY <2>1 DEF NavInv, HeldInv
    <3>2. u # t
      BY <1>5, <3>1
    <3> QED BY <1>2, <3>1, <3>2 DEF Busy
  <2>2. CASE q \notin inUse
    <3>1. act = FALSE /\ q = s
      BY <2>2
    <3>2. ~op'[t].act
      <4>1. op'[t].act = FALSE
        BY <1>2, <1>4, <3>1
      <4> QED BY <4>1
    <3> QED BY <1>2, <1>3, <3>1, <3>2
  <2> QED BY <2>1, <2>2
<1>9. RecoveryInv'
  <2> SUFFICES ASSUME ~restarted, Recovery \notin suspect
               PROVE  /\ \A x \in DOMAIN refs : refs[x].sess = Recovery => refs[x].key # None
                      /\ \A u \in Thread : op'[u].stage # "idle" /\ op'[u].granted = Recovery
                                             => refs[op'[u].ref].sess = Recovery
                      /\ Staying' = {} => ~Corrected /\ depth[Recovery] = 0
    BY <1>1 DEF RecoveryInv, Busy, Corrected
  <2>1. /\ \A x \in DOMAIN refs : refs[x].sess = Recovery => refs[x].key # None
        /\ \A u \in Thread : Busy(u) /\ op[u].granted = Recovery => refs[op[u].ref].sess = Recovery
        /\ Staying = {} => ~Corrected /\ depth[Recovery] = 0
    BY DEF NavInv, RecoveryInv
  <2>2. \A u \in Thread : op'[u].stage # "idle" /\ op'[u].granted = Recovery
                            => refs[op'[u].ref].sess = Recovery
    BY <1>2, <1>3, <2>1 DEF Busy
  <2>3. \A x \in DOMAIN refs : Leaving(x)' => Leaving(x)
    BY <1>2, <1>3 DEF Leaving
  <2>4. Staying' = {} => Staying = {}
    BY <1>1, <2>3 DEF Staying
  <2> QED BY <2>1, <2>2, <2>4
<1> QED BY <1>6, <1>7, <1>8, <1>9, QuietKeeps DEF NavInv

\* An operation given up holds nothing any more.
LEMMA ExpiresNav ==
  ASSUME IInv, NavInv, NEW t \in Thread, Expires(t)
  PROVE  NavInv'
<1>1. /\ op[t].stage = "recover" /\ op' = [op EXCEPT ![t] = Idle] /\ Quiet
      /\ inUse' = IF op[t].act THEN inUse ELSE inUse \ {op[t].granted}
  BY DEF Expires, At, Release, disk, Quiet
<1>2. UNCHANGED <<core, depth, listed, refs, suspect, saved, restarted, astray>>
  BY <1>1 DEF Quiet
<1>3. /\ op'[t] = Idle /\ op'[t].stage = "idle" /\ \A u \in Thread : u # t => op'[u] = op[u]
  BY <1>1 DEF IInv, ShapeInv, Idle
<1>4. \A u \in Thread : op'[u].stage # "idle" => op'[u] = op[u] /\ Busy(u)
  BY <1>3 DEF Busy
<1>5. ReadyInv'
  BY <1>2, <1>4 DEF NavInv, ReadyInv, Busy
<1>6. LeasedInv'
  BY <1>2, <1>4 DEF NavInv, LeasedInv
<1>7. HeldInv'
  <2> SUFFICES ASSUME NEW q \in inUse'
               PROVE  \E u \in Thread : op'[u].stage # "idle" /\ ~op'[u].act /\ op'[u].granted = q
    BY DEF HeldInv, Busy
  <2>1. PICK u \in Thread : Busy(u) /\ ~op[u].act /\ op[u].granted = q
    BY <1>1 DEF NavInv, HeldInv
  <2>2. CASE u # t
    BY <1>3, <2>1, <2>2 DEF Busy
  <2>3. CASE u = t
    <3>1. ~op[t].act /\ op[t].granted = q
      BY <2>1, <2>3, Zenon
    <3>2. inUse' = inUse \ {op[t].granted}
      BY <1>1, <3>1, Zenon
    <3> QED BY <3>1, <3>2
  <2> QED BY <2>2, <2>3
<1>8. RecoveryInv'
  <2>1. \A x \in DOMAIN refs : Leaving(x)' <=> Leaving(x)
    BY <1>1, <1>3 DEF Leaving
  <2>2. Staying' = Staying /\ (Corrected' <=> Corrected)
    BY <1>2, <2>1 DEF Staying, Corrected
  <2>3. RecoveryInv
    BY DEF NavInv
  <2> QED BY <1>2, <1>4, <2>2, <2>3 DEF RecoveryInv, Busy
<1> QED BY <1>1, <1>5, <1>6, <1>7, <1>8, QuietKeeps DEF NavInv

-----------------------------------------------------------------------------
(* The steps onto another session.                                          *)

\* A reference that loses its key keeps the rest.
LEMMA RecycledSound ==
  ASSUME IInv, NavInv, NEW s, NEW r \in DOMAIN refs
  PROVE  Fit(Recycled(s)[r]) /\ core[refs[r].sess] \in Place
         /\ Recycled(s)[r].item = refs[r].item
<1>1. PICK e : e = refs[r]
  OBVIOUS
<1>2. Fit(e) /\ core[e.sess] \in Place
  BY <1>1 DEF NavInv, RefsInv, Sound
<1>3. Recycled(s)[r] = (IF e.sess = s THEN [e EXCEPT !.key = None] ELSE e)
  BY <1>1 DEF Recycled
<1>4. Fit([e EXCEPT !.key = None]) /\ [e EXCEPT !.key = None].item = e.item
  BY <1>2 DEF Fit, Full
<1> QED BY <1>1, <1>2, <1>3, <1>4

\* A reference bound to session s, where its item is found.
BoundTo(e, s) == [e EXCEPT !.key = e.item, !.sess = s, !.path = e.item.path]

\* It is good at the list that holds the item.
LEMMA BoundSound ==
  ASSUME NEW e, Fit(e), NEW s \in Session, NEW bad
  PROVE  /\ Parent(e.item) \in Place /\ Len(e.item.path) - 1 \in Nat
         /\ Sound(BoundTo(e, s), Parent(e.item), Len(e.item.path) - 1, bad)
<1>1. PICK f, k, p : f = BoundTo(e, s) /\ k = e.item /\ p = Parent(k)
  OBVIOUS
<1>2. k \in Item /\ e \in Full /\ k \in e.means
  BY <1>1 DEF Fit, Full
<1>3. /\ p \in Place /\ p.search = k.search /\ Len(k.path) = Len(p.path) + 1
      /\ Len(p.path) \in Nat /\ k.path \in Seq(1 .. Width)
  BY <1>1, <1>2, ParentIs, PlaceIs
<1>4. /\ f.key = k /\ f.sess = s /\ f.path = k.path /\ f.means = e.means /\ f.item = k
      /\ f \in Full
  BY <1>1, <1>2, <1>3 DEF BoundTo, Full
<1>5. Fit(f) /\ Good(f, p, Len(k.path) - 1)
  BY <1>2, <1>3, <1>4 DEF Fit, Good
<1>6. Len(k.path) - 1 \in Nat
  BY <1>3
<1> QED BY <1>1, <1>3, <1>5, <1>6 DEF Sound

\* A search on the next slot leaves the others' references as they are, and its
\* own are good at its root.
LEMMA NewSearchNav ==
  ASSUME Ordinary, IInv, NavInv, NEW t \in Thread, NEW q \in Search, NEW i \in 1 .. Width,
         NewSearch(t, q, i)
  PROVE  NavInv'
<1> DEFINE s == Slot
           item == Child(Root(q), i)
           rs == Recycled(s)
<1>1. /\ op[t] = Idle /\ CanLease /\ Bound(refs) /\ s \in Session /\ s # Recovery
      /\ core' = [core EXCEPT ![s] = Root(q)] /\ depth' = [depth EXCEPT ![s] = 0]
      /\ listed' = [listed EXCEPT ![s] = Root(q)] /\ suspect' = suspect \ {s}
      /\ UNCHANGED <<restarted, saved, inUse, op, astray>>
      /\ refs' = Mint(rs, s, item, <<>>)
  BY SlotIsSession DEF NewSearch, disk, IInv, ShapeInv
<1>2. /\ Root(q) \in Place /\ Root(q).search = q /\ Root(q).path = <<>>
      /\ item \in Item /\ item.search = q /\ Len(item.path) = 1
  <2>1. Root(q) = [search |-> q, path |-> <<>>] /\ Depth \in Nat /\ Depth # 0
    BY SessionsAssumption DEF Root
  <2>2. Root(q).search = q /\ Root(q).path = <<>>
    BY <2>1
  <2>3. <<>> \in Seq(1 .. Width) /\ Len(<<>>) = 0
    OBVIOUS
  <2>4. Root(q) \in Place
    <3>1. PICK p : p = Root(q)
      OBVIOUS
    <3>2. /\ p = [search |-> p.search, path |-> p.path] /\ p.search \in Search
          /\ p.path \in Seq(1 .. Width) /\ Len(p.path) <= Depth
      BY <2>1, <2>2, <2>3, <3>1
    <3> QED BY <3>1, <3>2, PlaceIs
  <2>5. ~IsLeaf(Root(q))
    BY <2>1, <2>2, <2>3 DEF IsLeaf
  <2>6. /\ item \in Item /\ item.search = Root(q).search
        /\ item.path = Append(Root(q).path, i)
    BY <2>4, <2>5, ChildIs
  <2>7. Len(Append(<<>>, i)) = 1
    OBVIOUS
  <2> QED BY <2>2, <2>4, <2>6, <2>7
<1> HIDE DEF s, item, rs
<1>3. /\ Bound(rs) /\ DOMAIN rs = DOMAIN refs
      /\ \A r \in DOMAIN refs : /\ rs[r].sess = refs[r].sess
                                /\ refs[r].sess = s => rs[r].key = None
                                /\ refs[r].sess # s => rs[r] = refs[r]
  BY <1>1, RecycledKeeps DEF rs
<1>4. /\ DOMAIN refs \subseteq DOMAIN refs' /\ \A r \in DOMAIN refs : refs'[r] = rs[r]
      /\ \A r \in DOMAIN refs' \ DOMAIN refs : refs'[r].sess = s
  BY <1>1, <1>3, MintAdds
<1>5. \A r \in DOMAIN refs' \ DOMAIN refs : refs'[r] = Minted(s, item, <<>>)
  BY <1>1, <1>3, MintNew
<1>6. Sound(Minted(s, item, <<>>), Root(q), 0, FALSE)
  <2>1. PICK n : n = Minted(s, item, <<>>)
    OBVIOUS
  <2>2. <<>> \in Seq(1 .. Width) /\ Len(<<>>) = 0
    OBVIOUS
  <2>3. Fit(n)
    BY <1>1, <1>2, <2>1, <2>2, MintedFit
  <2>4. n.key = item /\ n.means = {item} /\ n.path = <<>>
    BY <2>1 DEF Minted
  <2>5. Good(n, Root(q), 0)
    BY <1>2, <2>2, <2>4 DEF Good
  <2> QED BY <1>2, <2>1, <2>3, <2>5 DEF Sound
<1>7. \A r \in DOMAIN refs' :
        refs'[r].sess = s => Sound(refs'[r], Root(q), 0, s \in suspect')
  <2> SUFFICES ASSUME NEW r \in DOMAIN refs', refs'[r].sess = s
               PROVE  Sound(refs'[r], Root(q), 0, s \in suspect')
    OBVIOUS
  <2>1. CASE r \in DOMAIN refs
    <3>1. refs'[r].key = None
      BY <1>3, <1>4, <2>1
    <3>2. Fit(refs'[r])
      BY <1>4, <2>1, RecycledSound DEF rs
    <3> QED BY <1>2, <3>1, <3>2, SoundWithout
  <2>2. CASE r \notin DOMAIN refs
    BY <1>5, <1>6, <2>2 DEF Sound
  <2> QED BY <2>1, <2>2
<1>8. /\ PlacesInv' /\ core'[s] = Root(q) /\ depth'[s] = 0
      /\ \A p \in Session : p # s => Same(p)
  BY <1>1, <1>2 DEF NavInv, PlacesInv, Same
<1>9. \A r \in DOMAIN refs' : refs'[r].sess # s => r \in DOMAIN refs /\ refs'[r] = refs[r]
  BY <1>3, <1>4
<1>10. \A u \in Thread :
         u # t /\ Busy(u) => /\ op[u].granted # s /\ refs[op[u].ref].sess # s
                             /\ refs'[op[u].ref] = refs[op[u].ref]
  <2>1. \A r \in DOMAIN refs : refs[r].sess # s => refs'[r] = refs[r]
    BY <1>3, <1>4
  <2>2. \A u \in Thread : Busy(u) => op[u].granted # s /\ refs[op[u].ref].sess # s
    BY <1>1, SlotFree DEF s
  <2> QED BY <2>1, <2>2, BusyRef
<1>11. SlotStep(t, s)
  <2>1. core'[s] \in Place
    BY <1>2, <1>8
  <2> QED BY <1>1, <1>4, <1>7, <1>8, <1>9, <1>10, <2>1 DEF SlotStep
<1>12. Taken(t, s)
  <2>1. op'[t] = op[t] /\ op[t].stage = "idle"
    BY <1>1 DEF Idle
  <2>2. \A r \in DOMAIN refs : Leaving(r)' => Leaving(r)
    BY <1>1 DEF Leaving
  <2>3. Staying \subseteq Staying'
    BY <1>1, <1>3, <1>4, <2>2 DEF Staying
  <2> QED BY <1>1, <2>1, <2>3 DEF Taken, Busy
<1>13. FALSE \notin astray'
  BY <1>1 DEF NavInv
<1> QED BY <1>11, <1>12, <1>13, SlotKeeps

\* A reference bound to the session leased for its drill is good there, where no
\* other reference has a key.
LEMMA RelocateNav ==
  ASSUME IInv, NavInv, NEW t \in Thread, Relocate(t)
  PROVE  NavInv'
<1> DEFINE x == op[t].ref
           s == op[t].granted
           e == refs[x]
           p == Parent(e.item)
           d == Len(e.item.path) - 1
<1>1. /\ op[t].stage = "relocate" /\ op' = [op EXCEPT ![t] = [op[t] EXCEPT !.stage = "resolved"]]
      /\ core' = [core EXCEPT ![s] = p] /\ depth' = [depth EXCEPT ![s] = d]
      /\ suspect' = suspect \ {s}
      /\ UNCHANGED <<restarted, saved, inUse, listed, astray>>
      /\ refs' = [refs EXCEPT ![x].key = e.item, ![x].sess = s, ![x].path = e.item.path]
  BY DEF Relocate, Bind, Goes, At, disk
<1>2. /\ Busy(t) /\ x \in DOMAIN refs /\ s \in Session /\ s # Recovery
      /\ \A r \in DOMAIN refs : refs[r].sess = s => refs[r].key = None
      /\ op[t] \in [stage : Stages, ref : Nat, act : BOOLEAN, granted : Session]
  BY <1>1, BusyRef DEF Busy, IInv, ShapeInv, NavInv, LeasedInv
<1>3. Fit(e) /\ \A r \in DOMAIN refs : Fit(refs[r])
  BY <1>2 DEF NavInv, RefsInv, Sound
<1>4. DOMAIN refs' = DOMAIN refs /\ refs'[x] = BoundTo(e, s) /\ refs'[x].sess = s
      /\ \A r \in DOMAIN refs : r # x => refs'[r] = refs[r]
  <2>1. DOMAIN refs' = DOMAIN refs /\ refs'[x] = BoundTo(e, s)
        /\ \A r \in DOMAIN refs : r # x => refs'[r] = refs[r]
    <3> DEFINE rt == [refs EXCEPT ![x].key = refs[x].item, ![x].sess = s,
                                  ![x].path = refs[x].item.path]
    <3> HIDE DEF x, s
    <3>1. /\ DOMAIN rt = DOMAIN refs /\ rt[x] = BoundTo(refs[x], s)
          /\ \A r \in DOMAIN refs : r # x => rt[r] = refs[r]
      BY <1>2 DEF BoundTo
    <3>2. refs' = rt
      BY <1>1
    <3> HIDE DEF rt
    <3> QED BY <3>1, <3>2
  <2>2. BoundTo(e, s).sess = s
    BY <1>3 DEF BoundTo, Fit, Full
  <2> QED BY <2>1, <2>2
<1>5. p \in Place /\ d \in Nat /\ Sound(BoundTo(e, s), p, d, s \in suspect')
  BY <1>2, <1>3, BoundSound
<1>6. /\ op'[t].stage = "resolved" /\ op'[t].granted = s
      /\ op'[t] = [op[t] EXCEPT !.stage = op'[t].stage]
      /\ \A u \in Thread : u # t => op'[u] = op[u]
  BY <1>1, <1>2 DEF IInv, ShapeInv
<1> HIDE DEF x, s, e, p, d
<1>7. \A r \in DOMAIN refs' : refs'[r].sess = s => Sound(refs'[r], p, d, s \in suspect')
  <2> SUFFICES ASSUME NEW r \in DOMAIN refs, r # x, refs[r].sess = s
               PROVE  Sound(refs[r], p, d, s \in suspect')
    BY <1>4, <1>5
  <2> QED BY <1>2, <1>3, <1>5, SoundWithout
<1>8. /\ PlacesInv' /\ core'[s] = p /\ depth'[s] = d
      /\ \A q \in Session : q # s => Same(q)
  BY <1>1, <1>2, <1>5 DEF NavInv, PlacesInv, Same
<1>9. \A u \in Thread :
        u # t /\ Busy(u) => /\ op[u].granted # s
                            /\ refs[op[u].ref].sess = s => /\ op[u].stage \notin OnSession
                                                           /\ refs[op[u].ref].key = None
                            /\ refs'[op[u].ref] = refs[op[u].ref]
  <2> SUFFICES ASSUME NEW u \in Thread, u # t, Busy(u)
               PROVE  /\ op[u].granted # s
                      /\ refs[op[u].ref].sess = s => /\ op[u].stage \notin OnSession
                                                     /\ refs[op[u].ref].key = None
                      /\ refs'[op[u].ref] = refs[op[u].ref]
    OBVIOUS
  <2>1. op[u].ref \in DOMAIN refs /\ op[u].ref # x /\ op[u].granted # s
    BY <1>2, BusyRef DEF IInv, OpInv, x, s
  <2>2. refs[op[u].ref].sess = s => op[u].stage \notin OnSession
    BY <1>1 DEF IInv, CursorInv, Works, Cursor, OnSession, s
  <2> QED BY <1>2, <1>4, <2>1, <2>2
<1>10. SlotStep(t, s)
  <2>1. core'[s] \in Place
    BY <1>5, <1>8
  <2>2. /\ DOMAIN refs \subseteq DOMAIN refs'
        /\ \A r \in DOMAIN refs' : refs'[r].sess # s => r \in DOMAIN refs /\ refs'[r] = refs[r]
    BY <1>4
  <2>3. \A r \in DOMAIN refs' :
          refs'[r].sess = s => Sound(refs'[r], core'[s], depth'[s], s \in suspect')
    BY <1>7, <1>8
  <2>4. UNCHANGED <<restarted, saved>> /\ \A u \in Thread : u # t => op'[u] = op[u]
    BY <1>1, <1>6
  <2>5. \A u \in Thread :
          u # t /\ Busy(u) =>
            /\ refs'[op[u].ref].sess = refs[op[u].ref].sess
            /\ refs[op[u].ref].key = None => refs'[op[u].ref].key = None
    BY <1>9
  <2> QED BY <1>2, <1>8, <1>9, <2>1, <2>2, <2>3, <2>4, <2>5 DEF SlotStep
<1>11. Taken(t, s)
  <2>1. \A r \in DOMAIN refs : Leaving(r)' => Leaving(r)
    BY <1>6 DEF Leaving
  <2>2. Leaving(x)
    BY <1>1 DEF Leaving, x
  <2>3. Staying \subseteq Staying'
    BY <1>4, <2>1, <2>2 DEF Staying
  <2> QED BY <1>1, <1>2, <1>6, <2>3 DEF Taken
<1>12. FALSE \notin astray'
  BY <1>1 DEF NavInv
<1> QED BY <1>10, <1>11, <1>12, SlotKeeps

\* So is one bound to the session its item is searched again on.
LEMMA RecoverNav ==
  ASSUME Ordinary, IInv, NavInv, NEW t \in Thread, Recover(t)
  PROVE  NavInv'
<1> DEFINE x == op[t].ref
           s == Slot
           rs == Recycled(s)
           e == rs[x]
           p == Parent(e.item)
           d == Len(e.item.path) - 1
<1>1. /\ op[t].stage = "recover" /\ op' = [op EXCEPT ![t] = [op[t] EXCEPT !.stage = "resolved"]]
      /\ core' = [core EXCEPT ![s] = p] /\ depth' = [depth EXCEPT ![s] = d]
      /\ listed' = [listed EXCEPT ![s] = None]
      /\ suspect' = suspect \ {s} /\ CanLease
      /\ UNCHANGED <<restarted, saved, inUse, astray>>
      /\ refs' = [rs EXCEPT ![x].key = e.item, ![x].sess = s, ![x].path = e.item.path]
  BY DEF Recover, Bind, Goes, At, disk
<1>2. /\ Busy(t) /\ x \in DOMAIN refs /\ s \in Session /\ s # Recovery /\ Bound(refs)
      /\ op[t] \in [stage : Stages, ref : Nat, act : BOOLEAN, granted : Session]
  BY <1>1, BusyRef, SlotIsSession DEF Busy, IInv, ShapeInv
<1>3. /\ DOMAIN rs = DOMAIN refs
      /\ \A r \in DOMAIN refs : /\ rs[r].sess = refs[r].sess
                                /\ refs[r].sess = s => rs[r].key = None
                                /\ refs[r].sess # s => rs[r] = refs[r]
  BY <1>2, RecycledKeeps
<1>4. Fit(e) /\ \A r \in DOMAIN refs : Fit(rs[r])
  BY <1>2, RecycledSound
<1>5. DOMAIN refs' = DOMAIN refs /\ refs'[x] = BoundTo(e, s) /\ refs'[x].sess = s
      /\ \A r \in DOMAIN refs : r # x => refs'[r] = rs[r]
  <2>1. DOMAIN refs' = DOMAIN refs /\ refs'[x] = BoundTo(e, s)
        /\ \A r \in DOMAIN refs : r # x => refs'[r] = rs[r]
    <3> DEFINE rt == [rs EXCEPT ![x].key = rs[x].item, ![x].sess = s,
                                ![x].path = rs[x].item.path]
    <3> HIDE DEF x, s, rs
    <3>1. /\ DOMAIN rt = DOMAIN rs /\ rt[x] = BoundTo(rs[x], s)
          /\ \A r \in DOMAIN rs : r # x => rt[r] = rs[r]
      BY <1>2, <1>3 DEF BoundTo
    <3>2. refs' = rt
      BY <1>1
    <3> HIDE DEF rt
    <3> QED BY <1>3, <3>1, <3>2
  <2>2. BoundTo(e, s).sess = s
    BY <1>4 DEF BoundTo, Fit, Full
  <2> QED BY <2>1, <2>2
<1>6. p \in Place /\ d \in Nat /\ Sound(BoundTo(e, s), p, d, s \in suspect')
  BY <1>2, <1>4, BoundSound
<1>7. /\ op'[t].stage = "resolved" /\ op'[t].granted = op[t].granted
      /\ op'[t] = [op[t] EXCEPT !.stage = op'[t].stage]
      /\ \A u \in Thread : u # t => op'[u] = op[u]
  BY <1>1, <1>2 DEF IInv, ShapeInv
<1>8. \A u \in Thread : Busy(u) => op[u].granted # s /\ refs[op[u].ref].sess # s
  BY <1>1, SlotFree
<1>9. \A r \in DOMAIN refs : r # x /\ refs[r].sess # s => refs'[r] = refs[r]
  BY <1>3, <1>5
<1>10. \A u \in Thread : u # t /\ Busy(u) => refs'[op[u].ref] = refs[op[u].ref]
  BY <1>2, <1>8, <1>9, BusyRef DEF IInv, OpInv
\* With a session in order a recovery is of a reference without a key, and those on
\* the recovery session have one.
<1>11. ~restarted /\ Recovery \notin suspect => refs[x].sess # Recovery
  <2> SUFFICES ASSUME ~restarted, Recovery \notin suspect, refs[x].sess = Recovery PROVE FALSE
    OBVIOUS
  <2>1. refs[x].key # None
    BY <1>2 DEF NavInv, RecoveryInv
  <2>2. Ready(op[t], refs[x], core[refs[x].sess], listed[refs[x].sess], refs[x].sess \in suspect)
    BY <1>2 DEF NavInv, ReadyInv
  <2> QED BY <1>1, <2>1, <2>2 DEF Ready
<1>12. ~restarted /\ Recovery \notin suspect => op[t].granted # Recovery
  BY <1>2, <1>11 DEF NavInv, RecoveryInv
<1> HIDE DEF x, s, rs, e, p, d
<1>13. \A r \in DOMAIN refs' : refs'[r].sess = s => Sound(refs'[r], p, d, s \in suspect')
  <2> SUFFICES ASSUME NEW r \in DOMAIN refs, r # x, rs[r].sess = s
               PROVE  Sound(rs[r], p, d, s \in suspect')
    BY <1>5, <1>6
  <2> QED BY <1>3, <1>4, <1>6, SoundWithout
<1>14. /\ PlacesInv' /\ core'[s] = p /\ depth'[s] = d
       /\ \A q \in Session : q # s => Same(q)
  BY <1>1, <1>2, <1>6 DEF NavInv, PlacesInv, Same
<1>15. SlotStep(t, s)
  <2>1. core'[s] \in Place
    BY <1>6, <1>14
  <2>2. /\ DOMAIN refs \subseteq DOMAIN refs'
        /\ \A r \in DOMAIN refs' : refs'[r].sess # s => r \in DOMAIN refs /\ refs'[r] = refs[r]
    BY <1>3, <1>5, <1>9
  <2>3. \A r \in DOMAIN refs' :
          refs'[r].sess = s => Sound(refs'[r], core'[s], depth'[s], s \in suspect')
    BY <1>13, <1>14
  <2>4. UNCHANGED <<restarted, saved>> /\ \A u \in Thread : u # t => op'[u] = op[u]
    BY <1>1, <1>7
  <2>5. \A u \in Thread :
          u # t /\ Busy(u) =>
            /\ op[u].granted # s /\ refs[op[u].ref].sess # s
            /\ refs'[op[u].ref].sess = refs[op[u].ref].sess
            /\ refs[op[u].ref].key = None => refs'[op[u].ref].key = None
    BY <1>8, <1>10
  <2> QED BY <1>2, <1>14, <2>1, <2>2, <2>3, <2>4, <2>5 DEF SlotStep
<1>16. Taken(t, s)
  <2>1. \A r \in DOMAIN refs : Leaving(r)' => Leaving(r)
    BY <1>7 DEF Leaving
  <2>2. ~restarted /\ Recovery \notin suspect => Staying \subseteq Staying'
    BY <1>2, <1>5, <1>9, <1>11, <2>1 DEF Staying
  <2> QED BY <1>1, <1>2, <1>7, <1>12, <2>2 DEF Taken
<1>17. FALSE \notin astray'
  BY <1>1 DEF NavInv
<1> QED BY <1>15, <1>16, <1>17, SlotKeeps

\* Beginning to act changes nothing but what is under way.
LEMMA BeginActNav ==
  ASSUME IInv, NavInv, NEW t \in Thread, NEW r \in DOMAIN refs, BeginAct(t, r)
  PROVE  NavInv'
<1>1. /\ op[t] = Idle /\ Begins(t, r, TRUE, Tier(r), refs[r].sess) /\ inUse' = inUse /\ Quiet
  BY DEF BeginAct, Quiet, disk
<1> QED BY <1>1, BeginsNav

\* So does beginning to drill, on the reference's session; a session leased for it
\* has no keys, and the recovery session keeps its reference.
LEMMA BeginDrillNav ==
  ASSUME Ordinary, IInv, NavInv, NEW t \in Thread, NEW r \in DOMAIN refs, BeginDrill(t, r)
  PROVE  NavInv'
<1>1. CASE refs[r].sess \notin inUse
  <2>1. /\ op[t] = Idle /\ Begins(t, r, FALSE, Tier(r), refs[r].sess)
        /\ inUse' = inUse \cup {refs[r].sess} /\ Quiet
    BY <1>1 DEF BeginDrill, Quiet, disk
  <2> QED BY <2>1, BeginsNav
<1>2. CASE refs[r].sess \in inUse
  <2> DEFINE s == Slot
             o == [stage |-> "relocate", ref |-> r, act |-> FALSE, granted |-> s]
  <2>1. /\ op[t] = Idle /\ CanLease /\ Bound(refs) /\ s \in Session /\ s # Recovery
        /\ op' = [op EXCEPT ![t] = o] /\ inUse' = inUse \cup {s}
        /\ refs' = Recycled(s) /\ depth' = [depth EXCEPT ![s] = 0]
        /\ listed' = [listed EXCEPT ![s] = None]
        /\ UNCHANGED <<core, suspect, restarted, saved, astray>>
        /\ \A u \in Thread : op[u].ref # r
    BY <1>2, SlotIsSession DEF BeginDrill, Begins, Ordinary, disk, IInv, ShapeInv
  <2>2. /\ o.stage = "relocate" /\ o.ref = r /\ ~o.act /\ o.granted = s
        /\ op'[t] = o /\ \A u \in Thread : u # t => op'[u] = op[u]
    BY <2>1 DEF IInv, ShapeInv
  <2>3. ~Busy(t)
    BY <2>1 DEF Busy, Idle
  <2>4. \A u \in Thread : Busy(u) => op[u].granted # s /\ refs[op[u].ref].sess # s
    BY <2>1, SlotFree
  <2>5. /\ DOMAIN refs' = DOMAIN refs
        /\ \A x \in DOMAIN refs : /\ refs'[x].sess = refs[x].sess
                                  /\ refs[x].sess = s => refs'[x].key = None
                                  /\ refs[x].sess # s => refs'[x] = refs[x]
    BY <2>1, RecycledKeeps
  <2>6. \A x \in DOMAIN refs : Fit(refs'[x]) /\ core[refs[x].sess] \in Place
    BY <2>1, RecycledSound
  <2> HIDE DEF s, o
  <2>7. /\ PlacesInv' /\ core'[s] = core[s] /\ \A q \in Session : q # s => Same(q)
    BY <2>1 DEF NavInv, PlacesInv, Same
  <2>8. SlotStep(t, s)
    <3>1. \A x \in DOMAIN refs' :
            refs'[x].sess = s => Sound(refs'[x], core'[s], depth'[s], s \in suspect')
      <4> SUFFICES ASSUME NEW x \in DOMAIN refs, refs[x].sess = s
                   PROVE  Sound(refs'[x], core[s], depth'[s], s \in suspect')
        BY <2>5, <2>7
      <4>1. Fit(refs'[x]) /\ core[s] \in Place /\ refs'[x].key = None
        BY <2>5, <2>6
      <4> QED BY <4>1, SoundWithout
    <3>2. \A u \in Thread : u # t /\ Busy(u) => refs'[op[u].ref] = refs[op[u].ref]
      BY <2>4, <2>5, BusyRef
    <3>3. /\ DOMAIN refs \subseteq DOMAIN refs'
          /\ \A x \in DOMAIN refs' : refs'[x].sess # s => x \in DOMAIN refs /\ refs'[x] = refs[x]
      BY <2>5
    <3>4. core[s] \in Place => core'[s] \in Place
      BY <2>7
    <3> QED BY <2>1, <2>2, <2>4, <2>7, <3>1, <3>2, <3>3, <3>4 DEF SlotStep
  <2>9. ASSUME ~restarted, Recovery \notin suspect, NEW y \in Staying PROVE \E x : x \in Staying'
    <3>1. y \in DOMAIN refs /\ refs[y].sess = Recovery /\ ~Leaving(y)
      BY <2>9 DEF Staying
    <3>2. \A x \in DOMAIN refs : Leaving(x)' => Leaving(x) \/ x = r
      BY <2>2 DEF Leaving
    <3>3. CASE y # r
      <4>1. y \in Staying'
        BY <2>1, <2>5, <3>1, <3>2, <3>3 DEF Staying
      <4> QED BY <4>1
    <3>4. CASE y = r
      <4>1. PICK u \in Thread : Busy(u) /\ ~op[u].act /\ op[u].granted = Recovery
        BY <1>2, <3>1, <3>4 DEF NavInv, HeldInv
      <4>2. PICK x : x = op[u].ref
        OBVIOUS
      <4>3. x \in DOMAIN refs /\ refs[x].sess = Recovery /\ x # r
        BY <2>1, <2>9, <4>1, <4>2, BusyRef DEF NavInv, RecoveryInv
      <4>4. ~Leaving(x)
        <5> SUFFICES ASSUME NEW v \in Thread, op[v].stage = "relocate", op[v].ref = x PROVE FALSE
          BY DEF Leaving
        <5>1. v = u
          BY <4>1, <4>2 DEF IInv, OpInv, Busy
        <5> QED BY <4>1, <5>1 DEF NavInv, LeasedInv
      <4>5. x \in Staying'
        BY <2>1, <2>5, <3>2, <4>3, <4>4 DEF Staying
      <4> QED BY <4>5
    <3> QED BY <3>3, <3>4
  <2>10. Taken(t, s)
    <3>1. ~restarted /\ Recovery \notin suspect /\ Staying # {} => Staying' # {}
      BY <2>9
    <3>2. op'[t].stage = "relocate" /\ op'[t].granted = s /\ ~op'[t].act
      <4>1. op'[t].act = o.act /\ op'[t].stage = o.stage /\ op'[t].granted = o.granted
        BY <2>2
      <4> QED BY <2>2, <4>1, Zenon
    <3>3. \A q \in inUse' : q \notin inUse => q = s
      BY <2>1
    <3>4. \A x \in DOMAIN refs' : refs'[x].sess = s => refs'[x].key = None
      BY <2>5
    <3> QED BY <2>1, <2>3, <3>1, <3>2, <3>3, <3>4 DEF Taken
  <2>11. FALSE \notin astray'
    BY <2>1 DEF NavInv
  <2> QED BY <2>8, <2>10, <2>11, SlotKeeps
<1> QED BY <1>1, <1>2

-----------------------------------------------------------------------------
(* The category correction, the snapshot and the restart.                   *)

\* The first item of the second category is an item, two levels below the root.
LEMMA AlbumIs ==
  ASSUME "correct" \in Allowed, NEW k \in Item
  PROVE  /\ Album(k) \in Item /\ Album(k) \in Place /\ Album(k) # None
         /\ Album(k).path \in Seq(1 .. Width) /\ Len(Album(k).path) = 2
<1>1. PICK a, w : a = Album(k) /\ w = <<2, 1>>
  OBVIOUS
<1>2. /\ k \in Place /\ k = [search |-> k.search, path |-> k.path] /\ k.search \in Search
  BY PlaceIs
<1>3. a = [search |-> k.search, path |-> w]
  <2>1. a = [k EXCEPT !.path = w]
    BY <1>1 DEF Album
  <2> QED BY <1>2, <2>1
<1>4. a.search = k.search /\ a.path = w
  BY <1>3
<1>5. Width \in Nat /\ Depth \in Nat /\ Width >= 2 /\ Depth >= 2
  BY PlaceAssumption, SessionsAssumption
<1>6. w \in Seq(1 .. Width) /\ Len(w) = 2 /\ w # <<>> /\ Len(w) <= Depth
  <2>1. 2 \in 1 .. Width /\ 1 \in 1 .. Width
    BY <1>5
  <2>2. w \in Seq(1 .. Width) /\ Len(w) = 2
    BY <1>1, <2>1
  <2> QED BY <1>5, <2>2
<1>7. a \in Place
  BY <1>2, <1>3, <1>4, <1>6, PlaceIs
<1>8. a \in Item /\ a # None
  <2>1. a \in Item
    BY <1>4, <1>6, <1>7, PlaceIs
  <2> QED BY <2>1, PlaceIs
<1> QED BY <1>1, <1>4, <1>6, <1>7, <1>8

\* With every operation over and nothing reserved, little is left to say.
LEMMA AllQuiet ==
  ASSUME \A u \in Thread : op'[u] = Idle, inUse' = {}
  PROVE  /\ ReadyInv' /\ LeasedInv' /\ HeldInv'
         /\ \A u \in Thread : ~Busy(u)' /\ op'[u].stage # "relocate"
<1>1. \A u \in Thread : op'[u].stage = "idle"
  BY DEF Idle
<1> QED BY <1>1 DEF ReadyInv, LeasedInv, HeldInv, Busy

\* A correction binds its reference where the recovery session is, and leaves the
\* others there on a suspect session.
LEMMA ActCorrectedNav ==
  ASSUME IInv, NavInv, NEW t \in Thread, ActCorrected(t)
  PROVE  NavInv'
<1> DEFINE x == op[t].ref
           e == refs[x]
           s == e.sess
           k == e.key
           album == Album(e.item)
           tracked == IF s = Recovery THEN depth[s] + 1 ELSE depth[Recovery]
           f == [e EXCEPT !.key = album, !.sess = Recovery, !.path = album.path,
                          !.means = @ \cup {album}]
<1>1. /\ "correct" \in Allowed /\ suspect = {} /\ saved = None /\ ~restarted
      /\ op[t].stage = "resolved" /\ op[t].stage \in OnSession /\ op[t].act
      /\ op' = [op EXCEPT ![t] = Idle] /\ Opens(s, k)
      /\ inUse' = IF op[t].act THEN inUse ELSE inUse \ {op[t].granted}
      /\ UNCHANGED <<restarted, saved, listed, astray>>
  BY DEF ActCorrected, Undisturbed, Release, At, disk, OnSession
<1>2. /\ \E left \in {k} \cup Up(k, depth[s] + 1), p \in Up(album, tracked + 2) :
           /\ core' = [core EXCEPT ![s] = left, ![Recovery] = p]
           /\ depth' = [depth EXCEPT ![s] = IF left = k THEN @ + 1 ELSE 0, ![Recovery] = 0]
      /\ refs' = [refs EXCEPT ![x] = f]
      /\ suspect' = IF \E o \in DOMAIN refs : refs[o].sess = Recovery
                    THEN suspect \cup {Recovery} ELSE suspect
  BY DEF ActCorrected
<1>3. /\ x \in DOMAIN refs /\ s \in Session /\ Fit(e) /\ depth[s] \in Nat
      /\ Recovery \in Session /\ depth[Recovery] \in Nat
  <2>1. x \in DOMAIN refs /\ s \in Session /\ Fit(e) /\ depth[s] \in Nat
    BY <1>1, OnOwn
  <2>2. Recovery \in Session
    BY SessionsAssumption DEF Recovery, Session
  <2>3. depth[Recovery] \in Nat
    BY <2>2 DEF NavInv, PlacesInv
  <2> QED BY <2>1, <2>2, <2>3
<1>4. PICK left \in {k} \cup Up(k, depth[s] + 1), p \in Up(album, tracked + 2) :
           /\ core' = [core EXCEPT ![s] = left, ![Recovery] = p]
           /\ depth' = [depth EXCEPT ![s] = IF left = k THEN @ + 1 ELSE 0, ![Recovery] = 0]
  BY <1>2
<1>5. /\ k \in Item /\ k \in Place
      /\ \A r \in DOMAIN refs : refs[r].sess = s => Sound(refs[r], k, depth[s] + 1, s \in suspect)
  BY <1>1, OnOpen
<1>6. /\ e.item \in Item /\ album \in Item /\ album \in Place /\ album # None
      /\ album.path \in Seq(1 .. Width) /\ Len(album.path) = 2
  <2>1. e.item \in Item
    BY <1>3 DEF Fit, Full
  <2> QED BY <1>1, <2>1, AlbumIs
<1>7. tracked \in Nat /\ tracked + 2 \in Nat /\ depth[s] + 1 \in Nat
  BY <1>3
<1> DEFINE dl == IF left = k THEN depth[s] + 1 ELSE 0
<1>8. /\ left \in Place /\ dl \in Nat
      /\ \A r \in DOMAIN refs : refs[r].sess = s => Sound(refs[r], left, dl, s \in suspect)
  <2>1. CASE left = k
    BY <1>5, <1>7, <2>1
  <2>2. CASE left # k
    <3>1. left \in Up(k, depth[s] + 1) /\ dl = 0
      BY <2>2
    <3>2. left \in Place
      BY <1>5, <1>7, <3>1, UpIs
    <3>3. \A r \in DOMAIN refs : refs[r].sess = s => Sound(refs[r], left, 0, s \in suspect)
      BY <1>5, <1>7, <3>1, SoundUp
    <3> QED BY <3>1, <3>2, <3>3
  <2> QED BY <2>1, <2>2
<1>9. p \in Place /\ p.search = album.search /\ (tracked = 0 => p.path = <<>>)
  <2>1. PICK n : n = tracked + 2
    OBVIOUS
  <2>2. n \in Nat /\ p \in Up(album, n) /\ (tracked = 0 => n = Len(album.path))
    BY <1>6, <1>7, <2>1
  <2> HIDE DEF album, tracked
  <2>3. p \in Place /\ p.search = album.search /\ (n = Len(album.path) => p.path = <<>>)
    BY <1>6, <2>2, UpIs
  <2> QED BY <2>2, <2>3
<1>10. /\ f.key = album /\ f.sess = Recovery /\ f.path = album.path /\ album \in f.means /\ Fit(f)
  <2>1. e \in Full /\ e.item \in e.means
    BY <1>3 DEF Fit
  <2>2. /\ f.key = album /\ f.sess = Recovery /\ f.path = album.path /\ f.item = e.item
        /\ f.means = e.means \cup {album} /\ f \in Full
    BY <1>3, <1>6, <2>1 DEF Full
  <2> HIDE DEF f, album
  <2> QED BY <2>1, <2>2 DEF Fit
<1>11. /\ DOMAIN refs' = DOMAIN refs /\ refs'[x] = f
       /\ \A r \in DOMAIN refs : r # x => refs'[r] = refs[r]
  BY <1>2, <1>3
<1>12. depth' = [depth EXCEPT ![s] = dl, ![Recovery] = 0]
  BY <1>4
<1>13. tracked = depth[Recovery] \/ s = Recovery
  OBVIOUS
<1> HIDE DEF x, e, s, k, album, f, tracked, dl
<1>15. /\ PlacesInv' /\ core'[Recovery] = p /\ depth'[Recovery] = 0
       /\ s # Recovery => core'[s] = left /\ depth'[s] = dl
       /\ \A q \in Session : q # s /\ q # Recovery => core'[q] = core[q] /\ depth'[q] = depth[q]
  BY <1>1, <1>3, <1>4, <1>8, <1>9, <1>12 DEF NavInv, PlacesInv
<1>16. /\ Recovery \in suspect' <=> \E o \in DOMAIN refs : refs[o].sess = Recovery
       /\ \A q : q # Recovery => q \notin suspect'
  BY <1>1, <1>2
<1>17. Recovery \notin suspect' => s # Recovery /\ tracked = 0
  <2> SUFFICES ASSUME Recovery \notin suspect' PROVE s # Recovery /\ tracked = 0
    OBVIOUS
  <2>1. ~Corrected /\ s # Recovery
    BY <1>3, <1>16 DEF Corrected, s, e
  <2>2. Staying = {}
    BY <2>1 DEF Staying, Corrected
  <2>3. depth[Recovery] = 0
    BY <1>1, <2>2 DEF NavInv, RecoveryInv
  <2> QED BY <1>13, <2>1, <2>3
<1>18. Sound(f, p, 0, Recovery \in suspect')
  <2>1. ASSUME Recovery \notin suspect' PROVE Good(f, p, 0)
    <3>1. p.path = <<>> /\ Len(<<>>) = 0
      BY <1>9, <1>17, <2>1
    <3> QED BY <1>9, <1>10, <3>1 DEF Good
  <2> QED BY <1>9, <1>10, <2>1 DEF Sound
<1>19. RefsInv'
  <2> SUFFICES ASSUME NEW r \in DOMAIN refs
               PROVE  Sound(refs'[r], core'[refs'[r].sess], depth'[refs'[r].sess],
                            refs'[r].sess \in suspect')
    BY <1>11 DEF RefsInv
  <2>1. CASE r = x
    BY <1>10, <1>11, <1>15, <1>18, <2>1
  <2>2. CASE r # x
    <3>1. PICK g, q : g = refs[r] /\ q = g.sess
      OBVIOUS
    <3>2. refs'[r] = g /\ q \in Session /\ Sound(g, core[q], depth[q], q \in suspect)
      BY <1>11, <2>2, <3>1 DEF NavInv, RefsInv, Sound, Fit, Full
    <3>3. CASE q = Recovery
      <4>1. Recovery \in suspect'
        BY <1>16, <3>1, <3>3
      <4>2. Sound(g, p, 0, TRUE)
        BY <1>9, <3>2, SoundLost
      <4>3. Sound(g, p, 0, Recovery \in suspect')
        BY <4>1, <4>2 DEF Sound
      <4> QED BY <1>15, <3>1, <3>2, <3>3, <4>3
    <3>4. CASE q # Recovery
      <4>1. q \notin suspect' /\ q \notin suspect
        BY <1>1, <1>16, <3>4
      <4>2. Sound(g, core'[q], depth'[q], q \in suspect)
        <5>1. CASE q = s
          BY <1>8, <1>15, <3>1, <3>4, <5>1
        <5>2. CASE q # s
          BY <1>15, <3>2, <3>4, <5>2
        <5> QED BY <5>1, <5>2
      <4> QED BY <3>1, <3>2, <4>1, <4>2 DEF Sound
    <3> QED BY <3>3, <3>4
  <2> QED BY <2>1, <2>2
<1>20. \A u \in Thread : u # t => op[u] = Idle
  BY <1>1 DEF IInv, OpInv
<1>21. \A u \in Thread : op'[u] = Idle
  BY <1>1, <1>20 DEF IInv, ShapeInv
<1>22. inUse' = {}
  <2>1. inUse' = inUse
    BY <1>1, Zenon
  <2>2. \A u \in Thread : u # t => ~Busy(u)
    BY <1>20 DEF Busy, Idle
  <2>3. \A q \in inUse : \E u \in Thread : Busy(u) /\ ~op[u].act
    BY DEF NavInv, HeldInv
  <2>4. \A q \in inUse : FALSE
    BY <1>1, <2>2, <2>3, Zenon
  <2> QED BY <2>1, <2>4
<1>23. RecoveryInv'
  <2> SUFFICES ASSUME Recovery \notin suspect' PROVE RecoveryInv'
    BY DEF RecoveryInv
  <2>1. \A r \in DOMAIN refs' : refs'[r].sess = Recovery => refs'[r].key # None
    BY <1>6, <1>10, <1>11, <1>16
  <2>2. \A u \in Thread : ~Busy(u)' /\ op'[u].stage # "relocate"
    BY <1>21, <1>22, AllQuiet
  <2>3. x \in Staying'
    BY <1>3, <1>10, <1>11, <2>2 DEF Staying, Leaving
  <2> QED BY <2>1, <2>2, <2>3 DEF RecoveryInv
<1>24. SavedInv' /\ FALSE \notin astray'
  BY <1>1 DEF NavInv, SavedInv
<1> QED BY <1>15, <1>19, <1>21, <1>22, <1>23, <1>24, AllQuiet DEF NavInv

\* The references of an undisturbed program are good where the cursors are, so
\* they can be written down.
LEMMA CommitNav ==
  ASSUME NavInv, Commit
  PROVE  NavInv'
<1>1. /\ suspect = {} /\ saved'.core = core /\ saved'.depth = depth /\ saved'.listed = listed
      /\ saved'.refs = refs
      /\ UNCHANGED <<core, depth, listed, inUse, refs, op, restarted, suspect, astray>>
  BY DEF Commit, Undisturbed
<1>2. PlacesInv /\ RefsInv /\ ReadyInv /\ LeasedInv /\ HeldInv /\ RecoveryInv /\ FALSE \notin astray
  BY DEF NavInv
<1>3. SavedInv'
  <2>1. \A r \in DOMAIN refs :
          /\ Fit(refs[r]) /\ core[refs[r].sess] \in Place
          /\ Good(refs[r], core[refs[r].sess], depth[refs[r].sess])
    BY <1>1, <1>2 DEF RefsInv, Sound
  <2> QED BY <1>1, <1>2, <2>1 DEF SavedInv, PlacesInv
<1>4. PlacesInv' /\ RefsInv'
  BY <1>1, <1>2 DEF PlacesInv, RefsInv
<1>5. ReadyInv' /\ LeasedInv' /\ HeldInv'
  BY <1>1, <1>2 DEF ReadyInv, LeasedInv, HeldInv, Busy
<1>6. RecoveryInv'
  BY <1>1, <1>2 DEF RecoveryInv, Busy, Staying, Leaving, Corrected
<1> QED BY <1>1, <1>2, <1>3, <1>4, <1>5, <1>6 DEF NavInv

\* Restored, they are good on the sessions whose cursor is where it was.
LEMMA RestartNav ==
  ASSUME NavInv, Restart
  PROVE  NavInv'
<1>1. /\ saved # None /\ saved' = None /\ restarted' = TRUE /\ inUse' = {}
      /\ op' = [t \in Thread |-> Idle] /\ depth' = saved.depth /\ listed' = saved.listed
      /\ refs' = saved.refs /\ UNCHANGED <<core, astray>>
      /\ suspect' = suspect \cup {s \in Session : core[s] # saved.core[s]}
  BY DEF Restart
<1>2. PlacesInv /\ SavedInv /\ FALSE \notin astray
  BY DEF NavInv
<1>3. PlacesInv'
  BY <1>1, <1>2 DEF PlacesInv, SavedInv
<1>4. RefsInv'
  <2> SUFFICES ASSUME NEW r \in DOMAIN saved.refs
               PROVE  LET e == saved.refs[r] IN
                      Sound(e, core[e.sess], saved.depth[e.sess], e.sess \in suspect')
    BY <1>1 DEF RefsInv
  <2>1. PICK e : e = saved.refs[r]
    OBVIOUS
  <2>2. /\ Fit(e) /\ core[e.sess] \in Place
        /\ Good(e, saved.core[e.sess], saved.depth[e.sess])
    BY <1>1, <1>2, <2>1 DEF SavedInv
  <2>3. e.sess \notin suspect' => core[e.sess] = saved.core[e.sess]
    BY <1>1, <2>2 DEF Fit, Full
  <2>4. Sound(e, core[e.sess], saved.depth[e.sess], e.sess \in suspect')
    BY <2>2, <2>3 DEF Sound
  <2> QED BY <2>1, <2>4
<1>5. ReadyInv' /\ LeasedInv' /\ HeldInv'
  BY <1>1, AllQuiet
<1>6. SavedInv' /\ RecoveryInv'
  BY <1>1 DEF SavedInv, RecoveryInv
<1> QED BY <1>1, <1>2, <1>3, <1>4, <1>5, <1>6 DEF NavInv

\* At first there is no reference, and no operation.
LEMMA InitNav == Init => NavInv
<1> SUFFICES ASSUME Init PROVE NavInv
  OBVIOUS
<1> USE DEF Init
<1>1. \A t \in Thread : ~Busy(t) /\ op[t].stage # "relocate"
  BY DEF Idle, Busy
<1>2. PlacesInv
  BY DEF PlacesInv
<1>3. RefsInv /\ SavedInv /\ ReadyInv /\ LeasedInv /\ HeldInv
  BY <1>1 DEF RefsInv, SavedInv, ReadyInv, LeasedInv, HeldInv
<1>4. RecoveryInv
  <2>1. Recovery \in Session
    BY SessionsAssumption DEF Recovery, Session
  <2> QED BY <1>1, <2>1 DEF RecoveryInv, Corrected
<1> QED BY <1>2, <1>3, <1>4 DEF NavInv

\* A step that changes nothing keeps it.
LEMMA StutterNav == NavInv /\ UNCHANGED vars => NavInv'
<1> SUFFICES ASSUME NavInv, UNCHANGED vars PROVE NavInv'
  OBVIOUS
<1>1. Quiet /\ UNCHANGED <<op, inUse>>
  BY DEF vars, disk, Quiet
<1>2. UNCHANGED <<core, depth, listed, refs, suspect, restarted, op, inUse>>
  BY <1>1 DEF Quiet
<1>3. ReadyInv' /\ LeasedInv' /\ HeldInv'
  BY <1>2 DEF NavInv, ReadyInv, LeasedInv, HeldInv, Busy
<1>4. RecoveryInv'
  BY <1>2 DEF NavInv, RecoveryInv, Busy, Staying, Leaving, Corrected
<1> QED BY <1>1, <1>3, <1>4, QuietKeeps DEF NavInv

\* No step breaks it, if nothing but the ordinary overlaps.
LEMMA NextNav == Ordinary /\ IInv /\ NavInv /\ [Next]_vars => NavInv'
<1> SUFFICES ASSUME Ordinary, IInv, NavInv, [Next]_vars PROVE NavInv'
  OBVIOUS
<1>1. CASE UNCHANGED vars
  BY <1>1, StutterNav
<1>2. ASSUME NEW t \in Thread,
             \/ \E q \in Search, i \in 1 .. Width : NewSearch(t, q, i)
             \/ \E r \in DOMAIN refs : BeginDrill(t, r) \/ BeginAct(t, r)
             \/ Reset(t) \/ ResetLost(t) \/ Walk(t) \/ Relocate(t) \/ Recover(t)
             \/ Expires(t) \/ Drill(t) \/ DrillTimesOut(t)
             \/ \E i \in 1 .. Width : Finish(t, i)
             \/ Act(t) \/ ActFails(t) \/ ActCorrected(t)
      PROVE  NavInv'
  BY <1>2, NewSearchNav, BeginDrillNav, BeginActNav, ResetNav, WalkNav, RelocateNav,
     RecoverNav, ExpiresNav, DrillNav, FinishNav, ActNav, ActCorrectedNav
<1> QED BY <1>1, <1>2, CommitNav, RestartNav DEF Next, Finished

\* What an operation opens is what its reference stands for, whatever calls went
\* unanswered, were corrected or were cut off by a restart, unless its session is
\* suspect: keys come from the results the cursor is still in, and the depth the
\* program tracks is the cursor's (_nav_reset_to_root, _position_session).
THEOREM DamageIsConfined == Ordinary /\ Spec => []MisledOnlyOnSuspect
<1>1. NavInv => MisledOnlyOnSuspect
  BY DEF NavInv, MisledOnlyOnSuspect
<1>2. SUFFICES ASSUME Ordinary PROVE Spec => []MisledOnlyOnSuspect
  OBVIOUS
<1>3. IInv /\ [Next]_vars => IInv'
  BY <1>2, NextIInv
<1>4. IInv /\ NavInv /\ [Next]_vars => NavInv'
  BY <1>2, NextNav
<1> QED BY <1>1, <1>3, <1>4, InitIInv, InitNav, PTL DEF Spec
=============================================================================
