------------------------- MODULE ChatSessionProofs -------------------------
(***************************************************************************)
(* Proofs about ChatSession for any number of connections and messages and  *)
(* any queue length.  The inductive invariant is IInv: each connection's    *)
(* pending queue lists exactly the messages waiting for it, what is in      *)
(* flight is exactly its active message, and a message held for the arbiter *)
(* is in neither.                                                           *)
(***************************************************************************)
EXTENDS ChatSession, SequenceTheorems, TLAPS

\* What one connection's active message a and queue q owe to the messages'
\* owners ow and statuses st.
Local(c, a, q, ow, st) ==
  /\ Lists(q, {m \in Msg : ow[m] = c /\ st[m] \in Waiting})
  /\ {m \in Msg : ow[m] = c /\ st[m] \in InFlight}
       = IF a = None THEN {} ELSE {a}

\* A message kept for the arbiter belongs to the connection that keeps it, and
\* the messages not read yet have no status.
ArbiterInv ==
  /\ \A c \in Conn : incoming[c] # None =>
       /\ phase[c] = "arbitrating"
       /\ owner[incoming[c]] = c
       /\ status[incoming[c]] = "arbitrating"
  /\ \A c \in Conn : phase[c] = "arbitrating" => incoming[c] # None
  /\ \A m \in Msg : m > received => status[m] = "unread"

ClearInv == \A c \in Conn : phase[c] = "clearing" => active[c] = None

QueueInv ==
  \A c \in Conn : Local(c, active[c], pending[c], owner, status)

\* A drain of active message a, queue q and statuses st of connection c that
\* ends in a2, q2 and st2.
Drained(c, a, q, ow, st, a2, q2, st2) ==
  /\ a2 \in Msg \cup {None} /\ q2 \in Seq(Msg) /\ Len(q2) <= PendingMax
  /\ st2 \in [Msg -> Statuses]
  /\ Local(c, a2, q2, ow, st2)
  /\ \A x \in Msg : (ow[x] = c => st[x] \notin Waiting) => st2[x] = st[x]
  /\ a2 = None => q2 = <<>>

\* Message m of connection c entering its queue, which becomes r, as how.
Entered(c, a, ow, m, how, sts, r, st) ==
  /\ r \in Seq(Msg) /\ Len(r) \in 1 .. PendingMax
  /\ st \in [Msg -> Statuses] /\ st[m] = how
  /\ Local(c, a, r, ow, st)
  /\ \A x \in Msg : x # m /\ (ow[x] = c => sts[x] \notin Waiting)
                     => st[x] = sts[x]

\* The part of TypeOK a drain is responsible for.
QueueTypes ==
  /\ active \in [Conn -> Msg \cup {None}]
  /\ pending \in [Conn -> Seq(Msg)]
  /\ \A c \in Conn : Len(pending[c]) <= PendingMax
  /\ status \in [Msg -> Statuses]

\* A drain touches only a waiting message.
Kept(st, st2) == \A x \in Msg : st[x] \notin Waiting => st2[x] = st[x]

\* Messages other than m that are in no queue keep their status.
Spares(m, st, st2) ==
  \A x \in Msg : x # m /\ st[x] \notin Waiting => st2[x] = st[x]

\* What is done stays done.
DoneStays == \A x \in Msg : status[x] = "done" => status'[x] = "done"

\* Message m arrives on connection c, if it had not yet.
Arrives(c, m, ow, ow2) ==
  ow2[m] = c /\ \A x \in Msg : x # m => ow2[x] = ow[x]

\* The effect of StartNextIfIdle, as a relation between values.
DrainsTo(c, a, q, st, ac, pe, ac2, pe2, st2) ==
  /\ ac2 = [ac EXCEPT ![c] = ActiveAfter(a, q)]
  /\ pe2 = [pe EXCEPT ![c] = PendingAfter(a, q)]
  /\ st2 = StatusAfter(a, q, st)

IInv == TypeOK /\ QueueInv /\ IdleMeansDrained /\ ArbiterInv /\ ClearInv

\* The single-session slot: a handler that has not registered displaced nobody.
SlotInv ==
  /\ LatestHoldsSlot
  /\ \A c \in Conn : phase[c] = "new" => displaced[c] = None

\* The request the arbiter was asked about is the active one still, or over.
JudgedInv ==
  \A c \in Conn : phase[c] = "arbitrating" =>
    judged[c] \in Msg /\ (active[c] = judged[c] \/ status[judged[c]] = "done")

-----------------------------------------------------------------------------
(* The deque.                                                               *)

\* Appending to a bounded deque that lists S leaves one that lists S with the
\* new element, less the oldest one when the deque was full.
LEMMA PushBackLists ==
  ASSUME NEW S, NEW q \in Seq(Msg), Len(q) <= PendingMax, Lists(q, S),
         NEW m \in Msg, m \notin S
  PROVE  /\ PushBack(q, m) \in Seq(Msg)
         /\ Len(PushBack(q, m)) \in 1 .. PendingMax
         /\ Len(q) < PendingMax => Lists(PushBack(q, m), S \cup {m})
         /\ Len(q) >= PendingMax =>
              /\ Len(q) >= 1
              /\ q[1] \in S
              /\ Lists(PushBack(q, m), (S \ {q[1]}) \cup {m})
<1> USE ChatAssumption
<1> DEFINE r == PushBack(q, m)
<1>1. CASE Len(q) < PendingMax
  <2>1. r = Append(q, m) /\ r \in Seq(Msg) /\ Len(r) = Len(q) + 1
    BY <1>1 DEF PushBack
  <2>2. /\ \A i \in 1 .. Len(q) : r[i] = q[i]
        /\ r[Len(q) + 1] = m
    BY <2>1
  <2>3. Lists(r, S \cup {m})
    BY <2>1, <2>2 DEF Lists
  <2> QED BY <1>1, <2>1, <2>3
<1>2. CASE Len(q) >= PendingMax
  <2>1. Len(q) = PendingMax /\ q # <<>> /\ Len(q) >= 1
    BY <1>2
  <2>2. /\ Tail(q) \in Seq(Msg)
        /\ Len(Tail(q)) = Len(q) - 1
        /\ \A i \in 1 .. Len(Tail(q)) : Tail(q)[i] = q[i + 1]
    BY <2>1, HeadTailProperties
  <2>3. r = Append(Tail(q), m) /\ r \in Seq(Msg) /\ Len(r) = Len(q)
    BY <2>1, <2>2 DEF PushBack
  <2>4. /\ \A i \in 1 .. Len(q) - 1 : r[i] = q[i + 1]
        /\ r[Len(q)] = m
    BY <2>1, <2>2, <2>3
  <2>5. Lists(r, (S \ {q[1]}) \cup {m})
    <3>1. \A x \in S : x # q[1] => \E i \in 1 .. Len(r) : r[i] = x
      <4> SUFFICES ASSUME NEW k \in 1 .. Len(q), q[k] # q[1]
                   PROVE  \E i \in 1 .. Len(r) : r[i] = q[k]
        BY DEF Lists
      <4>1. k - 1 \in 1 .. Len(r) /\ r[k - 1] = q[k]
        BY <2>1, <2>3, <2>4
      <4> QED BY <4>1
    <3>2. \A i \in 1 .. Len(r) : r[i] \in (S \ {q[1]}) \cup {m}
      BY <2>1, <2>3, <2>4 DEF Lists
    <3>3. \A i, j \in 1 .. Len(r) : i # j => r[i] # r[j]
      BY <2>1, <2>3, <2>4 DEF Lists
    <3>4. \E i \in 1 .. Len(r) : r[i] = m
      BY <2>1, <2>3, <2>4
    <3> QED BY <3>1, <3>2, <3>3, <3>4 DEF Lists
  <2>6. q[1] \in S
    BY <2>1 DEF Lists
  <2> QED BY <1>2, <2>1, <2>3, <2>5, <2>6
<1> QED BY <1>1, <1>2

\* The same for appendleft, which loses the newest element of a full deque.
LEMMA PushFrontLists ==
  ASSUME NEW S, NEW q \in Seq(Msg), Len(q) <= PendingMax, Lists(q, S),
         NEW m \in Msg, m \notin S
  PROVE  /\ PushFront(q, m) \in Seq(Msg)
         /\ Len(PushFront(q, m)) \in 1 .. PendingMax
         /\ Len(q) < PendingMax => Lists(PushFront(q, m), S \cup {m})
         /\ Len(q) >= PendingMax =>
              /\ Len(q) >= 1
              /\ q[Len(q)] \in S
              /\ Lists(PushFront(q, m), (S \ {q[Len(q)]}) \cup {m})
<1> USE ChatAssumption
<1> DEFINE r == PushFront(q, m)
<1>0. <<m>> \in Seq(Msg) /\ Len(<<m>>) = 1 /\ <<m>>[1] = m
  OBVIOUS
<1>1. CASE Len(q) < PendingMax
  <2>1. r = <<m>> \o q
    BY <1>1 DEF PushFront
  <2>2. /\ r \in Seq(Msg) /\ Len(r) = Len(q) + 1
        /\ \A i \in 1 .. Len(q) + 1 : r[i] = IF i = 1 THEN m ELSE q[i - 1]
    BY <1>0, <2>1, ConcatProperties
  <2>3. Lists(r, S \cup {m})
    <3>1. \A x \in S : \E i \in 1 .. Len(r) : r[i] = x
      <4> SUFFICES ASSUME NEW k \in 1 .. Len(q)
                   PROVE  \E i \in 1 .. Len(r) : r[i] = q[k]
        BY DEF Lists
      <4>1. k + 1 \in 1 .. Len(r) /\ r[k + 1] = q[k]
        BY <2>2
      <4> QED BY <4>1
    <3>2. r[1] = m /\ 1 \in 1 .. Len(r)
      BY <2>2
    <3>3. \A i \in 1 .. Len(r) : i # 1 => r[i] \in S
      BY <2>2 DEF Lists
    <3>4. \A i, j \in 1 .. Len(r) : i # j => r[i] # r[j]
      <4> SUFFICES ASSUME NEW i \in 1 .. Len(r), NEW j \in 1 .. Len(r), i < j
                   PROVE  r[i] # r[j]
        BY <2>2
      <4>1. j # 1 /\ r[j] = q[j - 1] /\ j - 1 \in 1 .. Len(q)
        BY <2>2
      <4>2. CASE i = 1
        BY <2>2, <4>1, <4>2 DEF Lists
      <4>3. CASE i # 1
        BY <2>2, <4>1, <4>3 DEF Lists
      <4> QED BY <4>2, <4>3
    <3> QED BY <3>1, <3>2, <3>3, <3>4 DEF Lists
  <2> QED BY <1>1, <2>2, <2>3
<1>2. CASE Len(q) >= PendingMax
  <2> DEFINE t == SubSeq(q, 1, Len(q) - 1)
  <2>1. Len(q) = PendingMax /\ Len(q) >= 1 /\ Len(q) \in Nat
    BY <1>2
  <2>2. /\ t \in Seq(Msg) /\ Len(t) = Len(q) - 1
        /\ \A i \in 1 .. Len(q) - 1 : t[i] = q[i]
    <3>1. \A i \in 1 .. Len(q) - 1 : q[i] \in Msg
      BY <2>1
    <3>2. 1 \in Int /\ Len(q) - 1 \in Int
      BY <2>1
    <3>3. /\ t \in Seq(Msg)
          /\ Len(t) = IF 1 <= Len(q) - 1 THEN (Len(q) - 1) - 1 + 1 ELSE 0
          /\ \A i \in 1 .. (Len(q) - 1) - 1 + 1 : t[i] = q[1 + i - 1]
      BY <3>1, <3>2, SubSeqProperties
    <3> HIDE DEF t
    <3> QED BY <2>1, <3>3
  <2>3. r = <<m>> \o t
    BY <2>1 DEF PushFront
  <2> HIDE DEF t
  <2>4. /\ r \in Seq(Msg) /\ Len(r) = Len(q)
        /\ \A i \in 1 .. Len(q) : r[i] = IF i = 1 THEN m ELSE t[i - 1]
    BY <1>0, <2>1, <2>2, <2>3, ConcatProperties
  <2>5. r[1] = m /\ \A i \in 2 .. Len(q) : r[i] = q[i - 1]
    BY <2>1, <2>2, <2>4
  <2>6. Lists(r, (S \ {q[Len(q)]}) \cup {m})
    <3>1. \A x \in S : x # q[Len(q)] => \E i \in 1 .. Len(r) : r[i] = x
      <4> SUFFICES ASSUME NEW k \in 1 .. Len(q), q[k] # q[Len(q)]
                   PROVE  \E i \in 1 .. Len(r) : r[i] = q[k]
        BY DEF Lists
      <4>1. k + 1 \in 2 .. Len(q) /\ r[k + 1] = q[k]
        BY <2>1, <2>5
      <4> QED BY <2>4, <4>1
    <3>2. \A i \in 1 .. Len(r) : r[i] \in (S \ {q[Len(q)]}) \cup {m}
      BY <2>1, <2>4, <2>5 DEF Lists
    <3>3. \A i, j \in 1 .. Len(r) : i # j => r[i] # r[j]
      BY <2>1, <2>4, <2>5 DEF Lists
    <3>4. \E i \in 1 .. Len(r) : r[i] = m
      BY <2>1, <2>4, <2>5
    <3> QED BY <3>1, <3>2, <3>3, <3>4, SMTT(30) DEF Lists
  <2>7. q[Len(q)] \in S
    BY <2>1 DEF Lists
  <2> QED BY <1>2, <2>1, <2>4, <2>6, <2>7
<1> QED BY <1>1, <1>2

\* popleft: the rest of a deque that lists S lists S without its head.
LEMMA PopLists ==
  ASSUME NEW S, NEW q \in Seq(Msg), q # <<>>, Lists(q, S)
  PROVE  /\ Head(q) \in S /\ Head(q) \in Msg
         /\ Tail(q) \in Seq(Msg) /\ Len(Tail(q)) = Len(q) - 1
         /\ Lists(Tail(q), S \ {Head(q)})
<1>1. /\ Head(q) \in Msg /\ Tail(q) \in Seq(Msg)
      /\ Len(Tail(q)) = Len(q) - 1
      /\ \A i \in 1 .. Len(Tail(q)) : Tail(q)[i] = q[i + 1]
  BY HeadTailProperties
<1>2. Head(q) = q[1] /\ Len(q) >= 1 /\ Len(q) \in Nat
  BY EmptySeq
<1>3. \A x \in S : x # q[1] => \E i \in 1 .. Len(Tail(q)) : Tail(q)[i] = x
  <2> SUFFICES ASSUME NEW k \in 1 .. Len(q), q[k] # q[1]
               PROVE  \E i \in 1 .. Len(Tail(q)) : Tail(q)[i] = q[k]
    BY DEF Lists
  <2>1. k - 1 \in 1 .. Len(Tail(q)) /\ Tail(q)[k - 1] = q[k]
    BY <1>1, <1>2
  <2> QED BY <2>1
<1>4. \A i \in 1 .. Len(Tail(q)) : Tail(q)[i] \in S \ {q[1]}
  BY <1>1, <1>2 DEF Lists
<1>5. \A i, j \in 1 .. Len(Tail(q)) : i # j => Tail(q)[i] # Tail(q)[j]
  BY <1>1, <1>2 DEF Lists
<1> QED BY <1>1, <1>2, <1>3, <1>4, <1>5 DEF Lists

-----------------------------------------------------------------------------
(* The operators the actions are built from.                                *)

\* Local depends only on which of the connection's messages wait or run.
LEMMA LocalFrame ==
  ASSUME NEW d, NEW a, NEW q, NEW ow, NEW st, NEW ow2, NEW st2,
         Local(d, a, q, ow, st),
         \A m \in Msg : (ow[m] = d /\ st[m] \in Waiting)
                          <=> (ow2[m] = d /\ st2[m] \in Waiting),
         \A m \in Msg : (ow[m] = d /\ st[m] \in InFlight)
                          <=> (ow2[m] = d /\ st2[m] \in InFlight)
  PROVE  Local(d, a, q, ow2, st2)
<1>1. {m \in Msg : ow[m] = d /\ st[m] \in Waiting}
        = {m \in Msg : ow2[m] = d /\ st2[m] \in Waiting}
  OBVIOUS
<1>2. {m \in Msg : ow[m] = d /\ st[m] \in InFlight}
        = {m \in Msg : ow2[m] = d /\ st2[m] \in InFlight}
  OBVIOUS
<1> QED BY <1>1, <1>2 DEF Local

\* A message that is in no queue and not in flight, and stays so, disturbs
\* none.
LEMMA Bystander ==
  ASSUME QueueInv, NEW m \in Msg, NEW ow, NEW st,
         \A x \in Msg : x # m => ow[x] = owner[x] /\ st[x] = status[x],
         status[m] \notin Waiting \cup InFlight,
         st[m] \notin Waiting \cup InFlight
  PROVE  \A d \in Conn : Local(d, active[d], pending[d], ow, st)
<1> SUFFICES ASSUME NEW d \in Conn
             PROVE  Local(d, active[d], pending[d], ow, st)
  OBVIOUS
<1>1. Local(d, active[d], pending[d], owner, status)
  BY DEF QueueInv
<1>2. \A x \in Msg : (owner[x] = d /\ status[x] \in Waiting)
                        <=> (ow[x] = d /\ st[x] \in Waiting)
  OBVIOUS
<1>3. \A x \in Msg : (owner[x] = d /\ status[x] \in InFlight)
                        <=> (ow[x] = d /\ st[x] \in InFlight)
  OBVIOUS
<1> HIDE DEF QueueInv
<1> QED BY <1>1, <1>2, <1>3, LocalFrame

\* Draining keeps a connection's queue exact and never leaves it idle with a
\* message pending.
LEMMA Drain ==
  ASSUME NEW c, NEW a \in Msg \cup {None},
         NEW q \in Seq(Msg), Len(q) <= PendingMax,
         NEW ow, NEW st \in [Msg -> Statuses],
         Local(c, a, q, ow, st)
  PROVE  Drained(c, a, q, ow, st, ActiveAfter(a, q), PendingAfter(a, q),
                 StatusAfter(a, q, st))
<1> USE ChatAssumption
<1> DEFINE W == {m \in Msg : ow[m] = c /\ st[m] \in Waiting}
           F == {m \in Msg : ow[m] = c /\ st[m] \in InFlight}
<1>0. Lists(q, W) /\ F = IF a = None THEN {} ELSE {a}
  BY DEF Local
<1>1. CASE Starts(a, q)
  <2> DEFINE h == Head(q)
             s2 == [st EXCEPT ![h] = "running"]
  <2>1. /\ h \in W /\ h \in Msg /\ Tail(q) \in Seq(Msg)
        /\ Len(Tail(q)) = Len(q) - 1 /\ Lists(Tail(q), W \ {h})
    <3> HIDE DEF W
    <3> QED BY <1>0, <1>1, PopLists DEF Starts
  <2>2. /\ ActiveAfter(a, q) = h /\ PendingAfter(a, q) = Tail(q)
        /\ StatusAfter(a, q, st) = s2
    BY <1>1 DEF ActiveAfter, PendingAfter, StatusAfter
  <2> HIDE DEF h
  <2>4. s2 \in [Msg -> Statuses] /\ s2[h] = "running"
        /\ \A m \in Msg : m # h => s2[m] = st[m]
    BY <2>1 DEF Statuses
  <2> HIDE DEF s2
  <2>5. {m \in Msg : ow[m] = c /\ s2[m] \in Waiting} = W \ {h}
    BY <2>1, <2>4 DEF Waiting
  <2>6. {m \in Msg : ow[m] = c /\ s2[m] \in InFlight} = {h}
    BY <1>0, <1>1, <2>1, <2>4 DEF InFlight, Starts
  <2>7. h # None /\ Len(q) \in Nat
    BY <2>1 DEF Msg
  <2>8. Local(c, h, Tail(q), ow, s2)
    <3> DEFINE W2 == {m \in Msg : ow[m] = c /\ s2[m] \in Waiting}
    <3>1. Lists(Tail(q), W2)
      <4>1. W2 = W \ {h}
        BY <2>5
      <4> HIDE DEF W, W2
      <4> QED BY <2>1, <4>1
    <3> QED BY <3>1, <2>6, <2>7 DEF Local
  <2>9. \A x \in Msg : (ow[x] = c => st[x] \notin Waiting) => s2[x] = st[x]
    BY <2>1, <2>4
  <2> HIDE DEF W, F
  <2> QED BY <2>1, <2>2, <2>4, <2>7, <2>8, <2>9 DEF Drained
<1>2. CASE ~Starts(a, q)
  <2>1. /\ ActiveAfter(a, q) = a /\ PendingAfter(a, q) = q
        /\ StatusAfter(a, q, st) = st
    BY <1>2 DEF ActiveAfter, PendingAfter, StatusAfter
  <2> HIDE DEF W, F
  <2> QED BY <1>2, <2>1 DEF Starts, Drained
<1> QED BY <1>1, <1>2

\* A message that neither waits nor runs enters its connection's deque: the
\* deque stays exact, and the dropped message is no longer waiting.
LEMMA EnqueueBack ==
  ASSUME NEW sts \in [Msg -> Statuses], NEW c, NEW a,
         NEW q \in Seq(Msg), Len(q) <= PendingMax, NEW ow, NEW m \in Msg, ow[m] = c,
         sts[m] \notin Waiting \cup InFlight,
         Local(c, a, q, ow, sts)
  PROVE  Entered(c, a, ow, m, "queued", sts, PushBack(q, m),
                 Enqueued(sts, q, m, "queued", 1))
<1> USE ChatAssumption
<1> DEFINE r == PushBack(q, m)
           st == Enqueued(sts, q, m, "queued", 1)
           W == {x \in Msg : ow[x] = c /\ sts[x] \in Waiting}
           F == {x \in Msg : ow[x] = c /\ sts[x] \in InFlight}
<1>0. Lists(q, W) /\ F = IF a = None THEN {} ELSE {a}
  BY DEF Local
<1>1. m \notin W
  OBVIOUS
<1>2. /\ r \in Seq(Msg) /\ Len(r) \in 1 .. PendingMax
      /\ Len(q) < PendingMax => Lists(r, W \cup {m})
      /\ Len(q) >= PendingMax =>
           Len(q) >= 1 /\ q[1] \in W /\ Lists(r, (W \ {q[1]}) \cup {m})
  <2> HIDE DEF W
  <2> QED BY <1>0, <1>1, PushBackLists
<1>3. /\ st \in [Msg -> Statuses] /\ st[m] = "queued"
      /\ \A x \in Msg : x # m =>
           st[x] = IF Len(q) >= PendingMax /\ x = q[1]
                   THEN "dropped" ELSE sts[x]
  BY DEF Enqueued, Statuses
<1> HIDE DEF r, st
<1>4. \A x \in Msg : x # m /\ (ow[x] = c => sts[x] \notin Waiting)
                       => st[x] = sts[x]
  BY <1>2, <1>3
<1>5. {x \in Msg : ow[x] = c /\ st[x] \in Waiting}
        = IF Len(q) < PendingMax THEN W \cup {m} ELSE (W \ {q[1]}) \cup {m}
  BY <1>2, <1>3 DEF Waiting
<1>6. {x \in Msg : ow[x] = c /\ st[x] \in InFlight} = F
  BY <1>2, <1>3 DEF InFlight, Waiting
<1>7. Local(c, a, r, ow, st)
  <2> DEFINE W2 == {x \in Msg : ow[x] = c /\ st[x] \in Waiting}
             F2 == {x \in Msg : ow[x] = c /\ st[x] \in InFlight}
  <2>1. Len(q) < PendingMax \/ Len(q) >= PendingMax
    OBVIOUS
  <2>2. Lists(r, W2)
    <3>1. W2 = IF Len(q) < PendingMax THEN W \cup {m}
               ELSE (W \ {q[1]}) \cup {m}
      BY <1>5
    <3> HIDE DEF W, W2
    <3> QED BY <1>2, <2>1, <3>1
  <2>3. F2 = IF a = None THEN {} ELSE {a}
    BY <1>0, <1>6
  <2> QED BY <2>2, <2>3 DEF Local
<1>8. Entered(c, a, ow, m, "queued", sts, r, st)
  <2> HIDE DEF W, F
  <2> QED BY <1>2, <1>3, <1>4, <1>7 DEF Entered
<1> QED BY <1>8 DEF r, st

\* A message put at the front enters the queue of its own session alone.
LEMMA EnqueueFront ==
  ASSUME NEW sts \in [Msg -> Statuses], NEW c, NEW a,
         NEW q \in Seq(Msg), Len(q) <= PendingMax, NEW ow, NEW m \in Msg, ow[m] = c,
         sts[m] \notin Waiting \cup InFlight,
         Local(c, a, q, ow, sts)
  PROVE  Entered(c, a, ow, m, "fronted", sts, PushFront(q, m),
                 Enqueued(sts, q, m, "fronted", Len(q)))
<1> USE ChatAssumption
<1> DEFINE r == PushFront(q, m)
           st == Enqueued(sts, q, m, "fronted", Len(q))
           W == {x \in Msg : ow[x] = c /\ sts[x] \in Waiting}
           F == {x \in Msg : ow[x] = c /\ sts[x] \in InFlight}
<1>0. Lists(q, W) /\ F = IF a = None THEN {} ELSE {a}
  BY DEF Local
<1>1. m \notin W
  OBVIOUS
<1>2. /\ r \in Seq(Msg) /\ Len(r) \in 1 .. PendingMax
      /\ Len(q) < PendingMax => Lists(r, W \cup {m})
      /\ Len(q) >= PendingMax =>
           /\ Len(q) >= 1 /\ q[Len(q)] \in W
           /\ Lists(r, (W \ {q[Len(q)]}) \cup {m})
  <2> HIDE DEF W
  <2> QED BY <1>0, <1>1, PushFrontLists
<1>3. /\ st \in [Msg -> Statuses] /\ st[m] = "fronted"
      /\ \A x \in Msg : x # m =>
           st[x] = IF Len(q) >= PendingMax /\ x = q[Len(q)]
                   THEN "dropped" ELSE sts[x]
  BY DEF Enqueued, Statuses
<1> HIDE DEF r, st
<1>4. \A x \in Msg : x # m /\ (ow[x] = c => sts[x] \notin Waiting)
                       => st[x] = sts[x]
  BY <1>2, <1>3
<1>5. {x \in Msg : ow[x] = c /\ st[x] \in Waiting}
        = IF Len(q) < PendingMax THEN W \cup {m}
          ELSE (W \ {q[Len(q)]}) \cup {m}
  BY <1>2, <1>3 DEF Waiting
<1>6. {x \in Msg : ow[x] = c /\ st[x] \in InFlight} = F
  BY <1>2, <1>3 DEF InFlight, Waiting
<1>7. Local(c, a, r, ow, st)
  <2> DEFINE W2 == {x \in Msg : ow[x] = c /\ st[x] \in Waiting}
             F2 == {x \in Msg : ow[x] = c /\ st[x] \in InFlight}
  <2>1. Len(q) < PendingMax \/ Len(q) >= PendingMax
    OBVIOUS
  <2>2. Lists(r, W2)
    <3>1. W2 = IF Len(q) < PendingMax THEN W \cup {m}
               ELSE (W \ {q[Len(q)]}) \cup {m}
      BY <1>5
    <3> HIDE DEF W, W2
    <3> QED BY <1>2, <2>1, <3>1
  <2>3. F2 = IF a = None THEN {} ELSE {a}
    BY <1>0, <1>6
  <2> QED BY <2>2, <2>3 DEF Local
<1>8. Entered(c, a, ow, m, "fronted", sts, r, st)
  <2> HIDE DEF W, F
  <2> QED BY <1>2, <1>3, <1>4, <1>7 DEF Entered
<1> QED BY <1>8 DEF r, st

-----------------------------------------------------------------------------
(* The inductive invariant.                                                 *)

\* No session has a message when the server starts.
LEMMA InitEstablishes == Init => IInv
<1> SUFFICES ASSUME Init PROVE IInv
  OBVIOUS
<1> USE ChatAssumption DEF Init
<1>1. TypeOK
  BY DEF TypeOK, Phases, Statuses
<1>2. QueueInv
  <2> SUFFICES ASSUME NEW c \in Conn
               PROVE  Local(c, active[c], pending[c], owner, status)
    BY DEF QueueInv
  <2>1. {m \in Msg : owner[m] = c /\ status[m] \in Waiting} = {}
    BY DEF Waiting
  <2>2. {m \in Msg : owner[m] = c /\ status[m] \in InFlight} = {}
    BY DEF InFlight
  <2>3. Lists(pending[c], {})
    BY DEF Lists
  <2>4. active[c] = None
    OBVIOUS
  <2> QED BY <2>1, <2>2, <2>3, <2>4 DEF Local
<1>3. IdleMeansDrained /\ ArbiterInv /\ ClearInv
  BY DEF IdleMeansDrained, ArbiterInv, ClearInv
<1> QED BY <1>1, <1>2, <1>3 DEF IInv

\* Steps that leave every queue, active message, owner and status alone.
LEMMA ConnectionSteps ==
  ASSUME IInv, NEW c \in Conn,
         \/ Register(c) \/ CloseReturns(c) \/ Greet(c) \/ ClientCloses(c)
         \/ StartClear(c) \/ FinishClear(c) \/ HandlerEnds(c)
  PROVE  IInv'
<1> USE ChatAssumption
<1>1. UNCHANGED <<active, pending, owner, status, incoming, received>>
  BY DEF Register, CloseReturns, Greet, ClientCloses, StartClear, FinishClear,
         HandlerEnds
<1>2. /\ \A d \in Conn : phase'[d] = "arbitrating" <=> phase[d] = "arbitrating"
      /\ \A d \in Conn : phase'[d] = "clearing" =>
           phase[d] = "clearing" \/ active[d] = None
  BY DEF IInv, TypeOK, Register, CloseReturns, Greet, ClientCloses, StartClear,
         FinishClear, HandlerEnds
<1>3. TypeOK'
  <2> USE DEF IInv, TypeOK, Phases
  <2>1. CASE Register(c)
    BY <2>1 DEF Register
  <2>2. CASE CloseReturns(c)
    BY <2>2 DEF CloseReturns
  <2>3. CASE Greet(c) \/ ClientCloses(c)
    BY <2>3 DEF Greet, ClientCloses
  <2>4. CASE StartClear(c) \/ FinishClear(c)
    BY <2>4 DEF StartClear, FinishClear
  <2>5. CASE HandlerEnds(c)
    BY <2>5 DEF HandlerEnds, ClearSessionIfCurrent
  <2> QED BY <2>1, <2>2, <2>3, <2>4, <2>5
<1>4. QueueInv' /\ IdleMeansDrained'
  BY <1>1 DEF IInv, QueueInv, Local, Lists, IdleMeansDrained
<1>5. ArbiterInv' /\ ClearInv'
  BY <1>1, <1>2 DEF IInv, ArbiterInv, ClearInv
<1> QED BY <1>3, <1>4, <1>5 DEF IInv

\* Messages that never enter the queue: a directive, a message held for the
\* arbiter, and one the arbiter turns into a directive.
LEMMA DirectiveSteps ==
  ASSUME IInv, NEW c \in Conn,
         KeywordDirective(c) \/ AskArbiter(c) \/ ApplyInterruptOnly(c)
  PROVE  IInv'
<1> USE ChatAssumption
<1> USE DEF IInv
<1>1. CASE KeywordDirective(c)
  <2> USE <1>1 DEF KeywordDirective, ReadMsg, CancelActive
  <2>1. TypeOK'
    <3>1. cancelled' \in SUBSET Msg
      BY DEF TypeOK
    <3>2. status' \in [Msg -> Statuses]
      BY DEF TypeOK, Statuses
    <3>3. owner' \in [Msg -> Conn \cup {None}]
      BY DEF TypeOK
    <3>4. received' \in 0 .. MaxMsgs
      BY DEF TypeOK
    <3> QED BY <3>1, <3>2, <3>3, <3>4 DEF TypeOK
  <2>2. QueueInv'
    <3>1. \A m \in Msg : m # received + 1 =>
            owner'[m] = owner[m] /\ status'[m] = status[m]
      BY DEF TypeOK
    <3>2. status[received + 1] = "unread" /\ received + 1 \in Msg
      BY DEF ArbiterInv, TypeOK, Msg
    <3>3. status'[received + 1] = "directive"
      BY <3>2 DEF TypeOK
    <3>4. \A d \in Conn : Local(d, active[d], pending[d], owner', status')
      BY <3>1, <3>2, <3>3, Bystander DEF Waiting, InFlight
    <3> QED BY <3>4 DEF QueueInv
  <2>3. IdleMeansDrained' /\ ClearInv'
    BY DEF IdleMeansDrained, ClearInv
  <2>4. ArbiterInv'
    BY DEF ArbiterInv, TypeOK, Msg
  <2> QED BY <2>1, <2>2, <2>3, <2>4
<1>2. CASE AskArbiter(c)
  <2> USE <1>2 DEF AskArbiter, ReadMsg
  <2>0. received + 1 \in Msg /\ status[received + 1] = "unread"
    BY DEF ArbiterInv, TypeOK, Msg
  <2>1. TypeOK'
    BY <2>0 DEF TypeOK, Statuses, Phases, Msg
  <2>2. QueueInv'
    <3>1. \A m \in Msg : m # received + 1 =>
            owner'[m] = owner[m] /\ status'[m] = status[m]
      BY DEF TypeOK
    <3>3. status'[received + 1] = "arbitrating"
      BY <2>0 DEF TypeOK
    <3>4. \A d \in Conn : Local(d, active[d], pending[d], owner', status')
      BY <2>0, <3>1, <3>3, Bystander DEF Waiting, InFlight
    <3> QED BY <3>4 DEF QueueInv
  <2>3. IdleMeansDrained' /\ ClearInv'
    BY DEF IdleMeansDrained, ClearInv, TypeOK
  <2>4. ArbiterInv'
    BY <2>0 DEF ArbiterInv, TypeOK, Msg
  <2> QED BY <2>1, <2>2, <2>3, <2>4
<1>3. CASE ApplyInterruptOnly(c)
  <2> USE <1>3 DEF ApplyInterruptOnly, ArbiterAnswers, CancelActive
  <2>0. /\ incoming[c] \in Msg /\ owner[incoming[c]] = c
        /\ status[incoming[c]] = "arbitrating"
    BY DEF ArbiterInv, TypeOK
  <2>1. TypeOK'
    BY <2>0 DEF TypeOK, Statuses, Phases
  <2>2. QueueInv'
    <3>1. \A m \in Msg : m # incoming[c] => status'[m] = status[m]
      BY DEF TypeOK
    <3>3. status'[incoming[c]] = "directive"
      BY <2>0 DEF TypeOK
    <3>4. \A d \in Conn : Local(d, active[d], pending[d], owner', status')
      BY <2>0, <3>1, <3>3, Bystander DEF Waiting, InFlight
    <3> QED BY <3>4 DEF QueueInv
  <2>3. IdleMeansDrained' /\ ClearInv'
    BY DEF IdleMeansDrained, ClearInv, TypeOK
  <2>4. ArbiterInv'
    BY <2>0 DEF ArbiterInv, TypeOK, Msg
  <2> QED BY <2>1, <2>2, <2>3, <2>4
<1> QED BY <1>1, <1>2, <1>3


\* What every draining step does to the queues: given queues that are exact for
\* the statuses st it drains with, it leaves them exact, and no connection idle
\* with a message pending.
LEMMA DrainStep ==
  ASSUME IInv, NEW c \in Conn, NEW a \in Msg \cup {None},
         NEW q \in Seq(Msg), Len(q) <= PendingMax,
         NEW st \in [Msg -> Statuses],
         \A d \in Conn : d # c => Local(d, active[d], pending[d], owner', st),
         Local(c, a, q, owner', st),
         active' = [active EXCEPT ![c] = ActiveAfter(a, q)],
         pending' = [pending EXCEPT ![c] = PendingAfter(a, q)],
         status' = StatusAfter(a, q, st)
  PROVE  QueueTypes' /\ QueueInv' /\ IdleMeansDrained' /\ Kept(st, status')
<1>0. Drained(c, a, q, owner', st, ActiveAfter(a, q), PendingAfter(a, q), status')
  BY Drain
<1>1. /\ ActiveAfter(a, q) \in Msg \cup {None}
      /\ PendingAfter(a, q) \in Seq(Msg)
      /\ Len(PendingAfter(a, q)) <= PendingMax
      /\ status' \in [Msg -> Statuses]
      /\ Local(c, ActiveAfter(a, q), PendingAfter(a, q), owner', status')
      /\ \A x \in Msg : (owner'[x] = c => st[x] \notin Waiting)
                          => status'[x] = st[x]
      /\ ActiveAfter(a, q) = None => PendingAfter(a, q) = <<>>
  BY <1>0 DEF Drained
<1>2. /\ active' \in [Conn -> Msg \cup {None}]
      /\ pending' \in [Conn -> Seq(Msg)]
      /\ active'[c] = ActiveAfter(a, q) /\ pending'[c] = PendingAfter(a, q)
      /\ \A d \in Conn : d # c => active'[d] = active[d]
                                  /\ pending'[d] = pending[d]
  BY <1>1 DEF IInv, TypeOK
<1>3. \A d \in Conn : Len(pending'[d]) <= PendingMax
  BY <1>1, <1>2 DEF IInv, TypeOK
<1>4. QueueInv'
  <2> SUFFICES ASSUME NEW d \in Conn
               PROVE  Local(d, active'[d], pending'[d], owner', status')
    BY DEF QueueInv
  <2>1. CASE d = c
    BY <1>1, <1>2, <2>1
  <2>2. CASE d # c
    <3>1. \A x \in Msg : owner'[x] = d => status'[x] = st[x]
      BY <1>1, <2>2
    <3>2. Local(d, active[d], pending[d], owner', st)
      BY <2>2
    <3>3. Local(d, active[d], pending[d], owner', status')
      BY <3>1, <3>2, LocalFrame
    <3> QED BY <1>2, <2>2, <3>3
  <2> QED BY <2>1, <2>2
<1>5. IdleMeansDrained'
  BY <1>1, <1>2 DEF IInv, IdleMeansDrained
<1>6. QueueTypes'
  BY <1>1, <1>2, <1>3 DEF QueueTypes
<1>7. Kept(st, status')
  BY <1>1 DEF Kept
<1> QED BY <1>4, <1>5, <1>6, <1>7

\* What the three actions that queue a message do: it enters its connection's
\* deque, which is then drained.
LEMMA EnterStep ==
  ASSUME IInv, NEW c \in Conn, NEW m \in Msg,
         NEW how \in Waiting, NEW q, NEW st,
         status[m] \in {"unread", "arbitrating"},
         Arrives(c, m, owner, owner'),
         Entered(c, active[c], owner', m, how, status, q, st),
         DrainsTo(c, active[c], q, st, active, pending, active', pending', status')
  PROVE  QueueTypes' /\ QueueInv' /\ IdleMeansDrained' /\ Spares(m, status, status')
<1> USE ChatAssumption
<1>1. /\ pending[c] \in Seq(Msg) /\ Len(pending[c]) <= PendingMax
      /\ status \in [Msg -> Statuses] /\ active[c] \in Msg \cup {None}
  BY DEF IInv, TypeOK
<1>2. status[m] \notin Waiting \cup InFlight
  BY DEF Waiting, InFlight
<1>3. \A d \in Conn : Local(d, active[d], pending[d], owner', status)
  BY <1>2, Bystander DEF IInv, Arrives
<1>4. /\ q \in Seq(Msg) /\ Len(q) \in 1 .. PendingMax /\ Len(q) <= PendingMax
      /\ st \in [Msg -> Statuses] /\ st[m] = how
      /\ Local(c, active[c], q, owner', st)
      /\ \A x \in Msg : x # m /\ (owner'[x] = c => status[x] \notin Waiting)
                         => st[x] = status[x]
  BY DEF Entered, Arrives
<1>5. \A d \in Conn : d # c => Local(d, active[d], pending[d], owner', st)
  <2> SUFFICES ASSUME NEW d \in Conn, d # c
               PROVE  Local(d, active[d], pending[d], owner', st)
    OBVIOUS
  <2>1. \A x \in Msg : owner'[x] = d => st[x] = status[x]
    BY <1>4 DEF Arrives
  <2>2. Local(d, active[d], pending[d], owner', status)
    BY <1>3
  <2> QED BY <2>1, <2>2, LocalFrame
<1>6. QueueTypes' /\ QueueInv' /\ IdleMeansDrained' /\ Kept(st, status')
  BY <1>1, <1>4, <1>5, DrainStep DEF DrainsTo
<1>7. Spares(m, status, status')
  BY <1>4, <1>6 DEF Kept, Waiting, Spares
<1> QED BY <1>6, <1>7

\* A message that finds the connection idle goes through the deque and starts.
LEMMA ChatWhenIdleStep ==
  ASSUME IInv, NEW c \in Conn, ChatWhenIdle(c)
  PROVE  IInv' /\ DoneStays
<1> USE ChatAssumption
<1> DEFINE m == received + 1
           q == PushBack(pending[c], m)
           st == Enqueued(status, pending[c], m, "queued", 1)
<1>0. /\ m \in Msg /\ status[m] = "unread" /\ received' = m
      /\ m \in 0 .. MaxMsgs
      /\ active[c] = None /\ phase[c] = "serving"
      /\ owner' = [owner EXCEPT ![m] = c]
      /\ DrainsTo(c, active[c], q, st, active, pending, active', pending',
                  status')
      /\ UNCHANGED <<phase, sock, registered, displaced, awaited, incoming,
                     judged, cancelled>>
  BY DEF IInv, ArbiterInv, TypeOK, Msg, ChatWhenIdle, ReadMsg, StartNextIfIdle,
         DrainsTo
<1>1. /\ owner' \in [Msg -> Conn \cup {None}] /\ owner'[m] = c
      /\ \A x \in Msg : x # m => owner'[x] = owner[x]
      /\ Arrives(c, m, owner, owner')
  BY <1>0 DEF IInv, TypeOK, Arrives
<1>2. /\ pending[c] \in Seq(Msg) /\ Len(pending[c]) <= PendingMax
      /\ status \in [Msg -> Statuses]
  BY DEF IInv, TypeOK
<1>3. status[m] \notin Waiting \cup InFlight
  BY <1>0 DEF Waiting, InFlight
<1> HIDE DEF m
<1>4. \A d \in Conn : Local(d, active[d], pending[d], owner', status)
  BY <1>0, <1>1, <1>3, Bystander DEF IInv
<1>5. Entered(c, active[c], owner', m, "queued", status, q, st)
  BY <1>0, <1>1, <1>2, <1>3, <1>4, EnqueueBack
<1> HIDE DEF q, st
<1>6. QueueTypes' /\ QueueInv' /\ IdleMeansDrained' /\ Spares(m, status, status')
  <2>1. /\ "queued" \in Waiting /\ status[m] \in {"unread", "arbitrating"}
        /\ m \in Msg
    BY <1>0 DEF Waiting
  <2>2. Arrives(c, m, owner, owner')
    BY <1>1
  <2>3. DrainsTo(c, active[c], q, st, active, pending, active', pending', status')
    BY <1>0
  <2> QED BY <1>5, <2>1, <2>2, <2>3, EnterStep
<1>7. TypeOK'
  BY <1>0, <1>1, <1>6 DEF IInv, TypeOK, QueueTypes
<1>8. ArbiterInv'
  <2>1. \A d \in Conn : incoming[d] # None => incoming[d] \in Msg \ {m}
    BY <1>0 DEF IInv, ArbiterInv, TypeOK
  <2>2. \A x \in Msg : x > received' => x # m /\ status[x] = "unread"
    BY <1>0 DEF IInv, ArbiterInv, TypeOK, m, Msg
  <2>3. \A d \in Conn : (phase'[d] = "arbitrating" <=> phase[d] = "arbitrating")
                        /\ incoming'[d] = incoming[d]
    BY <1>0
  <2>4. ASSUME NEW d \in Conn, incoming[d] # None
        PROVE  /\ owner'[incoming[d]] = d
               /\ status'[incoming[d]] = "arbitrating"
    <3>1. /\ owner[incoming[d]] = d /\ status[incoming[d]] = "arbitrating"
          /\ incoming[d] \in Msg \ {m}
      BY <2>1, <2>4 DEF IInv, ArbiterInv
    <3> QED BY <1>1, <1>6, <3>1 DEF Spares, Waiting
  <2>5. \A x \in Msg : x > received' => status'[x] = "unread"
    BY <1>6, <2>2 DEF Spares, Waiting
  <2> QED BY <2>3, <2>4, <2>5 DEF IInv, ArbiterInv
<1>9. ClearInv'
  BY <1>0 DEF IInv, ClearInv, TypeOK, DrainsTo
<1>10. DoneStays
  BY <1>0, <1>6 DEF Spares, Waiting, DoneStays
<1> QED BY <1>6, <1>7, <1>8, <1>9, <1>10 DEF IInv

\* A message the arbiter queues, at either end.
LEMMA ArbiterQueueStep ==
  ASSUME IInv, NEW c \in Conn, ApplyReplace(c) \/ ApplyQueue(c)
  PROVE  IInv' /\ DoneStays
<1> USE ChatAssumption
<1> DEFINE m == incoming[c]
           qb == PushBack(pending[c], m)
           qf == PushFront(pending[c], m)
           sb == Enqueued(status, pending[c], m, "queued", 1)
           sf == Enqueued(status, pending[c], m, "fronted", Len(pending[c]))
<1>0. /\ m \in Msg /\ owner[m] = c /\ status[m] = "arbitrating"
      /\ phase[c] = "arbitrating"
      /\ phase' = [phase EXCEPT ![c] = "serving"]
      /\ incoming' = [incoming EXCEPT ![c] = None]
      /\ judged' = [judged EXCEPT ![c] = None]
      /\ UNCHANGED <<sock, registered, displaced, awaited, owner, received>>
  BY DEF IInv, ArbiterInv, TypeOK, ApplyReplace, ApplyQueue, ArbiterAnswers
<1>1. cancelled' \in SUBSET Msg
  BY DEF ApplyReplace, ApplyQueue, CancelActive, IInv, TypeOK
<1>2. /\ pending[c] \in Seq(Msg) /\ Len(pending[c]) <= PendingMax
      /\ status \in [Msg -> Statuses]
      /\ Local(c, active[c], pending[c], owner', status)
  BY <1>0 DEF IInv, TypeOK, QueueInv
<1>3. status[m] \notin Waiting \cup InFlight
  BY <1>0 DEF Waiting, InFlight
<1>4. owner'[m] = c /\ Arrives(c, m, owner, owner')
  BY <1>0 DEF Arrives
<1>5. /\ status[m] \in {"unread", "arbitrating"}
      /\ "queued" \in Waiting /\ "fronted" \in Waiting
  BY <1>0 DEF Waiting
<1>6. QueueTypes' /\ QueueInv' /\ IdleMeansDrained' /\ Spares(m, status, status')
  <2>1. CASE ApplyReplace(c)
    <3>1. DrainsTo(c, active[c], qf, sf, active, pending, active', pending',
                   status')
      BY <2>1 DEF ApplyReplace, StartNextIfIdle, DrainsTo
    <3> HIDE DEF m
    <3>2. Entered(c, active[c], owner', m, "fronted", status, qf, sf)
      BY <1>0, <1>2, <1>3, <1>4, EnqueueFront
    <3> HIDE DEF qf, sf
    <3> QED BY <1>0, <1>4, <1>5, <3>1, <3>2, EnterStep
  <2>2. CASE ApplyQueue(c)
    <3>1. DrainsTo(c, active[c], qb, sb, active, pending, active', pending',
                   status')
      BY <2>2 DEF ApplyQueue, StartNextIfIdle, DrainsTo
    <3> HIDE DEF m
    <3>2. Entered(c, active[c], owner', m, "queued", status, qb, sb)
      BY <1>0, <1>2, <1>3, <1>4, EnqueueBack
    <3> HIDE DEF qb, sb
    <3> QED BY <1>0, <1>4, <1>5, <3>1, <3>2, EnterStep
  <2> QED BY <2>1, <2>2
<1>7. TypeOK'
  BY <1>0, <1>1, <1>6 DEF IInv, TypeOK, QueueTypes, Phases
<1>8. ArbiterInv'
  <2>1. \A d \in Conn : d # c /\ incoming[d] # None
          => incoming[d] \in Msg \ {m} /\ incoming'[d] = incoming[d]
    BY <1>0 DEF IInv, ArbiterInv, TypeOK
  <2>2. \A x \in Msg : x > received' => x # m /\ status[x] = "unread"
    BY <1>0 DEF IInv, ArbiterInv
  <2>3. \A d \in Conn : phase'[d] = "arbitrating" <=>
          d # c /\ phase[d] = "arbitrating"
    BY <1>0 DEF IInv, TypeOK
  <2>4. incoming'[c] = None /\ \A d \in Conn : d # c => incoming'[d] = incoming[d]
    BY <1>0 DEF IInv, TypeOK
  <2> HIDE DEF m
  <2> QED BY <1>0, <1>6, <2>1, <2>2, <2>3, <2>4
      DEF IInv, ArbiterInv, Spares, Waiting
<1>9. ClearInv'
  BY <1>0 DEF ApplyReplace, ApplyQueue, StartNextIfIdle, IInv, ClearInv, TypeOK
<1>10. DoneStays
  BY <1>0, <1>6 DEF Spares, Waiting, DoneStays
<1> QED BY <1>6, <1>7, <1>8, <1>9, <1>10 DEF IInv

\* The worker's terminal: its message stays the one in flight.
LEMMA WorkerReturnsStep ==
  ASSUME IInv, NEW m \in Msg, WorkerReturns(m)
  PROVE  IInv'
<1> USE ChatAssumption DEF IInv
<1>1. /\ status' = [status EXCEPT ![m] = "returned"] /\ status[m] = "running"
      /\ status \in [Msg -> Statuses]
      /\ UNCHANGED <<phase, sock, registered, displaced, active, pending,
                     incoming, judged, awaited, owner, cancelled, received>>
  BY DEF WorkerReturns, TypeOK
<1>2. TypeOK'
  BY <1>1 DEF TypeOK, Statuses
<1>3. QueueInv'
  <2> SUFFICES ASSUME NEW d \in Conn
               PROVE  Local(d, active[d], pending[d], owner, status')
    BY <1>1 DEF QueueInv
  <2>1. \A x \in Msg : /\ status'[x] \in Waiting <=> status[x] \in Waiting
                       /\ status'[x] \in InFlight <=> status[x] \in InFlight
    BY <1>1 DEF Waiting, InFlight
  <2>2. Local(d, active[d], pending[d], owner, status)
    BY DEF QueueInv
  <2> QED BY <2>1, <2>2, LocalFrame
<1>4. IdleMeansDrained' /\ ClearInv'
  BY <1>1 DEF IdleMeansDrained, ClearInv
<1>5. ArbiterInv'
  BY <1>1 DEF ArbiterInv, TypeOK
<1> QED BY <1>2, <1>3, <1>4, <1>5

\* The runner ends: its message is done and the next waiting one starts.
LEMMA RunnerEndsStep ==
  ASSUME IInv, NEW c \in Conn, RunnerEnds(c)
  PROVE  IInv' /\ DoneStays /\ status'[active[c]] = "done"
<1> USE ChatAssumption
<1> DEFINE a == active[c]
           q == pending[c]
           st == [status EXCEPT ![a] = "done"]
<1>1. /\ a \in Msg /\ status[a] = "returned" /\ q \in Seq(Msg)
      /\ Len(q) <= PendingMax
      /\ active' = [active EXCEPT ![c] = ActiveAfter(None, q)]
      /\ pending' = [pending EXCEPT ![c] = PendingAfter(None, q)]
      /\ status' = StatusAfter(None, q, st)
      /\ UNCHANGED <<phase, sock, registered, displaced, incoming, judged,
                     awaited, owner, cancelled, received>>
  BY DEF IInv, TypeOK, RunnerEnds, StartNextIfIdle
<1>2. /\ st \in [Msg -> Statuses] /\ st[a] = "done"
      /\ \A x \in Msg : x # a => st[x] = status[x]
  BY <1>1 DEF IInv, TypeOK, Statuses
<1>3. owner[a] = c
  <2>1. Local(c, a, q, owner, status)
    BY DEF IInv, QueueInv
  <2>2. {x \in Msg : owner[x] = c /\ status[x] \in InFlight} = {a}
    BY <1>1, <2>1 DEF Local, Msg
  <2> QED BY <2>2
<1> HIDE DEF st
<1>4. \A d \in Conn : d # c => Local(d, active[d], pending[d], owner', st)
  <2> SUFFICES ASSUME NEW d \in Conn, d # c
               PROVE  Local(d, active[d], pending[d], owner', st)
    OBVIOUS
  <2>1. \A x \in Msg : owner[x] = d => st[x] = status[x]
    BY <1>2, <1>3
  <2>2. Local(d, active[d], pending[d], owner, status)
    BY DEF IInv, QueueInv
  <2>3. Local(d, active[d], pending[d], owner, st)
    BY <2>1, <2>2, LocalFrame
  <2> QED BY <1>1, <2>3
<1>5. Local(c, None, q, owner', st)
  <2>1. Local(c, a, q, owner, status)
    BY DEF IInv, QueueInv
  <2>2. /\ Lists(q, {x \in Msg : owner[x] = c /\ status[x] \in Waiting})
        /\ {x \in Msg : owner[x] = c /\ status[x] \in InFlight} = {a}
    BY <1>1, <2>1 DEF Local, Msg
  <2>3. {x \in Msg : owner[x] = c /\ st[x] \in Waiting}
          = {x \in Msg : owner[x] = c /\ status[x] \in Waiting}
    BY <1>1, <1>2 DEF Waiting
  <2>4. {x \in Msg : owner[x] = c /\ st[x] \in InFlight} = {}
    BY <1>2, <2>2 DEF InFlight
  <2>5. Lists(q, {x \in Msg : owner[x] = c /\ st[x] \in Waiting})
    BY <2>2, <2>3
  <2> QED BY <1>1, <2>4, <2>5 DEF Local
<1>6. QueueTypes' /\ QueueInv' /\ IdleMeansDrained' /\ Kept(st, status')
  <2>1. None \in Msg \cup {None}
    OBVIOUS
  <2> HIDE DEF a, q
  <2> QED BY <1>1, <1>2, <1>4, <1>5, <2>1, DrainStep
<1>7. TypeOK'
  BY <1>1, <1>6 DEF IInv, TypeOK, QueueTypes
<1>8. ArbiterInv'
  <2>1. \A x \in Msg : status[x] \in {"unread", "arbitrating"}
          => status'[x] = status[x]
    BY <1>1, <1>2, <1>6 DEF Kept, Waiting
  <2> QED BY <1>1, <2>1 DEF IInv, ArbiterInv, TypeOK
<1>9. ClearInv'
  <2>1. a # None /\ \A d \in Conn : d # c => active'[d] = active[d]
    BY <1>1 DEF IInv, TypeOK, Msg
  <2> QED BY <1>1, <2>1 DEF IInv, ClearInv
<1>10. DoneStays /\ status'[a] = "done"
  BY <1>1, <1>2, <1>6 DEF Kept, Waiting, DoneStays
<1> QED BY <1>6, <1>7, <1>8, <1>9, <1>10 DEF IInv

\* A handler leaving its loop loses at most the message held for the arbiter.
LEMMA LeaveLoopStep ==
  ASSUME IInv, NEW c \in Conn, LeaveLoop(c)
  PROVE  IInv'
<1> USE ChatAssumption
<1>1. /\ status' = [m \in Msg |-> IF m = incoming[c] THEN "lost" ELSE status[m]]
      /\ incoming' = [incoming EXCEPT ![c] = None]
      /\ judged' = [judged EXCEPT ![c] = None]
      /\ awaited' = [awaited EXCEPT ![c] = active[c]]
      /\ UNCHANGED <<displaced, active, pending, owner, received>>
      /\ phase' = [phase EXCEPT ![c] = "done"]
           \/ phase' = [phase EXCEPT ![c] = "waiting"]
  BY DEF LeaveLoop
<1>2. TypeOK'
  <2>1. /\ cancelled' \in SUBSET Msg
        /\ sock' \in [Conn -> {"unopened", "open", "closed"}]
        /\ registered' \in Conn \cup {None}
    BY DEF LeaveLoop, CancelActive, ClearSessionIfCurrent, IInv, TypeOK
  <2> QED BY <1>1, <2>1 DEF IInv, TypeOK, Statuses, Phases
<1>3. QueueInv'
  <2>1. CASE incoming[c] = None
    <3>1. status' = status
      BY <1>1, <2>1 DEF IInv, TypeOK, Msg
    <3> QED BY <1>1, <3>1 DEF IInv, QueueInv
  <2>2. CASE incoming[c] # None
    <3>1. /\ incoming[c] \in Msg /\ status[incoming[c]] = "arbitrating"
          /\ status'[incoming[c]] = "lost"
          /\ \A x \in Msg : x # incoming[c] => status'[x] = status[x]
      BY <1>1, <2>2 DEF IInv, ArbiterInv, TypeOK
    <3>2. \A d \in Conn : Local(d, active[d], pending[d], owner, status')
      BY <3>1, Bystander DEF Waiting, InFlight, IInv
    <3> QED BY <1>1, <3>2 DEF QueueInv
  <2> QED BY <2>1, <2>2
<1>4. IdleMeansDrained'
  BY <1>1 DEF IInv, IdleMeansDrained
<1>5. ClearInv'
  BY <1>1 DEF IInv, ClearInv, TypeOK
<1>6. ArbiterInv'
  <2>1. ASSUME NEW d \in Conn
        PROVE  /\ incoming'[d] # None => /\ phase'[d] = "arbitrating"
                                         /\ owner'[incoming'[d]] = d
                                         /\ status'[incoming'[d]] = "arbitrating"
               /\ phase'[d] = "arbitrating" => incoming'[d] # None
    <3>1. CASE d = c
      BY <1>1, <3>1 DEF IInv, TypeOK
    <3>2. CASE d # c
      <4>1. incoming'[d] = incoming[d] /\ phase'[d] = phase[d]
        BY <1>1, <3>2 DEF IInv, TypeOK
      <4>2. incoming[d] # None => incoming[d] # incoming[c]
        BY <3>2 DEF IInv, ArbiterInv, TypeOK
      <4> QED BY <1>1, <4>1, <4>2 DEF IInv, ArbiterInv, TypeOK
    <3> QED BY <3>1, <3>2
  <2>2. \A m \in Msg : m > received' => status'[m] = "unread"
    BY <1>1 DEF IInv, ArbiterInv, TypeOK, Msg
  <2> QED BY <2>1, <2>2 DEF ArbiterInv
<1> QED BY <1>2, <1>3, <1>4, <1>5, <1>6 DEF IInv

-----------------------------------------------------------------------------
(* The theorems.                                                            *)

\* No step of the handler breaks the invariant.
LEMMA NextPreserves == IInv /\ [Next]_vars => IInv'
<1> SUFFICES ASSUME IInv, [Next]_vars PROVE IInv'
  OBVIOUS
<1>1. ASSUME NEW c \in Conn,
             \/ Register(c) \/ CloseReturns(c) \/ Greet(c) \/ ClientCloses(c)
             \/ StartClear(c) \/ FinishClear(c) \/ HandlerEnds(c)
      PROVE  IInv'
  BY <1>1, ConnectionSteps
<1>2. ASSUME NEW c \in Conn,
             KeywordDirective(c) \/ AskArbiter(c) \/ ApplyInterruptOnly(c)
      PROVE  IInv'
  BY <1>2, DirectiveSteps
<1>3. ASSUME NEW c \in Conn, ChatWhenIdle(c) PROVE IInv'
  BY <1>3, ChatWhenIdleStep
<1>4. ASSUME NEW c \in Conn, ApplyReplace(c) \/ ApplyQueue(c) PROVE IInv'
  BY <1>4, ArbiterQueueStep
<1>5. ASSUME NEW c \in Conn, RunnerEnds(c) PROVE IInv'
  BY <1>5, RunnerEndsStep
<1>6. ASSUME NEW c \in Conn, LeaveLoop(c) PROVE IInv'
  BY <1>6, LeaveLoopStep
<1>7. ASSUME NEW m \in Msg, WorkerReturns(m) PROVE IInv'
  BY <1>7, WorkerReturnsStep
<1>8. CASE UNCHANGED vars
  BY <1>8 DEF vars, IInv, TypeOK, QueueInv, IdleMeansDrained, ArbiterInv, ClearInv
<1> QED BY <1>1, <1>2, <1>3, <1>4, <1>5, <1>6, <1>7, <1>8 DEF Next

\* So it always holds.
LEMMA Invariance == Spec => []IInv
BY InitEstablishes, NextPreserves, PTL DEF Spec

\* Every variable keeps its type and no pending queue outgrows its bound, for
\* any number of connections and messages (WebsocketSessionState's fields).
THEOREM TypeCorrect == Spec => []TypeOK
<1>1. IInv => TypeOK
  BY DEF IInv
<1> QED BY <1>1, Invariance, PTL

\* No lost wakeup: whatever interleaving of reads, arbiter answers, runner
\* ends and disconnects, an idle connection has nothing left to start.
THEOREM NoLostWakeup == Spec => []IdleMeansDrained
<1>1. IInv => IdleMeansDrained
  BY DEF IInv
<1> QED BY <1>1, Invariance, PTL

\* A connection runs one request at a time, the one its session state holds
\* the cancel event of.
THEOREM OneRequestInFlight == Spec => []OneInFlight
<1>1. IInv => OneInFlight
  BY DEF IInv, QueueInv, Local, OneInFlight, Of
<1> QED BY <1>1, Invariance, PTL

\* The pending deque is exact: every waiting message is in it once, and only
\* overflow or a start takes it out.
THEOREM QueueIsExact == Spec => []PendingIsExact
<1>1. IInv => PendingIsExact
  BY DEF IInv, QueueInv, Local, PendingIsExact, Of
<1> QED BY <1>1, Invariance, PTL

\* A connection that clears the conversation neither runs a request of its own
\* nor has one waiting to start.
THEOREM ClearIsExclusive == Spec => []ClearExcludesOwnRequests
<1>1. IInv => ClearExcludesOwnRequests
  <2> SUFFICES ASSUME IInv, NEW c \in Conn, phase[c] = "clearing"
               PROVE  Of(c, InFlight \cup Waiting) = {}
    BY DEF ClearExcludesOwnRequests
  <2>1. active[c] = None /\ pending[c] = <<>>
    BY DEF IInv, ClearInv, IdleMeansDrained
  <2>2. /\ {m \in Msg : owner[m] = c /\ status[m] \in InFlight} = {}
        /\ Lists(<<>>, {m \in Msg : owner[m] = c /\ status[m] \in Waiting})
    BY <2>1 DEF IInv, QueueInv, Local
  <2>3. {m \in Msg : owner[m] = c /\ status[m] \in Waiting} = {}
    BY <2>2 DEF Lists
  <2> QED BY <2>2, <2>3 DEF Of
<1> QED BY <1>1, Invariance, PTL

\* Only a later connection takes the slot from a live handler: taking
\* the slot displaces its holder, and a handler that ends gives back no slot but
\* its own (_register_session, _clear_session_if_current).
THEOREM SlotIsTheLatests == Spec => []LatestHoldsSlot
<1> USE ChatAssumption
<1>1. Init => SlotInv
  BY DEF Init, SlotInv, LatestHoldsSlot
<1>2. TypeOK /\ SlotInv /\ [Next]_vars => SlotInv'
  <2> SUFFICES ASSUME TypeOK, SlotInv, [Next]_vars
               PROVE  SlotInv'
    OBVIOUS
  <2> USE DEF TypeOK, LatestHoldsSlot
  <2> DEFINE Live(ph) == {c \in Conn : ph[c] \notin {"new", "done"}}
  <2>1. ASSUME NEW c \in Conn, Register(c) PROVE SlotInv'
    <3>1. /\ registered' = c /\ displaced[c] = None
          /\ displaced' = [displaced EXCEPT ![c] = registered]
          /\ \A d \in Conn : d # c => phase'[d] = phase[d]
          /\ phase'[c] # "new"
      BY <2>1 DEF Register, SlotInv
    <3>2. \A d \in Conn : d # c => displaced'[d] = displaced[d]
      BY <3>1
    <3> QED BY <3>1, <3>2 DEF SlotInv
  <2>2. ASSUME UNCHANGED <<registered, displaced>>,
               Live(phase') \subseteq Live(phase),
               \A c \in Conn : phase'[c] = "new" => phase[c] = "new"
        PROVE  SlotInv'
    BY <2>2 DEF SlotInv
  <2>3. ASSUME NEW c \in Conn, LeaveLoop(c) PROVE SlotInv'
    <3>1. /\ displaced' = displaced /\ phase[c] \notin {"new", "done"}
          /\ \/ /\ phase' = [phase EXCEPT ![c] = "done"]
                /\ registered' = IF registered = c THEN None ELSE registered
             \/ /\ phase' = [phase EXCEPT ![c] = "waiting"]
                /\ registered' = registered
      BY <2>3 DEF LeaveLoop, ClearSessionIfCurrent
    <3> QED BY <3>1 DEF SlotInv
  <2>4. ASSUME NEW c \in Conn, HandlerEnds(c) PROVE SlotInv'
    BY <2>4 DEF HandlerEnds, ClearSessionIfCurrent, SlotInv
  <2>5. ASSUME NEW c \in Conn, CloseReturns(c) \/ Greet(c) \/ ClientCloses(c)
        PROVE  SlotInv'
    BY <2>2, <2>5 DEF CloseReturns, Greet, ClientCloses
  <2>6. ASSUME NEW c \in Conn, \/ KeywordDirective(c) \/ ChatWhenIdle(c)
                               \/ AskArbiter(c)
        PROVE  SlotInv'
    BY <2>2, <2>6 DEF KeywordDirective, ChatWhenIdle, AskArbiter, ReadMsg
  <2>7. ASSUME NEW c \in Conn, ApplyInterruptOnly(c) \/ ApplyReplace(c)
                               \/ ApplyQueue(c)
        PROVE  SlotInv'
    BY <2>2, <2>7 DEF ApplyInterruptOnly, ApplyReplace, ApplyQueue,
                      ArbiterAnswers
  <2>8. ASSUME NEW c \in Conn, StartClear(c) \/ FinishClear(c) \/ RunnerEnds(c)
        PROVE  SlotInv'
    BY <2>2, <2>8 DEF StartClear, FinishClear, RunnerEnds
  <2>9. ASSUME NEW m \in Msg, WorkerReturns(m) PROVE SlotInv'
    BY <2>2, <2>9 DEF WorkerReturns
  <2>10. CASE UNCHANGED vars
    BY <2>2, <2>10 DEF vars
  <2> QED BY <2>1, <2>3, <2>4, <2>5, <2>6, <2>7, <2>8, <2>9, <2>10 DEF Next
<1>3. SlotInv => LatestHoldsSlot
  BY DEF SlotInv
<1> QED BY <1>1, <1>2, <1>3, TypeCorrect, PTL DEF Spec

-----------------------------------------------------------------------------
(* What the arbiter's interrupt may cancel.                                 *)

\* Every other step leaves what is done alone.
LEMMA NextDone ==
  ASSUME IInv, [Next]_vars
  PROVE  DoneStays
<1>1. ASSUME NEW c \in Conn, KeywordDirective(c) \/ AskArbiter(c) PROVE DoneStays
  <2>1. /\ received + 1 \in Msg /\ status[received + 1] = "unread"
        /\ \A x \in Msg \ {received + 1} : status'[x] = status[x]
    BY <1>1, ChatAssumption
    DEF KeywordDirective, AskArbiter, ReadMsg, IInv, TypeOK, ArbiterInv, Msg
  <2> QED BY <2>1 DEF DoneStays
<1>2. ASSUME NEW c \in Conn, ApplyInterruptOnly(c) PROVE DoneStays
  <2>1. /\ status[incoming[c]] = "arbitrating"
        /\ \A x \in Msg \ {incoming[c]} : status'[x] = status[x]
    BY <1>2 DEF ApplyInterruptOnly, ArbiterAnswers, IInv, TypeOK, ArbiterInv
  <2> QED BY <2>1 DEF DoneStays
<1>3. ASSUME NEW c \in Conn, LeaveLoop(c) PROVE DoneStays
  <2>1. incoming[c] # None => status[incoming[c]] = "arbitrating"
    BY DEF IInv, ArbiterInv
  <2>2. \A x \in Msg : x # None
    BY ChatAssumption DEF Msg
  <2>3. \A x \in Msg : x # incoming[c] => status'[x] = status[x]
    BY <1>3 DEF LeaveLoop
  <2> QED BY <2>1, <2>2, <2>3 DEF DoneStays
<1>4. ASSUME NEW m \in Msg, WorkerReturns(m) PROVE DoneStays
  BY <1>4 DEF WorkerReturns, DoneStays, IInv, TypeOK
<1>5. ASSUME NEW c \in Conn,
             \/ Register(c) \/ CloseReturns(c) \/ Greet(c) \/ ClientCloses(c)
             \/ StartClear(c) \/ FinishClear(c) \/ HandlerEnds(c)
      PROVE  DoneStays
  BY <1>5 DEF Register, CloseReturns, Greet, ClientCloses, StartClear, FinishClear,
              HandlerEnds, DoneStays
<1>6. CASE UNCHANGED vars
  BY <1>6 DEF vars, DoneStays
<1> QED BY <1>1, <1>2, <1>3, <1>4, <1>5, <1>6, ChatWhenIdleStep, ArbiterQueueStep,
           RunnerEndsStep DEF Next

\* While the arbiter is asked, only the end of its runner changes what is active.
LEMMA NextJudged ==
  ASSUME IInv, JudgedInv, [Next]_vars
  PROVE  JudgedInv'
<1> USE ChatAssumption
<1>0. DoneStays
  BY NextDone
<1> SUFFICES ASSUME NEW d \in Conn, phase'[d] = "arbitrating"
             PROVE  judged'[d] \in Msg /\ (active'[d] = judged'[d] \/ status'[judged'[d]] = "done")
  BY DEF JudgedInv
<1>1. ASSUME phase[d] = "arbitrating", judged'[d] = judged[d],
             active'[d] = active[d] \/ status'[active[d]] = "done"
      PROVE  judged'[d] \in Msg /\ (active'[d] = judged'[d] \/ status'[judged'[d]] = "done")
  BY <1>0, <1>1 DEF JudgedInv, DoneStays
<1>2. ASSUME NEW c \in Conn,
             \/ Register(c) \/ CloseReturns(c) \/ Greet(c) \/ ClientCloses(c)
             \/ StartClear(c) \/ FinishClear(c) \/ HandlerEnds(c) \/ KeywordDirective(c)
      PROVE  phase[d] = "arbitrating" /\ judged'[d] = judged[d] /\ active'[d] = active[d]
  BY <1>2 DEF Register, CloseReturns, Greet, ClientCloses, StartClear, FinishClear,
              HandlerEnds, KeywordDirective, IInv, TypeOK
<1>3. ASSUME NEW c \in Conn, AskArbiter(c)
      PROVE  judged'[d] \in Msg /\ (active'[d] = judged'[d] \/ status'[judged'[d]] = "done")
  <2>1. CASE d = c
    BY <1>3, <2>1 DEF AskArbiter, IInv, TypeOK
  <2>2. CASE d # c
    BY <1>1, <1>3, <2>2 DEF AskArbiter, IInv, TypeOK
  <2> QED BY <2>1, <2>2
<1>4. ASSUME NEW c \in Conn, ApplyInterruptOnly(c) \/ LeaveLoop(c)
      PROVE  phase[d] = "arbitrating" /\ judged'[d] = judged[d] /\ active'[d] = active[d]
  <2>1. d # c /\ phase[d] = "arbitrating"
    BY <1>4 DEF ApplyInterruptOnly, ArbiterAnswers, LeaveLoop, IInv, TypeOK
  <2> QED BY <1>4, <2>1 DEF ApplyInterruptOnly, ArbiterAnswers, LeaveLoop, IInv, TypeOK
<1>5. ASSUME NEW c \in Conn, ChatWhenIdle(c) \/ ApplyReplace(c) \/ ApplyQueue(c)
      PROVE  phase[d] = "arbitrating" /\ judged'[d] = judged[d] /\ active'[d] = active[d]
  <2>1. d # c /\ phase[d] = "arbitrating"
    BY <1>5 DEF ChatWhenIdle, ReadMsg, ApplyReplace, ApplyQueue, ArbiterAnswers, IInv, TypeOK
  <2> QED BY <1>5, <2>1
      DEF ChatWhenIdle, ApplyReplace, ApplyQueue, ArbiterAnswers, StartNextIfIdle, IInv, TypeOK
<1>6. ASSUME NEW c \in Conn, RunnerEnds(c)
      PROVE  /\ phase[d] = "arbitrating" /\ judged'[d] = judged[d]
             /\ active'[d] = active[d] \/ status'[active[d]] = "done"
  <2>1. status'[active[c]] = "done"
    BY <1>6, RunnerEndsStep
  <2> QED BY <1>6, <2>1 DEF RunnerEnds, StartNextIfIdle, IInv, TypeOK
<1>7. ASSUME (\E m \in Msg : WorkerReturns(m)) \/ UNCHANGED vars
      PROVE  phase[d] = "arbitrating" /\ judged'[d] = judged[d] /\ active'[d] = active[d]
  BY <1>7 DEF WorkerReturns, vars
<1> QED BY <1>1, <1>2, <1>3, <1>4, <1>5, <1>6, <1>7 DEF Next

\* An interrupt decided on one request never hits an unrelated one: what it
\* cancels is that request, or the one that took its place when it ended during
\* the arbiter's call (_apply_arbiter_decision).
THEOREM InterruptsHitTheirTarget == Spec => ArbiterHitsJudgedOrSuccessor
<1> DEFINE Hits == \A c \in Conn :
      phase[c] = "arbitrating" /\ phase'[c] = "serving" =>
        \A m \in cancelled' \ cancelled :
          m = judged[c] \/ (m = active[c] /\ status[judged[c]] = "done")
<1>1. Init => JudgedInv
  BY DEF Init, JudgedInv
<1>2. IInv /\ JudgedInv /\ [Next]_vars => JudgedInv'
  BY NextJudged
<1>3. IInv /\ JudgedInv /\ [Next]_vars => [Hits]_vars
  <2> SUFFICES ASSUME IInv, JudgedInv, Next, NEW c \in Conn,
                      phase[c] = "arbitrating", phase'[c] = "serving",
                      NEW m \in cancelled' \ cancelled
               PROVE  m = judged[c] \/ (m = active[c] /\ status[judged[c]] = "done")
    OBVIOUS
  <2>1. ApplyInterruptOnly(c) \/ ApplyReplace(c) \/ ApplyQueue(c)
    <3> USE DEF IInv, TypeOK
    <3>1. \A d \in Conn : ~Register(d) /\ ~CloseReturns(d) /\ ~Greet(d) /\ ~ClientCloses(d)
      BY DEF Register, CloseReturns, Greet, ClientCloses
    <3>2. \A d \in Conn : ~KeywordDirective(d) /\ ~ChatWhenIdle(d) /\ ~AskArbiter(d)
      BY DEF KeywordDirective, ChatWhenIdle, AskArbiter, ReadMsg
    <3>3. \A d \in Conn : ~StartClear(d) /\ ~FinishClear(d) /\ ~RunnerEnds(d) /\ ~HandlerEnds(d)
      BY DEF StartClear, FinishClear, RunnerEnds, HandlerEnds
    <3>4. \A d \in Conn : ~LeaveLoop(d)
      BY DEF LeaveLoop
    <3>5. \A x \in Msg : ~WorkerReturns(x)
      BY DEF WorkerReturns
    <3>6. \A d \in Conn : ArbiterAnswers(d) => d = c
      BY DEF ArbiterAnswers
    <3> QED BY <3>1, <3>2, <3>3, <3>4, <3>5, <3>6
        DEF Next, ApplyInterruptOnly, ApplyReplace, ApplyQueue
  <2>2. m = active[c]
    BY <2>1 DEF ApplyInterruptOnly, ApplyReplace, ApplyQueue, CancelActive
  <2> QED BY <2>2 DEF JudgedInv
<1> QED BY <1>1, <1>2, <1>3, Invariance, PTL DEF Spec, ArbiterHitsJudgedOrSuccessor
=============================================================================
