--------------------------- MODULE ToolLoopProofs ---------------------------
(***************************************************************************)
(* Proofs about ResultStore and ToolLoop for any number of requests and clears, *)
(* any limits and any batches: what a handle in a prompt leads to, what the      *)
(* search history shows, and the safety half of what a request is promised.  *)
(***************************************************************************)
EXTENDS ToolLoop, SequenceTheorems, FiniteSetTheorems, WellFoundedInduction,
        TLAPS

-----------------------------------------------------------------------------
(* Invariants of a store, as predicates on the record.                       *)

\* The record and its fields' types, which hold whatever a clear does.
Shaped(rs) ==
  /\ rs = [entries |-> rs.entries, history |-> rs.history, counter |-> rs.counter]
  /\ rs.history \in Seq([handle : Nat, session : Nat])
  /\ rs.counter \in Nat

\* And a handle was counted.
Formed(rs) ==
  /\ rs = [entries |-> rs.entries, history |-> rs.history, counter |-> rs.counter]
  /\ rs.history \in Seq([handle : Nat, session : Nat])
  /\ rs.counter \in Nat
  /\ Handles(rs) \subseteq 1 .. rs.counter

\* A history entry has a handle of its own, which holds its session's results.
Listed(rs) ==
  \A i \in DOMAIN rs.history :
    LET e == rs.history[i] IN
    /\ e.handle \in 1 .. rs.counter
    /\ e.handle \in Handles(rs) => rs.entries[e.handle] = e.session
    /\ \A j \in DOMAIN rs.history : rs.history[j].handle = e.handle => i = j

\* A pair of handle and session told to the model, true in the store and not
\* contradicted by its history.
Names(rs, h, session) ==
  /\ h \in 1 .. rs.counter
  /\ h \in Handles(rs) => rs.entries[h] = session
  /\ \A i \in DOMAIN rs.history :
       rs.history[i].handle = h => rs.history[i].session = session

StoreInv(rs) == Formed(rs) /\ Listed(rs)

\* The history keeps to its cap, and its handles are in the store.
Roomy(rs) ==
  /\ Len(rs.history) <= HistoryMax
  /\ HistoryHandles(rs) \subseteq Handles(rs)

-----------------------------------------------------------------------------
(* Invariants of the loop.                                                   *)

\* The calls of a step, their results and what is left to run belong together.
WorkInv ==
  \A r \in Req :
    /\ DOMAIN found[r] = DOMAIN calls[r]
    /\ running[r] \subseteq DOMAIN calls[r]
    /\ \A k \in DOMAIN batches[r] : batches[r][k] \subseteq DOMAIN calls[r]
    /\ pc[r] # "tools" => running[r] = {} /\ batches[r] = <<>>
    /\ next[r] \in IF pc[r] \in {"tools", "trace"} THEN DOMAIN calls[r] ELSE {1}

\* How often the model was asked, and how that shows in the outcome.
AskInv ==
  \A r \in Req :
    /\ outcome[r] = "none" <=> pc[r] # "ended"
    /\ pc[r] = "new" => asks[r] = 0
    /\ pc[r] \in {"ready", "tools", "trace"} => asks[r] <= Limit
    /\ pc[r] = "asking" => asks[r] \in 1 .. Limit
    /\ pc[r] = "final" => asks[r] = Limit + 1

\* What is in the messages of a running request, and nothing once it ended.
ToldInv ==
  \A r \in Req :
    /\ ~InLoop(r) => told[r] = {}
    /\ ~torn /\ r \notin crossed => \A p \in told[r] : Names(results, p[1], p[2])

\* A clear of which nothing was stored in the midst leaves the store in order.
OrderInv ==
  /\ Shaped(results)
  /\ ~torn => StoreInv(results)

IInv == TypeOK /\ WorkInv /\ AskInv /\ OrderInv /\ ToldInv

\* The cap on the history leaves room in the store for one handle more.
Room == HistoryMax \in 1 .. StoreMax - 1
-----------------------------------------------------------------------------
(* What the methods of the store keep.                                       *)

\* A non-empty set of naturals holds its least member, so the entry a
\* drill-down finds is one of its session.
LEMMA LeastIsMember ==
  ASSUME NEW I \in SUBSET Nat, I # {}
  PROVE  Min(I) \in I
<1> DEFINE R == {p \in Nat \X Nat : p[1] < p[2]}
<1>1. IsWellFoundedOn(R, Nat)
  BY NatLessThanWellFounded DEF OpToRel
<1>2. \E x \in I : \A y \in I : <<y, x>> \notin R
  <2> HIDE DEF R
  <2> QED BY <1>1, WFMin
<1>3. PICK x \in I : \A y \in I : <<y, x>> \notin R
  BY <1>2
<1>4. \A y \in I : x <= y
  <2> SUFFICES ASSUME NEW y \in I PROVE x <= y
    OBVIOUS
  <2>1. ~ (y < x)
    BY <1>3
  <2> QED BY <2>1
<1> QED BY <1>4 DEF Min

\* find_history_entry_by_session: the entry found is of the session asked for.
LEMMA EntryFound ==
  ASSUME NEW rs, Shaped(rs), NEW session, EntryOf(rs, session) > 0
  PROVE  /\ EntryOf(rs, session) \in DOMAIN rs.history
         /\ rs.history[EntryOf(rs, session)].session = session
<1> DEFINE I == {i \in 1 .. Len(rs.history) : rs.history[i].session = session}
<1>1. EntryOf(rs, session) = IF I # {} THEN Min(I) ELSE 0
  BY DEF EntryOf, SelectInSeq
<1>2. I \in SUBSET Nat
  BY DEF Shaped
<1>3. I # {} => Min(I) \in I
  <2> HIDE DEF I
  <2> QED BY <1>2, LeastIsMember
<1>4. EntryOf(rs, session) \in I
  <2> HIDE DEF I
  <2> QED BY <1>1, <1>3
<1>5. DOMAIN rs.history = 1 .. Len(rs.history)
  BY DEF Shaped
<1> QED BY <1>4, <1>5

\* Whatever leaves the store, what is left stays true.
LEMMA Dropping ==
  ASSUME NEW rs, StoreInv(rs), NEW hs
  PROVE  LET t == [rs EXCEPT !.entries = Without(@, hs)] IN
         /\ StoreInv(t)
         /\ t.history = rs.history /\ t.counter = rs.counter
         /\ Handles(t) = Handles(rs) \ hs
         /\ \A h \in Handles(t) : t.entries[h] = rs.entries[h]
         /\ \A h, session : Names(rs, h, session) => Names(t, h, session)
<1> DEFINE t == [rs EXCEPT !.entries = Without(@, hs)]
<1>1. t = [entries |-> Without(rs.entries, hs), history |-> rs.history,
           counter |-> rs.counter]
  BY DEF StoreInv, Formed
<1>2. /\ Handles(t) = Handles(rs) \ hs
      /\ \A h \in Handles(t) : t.entries[h] = rs.entries[h]
  BY <1>1 DEF Without, Restrict, Handles
<1> QED BY <1>1, <1>2 DEF StoreInv, Formed, Listed, Names

\* store_handle: a new handle, for the payload unless the cap drops it at once.
LEMMA HandleStored ==
  ASSUME NEW rs, StoreInv(rs), NEW payload
  PROVE  LET t == StoreHandle(rs, payload) IN
         /\ StoreInv(t)
         /\ t.history = rs.history /\ t.counter = rs.counter + 1
         /\ Handles(t) \subseteq Handles(rs) \cup {t.counter}
         /\ \A h \in Handles(t) :
              t.entries[h] = IF h = t.counter THEN payload ELSE rs.entries[h]
         /\ \A h, session : Names(rs, h, session) => Names(t, h, session)
<1> DEFINE u == [rs EXCEPT !.counter = @ + 1,
                           !.entries = With(@, rs.counter + 1, payload)]
<1>1. u = [entries |-> With(rs.entries, rs.counter + 1, payload),
           history |-> rs.history, counter |-> rs.counter + 1]
  <2> DEFINE w == With(rs.entries, rs.counter + 1, payload)
  <2>1. u = [rs EXCEPT !.counter = rs.counter + 1, !.entries = w]
    OBVIOUS
  <2>2. rs = [entries |-> rs.entries, history |-> rs.history,
              counter |-> rs.counter]
    BY DEF StoreInv, Formed
  <2>3. u = [entries |-> w, history |-> rs.history, counter |-> rs.counter + 1]
    <3> HIDE DEF w, u
    <3> QED BY <2>1, <2>2
  <2> QED BY <2>3
<1>2. /\ Handles(u) = Handles(rs) \cup {rs.counter + 1}
      /\ \A h \in Handles(u) :
           u.entries[h] = IF h = rs.counter + 1 THEN payload ELSE rs.entries[h]
  BY <1>1 DEF With, Handles
<1>3. /\ StoreInv(u)
      /\ \A h, session : Names(rs, h, session) => Names(u, h, session)
  <2> HIDE DEF u
  <2>0. u.history = rs.history /\ u.counter = rs.counter + 1
    BY <1>1
  <2>1. Formed(u)
    <3>1. /\ rs.history \in Seq([handle : Nat, session : Nat])
          /\ rs.counter \in Nat
          /\ Handles(rs) \subseteq 1 .. rs.counter
      BY DEF StoreInv, Formed
    <3>2. u = [entries |-> u.entries, history |-> u.history,
               counter |-> u.counter]
      BY <1>1
    <3>3. Handles(u) \subseteq 1 .. u.counter
      BY <3>1, <2>0, <1>2
    <3> QED BY <3>1, <3>2, <3>3, <2>0 DEF Formed
  <2>2. Listed(u)
    <3> SUFFICES ASSUME NEW i \in DOMAIN rs.history
                 PROVE  LET e == rs.history[i] IN
                   /\ e.handle \in 1 .. u.counter
                   /\ e.handle \in Handles(u) => u.entries[e.handle] = e.session
                   /\ \A j \in DOMAIN rs.history :
                        rs.history[j].handle = e.handle => i = j
      BY <2>0 DEF Listed
    <3>1. rs.counter \in Nat /\ rs.history[i].handle \in 1 .. rs.counter
      BY DEF StoreInv, Formed, Listed
    <3> QED BY <3>1, <2>0, <1>2 DEF StoreInv, Listed
  <2>3. ASSUME NEW h, NEW session, Names(rs, h, session)
        PROVE  Names(u, h, session)
    BY <1>1, <1>2, <2>3 DEF StoreInv, Formed, Names
  <2> QED BY <2>1, <2>2, <2>3 DEF StoreInv
<1>4. \E hs : StoreHandle(rs, payload) = [u EXCEPT !.entries = Without(@, hs)]
  BY DEF StoreHandle, EnforceCap
<1>5. u.history = rs.history /\ u.counter = rs.counter + 1
  BY <1>1
<1>6. PICK hs : StoreHandle(rs, payload) = [u EXCEPT !.entries = Without(@, hs)]
  BY <1>4
<1>7. \A g :
        LET t == [u EXCEPT !.entries = Without(@, g)] IN
        /\ StoreInv(t)
        /\ t.history = u.history /\ t.counter = u.counter
        /\ Handles(t) = Handles(u) \ g
        /\ \A h \in Handles(t) : t.entries[h] = u.entries[h]
        /\ \A h, session : Names(u, h, session) => Names(t, h, session)
  <2> HIDE DEF u
  <2> QED BY <1>3, Dropping
<1> HIDE DEF u
<1> QED BY <1>2, <1>3, <1>5, <1>6, <1>7
\* What is left of a sequence without its first n elements.
LEMMA Suffix ==
  ASSUME NEW S, NEW s \in Seq(S), NEW n \in 0 .. Len(s)
  PROVE  LET t == SubSeq(s, n + 1, Len(s)) IN
         /\ t \in Seq(S) /\ Len(t) = Len(s) - n
         /\ \A i \in DOMAIN t :
              i \in Nat /\ i + n \in DOMAIN s /\ i + n > n /\ t[i] = s[i + n]
<1> DEFINE t == SubSeq(s, n + 1, Len(s))
<1>1. \A i \in n + 1 .. Len(s) : s[i] \in S
  OBVIOUS
<1>2. /\ t \in Seq(S)
      /\ Len(t) = IF n + 1 <= Len(s) THEN Len(s) - (n + 1) + 1 ELSE 0
      /\ \A i \in 1 .. Len(s) - (n + 1) + 1 : t[i] = s[n + 1 + i - 1]
  BY <1>1, SubSeqProperties
<1> HIDE DEF t
<1>3. Len(t) = Len(s) - n
  BY <1>2
<1>4. ASSUME NEW i \in DOMAIN t
      PROVE  i \in Nat /\ i + n \in DOMAIN s /\ i + n > n /\ t[i] = s[i + n]
  <2>1. i \in 1 .. Len(s) - n
    BY <1>2, <1>3
  <2>2. n + 1 + i - 1 = i + n /\ i \in 1 .. Len(s) - (n + 1) + 1
    BY <2>1
  <2>3. t[i] = s[n + 1 + i - 1]
    BY <1>2, <2>2, Zenon
  <2>4. t[i] = s[i + n]
    BY <2>2, <2>3, Zenon
  <2>5. i \in Nat /\ i + n \in 1 .. Len(s) /\ i + n > n
    BY <2>1
  <2> QED BY <2>4, <2>5
<1> QED BY <1>2, <1>3, <1>4

\* Eviction takes the oldest entries and their handles; what is left of the
\* history keeps its handles, which are no others'.
LEMMA Evicting ==
  ASSUME NEW rs, StoreInv(rs)
  PROVE  LET t == EvictHistory(rs) IN
         /\ StoreInv(t)
         /\ t.counter = rs.counter
         /\ \A h, session : Names(rs, h, session) => Names(t, h, session)
         /\ HistoryMax > 0 => Len(t.history) <= HistoryMax
         /\ HistoryHandles(rs) \subseteq Handles(rs)
              => HistoryHandles(t) \subseteq Handles(t)
<1> DEFINE n == Overflow(rs.history)
           hs == {rs.history[i].handle : i \in 1 .. n}
           u == [rs EXCEPT !.entries = Without(@, hs)]
           rest == SubSeq(rs.history, n + 1, Len(rs.history))
           t == [entries |-> u.entries, history |-> rest, counter |-> rs.counter]
<1>1. rs.history \in Seq([handle : Nat, session : Nat])
  BY DEF StoreInv, Formed
<1>2. /\ n \in 0 .. Len(rs.history)
      /\ HistoryMax > 0 => Len(rs.history) - n <= HistoryMax
  BY <1>1, StoreAssumption DEF Overflow
<1> HIDE DEF n
<1>3. /\ rest \in Seq([handle : Nat, session : Nat])
      /\ Len(rest) = Len(rs.history) - n
      /\ \A i \in DOMAIN rest :
           /\ i \in Nat /\ i + n \in DOMAIN rs.history /\ i + n > n
           /\ rest[i] = rs.history[i + n]
  BY <1>1, <1>2, Suffix
<1>4. EvictHistory(rs) = t
  <2>1. rs = [entries |-> rs.entries, history |-> rs.history,
              counter |-> rs.counter]
    BY DEF StoreInv, Formed
  <2>2. /\ EvictHistory(rs) = [entries |-> Without(rs.entries, hs),
                               history |-> rest, counter |-> rs.counter]
        /\ u.entries = Without(rs.entries, hs)
    <3>1. EvictHistory(rs) = [rs EXCEPT !.history = rest,
                                        !.entries = Without(rs.entries, hs)]
      BY DEF EvictHistory, n
    <3> HIDE DEF hs, rest
    <3> QED BY <2>1, <3>1
  <2> QED BY <2>2
<1>5. /\ StoreInv(u) /\ u.history = rs.history /\ u.counter = rs.counter
      /\ Handles(u) = Handles(rs) \ hs
      /\ \A h, session : Names(rs, h, session) => Names(u, h, session)
  <2> HIDE DEF hs
  <2> QED BY Dropping
<1> HIDE DEF rest, u, hs
<1>6. \A i \in DOMAIN rest : i + n \in DOMAIN u.history /\ rest[i] = u.history[i + n]
  BY <1>3, <1>5
<1>7. Handles(t) = Handles(u) /\ t.history = rest /\ t.counter = u.counter
      /\ t.entries = u.entries
  BY <1>5 DEF Handles
<1>8. Formed(t)
  BY <1>3, <1>5, <1>7 DEF StoreInv, Formed
<1>9. Listed(t)
  <2> HIDE DEF t
  <2>1. \A i, j \in DOMAIN rest : i + n = j + n => i = j
    BY <1>2, <1>3
  <2>2. \A i \in DOMAIN rest :
          /\ rest[i].handle \in 1 .. t.counter
          /\ rest[i].handle \in Handles(t)
               => t.entries[rest[i].handle] = rest[i].session
    BY <1>5, <1>6, <1>7 DEF StoreInv, Listed
  <2>3. \A i, j \in DOMAIN rest : rest[j].handle = rest[i].handle => i = j
    BY <1>5, <1>6, <2>1 DEF StoreInv, Listed
  <2> QED BY <1>7, <2>2, <2>3 DEF Listed
<1>10. ASSUME NEW h, NEW session, Names(rs, h, session)
       PROVE  Names(t, h, session)
  <2> HIDE DEF t
  <2> QED BY <1>5, <1>6, <1>7, <1>10 DEF Names
<1>11. ASSUME HistoryHandles(rs) \subseteq Handles(rs)
       PROVE  HistoryHandles(t) \subseteq Handles(t)
  <2> SUFFICES ASSUME NEW i \in DOMAIN rest PROVE rest[i].handle \in Handles(t)
    BY <1>7 DEF HistoryHandles, ToSet
  <2>1. i + n \in DOMAIN rs.history /\ rest[i] = rs.history[i + n]
    BY <1>5, <1>6
  <2>2. rest[i].handle \in Handles(rs)
    BY <1>11, <2>1 DEF HistoryHandles, ToSet
  <2>0. i + n > n /\ i + n \in Nat /\ Len(rs.history) \in Nat
        /\ DOMAIN rs.history = 1 .. Len(rs.history)
    BY <1>1, <1>3, SMTT(30)
  <2>3. \A j \in 1 .. n : j \in DOMAIN rs.history /\ j # i + n
    BY <1>2, <2>0
  <2>4. \A j \in 1 .. n : rs.history[j].handle # rest[i].handle
    BY <2>1, <2>3 DEF StoreInv, Listed
  <2> QED BY <1>5, <1>7, <2>2, <2>4 DEF hs
<1> HIDE DEF t
<1> QED BY <1>2, <1>3, <1>4, <1>7, <1>8, <1>9, <1>10, <1>11, <1>5 DEF StoreInv
\* A new list's entry goes to the end of the history, with a handle of its own.
LEMMA Appending ==
  ASSUME NEW rs, StoreInv(rs), NEW session \in Nat
  PROVE  LET t == [StoreHandle(rs, session) EXCEPT !.history =
                     Append(@, [handle |-> rs.counter + 1, session |-> session])] IN
         /\ StoreInv(t) /\ t.counter = rs.counter + 1
         /\ \A h, other : Names(rs, h, other) => Names(t, h, other)
         /\ Names(t, rs.counter + 1, session)
<1> DEFINE u == StoreHandle(rs, session)
           entry == [handle |-> rs.counter + 1, session |-> session]
           log == Append(rs.history, entry)
           v == [u EXCEPT !.history = Append(@, entry)]
<1>1. /\ StoreInv(u)
      /\ u.history = rs.history /\ u.counter = rs.counter + 1
      /\ \A h \in Handles(u) :
           u.entries[h] = IF h = u.counter THEN session ELSE rs.entries[h]
      /\ \A h, other : Names(rs, h, other) => Names(u, h, other)
  BY HandleStored
<1> HIDE DEF u
<1>2. v = [entries |-> u.entries, history |-> log, counter |-> u.counter]
  <2>1. v = [u EXCEPT !.history = log]
    BY <1>1
  <2>2. u = [entries |-> u.entries, history |-> u.history, counter |-> u.counter]
    BY <1>1 DEF StoreInv, Formed
  <2> HIDE DEF v, log
  <2> QED BY <2>1, <2>2
<1>3. /\ rs.counter \in Nat
      /\ rs.history \in Seq([handle : Nat, session : Nat])
      /\ \A i \in DOMAIN rs.history : rs.history[i].handle \in 1 .. rs.counter
  BY DEF StoreInv, Formed, Listed
<1>4. /\ log \in Seq([handle : Nat, session : Nat])
      /\ DOMAIN log = DOMAIN rs.history \cup {Len(rs.history) + 1}
      /\ \A i \in DOMAIN rs.history : log[i] = rs.history[i]
      /\ log[Len(rs.history) + 1] = entry
      /\ Len(rs.history) + 1 \notin DOMAIN rs.history
  BY <1>3, SMTT(30)
<1>5. /\ v.history = log /\ v.counter = rs.counter + 1 /\ v.entries = u.entries
      /\ Handles(v) = Handles(u)
  BY <1>1, <1>2 DEF Handles
<1>6. Formed(v)
  BY <1>1, <1>2, <1>4, <1>5 DEF StoreInv, Formed
<1> HIDE DEF v, log
<1>7. Listed(v)
  <2>1. ASSUME NEW i \in DOMAIN rs.history
        PROVE  /\ log[i].handle \in 1 .. rs.counter
               /\ log[i].handle \in Handles(v) => v.entries[log[i].handle] = log[i].session
               /\ \A j \in DOMAIN rs.history : log[j].handle = log[i].handle => i = j
    <3>1. /\ rs.history[i].handle \in 1 .. rs.counter
          /\ rs.history[i].handle \in Handles(rs) =>
               rs.entries[rs.history[i].handle] = rs.history[i].session
          /\ \A j \in DOMAIN rs.history :
               rs.history[j].handle = rs.history[i].handle => i = j
      BY DEF StoreInv, Listed
    <3>2. log[i] = rs.history[i] /\ \A j \in DOMAIN rs.history : log[j] = rs.history[j]
      BY <1>4
    <3>3. ASSUME rs.history[i].handle \in Handles(v)
          PROVE  v.entries[rs.history[i].handle] = rs.history[i].session
      <4>1. Names(rs, rs.history[i].handle, rs.history[i].session)
        BY <3>1 DEF Names
      <4>2. Names(u, rs.history[i].handle, rs.history[i].session)
        BY <1>1, <4>1
      <4> QED BY <1>5, <3>3, <4>2 DEF Names
    <3> QED BY <3>1, <3>2, <3>3
  <2>2. \A i \in DOMAIN log :
          /\ log[i].handle \in 1 .. v.counter
          /\ log[i].handle \in Handles(v) => v.entries[log[i].handle] = log[i].session
    BY <1>1, <1>3, <1>4, <1>5, <2>1, SMTT(30)
  <2>3. \A i, j \in DOMAIN log : log[j].handle = log[i].handle => i = j
    BY <1>3, <1>4, <2>1, SMTT(30)
  <2> QED BY <1>5, <2>2, <2>3 DEF Listed
<1>8. ASSUME NEW h, NEW other, Names(rs, h, other)
      PROVE  Names(v, h, other)
  <2>1. Names(u, h, other) /\ h \in 1 .. rs.counter
    BY <1>1, <1>8 DEF Names
  <2>2. h # rs.counter + 1 /\ h \in 1 .. v.counter
    BY <1>3, <1>5, <2>1
  <2> QED BY <1>1, <1>4, <1>5, <2>1, <2>2 DEF Names
<1>9. Names(v, rs.counter + 1, session)
  BY <1>1, <1>3, <1>4, <1>5, SMTT(30) DEF Names
<1> QED BY <1>5, <1>6, <1>7, <1>8, <1>9 DEF StoreInv, v, u

\* store_entries for a new list: its handle is told with its own session.
LEMMA Registered ==
  ASSUME NEW rs, StoreInv(rs), NEW session \in Nat
  PROVE  LET t == Register(rs, session) IN
         /\ StoreInv(t) /\ t.counter = rs.counter + 1
         /\ \A h, other : Names(rs, h, other) => Names(t, h, other)
         /\ Names(t, rs.counter + 1, session)
<1> DEFINE v == [StoreHandle(rs, session) EXCEPT !.history =
                  Append(@, [handle |-> rs.counter + 1, session |-> session])]
<1>1. /\ StoreInv(v) /\ v.counter = rs.counter + 1
      /\ \A h, other : Names(rs, h, other) => Names(v, h, other)
      /\ Names(v, rs.counter + 1, session)
  BY Appending
<1>2. Register(rs, session) = EvictHistory(v)
  BY DEF Register
<1> HIDE DEF v
<1> QED BY <1>1, <1>2, Evicting

\* store_entries for a drill-down: the entry's handle gets the new results of
\* the same session.
LEMMA Drilled ==
  ASSUME NEW rs, StoreInv(rs), NEW i \in DOMAIN rs.history, NEW session,
         rs.history[i].session = session
  PROVE  LET h == rs.history[i].handle
             t == [rs EXCEPT !.entries = With(@, h, session)]
         IN /\ StoreInv(t) /\ t.counter = rs.counter /\ t.history = rs.history
            /\ Handles(t) = Handles(rs) \cup {h}
            /\ \A g, other : Names(rs, g, other) => Names(t, g, other)
            /\ Names(t, h, session)
<1> DEFINE h == rs.history[i].handle
           t == [rs EXCEPT !.entries = With(@, h, session)]
<1>1. t = [entries |-> With(rs.entries, h, session), history |-> rs.history,
           counter |-> rs.counter]
  BY SMTT(30) DEF StoreInv, Formed
<1>2. /\ Handles(t) = Handles(rs) \cup {h}
      /\ \A g \in Handles(t) :
           t.entries[g] = IF g = h THEN session ELSE rs.entries[g]
      /\ t.history = rs.history /\ t.counter = rs.counter
  BY <1>1 DEF With, Handles
<1>3. h \in 1 .. rs.counter
  BY DEF StoreInv, Listed
<1>4. Formed(t)
  BY <1>1, <1>2, <1>3 DEF StoreInv, Formed
<1> HIDE DEF t
<1>5. Listed(t)
  BY <1>2 DEF StoreInv, Listed
<1>6. ASSUME NEW g, NEW other, Names(rs, g, other) PROVE Names(t, g, other)
  BY <1>2, <1>6 DEF Names
<1>7. Names(t, h, session)
  BY <1>2, <1>3 DEF Names, StoreInv, Listed
<1>8. StoreInv(t)
  BY <1>4, <1>5 DEF StoreInv
<1> QED BY <1>2, <1>6, <1>7, <1>8 DEF t

\* store_entries: what was told stays true, and so is what is told now.
LEMMA EntriesStored ==
  ASSUME NEW rs, StoreInv(rs), NEW session \in Nat, NEW drill
  PROVE  LET t == StoreEntries(rs, session, drill) IN
         /\ StoreInv(t) /\ t.counter >= rs.counter
         /\ \A h, other : Names(rs, h, other) => Names(t, h, other)
         /\ Names(t, HandleFor(rs, session, drill), session)
<1>1. rs.counter \in Nat
  BY DEF StoreInv, Formed
<1>2. CASE ~ (drill /\ EntryOf(rs, session) > 0)
  BY <1>1, <1>2, Registered DEF StoreEntries, HandleFor
<1>3. CASE drill /\ EntryOf(rs, session) > 0
  <2> DEFINE i == EntryOf(rs, session)
             u == [rs EXCEPT !.entries = With(@, rs.history[i].handle, session)]
  <2>1. i \in DOMAIN rs.history /\ rs.history[i].session = session
    BY <1>3, EntryFound DEF StoreInv, Formed, Shaped
  <2>2. /\ StoreInv(u) /\ u.counter = rs.counter
        /\ \A h, other : Names(rs, h, other) => Names(u, h, other)
        /\ Names(u, rs.history[i].handle, session)
    <3> HIDE DEF i
    <3> QED BY <2>1, Drilled
  <2>3. /\ StoreEntries(rs, session, drill) = EvictHistory(u)
        /\ HandleFor(rs, session, drill) = rs.history[i].handle
    BY <1>3 DEF StoreEntries, HandleFor
  <2> HIDE DEF u, i
  <2> QED BY <1>1, <2>2, <2>3, Evicting
<1> QED BY <1>2, <1>3
-----------------------------------------------------------------------------
(* What a clear's statements keep, and what is kept whatever was cleared.    *)

\* An element of a sequence is of the sequence's type.
LEMMA MemberOfSeq ==
  ASSUME NEW S, NEW s \in Seq(S), NEW i \in DOMAIN s
  PROVE  s[i] \in S
<1>1. i \in 1 .. Len(s)
  OBVIOUS
<1> QED BY <1>1, ElementOfSeq

\* The fields of a record with one of them replaced.
LEMMA FieldSet ==
  ASSUME NEW rs, Shaped(rs), NEW x
  PROVE  /\ [rs EXCEPT !.entries = x]
              = [entries |-> x, history |-> rs.history, counter |-> rs.counter]
         /\ [rs EXCEPT !.history = x]
              = [entries |-> rs.entries, history |-> x, counter |-> rs.counter]
         /\ [rs EXCEPT !.counter = x]
              = [entries |-> rs.entries, history |-> rs.history, counter |-> x]
BY DEF Shaped

\* Without its lists, a store's history and its handles are as true as before.
LEMMA EntriesCleared ==
  ASSUME NEW rs, StoreInv(rs)
  PROVE  LET t == [rs EXCEPT !.entries = <<>>] IN
         /\ StoreInv(t) /\ Handles(t) = {}
         /\ \A h, session : Names(rs, h, session) => Names(t, h, session)
<1> DEFINE t == [rs EXCEPT !.entries = <<>>]
<1>1. /\ t = [entries |-> <<>>, history |-> rs.history, counter |-> rs.counter]
  BY FieldSet DEF StoreInv, Formed, Shaped
<1>2. /\ t.history = rs.history /\ t.counter = rs.counter /\ Handles(t) = {}
  BY <1>1 DEF Handles
<1>3. t = [entries |-> t.entries, history |-> t.history, counter |-> t.counter]
  BY <1>1
<1> HIDE DEF t
<1>4. StoreInv(t) /\ \A h, session : Names(rs, h, session) => Names(t, h, session)
  BY <1>2, <1>3 DEF StoreInv, Formed, Listed, Names
<1> QED BY <1>2, <1>4 DEF t

\* And so are its lists without its history.
LEMMA HistoryCleared ==
  ASSUME NEW rs, StoreInv(rs)
  PROVE  LET t == [rs EXCEPT !.history = <<>>] IN
         /\ StoreInv(t)
         /\ \A h, session : Names(rs, h, session) => Names(t, h, session)
<1> DEFINE t == [rs EXCEPT !.history = <<>>]
<1>1. t = [entries |-> rs.entries, history |-> <<>>, counter |-> rs.counter]
  BY FieldSet DEF StoreInv, Formed, Shaped
<1>2. t.history = <<>> /\ t.counter = rs.counter /\ t.entries = rs.entries
  BY <1>1
<1>3. t = [entries |-> t.entries, history |-> t.history, counter |-> t.counter]
  BY <1>1
<1>4. Handles(t) = Handles(rs)
  BY <1>2 DEF Handles
<1> HIDE DEF t
<1>5. StoreInv(t) /\ \A h, session : Names(rs, h, session) => Names(t, h, session)
  BY <1>2, <1>3, <1>4 DEF StoreInv, Formed, Listed, Names
<1> QED BY <1>5 DEF t

\* Nothing stored and nothing listed: the counter may start over.
LEMMA CounterCleared ==
  ASSUME NEW rs, Shaped(rs), Handles(rs) = {}, rs.history = <<>>
  PROVE  StoreInv([rs EXCEPT !.counter = 0])
<1> DEFINE t == [rs EXCEPT !.counter = 0]
<1>1. t = [entries |-> rs.entries, history |-> rs.history, counter |-> 0]
  BY FieldSet
<1>2. t.history = <<>> /\ t.counter = 0 /\ t.entries = rs.entries
  BY <1>1
<1>3. t = [entries |-> t.entries, history |-> t.history, counter |-> t.counter]
  BY <1>1
<1>4. Handles(t) = {}
  BY <1>2 DEF Handles
<1> HIDE DEF t
<1>5. StoreInv(t)
  BY <1>2, <1>3, <1>4 DEF StoreInv, Formed, Listed
<1> QED BY <1>5 DEF t

\* A clear's statements keep the types.
LEMMA ClearedShape ==
  ASSUME NEW rs, Shaped(rs)
  PROVE  /\ Shaped([rs EXCEPT !.entries = <<>>])
         /\ Shaped([rs EXCEPT !.history = <<>>])
         /\ Shaped([rs EXCEPT !.counter = 0])
<1> DEFINE t == [rs EXCEPT !.entries = <<>>]
           u == [rs EXCEPT !.history = <<>>]
           v == [rs EXCEPT !.counter = 0]
<1>1. /\ t = [entries |-> <<>>, history |-> rs.history, counter |-> rs.counter]
      /\ u = [entries |-> rs.entries, history |-> <<>>, counter |-> rs.counter]
      /\ v = [entries |-> rs.entries, history |-> rs.history, counter |-> 0]
  BY FieldSet
<1> HIDE DEF t, u, v
<1>2. Shaped(t) /\ Shaped(u) /\ Shaped(v)
  BY <1>1 DEF Shaped
<1> QED BY <1>2 DEF t, u, v

\* store_handle keeps the types.
LEMMA HandleShape ==
  ASSUME NEW rs, Shaped(rs), NEW payload
  PROVE  LET t == StoreHandle(rs, payload) IN
         /\ Shaped(t) /\ t.history = rs.history /\ t.counter = rs.counter + 1
<1> DEFINE w == With(rs.entries, rs.counter + 1, payload)
           u == [rs EXCEPT !.counter = @ + 1,
                           !.entries = With(@, rs.counter + 1, payload)]
<1>1. u = [entries |-> w, history |-> rs.history, counter |-> rs.counter + 1]
  <2>1. u = [rs EXCEPT !.counter = rs.counter + 1, !.entries = w]
    OBVIOUS
  <2>2. rs = [entries |-> rs.entries, history |-> rs.history,
              counter |-> rs.counter]
    BY DEF Shaped
  <2> HIDE DEF w, u
  <2> QED BY <2>1, <2>2
<1>2. Shaped(u) /\ u.history = rs.history /\ u.counter = rs.counter + 1
  <2> HIDE DEF w, u
  <2> QED BY <1>1 DEF Shaped
<1>3. \E x : StoreHandle(rs, payload) = [u EXCEPT !.entries = x]
  BY DEF StoreHandle, EnforceCap
<1>4. PICK x : StoreHandle(rs, payload) = [u EXCEPT !.entries = x]
  BY <1>3
<1> HIDE DEF u
<1>5. StoreHandle(rs, payload)
        = [entries |-> x, history |-> u.history, counter |-> u.counter]
  BY <1>2, <1>4, FieldSet
<1> QED BY <1>2, <1>5 DEF Shaped

\* Eviction keeps the types.
LEMMA EvictedShape ==
  ASSUME NEW rs, Shaped(rs)
  PROVE  Shaped(EvictHistory(rs))
<1> DEFINE n == Overflow(rs.history)
           hs == {rs.history[i].handle : i \in 1 .. n}
           rest == SubSeq(rs.history, n + 1, Len(rs.history))
           w == Without(rs.entries, hs)
<1>1. rs.history \in Seq([handle : Nat, session : Nat])
  BY DEF Shaped
<1>2. n \in 0 .. Len(rs.history)
  BY <1>1, StoreAssumption DEF Overflow
<1>3. EvictHistory(rs) = [rs EXCEPT !.history = rest, !.entries = w]
  BY DEF EvictHistory
<1> HIDE DEF n
<1>4. rest \in Seq([handle : Nat, session : Nat])
  BY <1>1, <1>2, Suffix
<1> HIDE DEF rest, w, hs
<1>5. EvictHistory(rs) = [entries |-> w, history |-> rest, counter |-> rs.counter]
  BY <1>3 DEF Shaped
<1> QED BY <1>4, <1>5 DEF Shaped

\* store_entries keeps the types, and a handle is a number.
LEMMA EntriesShape ==
  ASSUME NEW rs, Shaped(rs), NEW session \in Nat, NEW drill
  PROVE  /\ Shaped(StoreEntries(rs, session, drill))
         /\ HandleFor(rs, session, drill) \in Nat
<1> DEFINE i == EntryOf(rs, session)
<1>1. CASE ~ (drill /\ i > 0)
  <2> DEFINE u == StoreHandle(rs, session)
             entry == [handle |-> rs.counter + 1, session |-> session]
             log == Append(rs.history, entry)
             v == [u EXCEPT !.history = Append(@, entry)]
  <2>1. Shaped(u) /\ u.history = rs.history
    BY HandleShape
  <2>2. log \in Seq([handle : Nat, session : Nat]) /\ rs.counter + 1 \in Nat
    BY DEF Shaped
  <2>3. StoreEntries(rs, session, drill) = EvictHistory(v)
        /\ HandleFor(rs, session, drill) = rs.counter + 1
    BY <1>1 DEF StoreEntries, Register, HandleFor
  <2> HIDE DEF u
  <2>4. v = [u EXCEPT !.history = log]
    BY <2>1
  <2> HIDE DEF v, log
  <2>5. v = [entries |-> u.entries, history |-> log, counter |-> u.counter]
    BY <2>1, <2>4, FieldSet
  <2>6. Shaped(v)
    BY <2>1, <2>2, <2>5 DEF Shaped
  <2> QED BY <2>2, <2>3, <2>6, EvictedShape
<1>2. CASE drill /\ i > 0
  <2> DEFINE h == rs.history[i].handle
             u == [rs EXCEPT !.entries = With(@, h, session)]
  <2>1. i \in DOMAIN rs.history
    BY <1>2, EntryFound
  <2>2. rs.history \in Seq([handle : Nat, session : Nat])
    BY DEF Shaped
  <2>3. h \in Nat
    <3> HIDE DEF i
    <3>1. rs.history[i] \in [handle : Nat, session : Nat]
      BY <2>1, <2>2, MemberOfSeq
    <3> QED BY <3>1
  <2>4. /\ StoreEntries(rs, session, drill) = EvictHistory(u)
        /\ HandleFor(rs, session, drill) = h
    BY <1>2 DEF StoreEntries, HandleFor
  <2>5. Shaped(u)
    <3> DEFINE w == With(rs.entries, h, session)
    <3>1. u = [rs EXCEPT !.entries = w]
      OBVIOUS
    <3> HIDE DEF w, u
    <3> QED BY <3>1, FieldSet DEF Shaped
  <2> HIDE DEF u, h, i
  <2> QED BY <2>3, <2>4, <2>5, EvictedShape
<1> QED BY <1>1, <1>2
-----------------------------------------------------------------------------
(* Types, and what belongs to a step.                                        *)

\* A function on 1 .. n is a sequence.
LEMMA FunctionIsSeq ==
  ASSUME NEW S, NEW n \in Nat, NEW f \in [1 .. n -> S]
  PROVE  f \in Seq(S) /\ DOMAIN f = 1 .. n
BY SeqDef

\* The calls of a batch are calls of the step.
LEMMA ChunksAreSets ==
  ASSUME NEW chosen, IsFiniteSet(chosen), NEW n \in Nat \ {0}
  PROVE  Chunks(chosen, n) \in Seq(SUBSET chosen)
<1>1. Cardinality(chosen) \in Nat
  BY FS_CardinalityType
<1> DEFINE N == (Cardinality(chosen) + n - 1) \div n
<1>2. N \in Nat
  BY <1>1
<1>3. Chunks(chosen, n) \in [1 .. N -> SUBSET chosen]
  BY DEF Chunks
<1> HIDE DEF N
<1> QED BY <1>2, <1>3, FunctionIsSeq

\* A step's calls are cut into sequences of sets of their positions.
LEMMA BatchesAreSets ==
  ASSUME NEW S, NEW cs \in Seq(S)
  PROVE  Batches(cs) \in Seq(SUBSET DOMAIN cs)
<1>1. \A c \in SUBSET DOMAIN cs : IsFiniteSet(c)
  <2>1. IsFiniteSet(1 .. Len(cs)) /\ DOMAIN cs = 1 .. Len(cs)
    BY FS_Interval
  <2> QED BY <2>1, FS_Subset
<1>2. \A c \in SUBSET DOMAIN cs, n \in Nat \ {0} :
        Chunks(c, n) \in Seq(SUBSET DOMAIN cs)
  <2> SUFFICES ASSUME NEW c \in SUBSET DOMAIN cs, NEW n \in Nat \ {0}
               PROVE  Chunks(c, n) \in Seq(SUBSET DOMAIN cs)
    OBVIOUS
  <2>1. Chunks(c, n) \in Seq(SUBSET c)
    BY <1>1, ChunksAreSets
  <2>2. SUBSET c \subseteq SUBSET DOMAIN cs
    OBVIOUS
  <2> QED BY <2>1, <2>2
<1> DEFINE safe == {i \in DOMAIN cs : cs[i].tool \in Safe}
<1>3. /\ safe \in SUBSET DOMAIN cs /\ DOMAIN cs \ safe \in SUBSET DOMAIN cs
      /\ MaxParallel \in Nat \ {0} /\ 1 \in Nat \ {0}
  BY LoopAssumption
<1> HIDE DEF safe
<1>4. /\ Chunks(safe, MaxParallel) \in Seq(SUBSET DOMAIN cs)
      /\ Chunks(DOMAIN cs \ safe, 1) \in Seq(SUBSET DOMAIN cs)
      /\ Chunks(DOMAIN cs, 1) \in Seq(SUBSET DOMAIN cs)
  BY <1>2, <1>3
<1>5. Chunks(safe, MaxParallel) \o Chunks(DOMAIN cs \ safe, 1)
        \in Seq(SUBSET DOMAIN cs)
  BY <1>4
<1> QED BY <1>4, <1>5 DEF Batches, safe

\* A result is written over the one of its call.
LEMMA SeqUpdate ==
  ASSUME NEW S, NEW s \in Seq(S), NEW i, NEW x \in S
  PROVE  [s EXCEPT ![i] = x] \in Seq(S) /\ DOMAIN [s EXCEPT ![i] = x] = DOMAIN s
<1> DEFINE t == [s EXCEPT ![i] = x]
<1>1. Len(s) \in Nat /\ s \in [1 .. Len(s) -> S]
  OBVIOUS
<1>2. t \in [1 .. Len(s) -> S] /\ DOMAIN t = DOMAIN s
  BY <1>1
<1> HIDE DEF t
<1>3. t \in Seq(S)
  BY <1>1, <1>2, FunctionIsSeq
<1> QED BY <1>2, <1>3 DEF t

\* Every step keeps count of the questions asked of the model, and the outcome
\* says how the request ended.
LEMMA NextControl ==
  ASSUME ControlTypes, AskInv, [Next]_vars
  PROVE  ControlTypes' /\ AskInv'
<1> USE LoopAssumption DEF ControlTypes, loop, step, Set, Stages, InLoop
<1> DEFINE Goal == ControlTypes' /\ AskInv'
<1>1. ASSUME NEW r \in Req, Begin(r) PROVE Goal
  BY <1>1 DEF AskInv, Begin
<1>2. ASSUME NEW r \in Req, Ask(r) PROVE Goal
  BY <1>2 DEF AskInv, Ask
<1>3. ASSUME NEW r \in Req, Interrupted(r) PROVE Goal
  BY <1>3 DEF AskInv, Interrupted, EndsAs
<1>4. ASSUME NEW r \in Req, AskFinal(r) PROVE Goal
  BY <1>4 DEF AskInv, AskFinal
<1>5. ASSUME NEW r \in Req, AnswersText(r) PROVE Goal
  BY <1>5, ZenonT(40) DEF AskInv, AnswersText, EndsAs
<1>6. ASSUME NEW r \in Req, ModelFails(r) PROVE Goal
  BY <1>6 DEF AskInv, ModelFails, EndsAs
<1>7. ASSUME NEW r \in Req, AnswersCalls(r) PROVE Goal
  BY <1>7 DEF AskInv, AnswersCalls
<1>8. ASSUME NEW r \in Req, NextBatch(r) PROVE Goal
  BY <1>8 DEF AskInv, NextBatch
<1>9. ASSUME NEW r \in Req, NEW i \in running[r], SearchReturns(r, i) PROVE Goal
  BY <1>9 DEF AskInv, SearchReturns, Returns
<1>10. ASSUME NEW r \in Req, NEW i \in running[r], ActsOnItem(r, i) PROVE Goal
  BY <1>10 DEF AskInv, ActsOnItem
<1>11. ASSUME NEW r \in Req, NEW i \in running[r], ActionReturns(r, i) PROVE Goal
  BY <1>11 DEF AskInv, ActionReturns, Returns
<1>12. ASSUME NEW r \in Req, Store(r) PROVE Goal
  BY <1>12 DEF AskInv, Store
<1>13. ASSUME NEW r \in Req, Trace(r) PROVE Goal
  BY <1>13 DEF AskInv, Trace
<1>14. ASSUME NEW r \in Req, Cancel(r) PROVE Goal
  BY <1>14 DEF AskInv, Cancel
<1>15. ASSUME Clear PROVE Goal
  BY <1>15 DEF AskInv, Clear, ClearEntries, ClearHistory, ClearCounter
<1>16. ASSUME UNCHANGED vars PROVE Goal
  BY <1>16 DEF AskInv, vars
<1> QED BY <1>1, <1>2, <1>3, <1>4, <1>5, <1>6, <1>7, <1>8, <1>9, <1>10, <1>11, <1>12, <1>13, <1>14, <1>15, <1>16 DEF Next, Works

\* Every step keeps a request's calls, their results and the batches together.
LEMMA NextWork ==
  ASSUME ControlTypes, WorkTypes, WorkInv,
         told \in [Req -> SUBSET (Nat \X Nat)], [Next]_vars
  PROVE  WorkTypes' /\ WorkInv'
<1> USE LoopAssumption DEF ControlTypes, WorkTypes, loop, step, Set, Safe, Stages
<1> DEFINE Goal == WorkTypes' /\ WorkInv'
<1>1. ASSUME NEW r \in Req, Begin(r) PROVE Goal
  BY <1>1 DEF WorkInv, Begin
<1>2. ASSUME NEW r \in Req, Ask(r) PROVE Goal
  BY <1>2 DEF WorkInv, Ask
<1>3. ASSUME NEW r \in Req, Interrupted(r) PROVE Goal
  BY <1>3 DEF WorkInv, Interrupted, EndsAs
<1>4. ASSUME NEW r \in Req, AskFinal(r) PROVE Goal
  BY <1>4 DEF WorkInv, AskFinal
<1>5. ASSUME NEW r \in Req, AnswersText(r) PROVE Goal
  BY <1>5, ZenonT(40) DEF WorkInv, AnswersText, EndsAs
<1>6. ASSUME NEW r \in Req, ModelFails(r) PROVE Goal
  BY <1>6 DEF WorkInv, ModelFails, EndsAs
<1>7. ASSUME NEW r \in Req, AnswersCalls(r) PROVE Goal
  <2>1. PICK n \in 1 .. MaxCalls : \E cs \in [1 .. n -> Callable(r)] :
          /\ calls' = [calls EXCEPT ![r] = cs]
          /\ batches' = [batches EXCEPT ![r] = Batches(cs)]
          /\ found' = [found EXCEPT ![r] = [i \in 1 .. n |-> 0]]
    BY <1>7 DEF AnswersCalls
  <2>2. PICK cs \in [1 .. n -> Callable(r)] :
          /\ calls' = [calls EXCEPT ![r] = cs]
          /\ batches' = [batches EXCEPT ![r] = Batches(cs)]
          /\ found' = [found EXCEPT ![r] = [i \in 1 .. n |-> 0]]
    BY <2>1
  <2>3. n \in Nat /\ 1 \in 1 .. n
    OBVIOUS
  <2>4. Callable(r) \subseteq [tool : Safe \cup {"action"}, session : Nat]
    BY SMTT(30) DEF Callable
  <2>5. /\ cs \in Seq([tool : Safe \cup {"action"}, session : Nat])
        /\ DOMAIN cs = 1 .. n
    <3>1. cs \in [1 .. n -> [tool : Safe \cup {"action"}, session : Nat]]
      BY <2>2, <2>4
    <3> QED BY <2>3, <3>1, FunctionIsSeq
  <2>6. /\ [i \in 1 .. n |-> 0] \in Seq(Nat)
        /\ DOMAIN [i \in 1 .. n |-> 0] = 1 .. n
    BY <2>3, FunctionIsSeq
  <2>7. /\ Batches(cs) \in Seq(SUBSET (1 .. n)) /\ Batches(cs) \in Seq(SUBSET Nat)
        /\ \A k \in DOMAIN Batches(cs) : Batches(cs)[k] \subseteq 1 .. n
    <3>1. Batches(cs) \in Seq(SUBSET (1 .. n))
      BY <2>5, BatchesAreSets
    <3>2. SUBSET (1 .. n) \subseteq SUBSET Nat
      BY <2>3
    <3> QED BY <3>1, <3>2, SMTT(30)
  <2>8. WorkTypes'
    BY <1>7, <2>2, <2>5, <2>6, <2>7 DEF AnswersCalls
  <2>9. WorkInv'
    BY <1>7, <2>2, <2>3, <2>5, <2>6, <2>7, ZenonT(40) DEF WorkInv, AnswersCalls
  <2> QED BY <2>8, <2>9
<1>8. ASSUME NEW r \in Req, NextBatch(r) PROVE Goal
  <2> DEFINE b == batches[r]
  <2>1. b \in Seq(SUBSET Nat) /\ b # <<>> /\ pc[r] = "tools"
    BY <1>8 DEF NextBatch
  <2>2. /\ Head(b) = b[1] /\ 1 \in DOMAIN b /\ Head(b) \in SUBSET Nat
        /\ Tail(b) \in Seq(SUBSET Nat)
        /\ \A k \in DOMAIN Tail(b) : k + 1 \in DOMAIN b /\ Tail(b)[k] = b[k + 1]
    BY <2>1, HeadTailProperties, SMTT(30)
  <2>3. WorkTypes'
    <3>1. /\ running' = [running EXCEPT ![r] = Head(b)]
          /\ batches' = [batches EXCEPT ![r] = Tail(b)]
          /\ items' = [items EXCEPT ![r] = Items]
          /\ UNCHANGED <<calls, found, next>>
      BY <1>8 DEF NextBatch
    <3> HIDE DEF b
    <3> QED BY <2>2, <3>1, SMTT(30)
  <2>4. \A k \in DOMAIN Tail(b) : Tail(b)[k] \subseteq DOMAIN calls[r]
    BY <2>2 DEF WorkInv
  <2>5. /\ running' = [running EXCEPT ![r] = Head(b)]
        /\ batches' = [batches EXCEPT ![r] = Tail(b)]
        /\ UNCHANGED <<pc, calls, found, next>>
    BY <1>8 DEF NextBatch
  <2>6. Head(b) \subseteq DOMAIN calls[r]
    BY <2>2 DEF WorkInv
  <2> HIDE DEF b
  <2>7. WorkInv'
    BY <2>1, <2>4, <2>5, <2>6 DEF WorkInv
  <2> QED BY <2>3, <2>7
<1>9. ASSUME NEW r \in Req, NEW i \in running[r], SearchReturns(r, i) PROVE Goal
  <2>1. \/ found' = found
        \/ \E x \in Nat : found' = [found EXCEPT ![r] = [found[r] EXCEPT ![i] = x]]
    <3>0. /\ calls[r] \in Seq([tool : Safe \cup {"action"}, session : Nat])
          /\ i \in DOMAIN calls[r]
      BY DEF WorkInv
    <3>1. calls[r][i].session \in Nat
      <4>1. calls[r][i] \in [tool : Safe \cup {"action"}, session : Nat]
        BY <3>0, MemberOfSeq
      <4> QED BY <4>1
    <3>2. sessions + 1 \in Nat
      BY SMTT(30)
    <3> QED BY <1>9, <3>1, <3>2 DEF SearchReturns
  <2>2. /\ found' \in [Req -> Seq(Nat)]
        /\ \A q \in Req : DOMAIN found'[q] = DOMAIN found[q]
    <3>1. CASE found' = found
      BY <3>1
    <3>2. CASE \E x \in Nat : found' = [found EXCEPT ![r] = [found[r] EXCEPT ![i] = x]]
      <4>1. PICK x \in Nat : found' = [found EXCEPT ![r] = [found[r] EXCEPT ![i] = x]]
        BY <3>2
      <4>2. /\ [found[r] EXCEPT ![i] = x] \in Seq(Nat)
            /\ DOMAIN [found[r] EXCEPT ![i] = x] = DOMAIN found[r]
        BY SeqUpdate
      <4> DEFINE s == [found[r] EXCEPT ![i] = x]
      <4> HIDE DEF s
      <4>3. found' = [found EXCEPT ![r] = s] /\ s \in Seq(Nat)
            /\ DOMAIN s = DOMAIN found[r]
        BY <4>1, <4>2 DEF s
      <4> QED BY <4>3
    <3> QED BY <2>1, <3>1, <3>2
  <2>3. /\ running' = [running EXCEPT ![r] = running[r] \ {i}]
        /\ UNCHANGED <<pc, calls, batches, next, items>>
    BY <1>9 DEF SearchReturns, Returns
  <2>4. WorkTypes'
    BY <2>2, <2>3
  <2>5. WorkInv'
    BY <2>2, <2>3 DEF WorkInv
  <2> QED BY <2>4, <2>5
<1>10. ASSUME NEW r \in Req, NEW i \in running[r], ActsOnItem(r, i) PROVE Goal
  <2>1. /\ items' = [items EXCEPT ![r] = items[r] - 1] /\ items[r] > 0
        /\ UNCHANGED <<pc, calls, batches, running, found, next>>
    BY <1>10 DEF ActsOnItem
  <2>2. items' \in [Req -> 0 .. Items]
    BY <2>1
  <2>3. WorkTypes'
    BY <2>1, <2>2
  <2>4. WorkInv'
    BY <2>1 DEF WorkInv
  <2> QED BY <2>3, <2>4
<1>11. ASSUME NEW r \in Req, NEW i \in running[r], ActionReturns(r, i) PROVE Goal
  BY <1>11 DEF WorkInv, ActionReturns, Returns
<1>12. ASSUME NEW r \in Req, Store(r) PROVE Goal
  BY <1>12 DEF WorkInv, Store
<1>13. ASSUME NEW r \in Req, Trace(r) PROVE Goal
  <2>1. UNCHANGED <<batches, running, items>>
    BY <1>13 DEF Trace
  <2>2. running[r] = {} /\ batches[r] = <<>> /\ next[r] \in DOMAIN calls[r]
    BY <1>13 DEF Trace, WorkInv
  <2>3. CASE next[r] < Len(calls[r])
    <3>1. /\ pc' = [pc EXCEPT ![r] = "tools"]
          /\ next' = [next EXCEPT ![r] = next[r] + 1]
          /\ UNCHANGED <<calls, found>>
      BY <1>13, <2>3 DEF Trace
    <3>0. /\ calls[r] \in Seq([tool : Safe \cup {"action"}, session : Nat])
          /\ next[r] \in Nat \ {0}
      OBVIOUS
    <3>2. next[r] + 1 \in DOMAIN calls[r] /\ next[r] + 1 \in Nat \ {0}
      BY <2>3, <3>0, SMTT(30)
    <3>3. WorkTypes'
      BY <2>1, <3>1, <3>2
    <3>4. ASSUME NEW q \in Req, q # r
          PROVE  pc'[q] = pc[q] /\ next'[q] = next[q]
      BY <3>1, <3>4
    <3>5. pc'[r] = "tools" /\ next'[r] = next[r] + 1
      BY <3>1
    <3>6. WorkInv'
      BY <2>1, <2>2, <3>1, <3>2, <3>4, <3>5 DEF WorkInv
    <3> QED BY <3>3, <3>6
  <2>4. CASE ~ (next[r] < Len(calls[r]))
    <3>1. /\ pc' = [pc EXCEPT ![r] = "ready"]
          /\ next' = [next EXCEPT ![r] = 1]
          /\ calls' = [calls EXCEPT ![r] = <<>>]
          /\ found' = [found EXCEPT ![r] = <<>>]
      BY <1>13, <2>4 DEF Trace
    <3>2. WorkTypes'
      BY <2>1, <3>1
    <3>3. /\ found'[r] = <<>> /\ calls'[r] = <<>> /\ next'[r] = 1 /\ pc'[r] = "ready"
          /\ \A q \in Req \ {r} : /\ found'[q] = found[q] /\ calls'[q] = calls[q]
                                  /\ next'[q] = next[q] /\ pc'[q] = pc[q]
      BY <3>1
    <3>4. WorkInv'
      <4>1. batches'[r] = <<>> /\ running'[r] = {}
        BY <2>1, <2>2
      <4>2. \A k \in DOMAIN batches'[r] : batches'[r][k] \subseteq DOMAIN calls'[r]
        BY <4>1
      <4> QED BY <2>1, <3>3, <4>1, <4>2 DEF WorkInv
    <3> QED BY <3>2, <3>4
  <2> QED BY <2>3, <2>4
<1>14. ASSUME NEW r \in Req, Cancel(r) PROVE Goal
  BY <1>14 DEF WorkInv, Cancel
<1>15. ASSUME Clear PROVE Goal
  BY <1>15 DEF WorkInv, Clear, ClearEntries, ClearHistory, ClearCounter
<1>16. ASSUME UNCHANGED vars PROVE Goal
  BY <1>16 DEF WorkInv, vars
<1> QED BY <1>1, <1>2, <1>3, <1>4, <1>5, <1>6, <1>7, <1>8, <1>9, <1>10, <1>11, <1>12, <1>13, <1>14, <1>15, <1>16 DEF Next, Works
-----------------------------------------------------------------------------
(* What the messages of a request name.                                      *)

\* The empty store names nothing.
LEMMA EmptyStored == StoreInv(EmptyStore) /\ Roomy(EmptyStore)
BY StoreAssumption
DEF EmptyStore, StoreInv, Formed, Listed, Roomy, HistoryHandles, Handles, ToSet

\* Every step keeps the store in order and what the messages say true.
LEMMA NextStore ==
  ASSUME IInv, [Next]_vars
  PROVE  /\ Shaped(results') /\ told' \in [Req -> SUBSET (Nat \X Nat)]
         /\ ~torn' => StoreInv(results')
         /\ \A r \in Req :
              /\ pc'[r] \in {"new", "ended"} => told'[r] = {}
              /\ ~torn' /\ r \notin crossed' =>
                   \A p \in told'[r] : Names(results', p[1], p[2])
<1> DEFINE Kept == /\ Shaped(results') /\ told' \in [Req -> SUBSET (Nat \X Nat)]
                   /\ ~torn' => StoreInv(results')
           Told(r) == /\ pc'[r] \in {"new", "ended"} => told'[r] = {}
                      /\ ~torn' /\ r \notin crossed' =>
                           \A p \in told'[r] : Names(results', p[1], p[2])
           Goal == Kept /\ \A r \in Req : Told(r)
<1> USE DEF IInv, TypeOK, ControlTypes, Stages, InLoop, OrderInv, ToldInv, loop,
        step, clear, Set
<1>1. ASSUME NEW r \in Req, Begin(r) PROVE Goal
  <2> DEFINE T == {<<e.handle, e.session>> : e \in ToSet(results.history)}
  <2>1. ASSUME NEW p \in T
        PROVE  p \in Nat \X Nat /\ (~torn => Names(results, p[1], p[2]))
    <3>0. PICK j \in DOMAIN results.history :
            p = <<results.history[j].handle, results.history[j].session>>
      BY DEF ToSet
    <3>1. results.history[j] \in [handle : Nat, session : Nat]
      BY MemberOfSeq DEF Shaped
    <3>2. ASSUME StoreInv(results)
          PROVE  Names(results, results.history[j].handle,
                       results.history[j].session)
      BY <3>2 DEF StoreInv, Listed, Names
    <3> QED BY <3>0, <3>1, <3>2
  <2>2. told' = [told EXCEPT ![r] = T] /\ pc' = [pc EXCEPT ![r] = "ready"]
        /\ UNCHANGED <<results, torn, crossed>>
    BY <1>1 DEF Begin
  <2> HIDE DEF T
  <2> QED BY <2>1, <2>2
<1>2. ASSUME NEW r \in Req, Ask(r) PROVE Goal
  BY <1>2 DEF Ask
<1>3. ASSUME NEW r \in Req, Interrupted(r) PROVE Goal
  BY <1>3 DEF Interrupted, EndsAs
<1>4. ASSUME NEW r \in Req, AskFinal(r) PROVE Goal
  BY <1>4 DEF AskFinal
<1>5. ASSUME NEW r \in Req, AnswersText(r) PROVE Goal
  BY <1>5, ZenonT(40) DEF AnswersText, EndsAs
<1>6. ASSUME NEW r \in Req, ModelFails(r) PROVE Goal
  BY <1>6 DEF ModelFails, EndsAs
<1>7. ASSUME NEW r \in Req, AnswersCalls(r) PROVE Goal
  BY <1>7 DEF AnswersCalls
<1>8. ASSUME NEW r \in Req, NextBatch(r) PROVE Goal
  BY <1>8 DEF NextBatch
<1>9. ASSUME NEW r \in Req, NEW i \in running[r], SearchReturns(r, i) PROVE Goal
  BY <1>9 DEF SearchReturns
<1>10. ASSUME NEW r \in Req, NEW i \in running[r], ActsOnItem(r, i) PROVE Goal
  BY <1>10 DEF ActsOnItem
<1>11. ASSUME NEW r \in Req, NEW i \in running[r], ActionReturns(r, i) PROVE Goal
  BY <1>11 DEF ActionReturns
<1>12. ASSUME NEW r \in Req, Store(r) PROVE Goal
  <2> DEFINE session == found[r][next[r]]
             drill == calls[r][next[r]].tool = "drill"
             h == HandleFor(results, session, drill)
  <2>1. /\ pc' = [pc EXCEPT ![r] = "trace"] /\ pc[r] = "tools"
        /\ UNCHANGED <<torn, crossed>>
    BY <1>12 DEF Store
  <2>2. CASE session = 0
    BY <1>12, <2>1, <2>2 DEF Store
  <2>3. CASE session # 0
    <3>1. /\ results' = StoreEntries(results, session, drill)
          /\ told' = [told EXCEPT ![r] = told[r] \cup {<<h, session>>}]
      BY <1>12, <2>3 DEF Store
    <3>2. session \in Nat
      <4>1. /\ found[r] \in Seq(Nat) /\ next[r] \in DOMAIN calls[r]
            /\ DOMAIN found[r] = DOMAIN calls[r]
        BY <2>1 DEF WorkTypes, WorkInv
      <4> QED BY <4>1
    <3> HIDE DEF session, drill
    <3>3. ~torn => /\ StoreInv(results') /\ Names(results', h, session)
                   /\ \A g, other : Names(results, g, other)
                                      => Names(results', g, other)
      BY <3>1, <3>2, EntriesStored
    <3>4. Shaped(results') /\ h \in Nat
      BY <3>1, <3>2, EntriesShape
    <3> HIDE DEF h
    <3> QED BY <2>1, <3>1, <3>2, <3>3, <3>4
  <2> QED BY <2>2, <2>3
<1>13. ASSUME NEW r \in Req, Trace(r) PROVE Goal
  <2>1. /\ results' = results \/ results' = StoreHandle(results, 0)
        /\ pc[r] = "trace" /\ UNCHANGED <<told, torn, crossed>>
        /\ pc' = [pc EXCEPT ![r] = "tools"] \/ pc' = [pc EXCEPT ![r] = "ready"]
    BY <1>13 DEF Trace
  <2>2. ~torn => /\ StoreInv(results')
                 /\ \A g, other : Names(results, g, other)
                                    => Names(results', g, other)
    BY <2>1, HandleStored
  <2>3. Shaped(results')
    BY <2>1, HandleShape
  <2> QED BY <2>1, <2>2, <2>3
<1>14. ASSUME NEW r \in Req, Cancel(r) PROVE Goal
  BY <1>14 DEF Cancel
<1>15. ASSUME ClearEntries \/ ClearHistory PROVE Goal
  <2>1. /\ \/ results' = [results EXCEPT !.entries = <<>>]
           \/ results' = [results EXCEPT !.history = <<>>]
        /\ UNCHANGED <<pc, told, torn, crossed>>
    BY <1>15 DEF ClearEntries, ClearHistory
  <2>2. ASSUME ~torn
        PROVE  /\ StoreInv(results')
               /\ \A g, other : Names(results, g, other)
                                  => Names(results', g, other)
    <3>1. StoreInv(results)
      BY <2>2
    <3>2. CASE results' = [results EXCEPT !.entries = <<>>]
      BY <3>1, <3>2, EntriesCleared, Zenon
    <3>3. CASE results' = [results EXCEPT !.history = <<>>]
      BY <3>1, <3>3, HistoryCleared, Zenon
    <3> QED BY <2>1, <3>2, <3>3
  <2>3. Shaped(results')
    <3>1. Shaped(results)
      OBVIOUS
    <3>2. CASE results' = [results EXCEPT !.entries = <<>>]
      BY <3>1, <3>2, ClearedShape, Zenon
    <3>3. CASE results' = [results EXCEPT !.history = <<>>]
      BY <3>1, <3>3, ClearedShape, Zenon
    <3> QED BY <2>1, <3>2, <3>3
  <2> QED BY <2>1, <2>2, <2>3
<1>16. ASSUME ClearCounter PROVE Goal
  <2>1. /\ results' = [results EXCEPT !.counter = 0]
        /\ torn' = (Handles(results) # {} \/ results.history # <<>>)
        /\ crossed' = {r \in Req : pc[r] \notin {"new", "ended"}}
        /\ UNCHANGED <<pc, told>>
    BY <1>16 DEF ClearCounter
  <2>2. Shaped(results')
    BY <2>1, ClearedShape
  <2>3. ~torn' => StoreInv(results')
    BY <2>1, CounterCleared
  <2>4. \A r \in Req : r \notin crossed' => told'[r] = {}
    BY <2>1
  <2> QED BY <2>1, <2>2, <2>3, <2>4
<1>17. ASSUME UNCHANGED vars PROVE Goal
  BY <1>17 DEF vars
<1> QED BY <1>1, <1>2, <1>3, <1>4, <1>5, <1>6, <1>7, <1>8, <1>9, <1>10, <1>11, <1>12, <1>13, <1>14, <1>15, <1>16, <1>17 DEF Next, Works, Clear

\* A clear takes its three steps in order.
LEMMA NextClear ==
  ASSUME clearing \in {"no", "entries", "history"}, crossed \subseteq Req,
         torn \in BOOLEAN, [Next]_vars
  PROVE  /\ clearing' \in {"no", "entries", "history"}
         /\ crossed' \subseteq Req /\ torn' \in BOOLEAN
<1>1. CASE UNCHANGED clear
  BY <1>1 DEF clear
<1>2. CASE Clear
  BY <1>2 DEF Clear, ClearEntries, ClearHistory, ClearCounter
<1>3. CASE UNCHANGED vars
  BY <1>3 DEF vars, clear
<1>4. ASSUME NEW r \in Req, Begin(r) \/ Works(r) \/ Cancel(r)
      PROVE  UNCHANGED clear
  BY <1>4 DEF Works, Begin, Ask, Interrupted, AskFinal, AnswersText, ModelFails,
     EndsAs, AnswersCalls, NextBatch, Store, Trace, SearchReturns, ActsOnItem,
     ActionReturns, Cancel
<1> QED BY <1>1, <1>2, <1>3, <1>4 DEF Next

\* The invariant of the loop and its store.
LEMMA InvHolds == Spec => []IInv
<1>1. Init => IInv
  <2> SUFFICES ASSUME Init PROVE IInv
    OBVIOUS
  <2>1. ControlTypes /\ AskInv
    BY LoopAssumption DEF Init, ControlTypes, AskInv, Stages
  <2>2. WorkTypes /\ WorkInv
    BY LoopAssumption DEF Init, WorkTypes, WorkInv
  <2>3. OrderInv /\ ToldInv /\ told \in [Req -> SUBSET (Nat \X Nat)]
    BY EmptyStored DEF Init, OrderInv, ToldInv, StoreInv, Formed, Shaped
  <2>4. clearing \in {"no", "entries", "history"} /\ crossed = {} /\ torn = FALSE
    BY DEF Init
  <2> QED BY <2>1, <2>2, <2>3, <2>4 DEF IInv, TypeOK, OrderInv, Shaped
<1>2. IInv /\ [Next]_vars => IInv'
  <2> SUFFICES ASSUME IInv, [Next]_vars PROVE IInv'
    OBVIOUS
  <2>1. ControlTypes' /\ AskInv'
    BY NextControl DEF IInv, TypeOK
  <2>2. WorkTypes' /\ WorkInv'
    BY NextWork DEF IInv, TypeOK
  <2>3. OrderInv' /\ ToldInv' /\ (told \in [Req -> SUBSET (Nat \X Nat)])'
    BY NextStore DEF OrderInv, ToldInv, InLoop
  <2>4. /\ (results.history \in Seq([handle : Nat, session : Nat]))'
        /\ (results.counter \in Nat)'
        /\ clearing' \in {"no", "entries", "history"}
        /\ crossed' \subseteq Req /\ torn' \in BOOLEAN
    BY <2>3, NextClear DEF OrderInv, Shaped, IInv, TypeOK
  <2> QED BY <2>1, <2>2, <2>3, <2>4 DEF IInv, TypeOK
<1> QED BY <1>1, <1>2, PTL DEF Spec

\* Type correctness.
THEOREM Typed == Spec => []TypeOK
<1>1. IInv => TypeOK
  BY DEF IInv
<1> QED BY <1>1, InvHolds, PTL

\* Whatever other requests register, evict or drill into meanwhile, and whatever
\* the caps, a handle in a running request's messages leads to its own session's
\* results or to nothing, for every request that no clear has crossed and unless a
\* result was stored between a clear's steps.
THEOREM HandlesNeverMislead == Spec => []HandlesNameTheirSearch
<1>1. IInv => HandlesNameTheirSearch
  BY DEF IInv, ToldInv, HandlesNameTheirSearch, Names
<1> QED BY <1>1, InvHolds, PTL
-----------------------------------------------------------------------------
(* What the search history shows.                                            *)

\* A history names no more handles than it has entries.
LEMMA FewHandles ==
  ASSUME NEW rs, StoreInv(rs)
  PROVE  /\ IsFiniteSet(HistoryHandles(rs))
         /\ Cardinality(HistoryHandles(rs)) <= Len(rs.history)
<1> DEFINE n == Len(rs.history)
           f == [i \in 1 .. n |-> rs.history[i].handle]
<1>1. n \in Nat /\ DOMAIN rs.history = 1 .. n
  BY DEF StoreInv, Formed
<1>2. HistoryHandles(rs) = {rs.history[i].handle : i \in 1 .. n}
  BY <1>1 DEF HistoryHandles, ToSet
<1>3. f \in Surjection(1 .. n, HistoryHandles(rs))
  BY <1>2 DEF Surjection
<1>4. IsFiniteSet(1 .. n) /\ Cardinality(1 .. n) = n
  BY <1>1, FS_Interval
<1> HIDE DEF n, f
<1>5. /\ IsFiniteSet(HistoryHandles(rs))
      /\ Cardinality(HistoryHandles(rs)) <= n
  BY <1>3, <1>4, FS_Surjection
<1> QED BY <1>5 DEF n

\* _enforce_cap drops neither a handle the history names nor the newest one: with
\* Room there are enough others.
LEMMA CapSpares ==
  ASSUME Room, NEW rs, StoreInv(rs), Roomy(rs), NEW payload
  PROVE  LET t == StoreHandle(rs, payload) IN
         /\ Roomy(t)
         /\ t.counter \in Handles(t)
<1> DEFINE u == [rs EXCEPT !.counter = @ + 1,
                           !.entries = With(@, rs.counter + 1, payload)]
           c == rs.counter + 1
           F == Handles(u)
           D == Handles(u) \ HistoryHandles(u)
           dropped == {h \in D : /\ Cardinality(F) > StoreMax
                                 /\ Cardinality({g \in D : g < h})
                                      < Cardinality(F) - StoreMax}
           t == StoreHandle(rs, payload)
<1>1. /\ u = [entries |-> With(rs.entries, c, payload), history |-> rs.history,
              counter |-> c]
      /\ t = [u EXCEPT !.entries = Without(@, dropped)]
  <2> DEFINE w == With(rs.entries, c, payload)
  <2>1. u = [rs EXCEPT !.counter = c, !.entries = w]
    OBVIOUS
  <2>2. rs = [entries |-> rs.entries, history |-> rs.history,
              counter |-> rs.counter]
    BY DEF StoreInv, Formed
  <2>3. u = [entries |-> w, history |-> rs.history, counter |-> c]
    <3> HIDE DEF w, u, c
    <3> QED BY <2>1, <2>2
  <2>4. t = [u EXCEPT !.entries = Without(@, dropped)]
    BY DEF StoreHandle, EnforceCap
  <2> QED BY <2>3, <2>4
<1> HIDE DEF u, t
<1>2. /\ F = Handles(rs) \cup {c} /\ u.history = rs.history
      /\ HistoryHandles(u) = HistoryHandles(rs)
  BY <1>1 DEF With, Handles, HistoryHandles
<1>3. /\ rs.counter \in Nat /\ Handles(rs) \subseteq 1 .. rs.counter
      /\ HistoryHandles(rs) \subseteq Handles(rs)
      /\ Len(rs.history) \in Nat /\ Len(rs.history) <= HistoryMax
  BY DEF StoreInv, Formed, Roomy
<1>4. c \in Nat /\ F \subseteq 1 .. c /\ c \in F /\ c \notin HistoryHandles(u)
  BY <1>2, <1>3
<1>5. /\ IsFiniteSet(F) /\ IsFiniteSet(D)
      /\ Cardinality(F) \in Nat /\ Cardinality(D) \in Nat
      /\ Cardinality(D) = Cardinality(F) - Cardinality(F \cap HistoryHandles(u))
  <2>1. IsFiniteSet(F)
    <3> HIDE DEF F, c
    <3>1. IsFiniteSet(1 .. c)
      BY <1>4, FS_Interval
    <3> QED BY <1>4, <3>1, FS_Subset
  <2>2. /\ IsFiniteSet(D)
        /\ Cardinality(D) = Cardinality(F) - Cardinality(F \cap HistoryHandles(u))
    <3> HIDE DEF F
    <3> QED BY <2>1, FS_Difference DEF F
  <2> QED BY <2>1, <2>2, FS_CardinalityType
<1>6. /\ Cardinality(F \cap HistoryHandles(u)) \in Nat
      /\ Cardinality(F \cap HistoryHandles(u)) <= Len(rs.history)
  <2>1. F \cap HistoryHandles(u) = HistoryHandles(rs)
    BY <1>2, <1>3
  <2> QED BY <2>1, FewHandles, FS_CardinalityType
<1>7. Cardinality({g \in D : g < c}) = Cardinality(D) - 1
  <2>1. c \in D /\ {g \in D : g < c} = D \ {c}
    BY <1>4
  <2> HIDE DEF D, c
  <2> QED BY <1>5, <2>1, FS_RemoveElement
<1>8. c \notin dropped
  <2>1. ~ (Cardinality({g \in D : g < c}) < Cardinality(F) - StoreMax)
    <3>1. HistoryMax \in Nat /\ StoreMax \in Nat /\ HistoryMax <= StoreMax - 1
      BY StoreAssumption DEF Room
    <3> HIDE DEF D, F, c
    <3> QED BY <1>3, <1>5, <1>6, <1>7, <3>1
  <2> QED BY <2>1
<1>9. /\ t.history = rs.history /\ t.counter = c /\ Handles(t) = F \ dropped
  BY <1>1, <1>2 DEF Without, Restrict, Handles
<1>10. HistoryHandles(t) = HistoryHandles(u)
  BY <1>2, <1>9 DEF HistoryHandles
<1>11. HistoryHandles(u) \subseteq F \ dropped
  BY <1>2, <1>3
<1> HIDE DEF D, F, dropped, c
<1> QED BY <1>3, <1>4, <1>8, <1>9, <1>10, <1>11 DEF Roomy, t
\* A new list's entry is shown with its handle, and the oldest leave together.
LEMMA RegisterRoomy ==
  ASSUME Room, NEW rs, StoreInv(rs), Roomy(rs), NEW session \in Nat
  PROVE  Roomy(Register(rs, session))
<1> DEFINE u == StoreHandle(rs, session)
           entry == [handle |-> rs.counter + 1, session |-> session]
           log == Append(rs.history, entry)
           v == [u EXCEPT !.history = Append(@, entry)]
<1>1. /\ StoreInv(u) /\ u.history = rs.history /\ u.counter = rs.counter + 1
      /\ HistoryHandles(u) \subseteq Handles(u) /\ rs.counter + 1 \in Handles(u)
  BY HandleStored, CapSpares DEF Roomy
<1> HIDE DEF u
<1>2. v = [entries |-> u.entries, history |-> log, counter |-> u.counter]
  <2>1. v = [u EXCEPT !.history = log]
    BY <1>1
  <2>2. u = [entries |-> u.entries, history |-> u.history, counter |-> u.counter]
    BY <1>1 DEF StoreInv, Formed
  <2> HIDE DEF v, log
  <2> QED BY <2>1, <2>2
<1>3. StoreInv(v)
  BY Appending DEF u, v
<1>4. /\ rs.history \in Seq([handle : Nat, session : Nat])
      /\ entry \in [handle : Nat, session : Nat]
  BY DEF StoreInv, Formed
<1>5. \A i \in DOMAIN log : log[i].handle \in Handles(u)
  <2>1. /\ DOMAIN log = DOMAIN rs.history \cup {Len(rs.history) + 1}
        /\ \A i \in DOMAIN rs.history : log[i] = rs.history[i]
        /\ log[Len(rs.history) + 1] = entry
    BY <1>4, SMTT(30)
  <2>2. \A i \in DOMAIN rs.history : rs.history[i].handle \in Handles(u)
    BY <1>1 DEF HistoryHandles, ToSet
  <2> HIDE DEF log
  <2> QED BY <1>1, <2>1, <2>2
<1>6. HistoryHandles(v) \subseteq Handles(v)
  <2>1. v.history = log /\ Handles(v) = Handles(u)
    BY <1>2 DEF Handles
  <2> HIDE DEF v, log
  <2> QED BY <1>5, <2>1 DEF HistoryHandles, ToSet
<1>7. Register(rs, session) = EvictHistory(v)
  BY DEF Register, u, v
<1>8. HistoryMax > 0
  BY StoreAssumption DEF Room
<1> HIDE DEF v
<1> QED BY <1>3, <1>6, <1>7, <1>8, Evicting DEF Roomy

\* A drill-down brings its entry's handle back if it was gone.
LEMMA EntriesRoomy ==
  ASSUME Room, NEW rs, StoreInv(rs), Roomy(rs), NEW session \in Nat, NEW drill
  PROVE  Roomy(StoreEntries(rs, session, drill))
<1>1. CASE ~ (drill /\ EntryOf(rs, session) > 0)
  BY <1>1, RegisterRoomy DEF StoreEntries
<1>2. CASE drill /\ EntryOf(rs, session) > 0
  <2> DEFINE i == EntryOf(rs, session)
             u == [rs EXCEPT !.entries = With(@, rs.history[i].handle, session)]
  <2>1. i \in DOMAIN rs.history /\ rs.history[i].session = session
    BY <1>2, EntryFound DEF StoreInv, Formed, Shaped
  <2>2. /\ StoreInv(u) /\ u.history = rs.history
        /\ Handles(u) = Handles(rs) \cup {rs.history[i].handle}
    <3> HIDE DEF i
    <3> QED BY <2>1, Drilled
  <2>3. StoreEntries(rs, session, drill) = EvictHistory(u)
    BY <1>2 DEF StoreEntries
  <2>4. HistoryMax > 0
    BY StoreAssumption DEF Room
  <2> HIDE DEF u, i
  <2>5. HistoryHandles(u) \subseteq Handles(u)
    BY <2>2 DEF Roomy, HistoryHandles
  <2> QED BY <2>2, <2>3, <2>4, <2>5, Evicting DEF Roomy
<1> QED BY <1>1, <1>2

\* The store moves by its own methods and by a clear's statements alone.
LEMMA StoreMoves ==
  ASSUME IInv, [Next]_vars
  PROVE  \/ Clear
         \/ /\ UNCHANGED clear
            /\ \/ results' = results
               \/ results' = StoreHandle(results, 0)
               \/ \E session \in Nat, drill \in BOOLEAN :
                    results' = StoreEntries(results, session, drill)
<1> DEFINE Goal == \/ Clear
                   \/ /\ UNCHANGED clear
                      /\ \/ results' = results
                         \/ results' = StoreHandle(results, 0)
                         \/ \E session \in Nat, drill \in BOOLEAN :
                              results' = StoreEntries(results, session, drill)
<1>1. ASSUME NEW r \in Req, Begin(r) PROVE Goal
  BY <1>1 DEF Begin
<1>2. ASSUME NEW r \in Req, Ask(r) PROVE Goal
  BY <1>2 DEF Ask
<1>3. ASSUME NEW r \in Req, Interrupted(r) PROVE Goal
  BY <1>3 DEF Interrupted, EndsAs
<1>4. ASSUME NEW r \in Req, AskFinal(r) PROVE Goal
  BY <1>4 DEF AskFinal
<1>5. ASSUME NEW r \in Req, AnswersText(r) PROVE Goal
  BY <1>5 DEF AnswersText, EndsAs
<1>6. ASSUME NEW r \in Req, ModelFails(r) PROVE Goal
  BY <1>6 DEF ModelFails, EndsAs
<1>7. ASSUME NEW r \in Req, AnswersCalls(r) PROVE Goal
  BY <1>7 DEF AnswersCalls
<1>8. ASSUME NEW r \in Req, NextBatch(r) PROVE Goal
  BY <1>8 DEF NextBatch
<1>9. ASSUME NEW r \in Req, NEW i \in running[r], SearchReturns(r, i) PROVE Goal
  BY <1>9 DEF SearchReturns
<1>10. ASSUME NEW r \in Req, NEW i \in running[r], ActsOnItem(r, i) PROVE Goal
  BY <1>10 DEF ActsOnItem
<1>11. ASSUME NEW r \in Req, NEW i \in running[r], ActionReturns(r, i) PROVE Goal
  BY <1>11 DEF ActionReturns
<1>12. ASSUME NEW r \in Req, Store(r) PROVE Goal
  <2>1. /\ found[r] \in Seq(Nat) /\ next[r] \in DOMAIN calls[r]
        /\ DOMAIN found[r] = DOMAIN calls[r]
    BY <1>12 DEF Store, IInv, TypeOK, WorkTypes, WorkInv
  <2>2. found[r][next[r]] \in Nat
    BY <2>1
  <2> QED BY <1>12, <2>2 DEF Store
<1>13. ASSUME NEW r \in Req, Trace(r) PROVE Goal
  BY <1>13 DEF Trace
<1>14. ASSUME NEW r \in Req, Cancel(r) PROVE Goal
  BY <1>14 DEF Cancel
<1>15. ASSUME Clear PROVE Goal
  BY <1>15
<1>16. ASSUME UNCHANGED vars PROVE Goal
  BY <1>16 DEF vars
<1> QED BY <1>1, <1>2, <1>3, <1>4, <1>5, <1>6, <1>7, <1>8, <1>9, <1>10, <1>11, <1>12, <1>13, <1>14, <1>15, <1>16 DEF Next, Works

\* What a clear leaves of the history's room.
RoomInv == clearing # "entries" /\ ~torn => Roomy(results)

\* An empty history leaves room.
LEMMA EmptyIsRoomy ==
  ASSUME NEW rs, rs.history = <<>>
  PROVE  Roomy(rs)
BY StoreAssumption DEF Roomy, HistoryHandles, ToSet

\* A clear empties the history before anything else can be stored under it.
LEMMA ClearLeavesRoom ==
  ASSUME IInv, Clear
  PROVE  RoomInv'
<1>1. CASE ClearEntries
  BY <1>1 DEF ClearEntries, RoomInv
<1>2. CASE ClearHistory
  <2>1. results'.history = <<>>
    BY <1>2, FieldSet DEF ClearHistory, IInv, OrderInv
  <2> QED BY <2>1, EmptyIsRoomy DEF RoomInv
<1>3. CASE ClearCounter
  <2>1. results'.history = results.history /\ (~torn' => results.history = <<>>)
    BY <1>3, FieldSet DEF ClearCounter, IInv, OrderInv
  <2> QED BY <2>1, EmptyIsRoomy DEF RoomInv
<1> QED BY <1>1, <1>2, <1>3 DEF Clear

\* With the history's cap below the store's, every list the search history shows
\* can be fetched: eviction and the cap take no handle that the history names.  So
\* it is but between the first two statements of a clear, and after a clear in the
\* midst of which a result was stored.
THEOREM ShownHandlesResolve == Room /\ Spec => []HistoryResolves
<1> SUFFICES ASSUME Room PROVE Spec => []HistoryResolves
  OBVIOUS
<1>1. Init => RoomInv
  BY EmptyStored DEF Init, RoomInv
<1>2. IInv /\ RoomInv /\ [Next]_vars => RoomInv'
  <2> SUFFICES ASSUME IInv, RoomInv, [Next]_vars PROVE RoomInv'
    OBVIOUS
  <2>1. CASE Clear
    BY <2>1, ClearLeavesRoom
  <2>2. CASE ~Clear
    <3> SUFFICES ASSUME clearing' # "entries", ~torn' PROVE Roomy(results')
      BY DEF RoomInv
    <3>1. /\ UNCHANGED <<clearing, torn>>
          /\ \/ results' = results
             \/ results' = StoreHandle(results, 0)
             \/ \E session \in Nat, drill \in BOOLEAN :
                  results' = StoreEntries(results, session, drill)
      BY <2>2, StoreMoves DEF clear
    <3>2. StoreInv(results) /\ Roomy(results)
      BY <3>1 DEF IInv, OrderInv, RoomInv
    <3> QED BY <3>1, <3>2, CapSpares, EntriesRoomy
  <2> QED BY <2>1, <2>2
<1>3. RoomInv => HistoryResolves
  BY DEF RoomInv, Roomy, HistoryResolves
<1> QED BY <1>1, <1>2, <1>3, InvHolds, PTL DEF Spec

-----------------------------------------------------------------------------
(* The refinement of RequestRun.                                             *)

\* Every step of the loop is a step of the promise or none.
LEMMA StepsKeepPromise ==
  ASSUME IInv, [Next]_vars
  PROVE  [Run!Next]_Run!vars
<1> USE LoopAssumption DEF IInv, TypeOK, ControlTypes, Stages, InLoop, AskInv,
        loop, step, Set
<1>1. ASSUME NEW r \in Req, Begin(r) PROVE UNCHANGED Run!vars
  BY <1>1 DEF Begin, Run!vars
<1>2. ASSUME NEW r \in Req, Ask(r) PROVE Run!Ask(r)
  BY <1>2 DEF Ask, Run!Ask, Run!Running
<1>3. ASSUME NEW r \in Req, Interrupted(r) PROVE Run!End(r)
  BY <1>3 DEF Interrupted, EndsAs, Run!End, Run!Running, Run!Outcomes
<1>4. ASSUME NEW r \in Req, AskFinal(r) PROVE Run!Ask(r)
  BY <1>4 DEF AskFinal, Run!Ask, Run!Running
<1>5. ASSUME NEW r \in Req, AnswersText(r) PROVE Run!End(r)
  BY <1>5 DEF AnswersText, EndsAs, Run!End, Run!Running, Run!Outcomes
<1>6. ASSUME NEW r \in Req, ModelFails(r) PROVE Run!End(r)
  BY <1>6 DEF ModelFails, EndsAs, Run!End, Run!Running, Run!Outcomes
<1>7. ASSUME NEW r \in Req, AnswersCalls(r) PROVE UNCHANGED Run!vars
  BY <1>7 DEF AnswersCalls, Run!vars
<1>8. ASSUME NEW r \in Req, NextBatch(r) PROVE UNCHANGED Run!vars
  BY <1>8 DEF NextBatch, Run!vars
<1>9. ASSUME NEW r \in Req, NEW i \in running[r], SearchReturns(r, i) PROVE UNCHANGED Run!vars
  BY <1>9 DEF SearchReturns, Run!vars
<1>10. ASSUME NEW r \in Req, NEW i \in running[r], ActsOnItem(r, i) PROVE UNCHANGED Run!vars
  BY <1>10 DEF ActsOnItem, Run!vars
<1>11. ASSUME NEW r \in Req, NEW i \in running[r], ActionReturns(r, i) PROVE UNCHANGED Run!vars
  BY <1>11 DEF ActionReturns, Run!vars
<1>12. ASSUME NEW r \in Req, Store(r) PROVE UNCHANGED Run!vars
  BY <1>12 DEF Store, Run!vars
<1>13. ASSUME NEW r \in Req, Trace(r) PROVE UNCHANGED Run!vars
  BY <1>13 DEF Trace, Run!vars
<1>14. ASSUME NEW r \in Req, Cancel(r) PROVE Run!Cancel(r)
  BY <1>14 DEF Cancel, Run!Cancel, Run!Running
<1>15. ASSUME Clear PROVE UNCHANGED Run!vars
  BY <1>15 DEF Clear, ClearEntries, ClearHistory, ClearCounter, Run!vars
<1>16. ASSUME UNCHANGED vars PROVE UNCHANGED Run!vars
  BY <1>16 DEF vars, Run!vars
<1> QED BY <1>1, <1>2, <1>3, <1>4, <1>5, <1>6, <1>7, <1>8, <1>9, <1>10, <1>11, <1>12, <1>13, <1>14, <1>15, <1>16 DEF Next, Works, Run!Next

\* Safety half of the refinement: a request asks the model at most Limit + 1 times
\* and, once cancelled, no more than the final time; and it ends once, as what
\* happened.
THEOREM KeepsPromise == Spec => Run!Safety
<1>1. Init => Run!Init
  BY DEF Init, Run!Init
<1>2. IInv /\ [Next]_vars => [Run!Next]_Run!vars
  BY StepsKeepPromise
<1> QED BY <1>1, <1>2, InvHolds, PTL DEF Spec, Run!Safety
=============================================================================
