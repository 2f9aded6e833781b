-------------------------- MODULE RequestIdsProofs --------------------------
(***************************************************************************)
(* Proofs about RequestIds for any number of requests, processes, clears    *)
(* and overlaps, any clock and any calendar that never goes back.  The      *)
(* inductive invariant: the generator's counters cover every id that is     *)
(* still at risk -- minted by this process, or known to a committed         *)
(* snapshot -- and so do the counters of the saved row.                     *)
(***************************************************************************)
EXTENDS RequestIds, TLAPS

\* The last sequence number given out in conversation x, in flight or saved.
Count(g, x) == IF x = g.last_conv THEN g.sequence ELSE Counter(g, x)

\* Ids that must not be given out again.
Live == {r \in Minted : minted[r].life = life \/ r \in committed}

\* Counters g cover id i minted on day d: it is of an earlier day, or behind its
\* conversation's counter.
Covers(g, i, d) == d <= g.day /\ (d = g.day => i[2] <= Count(g, i[1]))

CoverInv == \A r \in Live : Covers(gen, id[r], minted[r].day)

\* At time n, the generator's day is not ahead, nor behind the last request's.
Timely(n, t, g) ==
  /\ g.day <= DayOf[n]
  /\ t.last_time <= n
  /\ t.last_time # 0 => g.day <= DayOf[t.last_time]

TimeInv == Timely(now, tracker, gen)

SavedInv ==
  /\ saved = {} => committed = {}
  /\ \A s \in saved :
       /\ \A r \in committed : Covers(s.gen, id[r], minted[r].day)
       /\ Timely(now, s.tracker, s.gen)

\* The stages before the mint, and a step that brings no request back to them,
\* nor to the mint itself.
Early == {"new", "rolled", "classified"}
Onward(p, p2) ==
  \A r \in Req : /\ p2[r] = "minted" => p[r] = "minted"
                 /\ p2[r] \in Early => p[r] \in Early

MintInv ==
  /\ committed \subseteq Minted
  /\ \A r \in Req : /\ pc[r] = "minted" => id[r] # None
                    /\ pc[r] \in Early => id[r] = None
  /\ \A r \in Minted : minted[r] \in Mints /\ minted[r].life <= life

UniqueInv ==
  \A r, s \in Live : r # s /\ minted[r].day = minted[s].day => id[r] # id[s]

IInv == TypeOK /\ CoverInv /\ TimeInv /\ SavedInv /\ MintInv /\ UniqueInv
        /\ IdsUniqueInLife

-----------------------------------------------------------------------------
(* The tracker.                                                             *)

\* A new tracker is well formed and has seen no request yet.
LEMMA NewTrackerType ==
  ASSUME NEW n \in Nat \ {0}
  PROVE  IsTracker(NewTracker(n)) /\ NewTracker(n).last_time = 0
BY IdsAssumption DEF IsTracker, NewTracker, IsByConversation

\* A forced new conversation gives a positive id at the present time.
LEMMA MintNewType ==
  ASSUME NEW t, IsTracker(t), now \in 1 .. MaxTime, life \in Nat \ {0}
  PROVE  /\ IsTracker(MintNew(t))
         /\ MintNew(t).current \in Nat \ {0}
         /\ MintNew(t).last_time = now
<1> DEFINE f == MintNew(t).threads
<1>1. t.next_num \in Nat \ {0} /\ t.threads \subseteq Nat \ {0}
  BY DEF IsTracker
<1>3. f \subseteq Nat \ {0}
  BY <1>1 DEF MintNew
<1>4. /\ MintNew(t).current = t.next_num /\ MintNew(t).last_time = now
      /\ MintNew(t).next_num = t.next_num + 1
      /\ MintNew(t) = [threads |-> f, current |-> t.next_num,
                       next_num |-> t.next_num + 1, last_time |-> now]
  BY DEF MintNew
<1> HIDE DEF f
<1> QED BY <1>1, <1>3, <1>4 DEF IsTracker

\* So does one assigned by the time since the last request.
LEMMA AssignType ==
  ASSUME NEW t, IsTracker(t), now \in 1 .. MaxTime, life \in Nat \ {0}
  PROVE  /\ IsTracker(AssignByTimeout(t))
         /\ AssignByTimeout(t).current \in Nat \ {0}
         /\ AssignByTimeout(t).last_time = now
<1>1. CASE OpensNew(t)
  BY <1>1, MintNewType DEF AssignByTimeout
<1>2. CASE ~OpensNew(t)
  <2>1. AssignByTimeout(t) = [t EXCEPT !.last_time = now]
    BY <1>2 DEF AssignByTimeout
  <2> QED BY <1>2, <2>1 DEF IsTracker, OpensNew
<1> QED BY <1>1, <1>2

-----------------------------------------------------------------------------
(* The generator.                                                           *)

\* Giving out an id in conversation x moves x's counter on by one and no other.
LEMMA GivenCounts ==
  ASSUME NEW g, IsGen(g), NEW x \in Nat \ {0}
  PROVE  /\ IsGen(Given(g, x))
         /\ Given(g, x).day = g.day
         /\ Given(g, x).sequence = Count(g, x) + 1
         /\ Count(g, x) \in Nat
         /\ Count(Given(g, x), x) = Count(g, x) + 1
         /\ \A y : y # x => Count(Given(g, x), y) = Count(g, y)
<1>0. /\ g.sequence \in Nat /\ g.last_conv \in Nat \ {0}
      /\ \A y \in DOMAIN g.conv_sequences :
           y \in Nat \ {0} /\ g.conv_sequences[y] \in Nat
  BY DEF IsGen, IsByConversation
<1>1. CASE x = g.last_conv
  <2>1. Given(g, x) = [g EXCEPT !.sequence = g.sequence + 1]
    BY <1>1 DEF Given
  <2> QED BY <1>0, <1>1, <2>1 DEF IsGen, Count, Counter
<1>2. CASE x # g.last_conv
  <2> DEFINE f == [y \in DOMAIN g.conv_sequences \cup {g.last_conv} |->
                     IF y = g.last_conv THEN g.sequence
                     ELSE g.conv_sequences[y]]
             h == Given(g, x)
  <2>1. /\ h.sequence = Counter(g, x) + 1 /\ h.conv_sequences = f
        /\ h.last_conv = x /\ h.day = g.day
        /\ h = [sequence |-> h.sequence, conv_sequences |-> h.conv_sequences,
                last_conv |-> h.last_conv, day |-> h.day]
    BY <1>2 DEF Given, Switched, IsGen
  <2>2. IsByConversation(f, Nat)
    BY <1>0 DEF IsByConversation
  <2>3. Counter(g, x) \in Nat
    BY <1>0 DEF Counter
  <2>4. IsGen(h)
    <3> HIDE DEF h, f
    <3> QED BY <2>1, <2>2, <2>3 DEF IsGen
  <2>5. \A y : y # x => Count(h, y) = Count(g, y)
    BY <1>2, <2>1 DEF Count, Counter
  <2> QED BY <1>2, <2>1, <2>3, <2>4, <2>5 DEF Count
<1> QED BY <1>1, <1>2

\* Rolling the day keeps every live id covered and leaves the generator on
\* today.
LEMMA RollCovers ==
  ASSUME IInv
  PROVE  /\ IsTracker(RolledTracker) /\ IsGen(RolledGen)
         /\ Timely(now, RolledTracker, RolledGen)
         /\ RolledGen.day = DayOf[now]
         /\ \A r \in Live : Covers(RolledGen, id[r], minted[r].day)
<1> USE IdsAssumption
<1>1. /\ IsTracker(tracker) /\ IsGen(gen) /\ now \in 1 .. MaxTime
      /\ DayOf[now] \in Nat \ {0} /\ gen.day \in Nat
      /\ Timely(now, tracker, gen)
  BY DEF IInv, TypeOK, TimeInv, IsGen
<1>2. CASE ~DayChanged
  BY <1>1, <1>2 DEF DayChanged, RolledTracker, RolledGen, IInv, CoverInv
<1>3. CASE DayChanged
  <2>1. RolledTracker = NewTracker(1)
    BY <1>3 DEF RolledTracker
  <2>2. RolledGen = [sequence |-> 0, conv_sequences |-> [x \in {} |-> 0],
                     last_conv |-> 1, day |-> DayOf[now]]
    BY <1>3 DEF RolledGen, CurrentId, NewTracker
  <2>3. IsTracker(RolledTracker) /\ RolledTracker.last_time = 0
    BY <2>1, NewTrackerType
  <2>4. IsGen(RolledGen) /\ RolledGen.day = DayOf[now]
    BY <1>1, <2>2 DEF IsGen, IsByConversation
  <2>5. gen.day < DayOf[now]
    BY <1>1, <1>3 DEF DayChanged, Timely
  <2>6. ASSUME NEW r \in Live
        PROVE  Covers(RolledGen, id[r], minted[r].day)
    <3>1. Covers(gen, id[r], minted[r].day)
      BY DEF IInv, CoverInv
    <3>2. minted[r].day \in Nat
      BY DEF IInv, MintInv, Live, Mints
    <3> QED BY <1>1, <2>4, <2>5, <3>1, <3>2 DEF Covers
  <2>7. Timely(now, RolledTracker, RolledGen)
    BY <1>1, <2>3, <2>4 DEF Timely
  <2> QED BY <2>3, <2>4, <2>6, <2>7
<1> QED BY <1>2, <1>3

\* The largest of a set of counters, or 0.
LEMMA LargestType ==
  ASSUME NEW S, S \subseteq Nat
  PROVE  Largest(S) \in Nat
<1>1. CASE \E m \in S : IsLargest(m, S)
  <2>1. (CHOOSE m \in S : IsLargest(m, S)) \in S
    BY <1>1
  <2> QED BY <1>1, <2>1 DEF Largest
<1>2. CASE ~\E m \in S : IsLargest(m, S)
  BY <1>2 DEF Largest
<1> QED BY <1>1, <1>2

\* A scan of the logs gives a well-formed generator, on today.
LEMMA ScanType ==
  ASSUME TypeOK
  PROVE  /\ ScannedStart \in Nat \ {0}
         /\ IsGen(ScannedGen)
         /\ ScannedGen.day = DayOf[now]
<1> USE IdsAssumption
<1>1. \A r \in Req : dir[r] # None => dir[r] \in Dirs
  BY DEF TypeOK
<1>2. LoggedToday \subseteq Dirs
  BY <1>1 DEF LoggedToday
<1>3. ConvsToday \subseteq Nat \ {0} /\ ConvsToday \subseteq Nat
  BY <1>2 DEF ConvsToday, Dirs
<1>4. \A x : Today(x) \subseteq Nat
  BY <1>2 DEF Today, Dirs
<1>5. ScannedStart \in Nat \ {0}
  <2>1. Largest(ConvsToday) \in Nat
    BY <1>3, LargestType
  <2> QED BY <2>1 DEF ScannedStart
<1>6. \A x \in ConvsToday : Largest(Today(x)) \in Nat
  BY <1>4, LargestType
<1> HIDE DEF ConvsToday, Today, ScannedStart, Largest
<1>7. DayOf[now] \in Nat \ {0}
  BY DEF TypeOK
<1>8. IsByConversation(ScannedGen.conv_sequences, Nat)
  BY <1>3, <1>6 DEF ScannedGen, IsByConversation
<1> QED BY <1>5, <1>7, <1>8 DEF ScannedGen, IsGen

-----------------------------------------------------------------------------
(* The invariant, step by step.                                             *)

\* The first life starts with nothing on record.
LEMMA InitEstablishes == Init => IInv
<1> SUFFICES ASSUME Init PROVE IInv
  OBVIOUS
<1> USE IdsAssumption
<1>1. Minted = {}
  BY DEF Init, Minted
<1>2. IsTracker(tracker) /\ tracker.last_time = 0
  BY NewTrackerType DEF Init
<1>3. IsGen(gen) /\ gen.day = DayOf[now]
  BY DEF Init, IsGen, IsByConversation
<1>4. TypeOK
  BY <1>2, <1>3 DEF Init, TypeOK, Stages
<1>5. TimeInv
  BY <1>2, <1>3 DEF Init, TimeInv, Timely
<1>6. CoverInv /\ UniqueInv /\ IdsUniqueInLife
  BY <1>1 DEF CoverInv, UniqueInv, IdsUniqueInLife, Live
<1>7. SavedInv /\ MintInv
  BY <1>1 DEF Init, SavedInv, MintInv
<1> QED BY <1>4, <1>5, <1>6, <1>7 DEF IInv

\* Steps that mint, save and restart nothing keep the invariant when the new
\* tracker and generator are in time and cover the live ids.
LEMMA Frame ==
  ASSUME IInv, TypeOK', now <= now',
         UNCHANGED <<life, saved, id, minted, committed>>,
         \A r \in Live : Covers(gen', id[r], minted[r].day),
         Timely(now', tracker', gen'),
         Onward(pc, pc')
  PROVE  IInv'
<1> USE IdsAssumption
<1>1. Live' = Live /\ Minted' = Minted
  BY DEF Live, Minted
<1>2. CoverInv' /\ TimeInv' /\ UniqueInv' /\ IdsUniqueInLife'
  BY <1>1 DEF IInv, CoverInv, TimeInv, UniqueInv, IdsUniqueInLife
<1>3. MintInv'
  BY <1>1 DEF IInv, MintInv, Onward
<1>4. SavedInv'
  <2> SUFFICES ASSUME NEW s \in saved
               PROVE  Timely(now', s.tracker, s.gen)
    BY DEF IInv, SavedInv
  <2>1. IsTracker(s.tracker) /\ IsGen(s.gen) /\ Timely(now, s.tracker, s.gen)
    BY DEF IInv, TypeOK, SavedInv
  <2>2. /\ now \in 1 .. MaxTime /\ now' \in 1 .. MaxTime
        /\ DayOf[now] <= DayOf[now'] /\ DayOf[now] \in Nat
        /\ DayOf[now'] \in Nat
    BY DEF IInv, TypeOK
  <2>3. s.gen.day \in Nat /\ s.tracker.last_time \in Nat
    BY <2>1 DEF IsGen, IsTracker
  <2> QED BY <2>1, <2>2, <2>3 DEF Timely
<1> QED BY <1>2, <1>3, <1>4 DEF IInv

\* Rolling the day over, or failing to, keeps the ids apart.
LEMMA RollSteps ==
  ASSUME IInv, NEW r \in Req, RollDay(r) \/ NextIdRaises(r)
  PROVE  IInv'
<1> USE IdsAssumption
<1>1. /\ tracker' = RolledTracker /\ gen' = RolledGen
      /\ UNCHANGED <<now, life, clearing, clears, saved, id, minted,
                     dir, committed>>
      /\ pc' = [pc EXCEPT ![r] = "rolled"] \/ pc' = [pc EXCEPT ![r] = "failed"]
  BY DEF RollDay, NextIdRaises, Advance
<1>2. /\ IsTracker(RolledTracker) /\ IsGen(RolledGen)
      /\ Timely(now, RolledTracker, RolledGen)
      /\ \A s \in Live : Covers(RolledGen, id[s], minted[s].day)
  BY RollCovers
<1>3. TypeOK'
  BY <1>1, <1>2 DEF IInv, TypeOK, Stages
<1>4. Onward(pc, pc')
  BY DEF IInv, TypeOK, Onward, Early, RollDay, NextIdRaises, Advance
<1>5. now <= now' /\ Timely(now', tracker', gen')
  BY <1>1, <1>2 DEF IInv, TypeOK
<1> QED BY <1>1, <1>2, <1>3, <1>4, <1>5, Frame

\* Classification and clear_active move only the tracker, and its clock forward.
LEMMA TrackerSteps ==
  ASSUME IInv,
         \/ \E r \in Req : ClassifyNew(r) \/ ClassifyContinue(r)
         \/ ClearThreads \/ ClearPointer \/ ClearTime
  PROVE  IInv'
<1> USE IdsAssumption
<1>0. /\ IsTracker(tracker) /\ IsGen(gen) /\ now \in 1 .. MaxTime
      /\ life \in Nat \ {0} /\ Timely(now, tracker, gen) /\ gen.day \in Nat
      /\ pc \in [Req -> Stages]
  BY DEF IInv, TypeOK, TimeInv, IsGen
<1>1. UNCHANGED <<now, life, gen, saved, id, minted, dir, committed>>
  BY DEF ClassifyNew, ClassifyContinue, ClearThreads, ClearPointer, ClearTime
<1>2. IsTracker(tracker') /\ tracker'.last_time \in {0, now, tracker.last_time}
  <2>1. ASSUME NEW r \in Req, ClassifyNew(r)
        PROVE  IsTracker(tracker') /\ tracker'.last_time = now
    BY <1>0, <2>1, MintNewType DEF ClassifyNew
  <2>2. ASSUME NEW r \in Req, ClassifyContinue(r)
        PROVE  IsTracker(tracker') /\ tracker'.last_time = now
    <3>1. PICK x \in tracker.threads :
            tracker' = ReassignCurrent(tracker, x)
      BY <2>2 DEF ClassifyContinue
    <3>2. x \in Nat \ {0}
      BY <1>0 DEF IsTracker, IsByConversation
    <3>3. tracker' = [tracker EXCEPT !.current = x, !.last_time = now]
      BY <3>1 DEF ReassignCurrent
    <3>4. /\ tracker'.threads = tracker.threads /\ tracker'.current = x
          /\ tracker'.next_num = tracker.next_num /\ tracker'.last_time = now
          /\ tracker' = [threads |-> tracker'.threads,
                         current |-> tracker'.current,
                         next_num |-> tracker'.next_num,
                         last_time |-> tracker'.last_time]
      BY <1>0, <3>3 DEF IsTracker
    <3> QED BY <1>0, <3>2, <3>4 DEF IsTracker
  <2>3. CASE ClearThreads
    BY <1>0, <2>3 DEF ClearThreads, IsTracker, IsByConversation
  <2>4. CASE ClearPointer
    <3>1. tracker' = [tracker EXCEPT !.current = 0]
      BY <2>4 DEF ClearPointer
    <3> QED BY <1>0, <3>1 DEF IsTracker
  <2>5. CASE ClearTime
    <3>1. tracker' = [tracker EXCEPT !.last_time = 0]
      BY <2>5 DEF ClearTime
    <3> QED BY <1>0, <3>1 DEF IsTracker
  <2> QED BY <2>1, <2>2, <2>3, <2>4, <2>5
<1>3. /\ pc' \in [Req -> Stages]
      /\ Onward(pc, pc')
      /\ clearing' \in {"no", "threads", "pointer", "time"}
      /\ clears' \in 0 .. MaxClears
  <2>1. ASSUME NEW r \in Req, ClassifyNew(r) \/ ClassifyContinue(r)
        PROVE  /\ pc' \in [Req -> Stages] /\ Onward(pc, pc')
               /\ UNCHANGED <<clearing, clears>>
    BY <1>0, <2>1 DEF ClassifyNew, ClassifyContinue, Advance, Stages, Onward, Early
  <2>2. CASE ClearThreads
    BY <1>0, <2>2 DEF ClearThreads, ClearStep, IInv, TypeOK, Onward
  <2>3. CASE ClearPointer
    BY <1>0, <2>3 DEF ClearPointer, ClearStep, IInv, TypeOK, Onward
  <2>4. CASE ClearTime
    BY <1>0, <2>4 DEF ClearTime, ClearStep, IInv, TypeOK, Onward
  <2> QED BY <2>1, <2>2, <2>3, <2>4 DEF IInv, TypeOK
<1>5. TypeOK'
  BY <1>1, <1>2, <1>3 DEF IInv, TypeOK
<1>6. now <= now' /\ Timely(now', tracker', gen')
  BY <1>0, <1>1, <1>2 DEF Timely
<1>7. \A r \in Live : Covers(gen', id[r], minted[r].day)
  BY <1>1 DEF IInv, CoverInv
<1> QED BY <1>1, <1>3, <1>5, <1>6, <1>7, Frame

\* Steps that mint nothing, among them writes that fail, keep them apart.
LEMMA QuietSteps ==
  ASSUME IInv,
         \/ Tick \/ ClearOnDiskUnsaved
         \/ \E r \in Req : OpenLog(r) \/ FinishUnsaved(r)
  PROVE  IInv'
<1> USE IdsAssumption
<1>1. /\ UNCHANGED <<life, tracker, gen, saved, id, minted, committed, clears>>
      /\ clearing' \in {"no", "threads", "pointer", "time"}
      /\ now' \in 1 .. MaxTime /\ now <= now'
      /\ pc' \in [Req -> Stages]
      /\ Onward(pc, pc')
  <2>1. CASE Tick
    BY <2>1 DEF Tick, IInv, TypeOK, Onward
  <2>2. ASSUME NEW r \in Req, OpenLog(r) \/ FinishUnsaved(r)
        PROVE  /\ UNCHANGED <<now, life, tracker, gen, saved, id, minted,
                              committed, clearing, clears>>
               /\ pc' \in [Req -> Stages]
               /\ Onward(pc, pc')
    BY <2>2 DEF OpenLog, FinishUnsaved, Advance, Stages, IInv, TypeOK, Onward,
                Early
  <2>3. CASE ClearOnDiskUnsaved
    BY <2>3 DEF ClearOnDiskUnsaved, ClearStep, IInv, TypeOK, Onward
  <2> QED BY <2>1, <2>2, <2>3 DEF IInv, TypeOK
<1>2. dir' \in [Req -> Dirs \cup {None}]
  <2>1. ASSUME NEW r \in Req, OpenLog(r) PROVE dir' \in [Req -> Dirs \cup {None}]
    <3>1. id[r] \in Ids
      BY <2>1 DEF OpenLog, Advance, IInv, MintInv, TypeOK
    <3>2. /\ id[r][1] \in Nat \ {0} /\ id[r][2] \in Nat \ {0}
          /\ DayOf[now] \in Nat \ {0}
      BY <3>1 DEF Ids, IInv, TypeOK
    <3>3. [day |-> DayOf[now], conv |-> id[r][1], seq |-> id[r][2]] \in Dirs
      BY <3>2 DEF Dirs
    <3> QED BY <2>1, <3>3 DEF OpenLog, IInv, TypeOK
  <2> QED BY <2>1 DEF Tick, FinishUnsaved, ClearOnDiskUnsaved, IInv, TypeOK
<1>3. TypeOK'
  BY <1>1, <1>2 DEF IInv, TypeOK
<1>4. Timely(now', tracker', gen')
  <2>1. /\ Timely(now, tracker, gen) /\ IsGen(gen) /\ IsTracker(tracker)
        /\ now \in 1 .. MaxTime
    BY DEF IInv, TimeInv, TypeOK
  <2>2. DayOf[now] <= DayOf[now'] /\ DayOf[now] \in Nat /\ DayOf[now'] \in Nat
    BY <1>1, <2>1
  <2>3. gen.day \in Nat /\ tracker.last_time \in Nat
    BY <2>1 DEF IsGen, IsTracker
  <2> QED BY <1>1, <2>1, <2>2, <2>3 DEF Timely
<1>5. \A r \in Live : Covers(gen', id[r], minted[r].day)
  BY <1>1 DEF IInv, CoverInv
<1> QED BY <1>1, <1>3, <1>4, <1>5, Frame

\* A commit makes every id of this process a committed one: none goes live that
\* was not, and the saved row covers them as the generator does.
LEMMA PersistSteps ==
  ASSUME IInv, ClearOnDisk \/ \E r \in Req : Finish(r)
  PROVE  IInv'
<1> USE IdsAssumption
<1>1. /\ UNCHANGED <<now, life, tracker, gen, id, minted, clears>>
      /\ saved' = {[tracker |-> tracker, gen |-> gen]}
      /\ committed' = committed \cup
           {r \in Req : id[r] # None /\ minted[r].life = life}
      /\ clearing' \in {"no", "threads", "pointer", "time"}
  BY DEF ClearOnDisk, Finish, Persist, Snapshot, ClearStep, IInv, TypeOK
<1>2. /\ pc' \in [Req -> Stages]
      /\ Onward(pc, pc')
      /\ dir' \in [Req -> Dirs \cup {None}]
  BY DEF ClearOnDisk, Finish, Advance, Stages, IInv, TypeOK, Onward, Early
<1>3. Minted' = Minted /\ Live' = Live /\ committed' \subseteq Live
  BY <1>1 DEF Minted, Live, IInv, MintInv
<1>4. TypeOK'
  BY <1>1, <1>2 DEF IInv, TypeOK
<1>5. CoverInv' /\ TimeInv' /\ UniqueInv' /\ IdsUniqueInLife'
  BY <1>1, <1>3 DEF IInv, CoverInv, TimeInv, UniqueInv, IdsUniqueInLife
<1>6. MintInv'
  BY <1>1, <1>2, <1>3 DEF IInv, MintInv, Live, Onward
<1>7. SavedInv'
  <2>1. \A s \in saved' : s.tracker = tracker /\ s.gen = gen
    BY <1>1
  <2>2. \A r \in committed' : Covers(gen, id[r], minted[r].day)
    BY <1>3 DEF IInv, CoverInv
  <2>3. saved' # {}
    BY <1>1
  <2> QED BY <1>1, <2>1, <2>2, <2>3 DEF IInv, TimeInv, SavedInv
<1> QED BY <1>4, <1>5, <1>6, <1>7 DEF IInv

\* A mint: the new id lies just beyond its conversation's counter.
LEMMA NextIdStep ==
  ASSUME IInv, NEW r \in Req, NextId(r)
  PROVE  IInv'
<1> USE IdsAssumption
<1> DEFINE t == AssignByTimeout(RolledTracker)
           x == t.current
           g == Given(RolledGen, x)
<1>1. /\ tracker' = t /\ gen' = g
      /\ pc' = [pc EXCEPT ![r] = "minted"] /\ pc[r] \in Early
      /\ id' = [id EXCEPT ![r] = <<x, g.sequence>>]
      /\ minted' = [minted EXCEPT ![r] = [life |-> life, day |-> g.day]]
      /\ UNCHANGED <<now, life, clearing, clears, saved, dir, committed>>
  BY DEF NextId, Advance, Early
<1>2. /\ IsTracker(RolledTracker) /\ IsGen(RolledGen)
      /\ RolledGen.day = DayOf[now]
      /\ \A s \in Live : Covers(RolledGen, id[s], minted[s].day)
  BY RollCovers
<1>3. now \in 1 .. MaxTime /\ life \in Nat \ {0} /\ DayOf[now] \in Nat \ {0}
  BY DEF IInv, TypeOK
<1>4. IsTracker(t) /\ x \in Nat \ {0} /\ t.last_time = now
  BY <1>2, <1>3, AssignType
<1> HIDE DEF t
<1>5. /\ IsGen(g) /\ g.day = DayOf[now]
      /\ g.sequence = Count(RolledGen, x) + 1
      /\ Count(RolledGen, x) \in Nat
      /\ Count(g, x) = Count(RolledGen, x) + 1
      /\ \A y : y # x => Count(g, y) = Count(RolledGen, y)
  BY <1>2, <1>4, GivenCounts
<1> HIDE DEF g, x
<1>6. /\ id \in [Req -> Ids \cup {None}] /\ minted \in [Req -> Mints \cup {None}]
      /\ <<x, g.sequence>> \in Ids /\ id[r] = None
      /\ g.sequence \in Nat \ {0}
  BY <1>1, <1>3, <1>4, <1>5, SMTT(30) DEF IInv, TypeOK, MintInv, Ids
<1>7. /\ id'[r] = <<x, g.sequence>> /\ minted'[r] \in Mints
      /\ minted'[r].life = life /\ minted'[r].day = DayOf[now]
      /\ \A s \in Req : s # r => id'[s] = id[s] /\ minted'[s] = minted[s]
  BY <1>1, <1>3, <1>5, <1>6 DEF Mints
<1>8. /\ Minted' \subseteq Minted \cup {r} /\ Live' \subseteq Live \cup {r}
      /\ Minted \subseteq Minted' /\ r \notin Minted /\ r \notin committed
  BY <1>1, <1>6, <1>7 DEF Minted, Live, IInv, MintInv
<1>9. TypeOK'
  <2>1. pc' \in [Req -> Stages]
    BY <1>1 DEF IInv, TypeOK, Stages
  <2>2. id' \in [Req -> Ids \cup {None}]
    BY <1>1, <1>6
  <2>3. minted' \in [Req -> Mints \cup {None}]
    BY <1>1, <1>6, <1>7
  <2> QED BY <1>1, <1>4, <1>5, <2>1, <2>2, <2>3 DEF IInv, TypeOK
<1>10. ASSUME NEW s \in Live, s # r
       PROVE  /\ Covers(g, id[s], minted[s].day)
              /\ minted[s].day = DayOf[now] => id[s] # <<x, g.sequence>>
  <2>1. /\ Covers(RolledGen, id[s], minted[s].day) /\ id[s] \in Ids
        /\ minted[s].day \in Nat
    BY <1>2, <1>6 DEF Live, Minted, IInv, MintInv, Mints
  <2>2. id[s][1] \in Nat /\ id[s][2] \in Nat /\ id[s] = <<id[s][1], id[s][2]>>
    BY <2>1 DEF Ids
  <2>3. minted[s].day = DayOf[now] => id[s][2] <= Count(RolledGen, id[s][1])
    BY <1>2, <2>1 DEF Covers
  <2>4. Covers(g, id[s], minted[s].day)
    <3>1. CASE id[s][1] = x
      BY <1>2, <1>5, <2>1, <2>2, <2>3, <3>1 DEF Covers
    <3>2. CASE id[s][1] # x
      BY <1>2, <1>5, <2>1, <2>2, <2>3, <3>2 DEF Covers
    <3> QED BY <3>1, <3>2
  <2>5. minted[s].day = DayOf[now] => id[s] # <<x, g.sequence>>
    BY <1>5, <2>2, <2>3
  <2> QED BY <2>4, <2>5
<1>11. CoverInv'
  <2>1. Covers(g, <<x, g.sequence>>, DayOf[now])
    BY <1>3, <1>5, <1>6 DEF Covers
  <2> QED BY <1>1, <1>7, <1>8, <1>10, <2>1 DEF CoverInv, Live, Minted
<1>12. TimeInv'
  BY <1>1, <1>3, <1>4, <1>5 DEF TimeInv, Timely
<1>13. UniqueInv'
  <2> SUFFICES ASSUME NEW a \in Live', NEW b \in Live', a # b,
                      minted'[a].day = minted'[b].day
               PROVE  id'[a] # id'[b]
    BY DEF UniqueInv
  <2>1. CASE a # r /\ b # r
    BY <1>7, <1>8, <2>1 DEF IInv, UniqueInv, Live, Minted
  <2>2. CASE a = r
    <3>1. b \in Live /\ b # r /\ b \in Req
      BY <1>8, <2>2 DEF Live, Minted
    <3> QED BY <1>7, <1>10, <2>2, <3>1
  <2>3. CASE b = r
    <3>1. a \in Live /\ a # r /\ a \in Req
      BY <1>8, <2>3 DEF Live, Minted
    <3> QED BY <1>7, <1>10, <2>3, <3>1
  <2> QED BY <2>1, <2>2, <2>3
<1>14. IdsUniqueInLife'
  <2> SUFFICES ASSUME NEW a \in Minted', NEW b \in Minted', a # b,
                      minted'[a].life = minted'[b].life,
                      minted'[a].day = minted'[b].day
               PROVE  id'[a] # id'[b]
    BY DEF IdsUniqueInLife
  <2>0. a \in Req /\ b \in Req
    BY DEF Minted
  <2>1. CASE a # r /\ b # r
    <3>1. a \in Minted /\ b \in Minted
      BY <1>8, <2>1
    <3> QED BY <1>7, <2>0, <2>1, <3>1 DEF IInv, IdsUniqueInLife
  <2>2. CASE a = r
    <3>1. b \in Live
      BY <1>7, <1>8, <2>0, <2>2 DEF Live
    <3> QED BY <1>7, <1>10, <2>0, <2>2, <3>1
  <2>3. CASE b = r
    <3>1. a \in Live
      BY <1>7, <1>8, <2>0, <2>3 DEF Live
    <3> QED BY <1>7, <1>10, <2>0, <2>3, <3>1
  <2> QED BY <2>1, <2>2, <2>3
<1>15. MintInv'
  <2>1. committed' \subseteq Minted'
    BY <1>1, <1>8 DEF IInv, MintInv
  <2>2. \A s \in Minted' : minted'[s] \in Mints /\ minted'[s].life <= life
    BY <1>3, <1>7, <1>8 DEF IInv, MintInv, Minted
  <2>3. r \in Minted'
    BY <1>6, <1>7 DEF Minted
  <2> QED BY <1>1, <1>7, <2>1, <2>2, <2>3
       DEF IInv, MintInv, TypeOK, Minted, Early
<1>16. SavedInv'
  BY <1>1, <1>7, <1>8 DEF IInv, SavedInv, MintInv, Minted
<1> QED BY <1>9, <1>11, <1>12, <1>13, <1>14, <1>15, <1>16 DEF IInv

\* A new process: only committed ids stay live, and what it restores covers
\* them.  Without a saved row there are none.
LEMMA RestartStep ==
  ASSUME IInv, Restart
  PROVE  IInv'
<1> USE IdsAssumption
<1>1. /\ life' = life + 1 /\ life < MaxLives
      /\ UNCHANGED <<now, clears, saved, id, minted, dir, committed>>
      /\ clearing' = "no"
      /\ pc' = [q \in Req |-> IF pc[q] \in {"new", "done", "failed"} THEN pc[q]
                              ELSE "dropped"]
  BY DEF Restart
<1>2. /\ now \in 1 .. MaxTime /\ DayOf[now] \in Nat \ {0} /\ life \in Nat \ {0}
      /\ pc \in [Req -> Stages]
  BY DEF IInv, TypeOK
<1>3. Minted' = Minted /\ Live' = committed
  BY <1>1, <1>2 DEF Minted, Live, IInv, MintInv, Mints
<1>4. /\ IsTracker(tracker') /\ IsGen(gen') /\ Timely(now, tracker', gen')
      /\ \A r \in committed : Covers(gen', id[r], minted[r].day)
  <2>1. CASE saved = {} /\ tracker' = NewTracker(ScannedStart)
             /\ gen' = ScannedGen
    <3>1. committed = {}
      BY <2>1 DEF IInv, SavedInv
    <3>2. ScannedStart \in Nat \ {0} /\ IsGen(gen') /\ gen'.day = DayOf[now]
      BY <2>1, ScanType DEF IInv
    <3>3. IsTracker(tracker') /\ tracker'.last_time = 0
      BY <2>1, <3>2, NewTrackerType
    <3> QED BY <1>2, <3>1, <3>2, <3>3 DEF Timely
  <2>2. ASSUME NEW s \in saved, tracker' = s.tracker, gen' = Restored(s)
        PROVE  /\ IsTracker(tracker') /\ IsGen(gen')
               /\ Timely(now, tracker', gen')
               /\ \A r \in committed : Covers(gen', id[r], minted[r].day)
    <3> DEFINE d == RestoredDay(s.tracker)
    <3>1. /\ IsTracker(s.tracker) /\ IsGen(s.gen) /\ Timely(now, s.tracker, s.gen)
          /\ \A r \in committed : Covers(s.gen, id[r], minted[r].day)
      BY DEF IInv, TypeOK, SavedInv
    <3>2. s.tracker.last_time \in 0 .. MaxTime /\ s.gen.day \in Nat
      BY <3>1 DEF IsTracker, IsGen
    <3>3. /\ d \in Nat \ {0} /\ s.gen.day <= d /\ d <= DayOf[now]
          /\ s.tracker.last_time # 0 => d = DayOf[s.tracker.last_time]
      BY <1>2, <3>1, <3>2 DEF RestoredDay, Timely
    <3> HIDE DEF d
    <3>4. gen' = [s.gen EXCEPT !.day = d]
      BY <2>2 DEF Restored, d
    <3>5. /\ gen'.sequence = s.gen.sequence
          /\ gen'.conv_sequences = s.gen.conv_sequences
          /\ gen'.last_conv = s.gen.last_conv /\ gen'.day = d
          /\ gen' = [sequence |-> gen'.sequence,
                     conv_sequences |-> gen'.conv_sequences,
                     last_conv |-> gen'.last_conv, day |-> gen'.day]
      BY <3>1, <3>4 DEF IsGen
    <3>6. IsGen(gen')
      BY <3>1, <3>3, <3>5 DEF IsGen
    <3>7. Timely(now, tracker', gen')
      BY <1>2, <2>2, <3>1, <3>2, <3>3, <3>5 DEF Timely
    <3>8. ASSUME NEW r \in committed
          PROVE  Covers(gen', id[r], minted[r].day)
      <4>1. Covers(s.gen, id[r], minted[r].day)
        BY <3>1
      <4>2. minted[r].day \in Nat
        BY DEF IInv, MintInv, Mints
      <4>3. Count(gen', id[r][1]) = Count(s.gen, id[r][1])
        BY <3>5 DEF Count, Counter
      <4> QED BY <3>2, <3>3, <3>5, <4>1, <4>2, <4>3 DEF Covers
    <3> QED BY <2>2, <3>1, <3>6, <3>7, <3>8
  <2> QED BY <2>1, <2>2 DEF Restart
<1>5. TypeOK'
  BY <1>1, <1>2, <1>4 DEF IInv, TypeOK, Stages
<1>6. CoverInv' /\ TimeInv'
  BY <1>1, <1>3, <1>4 DEF CoverInv, TimeInv
<1>7. UniqueInv' /\ IdsUniqueInLife'
  BY <1>1, <1>3 DEF IInv, UniqueInv, IdsUniqueInLife, Live, MintInv
<1>8. MintInv'
  BY <1>1, <1>2, <1>3 DEF IInv, MintInv, Mints, Early
<1>9. SavedInv'
  BY <1>1 DEF IInv, SavedInv
<1> QED BY <1>5, <1>6, <1>7, <1>8, <1>9 DEF IInv

\* So does doing nothing.
LEMMA StutterStep ==
  ASSUME IInv, UNCHANGED vars
  PROVE  IInv'
<1>1. Live' = Live /\ Minted' = Minted
  BY DEF vars, Live, Minted
<1> QED BY <1>1 DEF vars, IInv, TypeOK, CoverInv, TimeInv, SavedInv, MintInv,
                    UniqueInv, IdsUniqueInLife

\* No step breaks the invariant.
LEMMA NextPreserves ==
  ASSUME IInv, [Next]_vars
  PROVE  IInv'
<1>1. ASSUME NEW r \in Req, RollDay(r) \/ NextIdRaises(r) PROVE IInv'
  BY <1>1, RollSteps
<1>2. ASSUME NEW r \in Req, ClassifyNew(r) \/ ClassifyContinue(r) PROVE IInv'
  BY <1>2, TrackerSteps
<1>3. ASSUME NEW r \in Req, NextId(r) PROVE IInv'
  BY <1>3, NextIdStep
<1>4. ASSUME NEW r \in Req, OpenLog(r) \/ FinishUnsaved(r) PROVE IInv'
  BY <1>4, QuietSteps
<1>5. ASSUME NEW r \in Req, Finish(r) PROVE IInv'
  BY <1>5, PersistSteps
<1>6. CASE ClearThreads \/ ClearPointer \/ ClearTime
  BY <1>6, TrackerSteps
<1>7. CASE ClearOnDisk
  BY <1>7, PersistSteps
<1>8. CASE Tick \/ ClearOnDiskUnsaved
  BY <1>8, QuietSteps
<1>9. CASE Restart
  BY <1>9, RestartStep
<1>10. CASE Finished \/ UNCHANGED vars
  BY <1>10, StutterStep DEF Finished
<1> QED BY <1>1, <1>2, <1>3, <1>4, <1>5, <1>6, <1>7, <1>8, <1>9, <1>10 DEF Next

\* So it always holds.
LEMMA Invariance == Spec => []IInv
BY InitEstablishes, NextPreserves, PTL DEF Spec

\* The tracker, the generator and every id, mint and log directory stay well
\* formed, clears and restores included: no id has a zero in it.
THEOREM IdsTypeCorrect == Spec => []TypeOK
BY Invariance, PTL DEF IInv

\* No process gives out an id twice on a day, however classification, clears,
\* idle timeouts and midnights of overlapping requests interleave with next_id.
THEOREM IdsUnique == Spec => []IdsUniqueInLife
BY Invariance, PTL DEF IInv

\* No two committed requests of a day share an id, over any number of restarts:
\* the snapshot restored is never behind an id that some commit covered.
THEOREM CommittedIdsUnique == Spec => []CommittedNeverReused
<1>1. IInv => CommittedNeverReused
  BY DEF IInv, UniqueInv, CommittedNeverReused, MintInv, Live
<1> QED BY <1>1, Invariance, PTL
=============================================================================
