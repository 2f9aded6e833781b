----------------------------- MODULE ResultStore -----------------------------
(***************************************************************************)
(* The handle-indexed result store and the search history beside it, as     *)
(* operators on one record.  Every method of ResultStoreManager runs under  *)
(* its lock, so each is a function from store to store.  What a result set  *)
(* holds is abstracted to the browse session it was listed in.              *)
(***************************************************************************)
EXTENDS Naturals, FiniteSets, Sequences, SequencesExt

CONSTANTS HistoryMax,  \* SEARCH_HISTORY_MAX_ENTRIES
          StoreMax     \* RESULT_STORE_MAX_ENTRIES

ASSUME StoreAssumption == HistoryMax \in Nat /\ StoreMax \in Nat

EmptyStore == [entries |-> <<>>, history |-> <<>>, counter |-> 0]

Handles(rs) == DOMAIN rs.entries
HistoryHandles(rs) == {e.handle : e \in ToSet(rs.history)}

With(entries, h, payload) ==
  [g \in DOMAIN entries \cup {h} |-> IF g = h THEN payload ELSE entries[g]]

Without(entries, hs) == Restrict(entries, DOMAIN entries \ hs)

\* Mutant: the cap evicts the oldest handle whoever names it.
EnforceCapOldest(rs) ==
  LET dropped == {h \in Handles(rs) :
                   /\ Cardinality(Handles(rs)) > StoreMax
                   /\ Cardinality({g \in Handles(rs) : g < h})
                        < Cardinality(Handles(rs)) - StoreMax}
  IN [rs EXCEPT !.entries = Without(@, dropped)]

\* _enforce_cap: the oldest handles the history does not name go first.
EnforceCap(rs) ==
  LET droppable == Handles(rs) \ HistoryHandles(rs)
      dropped == {h \in droppable :
                   /\ Cardinality(Handles(rs)) > StoreMax
                   /\ Cardinality({g \in droppable : g < h})
                        < Cardinality(Handles(rs)) - StoreMax}
  IN [rs EXCEPT !.entries = Without(@, dropped)]

\* store_handle: a handle the history does not name.
StoreHandle(rs, payload) ==
  EnforceCap([rs EXCEPT !.counter = @ + 1,
                        !.entries = With(@, rs.counter + 1, payload)])

\* How many entries the history has past its cap; a cap of zero evicts none.
Overflow(history) ==
  IF HistoryMax > 0 /\ Len(history) > HistoryMax
  THEN Len(history) - HistoryMax ELSE 0

\* The oldest leave the history, and their handles the store.
EvictHistory(rs) ==
  LET n == Overflow(rs.history) IN
  [rs EXCEPT !.history = SubSeq(@, n + 1, Len(@)),
             !.entries = Without(@, {rs.history[i].handle : i \in 1 .. n})]

\* Mutant: a drill-down updates the latest entry.
LatestEntry(rs, session) == Len(rs.history)

\* The history entry a drill-down updates: the first of its session.
EntryOf(rs, session) ==
  SelectInSeq(rs.history, LAMBDA e : e.session = session)

Register(rs, session) ==
  EvictHistory([StoreHandle(rs, session) EXCEPT
    !.history = Append(@, [handle |-> rs.counter + 1, session |-> session])])

\* store_entries, for the one entry a tool declares.
StoreEntries(rs, session, drill) ==
  IF drill /\ EntryOf(rs, session) > 0
  THEN EvictHistory([rs EXCEPT !.entries =
         With(@, rs.history[EntryOf(rs, session)].handle, session)])
  ELSE Register(rs, session)

\* The handle store_entries returns.
HandleFor(rs, session, drill) ==
  IF drill /\ EntryOf(rs, session) > 0
  THEN rs.history[EntryOf(rs, session)].handle ELSE rs.counter + 1
=============================================================================
