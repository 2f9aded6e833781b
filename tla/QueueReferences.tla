--------------------------- MODULE QueueReferences ---------------------------
(***************************************************************************)
(* The reference map of one zone's queue (roon_core/queue_references.py).  *)
(* A map is [refs, invalidated]: refs gives each queued item its reference *)
(* (its inverse, _reverse, is derived from it), invalidated is the list of *)
(* references of removed items, oldest first, trimmed to MaxInvalidated.   *)
(* References are random and checked against the map; they are numbers     *)
(* here, drawn in order by the caller.                                     *)
(***************************************************************************)
EXTENDS Integers, SequencesExt

CONSTANT MaxInvalidated    \* _MAX_INVALIDATED

EmptyMap == [refs |-> <<>>, invalidated |-> <<>>]

Active(m) == DOMAIN m.refs

\* Items without a reference.
Unminted(m, items) == ToSet(items) \ Active(m)

\* A queued item keeps the reference it has.
MintAll(m, items, hex) ==
  [m EXCEPT !.refs =
     [q \in Active(m) \union Unminted(m, items) |->
        IF q \in Active(m) THEN m.refs[q]
        ELSE hex + (CHOOSE n \in DOMAIN items : items[n] = q)]]

Trimmed(s) ==
  IF Len(s) > MaxInvalidated
    THEN SubSeq(s, Len(s) - MaxInvalidated + 1, Len(s)) ELSE s

InvalidateAll(m, items) ==
  LET gone == FlattenSeq([n \in DOMAIN items |->
                IF items[n] \in Active(m) THEN << m.refs[items[n]] >> ELSE <<>>])
  IN [refs |-> [q \in Active(m) \ ToSet(items) |-> m.refs[q]],
      invalidated |-> Trimmed(m.invalidated \o gone)]

ReconcileMintingOnly(m, items, hex) == MintAll(m, items, hex)

\* A full list: what disappeared is invalidated, what is new is minted.
Reconcile(m, items, hex) ==
  LET gone == SetToSeq(Active(m) \ ToSet(items))
  IN MintAll(InvalidateAll(m, gone), items, hex)

\* What a reference resolves to: the items that hold it.
Resolved(m, r) == {q \in Active(m) : m.refs[q] = r}
=============================================================================
