------------------------------- MODULE Recovery -------------------------------
(***************************************************************************)
(* What is made of the title and the reference that the model hands back   *)
(* with an item (result_store_recovery.py).  Both come out of its context, *)
(* so that either may be of another item, and the reference, hexadecimal   *)
(* digits, may have a slip.                                                *)
(*                                                                         *)
(* A title stands for all that _normalise_title makes the same.            *)
(***************************************************************************)
EXTENDS Integers, FiniteSets, SequencesExt

CONSTANTS Titles,    \* normalised
          Near,      \* pairs of them that are no more than a slip apart
          Gateways,  \* those that head a category listing ("Tracks | 87 Results")
          Refs       \* the references that were handed out: digits

ASSUME RecoveryAssumption ==
  /\ \A p \in Near : p \subseteq Titles /\ Cardinality(p) = 2
  /\ Gateways \subseteq Titles
  /\ Refs \subseteq Seq(Nat)

Smallest(S) == CHOOSE n \in S : \A m \in S : n <= m

\* The table of levenshtein: row i from the one above it ...
Row(a, b, i, above) ==
  LET row[j \in 0 .. Len(b)] ==
        IF j = 0 THEN i
        ELSE Smallest({above[j] + 1, row[j - 1] + 1,
                       above[j - 1] + IF a[i] = b[j] THEN 0 ELSE 1})
  IN row

\* ... over the prefixes of both.
Distance(a, b) ==
  LET rows[i \in 0 .. Len(a)] ==
        IF i = 0 THEN [j \in 0 .. Len(b) |-> j] ELSE Row(a, b, i, rows[i - 1])
  IN rows[Len(a)][Len(b)]

\* titles_match: fuzzy.
TitlesMatch(submitted, kept) == submitted = kept \/ {submitted, kept} \in Near

\* The store (held, in its order) has references, and their titles; of one that
\* left it nothing is known.
IsGateway(held, title, ref) == ref \in ToSet(held) /\ title[ref] \in Gateways
IsMismatch(held, title, said, ref) ==
  ref \in ToSet(held) /\ ~TitlesMatch(said, title[ref])

\* Mutant: only the category listings are turned away.
TurnedAwayGateways(held, title, said, ref) == IsGateway(held, title, ref)

\* _category_gateway_error and _title_mismatch_error, before any Roon call.
TurnedAway(held, title, said, ref) ==
  IsGateway(held, title, ref) \/ IsMismatch(held, title, said, ref)

\* _collect_candidates: where an exact match is, once for each handle it is under.
Candidates(held, title, said) == {n \in DOMAIN held : title[held[n]] = said}

Found(ref) == [why |-> "found", ref |-> ref]
NotFound(why) == [why |-> why]

\* Mutant: the first of several is as good.
RecoverFirst(held, title, said, ref) ==
  LET found == Candidates(held, title, said)
  IN IF found = {} THEN NotFound("no_title_match") ELSE Found(held[Smallest(found)])

\* recover_reference: the only item of that title, or the one whose reference
\* is nearest, if no other is as near.
Recover(held, title, said, ref) ==
  LET found == Candidates(held, title, said)
      far(n) == Distance(held[n], ref)
      nearest == {n \in found : \A m \in found : far(n) <= far(m)}
  IN IF found = {} THEN NotFound("no_title_match")
     ELSE IF Cardinality(nearest) > 1 THEN NotFound("ambiguous_title")
     ELSE Found(held[CHOOSE n \in nearest : TRUE])
=============================================================================
