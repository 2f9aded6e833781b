---------------------------- MODULE LibraryAction ----------------------------
(***************************************************************************)
(* One library action of the Roon action tool                              *)
(* (tools/roon_action.py, the library path of run_async): the request's    *)
(* items are probed one by one, routed by their shape into a plan of       *)
(* entries and into errors, dispatched entry by entry with a poll of the   *)
(* cancel flag in between, and reported on.                                *)
(*                                                                         *)
(* An item is reduced to what probing it finds (its kind), and to what the *)
(* model said of it, a title and a reference (Recovery); an album          *)
(* stands for every container and has AlbumTracks tracks.  A unit <<i, k>> *)
(* is track k of item i, or the whole item for k = 0.  The zone, and what  *)
(* Roon does with a dispatched entry, are outside src/: an entry is        *)
(* performed and answered, performed with its answer lost, or not          *)
(* performed.                                                              *)
(***************************************************************************)
EXTENDS Recovery

CONSTANTS Slips,        \* references that were never handed out
          MaxHeld,      \* bound on what the result store holds
          MaxItems,     \* bound on the items of a request
          AlbumTracks,  \* tracks of an album
          Counts        \* the values of the request's count that are tried

ASSUME LibraryAssumption ==
  /\ Slips \subseteq Seq(Nat) /\ Slips \cap Refs = {}
  /\ Refs # {} /\ Titles # {}
  /\ MaxHeld \in Nat
  /\ MaxItems \in Nat \ {0}
  /\ AlbumTracks \in Nat \ {0}
  /\ Counts \subseteq Int

Verbs == {"Play Now", "Shuffle", "Add Next", "Queue", "Start Radio"}

\* What probing comes to (an album with or without tracks, a lone track, an
\* artist, Roon's "Not Found" page) ...
Shapes == {"track", "album", "empty", "persona", "not_found"}

\* ... what _reconcile_probe makes of a shape that is not the intended one, an
\* album again or an error ...
Reconciled == {"corrected", "irreconcilable"}

\* ... and what is not a shape: turned away or failed, nothing, of the queue.
Kinds == Shapes \union Reconciled \union {"rejected", "unresolved", "queue_ref"}

\* No count was given.
Unlimited == [limit |-> FALSE, n |-> 0]

\* Actions that keep what the zone's queue holds.
Appending == {"Queue", "Add Next"}

VARIABLES
  phase,      \* where run_async stands
  title,      \* the title of each reference that was handed out
  held,       \* the references in the result store, handle by handle
  known,      \* those the connection resolves
  request,    \* [verb, items, said, count]: the validated parameters
  probed,     \* how many items have been probed
  plan,       \* execution_plan: a sequence of [verb, unit]
  errors,     \* the structured errors: a set of [item, why]
  wasStopped, \* was_stopped: the zone's state when it was read
  next,       \* the plan entry the loop is at
  ref,        \* the reference it is resolved by
  acting,     \* its action is about to be sent
  successful, \* entries counted as played
  report,     \* the top line of the outcome
  cancelled,  \* cancel_event or the shutdown event is set
  zone,       \* the zone's state, in Roon
  performed,  \* the entries Roon performed, in order
  lost        \* an answer to a performed entry was lost

stores == <<title, held, known>>
call == <<stores, phase, request, probed, plan, errors, wasStopped, next, ref,
          acting, successful, report>>
world == <<cancelled, zone, performed, lost>>
action == <<call, world>>

-----------------------------------------------------------------------------
(* Routing: pure functions of the request. *)

Indices == DOMAIN request.items

Of(kinds) == {i \in Indices : request.items[i] \in kinds}

EffectiveAsAsked == request.verb

\* Several items are never played at once: they are queued.
Effective ==
  IF request.verb = "Play Now" /\ Len(request.items) > 1
    THEN "Queue" ELSE request.verb

\* A persona is only shuffled on its own.
RejectsCall ==
  Effective = "Shuffle" /\ Of({"persona"}) # {} /\ Len(request.items) > 1

\* What an item contributes to a shuffle: its tracks, or itself where it
\* was not resolved.
Expanded(i) ==
  IF request.items[i] \in {"album", "corrected"}
    THEN [k \in 1..AlbumTracks |-> <<i, k>>]
  ELSE IF request.items[i] = "empty" THEN <<>>
  ELSE << <<i, 0>> >>

PreDispatch == Of({"rejected", "irreconcilable"})

Routable == Indices \ (PreDispatch \union Of({"persona", "not_found"}))

Pool == FlattenSeq([i \in Indices |-> IF i \in Routable THEN Expanded(i)
                                                        ELSE <<>>])

\* A Python slice: a negative count drops from the end.
Truncated(s) ==
  LET c == request.count
  IN IF ~c.limit THEN s
     ELSE IF c.n >= 0 THEN SubSeq(s, 1, IF c.n < Len(s) THEN c.n ELSE Len(s))
     ELSE SubSeq(s, 1, Len(s) + c.n)

\* The entries of a pool in the order the shuffle gave it.
PlayThenQueue(s) ==
  [n \in DOMAIN s |->
     [verb |-> IF n = 1 THEN "Play Now" ELSE "Queue", unit |-> s[n]]]

PersonaEntry(i) ==
  [verb |-> IF Effective = "Play Now" THEN "Shuffle" ELSE Effective,
   unit |-> <<i, 0>>]

\* The entries item i is dispatched by when it is dispatched as it stands.
EntriesOf(i) ==
  IF request.items[i] = "persona"
    THEN IF Effective \in Appending THEN <<>> ELSE <<PersonaEntry(i)>>
  ELSE IF i \in Routable /\ Effective # "Shuffle"
    THEN << [verb |-> Effective, unit |-> <<i, 0>>] >>
  ELSE <<>>

PlanOneByOne == FlattenSeq([i \in Indices |-> EntriesOf(i)])

\* The plans the routing may come to, one for each order of the pool; a
\* shuffle with an item turned away has none.
ShuffledPlans == {PlayThenQueue(Truncated(s)) : s \in SetToSeqs(ToSet(Pool))}

Plans ==
  IF Effective = "Shuffle" /\ PreDispatch # {} THEN { <<>> }
  ELSE IF Effective # "Shuffle" \/ Pool = <<>> THEN {PlanOneByOne}
  ELSE ShuffledPlans

Named(S, why) == {[item |-> i, why |-> why] : i \in S}

\* The errors the routing leaves: those of a rejected call name the
\* personas only.
RoutingErrors ==
  IF RejectsCall THEN Named(Of({"persona"}), "multi_persona")
  ELSE Named(PreDispatch, "other")
       \union Named(Of({"not_found"}), "not_found")
       \union (IF Effective \in Appending
                 THEN Named(Of({"persona"}), "persona") ELSE {})

\* Entries and rejections together: what "successful" is measured against.
TotalOfPlan == Len(plan)

Total == Len(plan) + Cardinality(RoutingErrors)

-----------------------------------------------------------------------------
(* The call. *)

AnyTitle == CHOOSE t \in Titles : TRUE

\* What may be said of the items of a request: where nothing is held it does
\* not matter.
Sayings(n) ==
  IF held = <<>>
    THEN {[i \in 1..n |-> [title |-> AnyTitle, ref |-> CHOOSE r \in Refs : TRUE]]}
    ELSE [1..n -> [title : Titles, ref : Refs \union Slips]]

\* Either nothing is left of what was found, and all of it resolves, or one
\* item is asked for, to be played, out of what is (bound).
ActionInit ==
  /\ phase = "idle"
  /\ title \in [Refs -> Titles]
  /\ \/ held = <<>> /\ known = Refs /\ \A r \in Refs : title[r] = AnyTitle
     \/ held \in BoundedSeq(Refs, MaxHeld) \ { <<>> } /\ known \in SUBSET Refs
  /\ request = [verb |-> "Queue", items |-> <<>>, said |-> <<>>,
                count |-> Unlimited]
  /\ probed = 0 /\ plan = <<>> /\ errors = {}
  /\ wasStopped = FALSE
  /\ next = 1 /\ ref = <<>> /\ acting = FALSE /\ successful = 0
  /\ report = "none"
  /\ cancelled = FALSE
  /\ zone \in {"stopped", "playing"}
  /\ performed = <<>>
  /\ lost = FALSE

\* What the items are, for what was said of them: probing a reference that
\* the connection does not know finds nothing, and leaves it to the dispatch.
Judged(items, said) ==
  /\ held # <<>> => items \in {<<k>> : k \in {"track", "rejected", "unresolved"}}
  /\ \A i \in DOMAIN items :
       IF TurnedAway(held, title, said[i].title, said[i].ref)
         THEN items[i] = "rejected"
       ELSE said[i].ref \notin known => items[i] = "unresolved"

\* The model calls the tool; validation admits one item only to Add Next
\* and Start Radio.
Submit ==
  /\ phase = "idle"
  /\ \E verb \in Verbs, items \in BoundedSeq(Kinds, MaxItems) :
       /\ items # <<>>
       /\ verb \in {"Add Next", "Start Radio"} => Len(items) = 1
       /\ \E c \in {Unlimited} \union {[limit |-> TRUE, n |-> n] : n \in Counts},
             said \in Sayings(Len(items)) :
            /\ c # Unlimited => verb = "Shuffle"
            /\ held # <<>> => verb = "Play Now"
            /\ Judged(items, said)
            /\ request' = [verb |-> verb, items |-> items, said |-> said,
                           count |-> c]
  /\ phase' = "probing"
  /\ UNCHANGED <<stores, probed, plan, errors, wasStopped, next, ref, acting,
                 successful, report, world>>

\* One item is checked against the result store and walked to its shape.
Probe ==
  /\ phase = "probing" /\ probed < Len(request.items)
  /\ probed' = probed + 1
  /\ UNCHANGED <<stores, phase, request, plan, errors, wasStopped, next, ref,
                 acting, successful, report, world>>

\* A Roon call made while probing or routing raises out of the tool.
Raises ==
  /\ phase = "probing"
  /\ phase' = "raised"
  /\ UNCHANGED <<stores, request, probed, plan, errors, wasStopped, next, ref,
                 acting, successful, report, world>>

\* Whole-call reject, then the matrix; an empty slice of a pool that is not
\* empty has no first entry, which raises.
Route ==
  /\ phase = "probing" /\ probed = Len(request.items)
  /\ errors' = RoutingErrors
  /\ \E p \in IF RejectsCall THEN { <<>> } ELSE Plans :
       /\ plan' = p
       /\ phase' = IF ~RejectsCall /\ Effective = "Shuffle" /\ p = <<>>
                        /\ PreDispatch = {} /\ Pool # <<>>
                     THEN "raised" ELSE "snapshot"
  /\ UNCHANGED <<stores, request, probed, wasStopped, next, ref, acting,
                 successful, report, world>>

\* The zone's state is read before a Queue; a failed read counts as playing.
Snapshot ==
  /\ phase = "snapshot"
  /\ wasStopped' \in (IF Effective = "Queue" THEN {zone = "stopped", FALSE}
                                             ELSE {FALSE})
  /\ phase' = "dispatch"
  /\ UNCHANGED <<stores, request, probed, plan, errors, next, ref, acting,
                 successful, report, world>>

Item(n) == plan[n].unit[1]

\* What becomes of the reference that the model gave with an item.
Sought(said) ==
  IF said.ref \in known THEN Found(said.ref)
  ELSE LET found == Recover(held, title, said.title, said.ref)
       IN IF found.why = "found" /\ found.ref \notin known
            THEN NotFound("unknown_ref") ELSE found

\* The loop polls, turns a queue reference away, or resolves the entry to
\* its action: by the reference as it is or as it was recovered, unless Roon
\* offers no such action there.
ResolveEntry ==
  /\ phase = "dispatch" /\ ~acting /\ next <= Len(plan)
  /\ ~cancelled
  /\ LET i == Item(next)
         sought == IF request.items[i] = "queue_ref" THEN NotFound("queue_ref")
                   ELSE Sought(request.said[i])
     IN \/ /\ sought.why = "found"
           /\ acting' = TRUE
           /\ ref' = sought.ref
           /\ UNCHANGED <<errors, next>>
        \/ /\ errors' = errors \union
                 Named({i}, IF sought.why = "found" THEN "other" ELSE sought.why)
           /\ next' = next + 1
           /\ UNCHANGED <<acting, ref>>
  /\ UNCHANGED <<stores, phase, request, probed, plan, wasStopped, successful,
                 report, world>>

\* Roon performs the entry: it plays, replacing or adding to the queue.
Performs ==
  /\ performed' = Append(performed, [verb |-> plan[next].verb,
                                     unit |-> plan[next].unit, ref |-> ref])
  /\ zone' = IF plan[next].verb \in Appending THEN zone ELSE "playing"

\* The action is sent and answered.
Acted ==
  /\ phase = "dispatch" /\ acting
  /\ Performs
  /\ acting' = FALSE /\ next' = next + 1
  /\ successful' = successful + 1
  /\ UNCHANGED <<stores, phase, request, probed, plan, errors, wasStopped, ref,
                 report, cancelled, lost>>

\* The call, or the loading of its result, fails: an error for the item,
\* whether or not Roon performed it.
ActFailed ==
  /\ phase = "dispatch" /\ acting
  /\ \/ Performs /\ lost' = TRUE
     \/ UNCHANGED <<performed, zone, lost>>
  /\ errors' = errors \union Named({Item(next)}, "other")
  /\ acting' = FALSE /\ next' = next + 1
  /\ UNCHANGED <<stores, phase, request, probed, plan, wasStopped, ref,
                 successful, report, cancelled>>

\* The loop is through, or broke off at the poll; the top line is chosen.
Report ==
  /\ phase = "dispatch" /\ ~acting
  /\ next > Len(plan) \/ cancelled
  /\ report' = IF successful = Total THEN "SUCCESSFUL"
               ELSE IF successful > 0 THEN "PARTIAL SUCCESS" ELSE "FAILED"
  /\ phase' = "reported"
  /\ UNCHANGED <<stores, request, probed, plan, errors, wasStopped, next, ref,
                 acting, successful, world>>

\* Playback is started on a zone that was idle; a refusal is ignored.
AutoStart ==
  /\ phase = "reported"
  /\ phase' = "done"
  /\ IF Effective = "Queue" /\ successful > 0 /\ wasStopped
       THEN zone' \in {"playing", zone} ELSE UNCHANGED zone
  /\ UNCHANGED <<stores, request, probed, plan, errors, wasStopped, next, ref,
                 acting, successful, report, cancelled, performed, lost>>

-----------------------------------------------------------------------------
(* The rest of the world. *)

Cancel ==
  /\ ~cancelled
  /\ phase \in {"probing", "snapshot", "dispatch"}
  /\ cancelled' = TRUE
  /\ UNCHANGED <<call, zone, performed, lost>>

\* Somebody else uses the zone's controls.
ZoneChanges ==
  /\ phase \in {"probing", "snapshot", "dispatch"}
  /\ zone' \in {"stopped", "playing", "paused"} \ {zone}
  /\ UNCHANGED <<call, cancelled, performed, lost>>

ActionNext ==
  \/ Submit \/ Probe \/ Raises \/ Route \/ Snapshot
  \/ ResolveEntry \/ Acted \/ ActFailed \/ Report \/ AutoStart
  \/ Cancel \/ ZoneChanges

ActionSpec == ActionInit /\ [][ActionNext]_action
-----------------------------------------------------------------------------
(* Correctness. *)

Delivered(i) == \E n \in DOMAIN performed : performed[n].unit[1] = i

Over == phase \in {"reported", "done"}

\* The coordinator reads the top line and acts on it: SUCCESSFUL means that
\* nothing is amiss and every item reached the zone, FAILED or a raised
\* error that nothing did (unless Roon's answer was lost on the way), so
\* that asking again cannot play anything twice.
ReportIsHonest ==
  /\ Over /\ report = "SUCCESSFUL" =>
       /\ errors = {}
       /\ request.count = Unlimited =>
            \A i \in Indices :
              Delivered(i) \/ (request.verb = "Shuffle" /\ request.items[i] = "empty")
  /\ Over /\ report = "FAILED" /\ ~lost => performed = <<>>
  /\ phase = "raised" => performed = <<>>

\* A request to add to the queue, and a request to play several items,
\* never replaces what is in the queue, whatever the items turn out to be.
QueueingKeepsTheQueue ==
  request.verb \in Appending
    \/ (request.verb = "Play Now" /\ Len(request.items) > 1) =>
    \A n \in DOMAIN performed : performed[n].verb \in Appending

\* Roon never plays an item whose title, as far as the result store knows, is
\* not the one that was said; and where the reference had a slip, none that
\* another item of that title is as near to.
NeverPlaysOther ==
  \A n \in DOMAIN performed :
    LET said == request.said[performed[n].unit[1]]
        played == performed[n].ref
    IN /\ played \in ToSet(held) => TitlesMatch(said.title, title[played])
       /\ played # said.ref =>
            \A r \in ToSet(held) \ {played} :
              title[r] = title[played] =>
                Distance(played, said.ref) < Distance(r, said.ref)

=============================================================================
