--------------------------- MODULE BrowseSessions ---------------------------
(***************************************************************************)
(* Stable references over the Roon Core's browse sessions.                  *)
(*                                                                          *)
(* A browse session is a cursor the Core keeps under a multi_session_key,   *)
(* in the results of one search.  The program keeps, per session, the depth *)
(* it believes the cursor has and the list it loaded last, and, per         *)
(* reference, where the item was: a session, a key and the positions that   *)
(* lead to it.  Drills run on threads and reserve their session; actions    *)
(* run alone and reserve nothing; the category correction has a session of  *)
(* its own, "recovery".                                                     *)
(***************************************************************************)
EXTENDS Naturals, FiniteSets, Sequences, SequencesExt

CONSTANTS Thread,
          Search,       \* search strings
          None,
          Width,        \* items in a list
          Depth,        \* levels below a search
          MaxSessions,  \* slots of the pool
          MaxSearches,  \* bound: sessions handed out
          MaxRefs,      \* bound: references minted
          Allowed       \* what may happen besides the ordinary, see below

(* "same"     two drills of one reference overlap                           *)
(* "timeout"  a browse call is not answered, whether the Core did it or not *)
(* "correct"  an action corrects the category of its item                   *)
(* "overlap"  an action overlaps the drills of another request              *)
(* "recycle"  the pool comes round to a slot an operation still uses        *)
(* "crash"    the process ends, and the next one restores the last commit   *)
Happenings == {"same", "timeout", "correct", "overlap", "recycle", "crash"}

ASSUME SessionsAssumption ==
  /\ None \notin Search
  /\ {Width, Depth, MaxSessions, MaxSearches, MaxRefs} \subseteq Nat \ {0}
  /\ Allowed \subseteq Happenings

Recovery == MaxSessions  \* recovery_session_key, beside the slots 0, 1, ...
Session == 0 .. MaxSessions

\* A place in the results of a search: the positions drilled into, none of them
\* at the root.  An item is a place below the root, and so is the list it opens.
Place == [search : Search, path : BoundedSeq(1 .. Width, Depth)]
Root(q) == [search |-> q, path |-> <<>>]
Child(p, i) == [p EXCEPT !.path = Append(@, i)]
Parent(p) == [p EXCEPT !.path = Front(@)]
IsLeaf(p) == Len(p.path) = Depth

\* A category correction opens the first item of the second category.
ASSUME PlaceAssumption ==
  /\ None \notin Place
  /\ "correct" \in Allowed => Width >= 2 /\ Depth >= 2

VARIABLES
  core,     \* the Core's cursor in each session
  depth,    \* _session_depth
  listed,   \* _session_current_list
  inUse,    \* _in_use
  counter,  \* _session_counter
  refs,     \* the references, in the order they were minted
  op,       \* what each thread does
  saved,    \* the committed snapshot, and where the Core's cursors were
  restarted, \* bound: one restart
  suspect,  \* sessions with an unanswered call, corrected on twice, or moved
            \* after the commit that was restored
  astray    \* operations that opened another item: was the session suspect?

disk == <<saved, restarted>>
vars == <<core, depth, listed, inUse, counter, refs, op, disk,
          suspect, astray>>

Ref == [item : Place,                      \* identity and recipe
        key : Place \cup {None},           \* cached_item_key
        sess : Session,                    \* roon_session_key
        path : BoundedSeq(1 .. Width, Depth),  \* item_key_path
        means : SUBSET Place]              \* what it may stand for

Idle == [stage |-> "idle", ref |-> 0, act |-> FALSE, granted |-> 0]
Stages == {"idle", "reset", "walk", "relocate", "recover", "resolved", "drilled"}
Op == [stage : Stages, ref : 0 .. MaxRefs, act : BOOLEAN, granted : Session]

TypeOK ==
  /\ core \in [Session -> Place \cup {None}]
  /\ depth \in [Session -> 0 .. 2 * Depth]
  /\ listed \in [Session -> Place \cup {None}]
  /\ inUse \subseteq Session
  /\ counter \in 0 .. MaxSearches
  /\ Len(refs) <= MaxRefs
  /\ \A r \in DOMAIN refs : refs[r] \in Ref
  /\ astray \subseteq BOOLEAN
  /\ suspect \subseteq Session
  /\ restarted \in BOOLEAN
  /\ op \in [Thread -> Op]

Init ==
  /\ core = [s \in Session |-> None]
  /\ depth = [s \in Session |-> 0]
  /\ listed = [s \in Session |-> None]
  /\ inUse = {}
  /\ counter = 0
  /\ refs = <<>>
  /\ op = [t \in Thread |-> Idle]
  /\ saved = None /\ restarted = FALSE
  /\ suspect = {}
  /\ astray = {}

-----------------------------------------------------------------------------
(* The Core.                                                                *)

\* Where n levels up from p is.  The Core "does not handle over-popping
\* gracefully": then it may be anywhere on the way.
Up(p, n) ==
  IF n <= Len(p.path)
  THEN {[p EXCEPT !.path = SubSeq(@, 1, Len(@) - n)]}
  ELSE {[p EXCEPT !.path = SubSeq(@, 1, k)] : k \in 0 .. Len(p.path)}

\* The Core opens an item from the list that holds it.
Opens(s, item) == item # None /\ item.path # <<>> /\ core[s] = Parent(item)

\* Following positions from p, if the lists are that deep.
Walked(p, positions) == [p EXCEPT !.path = @ \o positions]
CanWalk(p, positions) == Len(p.path) + Len(positions) <= Depth

-----------------------------------------------------------------------------
(* BrowseSessionManager.                                                    *)

UsedBy(t) == IF op[t].stage = "idle" THEN {} ELSE {op[t].granted, refs[op[t].ref].sess}
Used == UNION {UsedBy(t) : t \in Thread}

\* new_search_session: the next slot ...
Slot == counter % MaxSessions
CanLease == counter < MaxSearches /\ ("recycle" \in Allowed \/ Slot \notin Used)

\* Mutant: the bindings to the slot stay.
RecycledNever(s) == refs

\* ... and what the references to it lose.  A reference keeps its recipe.
Recycled(s) ==
  [r \in DOMAIN refs |-> IF refs[r].sess = s THEN [refs[r] EXCEPT !.key = None]
                         ELSE refs[r]]

\* mint_ref, or find_existing_ref: an item of a list gets one reference.
Mint(rs, s, item, path) ==
  IF Len(rs) = MaxRefs \/ \E r \in DOMAIN rs : rs[r].sess = s /\ rs[r].key = item
  THEN rs
  ELSE Append(rs, [item |-> item, key |-> item, sess |-> s, path |-> path,
                   means |-> {item}])

Release(t) ==
  /\ op' = [op EXCEPT ![t] = Idle]
  /\ inUse' = IF op[t].act THEN inUse ELSE inUse \ {op[t].granted}

-----------------------------------------------------------------------------
(* roon_search.                                                             *)

\* _new_search: a session of its own; the model goes on with one of the items.
NewSearch(t, q, i) ==
  /\ op[t] = Idle /\ CanLease
  /\ counter' = counter + 1
  /\ core' = [core EXCEPT ![Slot] = Root(q)]
  /\ depth' = [depth EXCEPT ![Slot] = 0]
  /\ listed' = [listed EXCEPT ![Slot] = Root(q)]
  /\ refs' = Mint(Recycled(Slot), Slot, Child(Root(q), i), <<>>)
  /\ suspect' = suspect \ {Slot}
  /\ UNCHANGED <<disk, inUse, op, astray>>

Begins(t, r, act, stage, granted) ==
  op' = [op EXCEPT ![t] = [stage |-> stage, ref |-> r, act |-> act,
                           granted |-> granted]]

\* Bound: one kind of fault in a behaviour.
Undisturbed == suspect = {} /\ saved = None /\ ~restarted
Corrected == \E r \in DOMAIN refs : refs[r].sess = Recovery

\* resolve_reference's tiers: reposition while the cached key is live.
Tier(r) == IF refs[r].key # None THEN "reset" ELSE "recover"

\* Mutant: acquire hands out a session that is in use.
BeginDrillShared(t, r) ==
  /\ op[t] = Idle
  /\ \A u \in Thread : ~op[u].act /\ op[u].ref # r
  /\ Begins(t, r, FALSE, Tier(r), refs[r].sess)
  /\ inUse' = inUse \cup {refs[r].sess}
  /\ UNCHANGED <<disk, core, depth, listed, counter, refs, suspect, astray>>

\* _drill_down_reference up to acquire: the reference's session, or a fresh one.
BeginDrill(t, r) ==
  /\ op[t] = Idle
  /\ \A u \in Thread :
       /\ op[u].act => "overlap" \in Allowed
       /\ op[u].ref = r => "same" \in Allowed
  /\ IF refs[r].sess \notin inUse
     THEN /\ Begins(t, r, FALSE, Tier(r), refs[r].sess)
          /\ inUse' = inUse \cup {refs[r].sess}
          /\ UNCHANGED <<depth, listed, counter, refs>>
     ELSE /\ CanLease
          /\ Begins(t, r, FALSE, "relocate", Slot)
          /\ inUse' = inUse \cup {Slot}
          /\ counter' = counter + 1
          /\ refs' = Recycled(Slot)
          /\ depth' = [depth EXCEPT ![Slot] = 0]
          /\ listed' = [listed EXCEPT ![Slot] = None]
  /\ UNCHANGED <<disk, core, suspect, astray>>

-----------------------------------------------------------------------------
(* resolve_reference.                                                       *)

At(t, stage) == op[t].stage = stage
Goes(t, stage) == op' = [op EXCEPT ![t].stage = stage]

\* _nav_reset_to_root, which never looks at the answer.
Reset(t) ==
  /\ At(t, "reset")
  /\ LET s == refs[op[t].ref].sess IN
     /\ \E p \in Up(core[s], depth[s]) : core' = [core EXCEPT ![s] = p]
     /\ depth' = [depth EXCEPT ![s] = 0]
  /\ Goes(t, "walk")
  /\ UNCHANGED <<disk, listed, inUse, counter, refs, suspect, astray>>

\* The pop never got to the Core.
ResetLost(t) ==
  /\ "timeout" \in Allowed /\ Undisturbed
  /\ At(t, "reset")
  /\ LET s == refs[op[t].ref].sess IN
     /\ depth[s] > 0
     /\ depth' = [depth EXCEPT ![s] = 0]
     /\ suspect' = suspect \cup {s}
  /\ Goes(t, "walk")
  /\ UNCHANGED <<disk, core, listed, inUse, counter, refs, astray>>

\* The rest of _position_session: the parents by position, then the fresh key
\* of the item at its own position.
Walk(t) ==
  /\ At(t, "walk")
  /\ LET r == op[t].ref
         s == refs[r].sess
         path == refs[r].path
         parents == IF path = <<>> THEN <<>> ELSE Front(path)
         there == Walked(core[s], parents)
     IN IF CanWalk(core[s], parents)
        THEN /\ core' = [core EXCEPT ![s] = there]
             /\ depth' = [depth EXCEPT ![s] = @ + Len(parents)]
             /\ refs' = IF path # <<>> /\ ~IsLeaf(there)
                        THEN [refs EXCEPT ![r].key = Child(there, Last(path))]
                        ELSE refs
             /\ Goes(t, "resolved")
        ELSE /\ Goes(t, "recover")
             /\ UNCHANGED <<core, depth, refs>>
  /\ UNCHANGED <<disk, listed, inUse, counter, suspect, astray>>

\* _semantic_recover on session s: search again, drill into the ancestors, and
\* bind the reference where it is now.
Bind(t, s, rs) ==
  LET item == rs[op[t].ref].item IN
  /\ core' = [core EXCEPT ![s] = Parent(item)]
  /\ depth' = [depth EXCEPT ![s] = Len(item.path) - 1]
  /\ refs' = [rs EXCEPT ![op[t].ref].key = item, ![op[t].ref].sess = s,
                        ![op[t].ref].path = item.path]
  /\ suspect' = suspect \ {s}
  /\ Goes(t, "resolved")

\* The split: on the session leased by acquire.
Relocate(t) ==
  /\ At(t, "relocate")
  /\ Bind(t, op[t].granted, refs)
  /\ UNCHANGED <<disk, listed, inUse, counter, astray>>

\* The fallback: on one more session, which nothing reserves.
Recover(t) ==
  /\ At(t, "recover") /\ CanLease
  /\ Bind(t, Slot, Recycled(Slot))
  /\ counter' = counter + 1
  /\ listed' = [listed EXCEPT ![Slot] = None]
  /\ UNCHANGED <<disk, inUse, astray>>

\* No session to recover on, or the item is not found: "has expired".
Expires(t) ==
  /\ At(t, "recover") /\ counter = MaxSearches
  /\ Release(t)
  /\ UNCHANGED <<disk, core, depth, listed, counter, refs, suspect, astray>>

\* What an operation on a reference opened.
Opened(r, place) ==
  astray' = IF place \in refs[r].means THEN astray
            ELSE astray \cup {refs[r].sess \in suspect}

-----------------------------------------------------------------------------
(* The drill.                                                               *)

\* drill_down opens the item with the key and session the reference has now.
Drill(t) ==
  /\ At(t, "resolved") /\ ~op[t].act
  /\ LET s == refs[op[t].ref].sess
         k == refs[op[t].ref].key
     IN IF Opens(s, k)
        THEN /\ core' = [core EXCEPT ![s] = k]
             /\ depth' = [depth EXCEPT ![s] = @ + 1]
             /\ listed' = [listed EXCEPT ![s] = k]
             /\ Goes(t, "drilled")
             /\ UNCHANGED inUse
        ELSE Release(t) /\ UNCHANGED <<core, depth, listed>>
  /\ UNCHANGED <<disk, counter, refs, suspect, astray>>

\* The browse call is lost after the Core did it: the drill raises, uncounted.
DrillTimesOut(t) ==
  /\ "timeout" \in Allowed /\ Undisturbed
  /\ At(t, "resolved") /\ ~op[t].act
  /\ LET r == refs[op[t].ref] IN
     /\ Opens(r.sess, r.key)
     /\ core' = [core EXCEPT ![r.sess] = r.key]
     /\ suspect' = suspect \cup {r.sess}
  /\ Release(t)
  /\ UNCHANGED <<disk, depth, listed, counter, refs, astray>>

\* _finish: the output is the current list of the reference's session, its items
\* get references (one of them goes on), and the session is released.
Finish(t, i) ==
  /\ At(t, "drilled")
  /\ LET r == op[t].ref
         got == listed[refs[r].sess]
     IN IF got = None THEN UNCHANGED <<refs, astray>>
        ELSE /\ Opened(r, got)
             /\ refs' = IF IsLeaf(got) THEN refs
                        ELSE Mint(refs, refs[r].sess, Child(got, i),
                                  (IF refs[r].path = <<>>
                                   THEN <<Last(refs[r].key.path)>>
                                   ELSE refs[r].path) \o <<i>>)
  /\ Release(t)
  /\ UNCHANGED <<disk, core, depth, listed, counter, suspect>>

-----------------------------------------------------------------------------
(* A library action, in its own phase of a request.                         *)

BeginAct(t, r) ==
  /\ op[t] = Idle
  /\ \A u \in Thread : op[u] = Idle \/ "overlap" \in Allowed
  /\ Begins(t, r, TRUE, Tier(r), refs[r].sess)
  /\ UNCHANGED <<disk, core, depth, listed, inUse, counter, refs, suspect, astray>>

\* get_media_actions reaches the item's action list, the action runs and pops a
\* level, and the session goes back to its root.
Act(t) ==
  /\ At(t, "resolved") /\ op[t].act
  /\ LET r == op[t].ref
         s == refs[r].sess
         k == refs[r].key
     IN IF Opens(s, k)
        THEN /\ \E p \in Up(k, depth[s] + 1) : core' = [core EXCEPT ![s] = p]
             /\ depth' = [depth EXCEPT ![s] = 0]
             /\ Opened(r, k)
        ELSE UNCHANGED <<core, depth, astray>>
  /\ Release(t)
  /\ UNCHANGED <<disk, listed, counter, refs, suspect>>

\* "actions not found": the action raises and leaves the session where it is.
ActFails(t) ==
  /\ At(t, "resolved") /\ op[t].act
  /\ LET r == refs[op[t].ref] IN
     /\ Opens(r.sess, r.key)
     /\ core' = [core EXCEPT ![r.sess] = r.key]
     /\ depth' = [depth EXCEPT ![r.sess] = @ + 1]
  /\ Release(t)
  /\ UNCHANGED <<disk, listed, counter, refs, suspect, astray>>

\* CategoryReconciler on a track that is meant as an album: search again on the
\* recovery session, open the second category and its first item, bind the
\* reference there and act.  The tracked depth of the recovery session goes on
\* from where it was; the session left behind is reset (_reconcile_probe) or not
\* (get_media_actions).
Album(item) == [item EXCEPT !.path = <<2, 1>>]

ActCorrected(t) ==
  /\ "correct" \in Allowed /\ Undisturbed
  /\ At(t, "resolved") /\ op[t].act
  /\ LET r == op[t].ref
         s == refs[r].sess
         k == refs[r].key
         album == Album(refs[r].item)
         tracked == IF s = Recovery THEN depth[s] + 1 ELSE depth[Recovery]
     IN /\ Opens(s, k) /\ k # album
        /\ \E left \in {k} \cup Up(k, depth[s] + 1), p \in Up(album, tracked + 2) :
             /\ core' = [core EXCEPT ![s] = left, ![Recovery] = p]
             /\ depth' = [depth EXCEPT ![s] = IF left = k THEN @ + 1 ELSE 0,
                                       ![Recovery] = 0]
        /\ refs' = [refs EXCEPT ![r].key = album, ![r].sess = Recovery,
                                ![r].path = album.path,
                                ![r].means = @ \cup {album}]
        /\ suspect' = IF \E o \in DOMAIN refs : refs[o].sess = Recovery
                       THEN suspect \cup {Recovery} ELSE suspect
  /\ Release(t)
  /\ UNCHANGED <<disk, listed, counter, astray>>

-----------------------------------------------------------------------------
(* Persistence.                                                             *)

\* capture_state, for the commit that ends a request.
Commit ==
  /\ "crash" \in Allowed
  /\ Undisturbed /\ ~Corrected /\ refs # <<>>
  /\ \A t \in Thread : op[t] = Idle
  /\ saved' = [depth |-> depth, listed |-> listed, counter |-> counter,
               refs |-> refs, core |-> core]
  /\ UNCHANGED <<core, depth, listed, inUse, counter, refs, op, restarted, suspect,
                 astray>>

\* restore_state in the next process: the same session keys, at the Core where
\* the last process left them.
Restart ==
  /\ saved # None
  /\ op' = [t \in Thread |-> Idle]
  /\ inUse' = {}
  /\ depth' = saved.depth
  /\ listed' = saved.listed
  /\ counter' = saved.counter
  /\ refs' = saved.refs
  /\ saved' = None /\ restarted' = TRUE
  /\ suspect' = suspect \cup {s \in Session : core[s] # saved.core[s]}
  /\ UNCHANGED <<core, astray>>

\* Nothing is under way but what the bounds hold up.
Finished ==
  /\ \A t \in Thread : op[t] = Idle \/ (At(t, "recover") /\ ~CanLease)
  /\ UNCHANGED vars

Next ==
  \/ \E t \in Thread :
       \/ \E q \in Search, i \in 1 .. Width : NewSearch(t, q, i)
       \/ \E r \in DOMAIN refs : BeginDrill(t, r) \/ BeginAct(t, r)
       \/ Reset(t) \/ ResetLost(t) \/ Walk(t) \/ Relocate(t) \/ Recover(t)
       \/ Expires(t) \/ Drill(t) \/ DrillTimesOut(t)
       \/ \E i \in 1 .. Width : Finish(t, i)
       \/ Act(t) \/ ActFails(t) \/ ActCorrected(t)
  \/ Commit \/ Restart \/ Finished

Spec == Init /\ [][Next]_vars

-----------------------------------------------------------------------------
(* Properties.                                                              *)

\* Damage is confined: an unanswered call misleads no operation but those on its
\* own session until that is searched again, and a category correction none but
\* those on the recovery session.
MisledOnlyOnSuspect == FALSE \notin astray

\* "so the two never share one Roon browse cursor" (acquire): two operations
\* under way never work on one session.
NeverShareCursor ==
  \A t, u \in Thread :
    /\ t # u
    /\ op[t].stage \in {"reset", "walk", "resolved", "drilled"}
    /\ op[u].stage \in {"reset", "walk", "resolved", "drilled"}
    => refs[op[t].ref].sess # refs[op[u].ref].sess

=============================================================================
