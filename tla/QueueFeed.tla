------------------------------ MODULE QueueFeed ------------------------------
(***************************************************************************)
(* The live queue of one Roon zone: subscription, full lists and           *)
(* differential changes, the agent's cached list and its reference map     *)
(* (roon_core/events.py, queue_references.py), the references the model is *)
(* shown (tools/roon_status.py), the snapshot they are saved in and their  *)
(* restoration after a restart, the clear, and reconnects.                 *)
(*                                                                         *)
(* The Roon Core is outside src/: it keeps the queue, numbers every item   *)
(* it ever queues afresh, and sends, over one ordered connection, what the *)
(* agent subscribed to.  Items are moved by removing and queueing again.   *)
(***************************************************************************)
EXTENDS QueueReferences, FiniteSets

CONSTANTS MaxQueued,    \* bound on the items ever queued
          MaxChannel,   \* bound on the events in flight
          MaxReferences,\* bound on the references when a zone keeps its queue
          MaxShown,     \* bound on the references in the model's memory
          MaxSockets,   \* bound on the connections, over all lives
          MaxRestarts   \* bound on the crashes

ASSUME QueueFeedAssumption ==
  /\ {MaxInvalidated, MaxQueued, MaxChannel, MaxShown} \subseteq Nat \ {0}
  /\ MaxSockets \in Nat \ {0} /\ {MaxRestarts, MaxReferences} \subseteq Nat

NoList == << 0 >>     \* no list is cached: 0 is not an item
NoMap == [refs |-> <<>>, invalidated |-> <<0>>]
Nobody == [zone |-> FALSE, socket |-> 0]

VARIABLES
  queue,      \* the zone's queue, in the Core
  made,       \* items the Core has queued so far
  present,    \* the zone exists
  streaming,  \* the Core sends queue events over this connection
  requested,  \* a subscription is on its way to the Core
  channel,    \* events on their way to the agent
  connection, \* number of the connection
  stage,      \* "down", "connecting", "live"
  subscribed, \* _queue_subscribed_zones and _queue_socket_id
  cache,      \* _queue_items_cache and the last queue event
  map,        \* _queue_ref_maps
  read,       \* items a status call has read and not yet rendered
  shown,      \* <<item, reference, known>> in the model's memory: known if it
              \* was in the map, and the map was not dropped since
  snapshot,   \* [map, shown]: what the last commit saved
  restarts,
  intact      \* no clear, and no event before the restore, since the last full list

core == <<queue, made, present, streaming>>
line == <<requested, channel, connection>>
agent == <<stage, subscribed, cache, map, read, shown, snapshot, restarts,
           intact>>
feed == <<core, line, agent>>

\* References are drawn from where nobody holds one.
Held(m) == {m.refs[q] : q \in Active(m)} \union ToSet(m.invalidated)

Fresh == Max({0} \union Held(map) \union Held(snapshot.map)
               \union {s[2] : s \in shown \union snapshot.shown})

-----------------------------------------------------------------------------
(* The Core. *)

Emits(e) == IF streaming THEN Append(channel, e) ELSE channel

MayEmit == Len(channel) < MaxChannel

\* Something is played at once: the queue is replaced, and sent in full.
Replaced ==
  /\ present /\ made < MaxQueued /\ MayEmit
  /\ made' = made + 1
  /\ queue' = <<made + 1>>
  /\ channel' = Emits([kind |-> "full", items |-> queue'])
  /\ UNCHANGED <<present, streaming, requested, connection, agent>>

Inserted ==
  /\ present /\ made < MaxQueued /\ MayEmit
  /\ made' = made + 1
  /\ \E at \in 0..Len(queue) :
       /\ queue' = SubSeq(queue, 1, at) \o <<made + 1>>
                     \o SubSeq(queue, at + 1, Len(queue))
       /\ channel' = Emits([kind |-> "insert", at |-> at, items |-> <<made + 1>>])
  /\ UNCHANGED <<present, streaming, requested, connection, agent>>

Without(s, at, n) == SubSeq(s, 1, at) \o SubSeq(s, at + n + 1, Len(s))

Removed ==
  /\ present /\ MayEmit
  /\ \E at \in 0..Len(queue) - 1, n \in 1..Len(queue) :
       /\ at + n <= Len(queue)
       /\ queue' = Without(queue, at, n)
       /\ channel' = Emits([kind |-> "remove", at |-> at, n |-> n])
  /\ UNCHANGED <<made, present, streaming, requested, connection, agent>>

\* The zone vanishes (grouped, switched off) and returns, with its queue or
\* without.
ZoneGoes ==
  /\ present /\ stage = "live" /\ MayEmit
  /\ present' = FALSE /\ streaming' = FALSE /\ requested' = FALSE
  /\ queue' \in {<<>>} \union {q \in {queue} : Fresh < MaxReferences}
  /\ channel' = Append(channel, [kind |-> "zones_removed"])
  /\ UNCHANGED <<made, connection, agent>>

ZoneReturns ==
  /\ ~present /\ stage = "live" /\ MayEmit
  /\ present' = TRUE
  /\ channel' = Append(channel, [kind |-> "zones_added"])
  /\ UNCHANGED <<queue, made, streaming, requested, connection, agent>>

\* The Core takes the subscription up with the full list.
Answers ==
  /\ requested /\ present /\ MayEmit
  /\ requested' = FALSE /\ streaming' = TRUE
  /\ channel' = Append(channel, [kind |-> "full", items |-> queue])
  /\ UNCHANGED <<queue, made, present, connection, agent>>

\* The library reconnects: what was in flight is lost, and the zones are
\* announced again.
FeedReconnects ==
  /\ stage = "live" /\ connection < MaxSockets
  /\ connection' = connection + 1
  /\ streaming' = FALSE /\ requested' = FALSE
  /\ channel' = IF present THEN << [kind |-> "zones_added"] >>
                ELSE << [kind |-> "zones_removed"] >>
  /\ UNCHANGED <<queue, made, present, agent>>

-----------------------------------------------------------------------------
(* Events, on the connection's receive thread. *)

List == IF cache = NoList THEN <<>> ELSE cache

OrEmpty(m) == IF m = NoMap THEN EmptyMap ELSE m

\* What was shown when the map is dropped: nothing leads back to its items.
Voided(S) == {<<s[1], 0, FALSE>> : s \in S}

OnFullList(e) ==
  /\ map' = Reconcile(OrEmpty(map), e.items, Fresh)
  /\ cache' = e.items
  /\ intact' = (stage = "live")
  /\ UNCHANGED <<subscribed, requested, shown>>

\* Removed items lose their references before, inserted ones get theirs
\* after the cached list is changed.
OnInsert(e) ==
  /\ map' = MintAll(OrEmpty(map), e.items, Fresh)
  /\ cache' = SubSeq(List, 1, e.at) \o e.items \o SubSeq(List, e.at + 1, Len(List))
  /\ UNCHANGED <<subscribed, requested, intact, shown>>

OnRemove(e) ==
  /\ map' = InvalidateAll(OrEmpty(map), SubSeq(List, e.at + 1, e.at + e.n))
  /\ cache' = Without(List, e.at, e.n)
  /\ UNCHANGED <<subscribed, requested, intact, shown>>

\* A zone is subscribed to once per connection.
EnsureOncePerLife ==
  IF subscribed.zone THEN UNCHANGED <<subscribed, requested>>
  ELSE /\ subscribed' = [zone |-> TRUE, socket |-> connection]
       /\ requested' = TRUE

EnsureQueueSubscription ==
  IF subscribed = [zone |-> TRUE, socket |-> connection]
    THEN UNCHANGED <<subscribed, requested>>
  ELSE /\ subscribed' = [zone |-> TRUE, socket |-> connection]
       /\ requested' = TRUE

OnZonesAdded ==
  /\ EnsureQueueSubscription
  /\ UNCHANGED <<map, cache, intact, shown>>

OnZonesRemoved ==
  /\ subscribed' = [subscribed EXCEPT !.zone = FALSE]
  /\ cache' = NoList /\ map' = NoMap
  /\ shown' = Voided(shown)
  /\ UNCHANGED <<requested, intact>>

Deliver ==
  /\ stage # "down" /\ channel # <<>>
  /\ channel' = Tail(channel)
  /\ LET e == Head(channel)
     IN CASE e.kind = "full" -> OnFullList(e)
          [] e.kind = "insert" -> OnInsert(e)
          [] e.kind = "remove" -> OnRemove(e)
          [] e.kind = "zones_added" -> OnZonesAdded
          [] e.kind = "zones_removed" -> OnZonesRemoved
  /\ UNCHANGED <<core, connection, stage, read, snapshot, restarts>>

-----------------------------------------------------------------------------
(* The agent's other threads. *)

\* The connection is made and subscribes at once ...
Start ==
  /\ stage = "down"
  /\ stage' = "connecting"
  /\ connection' = connection + 1
  /\ subscribed' = [zone |-> present, socket |-> connection']
  /\ requested' = present
  /\ UNCHANGED <<core, channel, cache, map, read, shown, snapshot,
                 restarts, intact>>

RestoreNothing ==
  /\ stage = "connecting"
  /\ stage' = "live"
  /\ UNCHANGED <<core, line, map, intact, subscribed, cache, read, shown,
                 snapshot, restarts>>

\* ... and only then is the snapshot's map put in place of the live one.
Restore ==
  /\ stage = "connecting"
  /\ stage' = "live"
  /\ map' = IF snapshot.map = NoMap THEN map ELSE snapshot.map
  /\ intact' = (cache = NoList)
  /\ UNCHANGED <<core, line, subscribed, cache, read, shown, snapshot,
                 restarts>>

\* get_queue_status reads the list, then looks the references up.
ReadQueue ==
  /\ stage = "live" /\ read = <<>> /\ List # <<>>
  /\ Cardinality(shown) < MaxShown
  /\ read' = List
  /\ UNCHANGED <<core, line, stage, subscribed, cache, map, shown,
                 snapshot, restarts, intact>>

\* An item the map has no reference for is shown a random one, which is put
\* nowhere and leads to no item: 0.
ShowQueue ==
  /\ read # <<>>
  /\ shown' = shown \union
       {IF read[n] \in Active(map) THEN <<read[n], map.refs[read[n]], TRUE>>
        ELSE <<read[n], 0, FALSE>> : n \in DOMAIN read}
  /\ read' = <<>>
  /\ UNCHANGED <<core, line, stage, subscribed, cache, map, snapshot, restarts,
                 intact>>

\* A request ends: memory and references are saved together.
Commit ==
  /\ stage = "live" /\ read = <<>>
  /\ snapshot' = [map |-> map, shown |-> shown]
  /\ UNCHANGED <<core, line, stage, subscribed, cache, map, read, shown,
                 restarts, intact>>

\* The conversation is cleared, its references with it, while the list stays
\* cached.  A request of another connection keeps what it was shown.
Clear ==
  /\ stage = "live"
  /\ map' = NoMap
  /\ shown' \in {{}, Voided(shown)}
  /\ snapshot' = [map |-> NoMap, shown |-> {}]
  /\ intact' = FALSE
  /\ UNCHANGED <<core, line, stage, subscribed, cache, read, restarts>>

\* The process dies and is started again: it remembers the snapshot.
Crash ==
  /\ stage = "live" /\ restarts < MaxRestarts /\ connection < MaxSockets
  /\ restarts' = restarts + 1
  /\ stage' = "down"
  /\ channel' = <<>> /\ streaming' = FALSE /\ requested' = FALSE
  /\ subscribed' = Nobody /\ cache' = NoList /\ map' = NoMap
  /\ read' = <<>> /\ shown' = snapshot.shown
  /\ intact' = TRUE
  /\ UNCHANGED <<queue, made, present, connection, snapshot>>

-----------------------------------------------------------------------------

FeedInit ==
  /\ queue = <<>> /\ made = 0 /\ present = TRUE /\ streaming = FALSE
  /\ requested = FALSE /\ channel = <<>> /\ connection = 0
  /\ stage = "down" /\ subscribed = Nobody
  /\ cache = NoList /\ map = NoMap
  /\ read = <<>> /\ shown = {} /\ snapshot = [map |-> NoMap, shown |-> {}]
  /\ restarts = 0 /\ intact = TRUE

FeedNext ==
  \/ Replaced \/ Inserted \/ Removed \/ ZoneGoes \/ ZoneReturns
  \/ Answers \/ FeedReconnects
  \/ Deliver
  \/ Start \/ Restore \/ ReadQueue \/ ShowQueue \/ Commit \/ Clear \/ Crash

\* The connection delivers, the Core answers, the agent starts and restores.
FeedFairness ==
  /\ WF_feed(Answers) /\ WF_feed(Deliver) /\ WF_feed(Start) /\ WF_feed(Restore)

FeedSpec == FeedInit /\ [][FeedNext]_feed /\ FeedFairness

-----------------------------------------------------------------------------
(* Correctness. *)

\* Between a full list and the next clear, the items with a reference are
\* exactly those of the cached list: inserts, removals, replacements and
\* the restored map leave no item without and no reference behind.
RefsFollowQueue ==
  intact /\ stage = "live" /\ cache # NoList => Active(map) = ToSet(cache)

Honoured(s) == s[1] \in ToSet(List) => Resolved(map, s[2]) = {s[1]}

\* The item a reference of the map was shown for is the one it resolves to for
\* as long as it is listed, over removals around it, reconnects and a restart,
\* also when the queue comes before the snapshot's map is put in place.  It
\* ends where the map is dropped: with a clear, and with the zone.  What is
\* shown of an item the map does not hold is a random reference that nothing
\* resolves: so after a clear, which drops the map and keeps the list, until
\* Roon sends a full list anew.
ShownRefsResolve ==
  stage = "live" => \A s \in shown : s[3] => Honoured(s)

\* When the zone is left alone, the cached list comes to agree with the
\* Core's and stays so: no reconnect, restart or return of the zone ends
\* the feed.
FeedCatchesUp ==
  <>[][~ZoneGoes]_feed => <>[](present => cache = queue)
=============================================================================
