------------------------------ MODULE Playback ------------------------------
(***************************************************************************)
(* What is played in the zones, what the agent remembers of it and how it  *)
(* stops it: the play history of each output (app/roon/play_history.py),   *)
(* the listening history of each zone (app/roon/listening_history.py) and  *)
(* the simulated stop (app/roon/stop_marker.py), over the zones of Zones.  *)
(*                                                                         *)
(* A play is a track started in a zone, numbered in the order of starts.   *)
(* The listeners of a state event run one after the other on the thread    *)
(* that receives it: zone names, then both histories.  Two requests may    *)
(* stop a zone at once, the web client's button and the agent's tool; they *)
(* share one browse session of Roon's without a lock around a dispatch.    *)
(*                                                                         *)
(* A track is its title, all that the two histories compare.  Seeking,     *)
(* volumes and settings go to Roon and change nothing here.                *)
(***************************************************************************)
EXTENDS Zones

CONSTANTS
    Titles,       \* tracks that users play
    Marker,       \* the silent track that stands for a stop
    HistoryMax,   \* max_per_zone
    Stoppers,     \* requests to stop a zone: tool or web client
    Disabled,     \* DISABLE_SIMULATED_STOP
    MaxSaves,     \* bound: saves of the play history under way at a time
    MaxFaults     \* bound: changes of Roon's library, failing calls and writes

ASSUME PlaybackAssumption ==
    /\ HistoryMax \in Nat \ {0}
    /\ MaxSaves \in Nat \ {0}
    /\ Disabled \in BOOLEAN
    /\ MaxFaults \in Nat
    /\ Marker \notin Titles
    /\ None \notin Nat \cup {Marker} \cup Titles

VARIABLES
    playing,      \* Roon: what each output plays, [title, play] or Silence
    plays,        \* plays started so far
    hist,         \* _history: output -> sequence of [title, play]
    seen,         \* PlayHistoryStore._last_seen: output -> title
    file,         \* the play-history file
    timer,        \* _save_timer is armed
    saving,       \* saves under way, the oldest first: what each copied, and
                  \* whether a newer one has been written meanwhile
    spoilt,       \* history: the last save failed, or an older one was written over it
    heard,        \* ListeningHistoryStore._last_seen: zone -> title
    rows,         \* the listening_history table: <<zone, title>> recorded
    due,          \* what the event's zones play: <<zone, title>> to be looked at
    writing,      \* the <<zone, title>> remembered and not yet written, if any
    lost,         \* history: zones whose last title could not be written
    clearing,     \* clears whose rows are deleted and whose titles are not
    hasMarker,    \* Roon: the marker is in the library
    key,          \* _track_item_key: the generation of the key, or None
    available,    \* _available
    gen,          \* Roon: generation of the stop session's items
    stop,         \* stopper -> its progress
    faults

playVars == <<playing, plays>>
histVars == <<hist, seen, file, timer, saving, spoilt>>
heardVars == <<heard, rows, due, writing, lost, clearing>>
markerVars == <<hasMarker, key, available, gen>>
stopVars == <<markerVars, stop, faults>>
vars == <<zoneVars, playVars, histVars, heardVars, stopVars>>

Silence == [title |-> None, play |-> 0]

\* A write or a call of Roon's fails, or does not.
Fault == faults < MaxFaults /\ faults' = faults + 1
Smooth == UNCHANGED faults

\* A zone is known to Roon by its base's id here.
ZoneId(z) == z[1]
PlayingIn(z) == playing[z[1]]

-----------------------------------------------------------------------------
(* The play history of an output. *)

ShouldPush(old, new) == new \notin {None, Marker} /\ new # old

\* A deque of bounded length drops its oldest entry.
Pushed(dq, entry) ==
    LET longer == Append(dq, entry)
    IN  IF Len(longer) > HistoryMax THEN Tail(longer) ELSE longer

\* PlayHistoryStore.handle_event, for the outputs of the zones that changed.
\* Each push arms the timer anew.
SchedulesOnce(pushes) == pushes /\ file = [o \in Outputs |-> <<>>]
Schedules(pushes) == pushes
PushPlays ==
    LET now(o) == playing[o]
        pushing == {o \in pending \cap Online : ShouldPush(seen[o], now(o).title)}
    IN  /\ seen' = [o \in Outputs |-> IF o \in pending \cap Online THEN now(o).title
                                      ELSE seen[o]]
        /\ hist' = [o \in Outputs |-> IF o \in pushing THEN Pushed(hist[o], now(o))
                                      ELSE hist[o]]
        /\ timer' = (timer \/ Schedules(pushing # {}))
        /\ spoilt' = (spoilt /\ ~Schedules(pushing # {}))
        /\ UNCHANGED <<file, saving>>

\* The debounce timer fires: save copies the history under the lock ...
BeginSave ==
    /\ timer
    /\ Len(saving) < MaxSaves
    /\ timer' = FALSE
    /\ saving' = Append(saving, [copy |-> hist, late |-> FALSE])
    /\ UNCHANGED <<zoneVars, playVars, heardVars, stopVars, hist, seen, file, spoilt>>

\* ... and writes it without, beside a save that began before or after it.
\* _safe_save swallows a failure and arms nothing.
WriteHistory(i) ==
    LET save == saving[i]
        last == i = Len(saving) /\ ~timer
        others(late) == [j \in 1 .. Len(saving) - 1 |->
                            IF j < i THEN [saving[j] EXCEPT !.late = @ \/ late] ELSE saving[j + 1]]
    IN  /\ \/ /\ Smooth
              /\ file' = save.copy
              /\ saving' = others(TRUE)
              /\ spoilt' = (spoilt \/ (last /\ save.late))
           \/ /\ Fault
              /\ saving' = others(FALSE)
              /\ spoilt' = (spoilt \/ (last /\ ~save.late))
              /\ UNCHANGED file
        /\ UNCHANGED <<zoneVars, playVars, heardVars, markerVars, stop, hist, seen, timer>>

-----------------------------------------------------------------------------
(* The listening history of a zone. *)

Heard(z) == PlayingIn(z).title

\* ListeningHistoryStore.handle_event: the zones of the event, each in turn ...
ReceivePlays ==
    due' = {<<ZoneId(z), Heard(z)>> :
               z \in {y \in zones : Range(y) \cap pending # {} /\ Heard(y) \notin {None, Marker}}}

\* ... whose title, if it is a new one, is remembered under the lock ...
Remember(e) ==
    /\ writing = {}
    /\ due' = due \ {e}
    /\ IF heard[e[1]] = e[2]
       THEN UNCHANGED <<heard, writing, lost>>
       ELSE /\ heard' = [heard EXCEPT ![e[1]] = e[2]]
            /\ writing' = {e}
            /\ lost' = lost \ {e[1]}
    /\ UNCHANGED <<zoneVars, playVars, histVars, stopVars, rows, clearing>>

\* ... and then written; a failure is swallowed, the title stays remembered.
Record ==
    /\ writing # {}
    /\ \/ Smooth /\ rows' = rows \cup writing /\ UNCHANGED lost
       \/ Fault /\ lost' = lost \cup {e[1] : e \in writing} /\ UNCHANGED rows
    /\ writing' = {}
    /\ UNCHANGED <<zoneVars, playVars, histVars, markerVars, stop, heard, due, clearing>>

\* clear, on a thread of its own: the rows are deleted ...
DeleteRows ==
    /\ Input("play")
    /\ rows' = {}
    /\ clearing' = clearing + 1
    /\ UNCHANGED <<roonVars, aliasVars, defaultVars, lives, playVars, histVars, stopVars,
                   heard, due, writing, lost>>

\* ... then the titles forgotten.
ForgetNone ==
    /\ clearing > 0
    /\ clearing' = clearing - 1
    /\ UNCHANGED <<zoneVars, playVars, histVars, stopVars, heard, lost, rows, due, writing>>
ForgetTitles ==
    /\ clearing > 0
    /\ clearing' = clearing - 1
    /\ heard' = [o \in Outputs |-> None]
    /\ lost' = {}
    /\ UNCHANGED <<zoneVars, playVars, histVars, stopVars, rows, due, writing>>

\* A state event reaches the listeners in the order they were registered.  Until
\* the last has returned, their thread sees no other change of Roon's.
Listening == due \cup writing # {}
HandleStateEvent ==
    /\ pending # {}
    /\ Reconcile
    /\ PushPlays
    /\ ReceivePlays
    /\ UNCHANGED <<playVars, stopVars, heard, rows, writing, lost, clearing>>

-----------------------------------------------------------------------------
(* Playing. *)

\* Something starts in a zone: asked here through the zone resolved from a
\* name, or from any of Roon's remotes.  A repeated track is a play of its own.
Starts(z, t) ==
    /\ plays' = plays + 1
    /\ playing' = [o \in Outputs |-> IF o \in Range(z) THEN [title |-> t, play |-> plays + 1]
                                     ELSE playing[o]]

Play(z, t) ==
    /\ Touch("play", zones, Range(z))
    /\ Starts(z, t)
    /\ UNCHANGED <<names, histVars, heardVars, stopVars>>

\* The queue of a zone runs out, at once after the marker.
Ends(z) ==
    /\ Touch("play", zones, Range(z))
    /\ PlayingIn(z) # Silence
    /\ playing' = [o \in Outputs |-> IF o \in Range(z) THEN Silence ELSE playing[o]]
    /\ UNCHANGED <<names, plays, histVars, heardVars, stopVars>>

\* A tick or a refresh of the zone's metadata: an event without a change.
Refresh(z) ==
    /\ Touch("play", zones, Range(z))
    /\ UNCHANGED <<names, playVars, histVars, heardVars, stopVars>>

\* Outputs that join a group play what its base plays, those that leave it or
\* go away play nothing.
Follow ==
    LET base(o) == CHOOSE z \in zones' : o \in Range(z)
        gone(o) == \A z \in zones' : o \notin Range(z)
    IN  /\ playing' = [o \in Outputs |->
               IF gone(o) \/ (o \in pending' /\ ~\E z \in zones : base(o)[1] = z[1])
               THEN Silence ELSE playing[base(o)[1]]]
        /\ UNCHANGED <<plays, histVars, heardVars, stopVars>>

RoonChanges ==
    \/ \E o \in Outputs : (ComeOnline(o) \/ GoOffline(o)) /\ Follow
    \/ \E y, z \in zones : Group(y, z) /\ Follow
    \/ \E z \in zones : Ungroup(z) /\ Follow
    \/ \E o \in Outputs, n \in Names : Rename(o, n) /\ Follow

\* The steps of Zones that leave playing alone.
Naming == NamingStep /\ UNCHANGED <<playVars, histVars, heardVars, stopVars>>

-----------------------------------------------------------------------------
(* The simulated stop: a silent track is played in the zone.  The key of the *)
(* track's item is found once and cached; the search for it starts with a    *)
(* pop_all, which makes every older key of the session worthless.            *)

Idle == [pc |-> "idle", zone |-> None, fresh |-> FALSE, retry |-> FALSE,
         missed |-> FALSE, tries |-> 0, again |-> 0]
Busy(s) == stop[s].pc \notin {"idle", "stopped", "paused", "refused", "failed"}

\* A call on the shared session disturbs what others have browsed to.
Uses(s, mine) ==
    stop' = [x \in Stoppers |-> IF x = s THEN mine ELSE [stop[x] EXCEPT !.fresh = FALSE]]
Goes(s, mine) == stop' = [stop EXCEPT ![s] = mine]

stopOnly == <<zoneVars, playVars, histVars, heardVars>>

\* An attempt at Play Now, counted as a first one or one after the search.
Tried(r) == IF r.retry THEN [r EXCEPT !.again = @ + 1] ELSE [r EXCEPT !.tries = @ + 1]

\* It failed: the first time the key is looked for anew, after that the caller
\* is told.
FailsAtOnce(s) == [Tried(stop[s]) EXCEPT !.pc = "failed"]
FailsTry(s) == [Tried(stop[s]) EXCEPT !.pc = IF stop[s].retry THEN "failed" ELSE "search"]

\* dispatch_stop
BeginStop(s, name) ==
    /\ Input("stop")
    /\ ~Busy(s)
    /\ Goes(s, [Idle EXCEPT !.zone = name,
                   !.pc = IF Disabled THEN "pause"
                          ELSE IF available /\ key # None THEN "drill" ELSE "search"])
    /\ UNCHANGED <<roonVars, aliasVars, defaultVars, lives, playVars, histVars, heardVars,
                   markerVars, faults>>

\* _try_dispatch, its first call: the marker's actions are listed.
Listed(s) == key = gen /\ hasMarker /\ Reached(stop[s].zone) # {}
DrillMarker(s) ==
    /\ stop[s].pc = "drill"
    /\ \/ /\ Listed(s)
          /\ Smooth
          /\ Uses(s, [stop[s] EXCEPT !.pc = "act", !.fresh = TRUE])
       \/ /\ IF Listed(s) THEN Fault ELSE Smooth
          /\ Uses(s, FailsTry(s))
    /\ UNCHANGED <<stopOnly, markerVars>>

\* Its second call: Play Now, which replaces the queue of the zone.  The
\* auto-radio is turned off at best effort.
PlayMarker(s) ==
    /\ stop[s].pc = "act"
    /\ \/ /\ hasMarker /\ pending = {} /\ ~Listening
          /\ \E z \in Reached(stop[s].zone) : Starts(z, Marker) /\ pending' = Range(z)
          /\ Smooth
          /\ Uses(s, [Tried(stop[s]) EXCEPT !.pc = "stopped"])
          /\ UNCHANGED histVars
       \/ /\ IF stop[s].fresh /\ hasMarker /\ Reached(stop[s].zone) # {} THEN Fault ELSE Smooth
          /\ Uses(s, FailsTry(s))
          /\ UNCHANGED <<pending, playVars, histVars>>
    /\ UNCHANGED <<names, zones, aliasVars, defaultVars, mix, inputs, lives, heardVars, markerVars>>

\* initialise, under _init_lock: the search begins ...
BeginSearch(s) ==
    /\ stop[s].pc = "search"
    /\ \A x \in Stoppers : stop[x].pc # "searching"
    /\ gen' = gen + 1
    /\ Uses(s, [stop[s] EXCEPT !.pc = "searching", !.fresh = TRUE])
    /\ UNCHANGED <<stopOnly, hasMarker, key, available, faults>>

\* ... and ends, with the key of the marker or without it.
EndSearch(s) ==
    /\ stop[s].pc = "searching"
    /\ \E found \in BOOLEAN :
        /\ found => hasMarker
        /\ IF ~found /\ hasMarker /\ stop[s].fresh THEN Fault ELSE Smooth
        /\ key' = IF found THEN gen ELSE None
        /\ available' = found
        /\ stop' = [x \in Stoppers |->
               LET mine == [stop[x] EXCEPT !.missed = @ \/ (~found /\ Busy(x))]
               IN  IF x = s THEN [mine EXCEPT !.pc = "recheck"] ELSE mine]
    /\ UNCHANGED <<stopOnly, hasMarker, gen>>

\* Back in dispatch_stop: what the cache says now, whoever wrote it.
Recheck(s) ==
    /\ stop[s].pc = "recheck"
    /\ Goes(s, [stop[s] EXCEPT !.retry = TRUE,
                   !.pc = IF available /\ key # None THEN "drill" ELSE "pause"])
    /\ UNCHANGED <<stopOnly, markerVars, faults>>

\* The fallback of the callers.
PauseZone(s) ==
    /\ stop[s].pc = "pause"
    /\ \/ Goes(s, [stop[s] EXCEPT !.pc = "paused"]) /\ Reached(stop[s].zone) # {} /\ Smooth
       \/ /\ IF Reached(stop[s].zone) # {} THEN Fault ELSE Smooth
          /\ Goes(s, [stop[s] EXCEPT !.pc = "refused"])
    /\ UNCHANGED <<stopOnly, markerVars>>

\* The user adds the marker to Roon's library, or it goes away.
LibraryChanges ==
    /\ "stop" \in mix
    /\ Fault
    /\ hasMarker' = ~hasMarker
    /\ UNCHANGED <<stopOnly, key, available, gen, stop>>

-----------------------------------------------------------------------------
(* A new life: the play history is loaded from its file, what was last seen  *)
(* and last heard is not kept, and the marker is looked for.                 *)

NewLife ==
    /\ Restart
    /\ hist' = file
    /\ seen' = [o \in Outputs |-> None]
    /\ timer' = FALSE /\ saving' = <<>> /\ spoilt' = FALSE
    /\ heard' = [o \in Outputs |-> None]
    /\ due' = {} /\ writing' = {} /\ lost' = {} /\ clearing' = 0
    /\ gen' = gen + 1
    /\ available' = (hasMarker /\ ~Disabled)
    /\ key' = IF available' THEN gen' ELSE None
    /\ stop' = [s \in Stoppers |-> Idle]
    /\ UNCHANGED <<playVars, file, rows, hasMarker, faults>>

Init ==
    /\ ZonesInit
    /\ playing = [o \in Outputs |-> Silence]
    /\ plays = 0
    /\ hist = [o \in Outputs |-> <<>>]
    /\ seen = [o \in Outputs |-> None]
    /\ file = [o \in Outputs |-> <<>>]
    /\ timer = FALSE /\ saving = <<>> /\ spoilt = FALSE
    /\ heard = [o \in Outputs |-> None]
    /\ rows = {}
    /\ due = {} /\ writing = {} /\ lost = {} /\ clearing = 0
    /\ hasMarker \in BOOLEAN
    /\ gen = 1
    /\ available = (hasMarker /\ ~Disabled)
    /\ key = IF available THEN gen ELSE None
    /\ stop = [s \in Stoppers |-> Idle]
    /\ faults = 0

StopStep(s) ==
    \/ DrillMarker(s) \/ PlayMarker(s)
    \/ BeginSearch(s) \/ EndSearch(s)
    \/ Recheck(s) \/ PauseZone(s)

\* Roon's changes reach the agent one at a time.
Changes ==
    \/ RoonChanges
    \/ \E z \in zones : Ends(z) \/ Refresh(z) \/ \E t \in Titles : Play(z, t)

SaveSteps == BeginSave \/ \E i \in DOMAIN saving : WriteHistory(i)
RecordSteps == Record \/ \E e \in due : Remember(e)
ClearListening == DeleteRows \/ ForgetTitles

Next ==
    \/ ~Listening /\ Changes
    \/ Naming \/ HandleStateEvent \/ SaveSteps \/ RecordSteps \/ ClearListening
    \/ \E s \in Stoppers :
           StopStep(s) \/ \E name \in {ZoneName(z) : z \in zones} \cup {None} : BeginStop(s, name)
    \/ LibraryChanges
    \/ NewLife

\* Events are delivered, a timer fires and its thread goes on.
Fairness ==
    /\ WF_vars(HandleStateEvent)
    /\ WF_vars(RecordSteps)
    /\ WF_vars(SaveSteps)

Spec == Init /\ [][Next]_vars
FairSpec == Spec /\ Fairness

-----------------------------------------------------------------------------
(* Properties. *)

\* The title a zone was last heard with, which keeps a repeat from being
\* recorded, is on record or about to be, so that the only record is never the
\* one suppressed.  Except between the two steps of a clear, whose second
\* forgets the titles heard meanwhile, and when the write failed: the title is
\* remembered before, so that nothing writes it again.
Remembered(o) == heard[o] # None /\ clearing = 0
OnRecord(o) == <<o, heard[o]>> \in rows \cup writing
HeardIsOnRecord == \A o \in Outputs : Remembered(o) => OnRecord(o) \/ o \in lost

\* The play history reaches its file: pushes are debounced, none is forgotten
\* unless the process ends first, the last save fails, which nothing tries
\* again, or one that began before it is written after it.
HistoryIsSaved == (hist # file) ~> (hist = file \/ spoilt)

\* A stop is answered in at most one attempt at Play Now before the search for
\* the marker and one after it.  It is answered with a pause, or with the
\* failure of a pause, only if a search came back without the marker meanwhile,
\* and with the error of an attempt only after one that followed the search;
\* with a cold cache that is the first.
\* (stop_marker.py: "On any failure: single re-init + single retry")
StopIsHonest ==
    \A s \in Stoppers :
        /\ stop[s].tries <= 1 /\ stop[s].again <= 1
        /\ stop[s].pc \in {"paused", "refused"} => stop[s].missed \/ Disabled
        /\ stop[s].pc = "failed" => stop[s].retry /\ stop[s].again = 1
=============================================================================
