--------------------------- MODULE PlaybackProofs ---------------------------
(***************************************************************************)
(* Proofs about Playback and the Zones it extends, for any outputs, names,  *)
(* aliases, stoppers and any bounds: an alias stays with its output, the    *)
(* default zone with the user's choice, the client's copy of it is repaired *)
(* or right, what was heard is on record and a stop is honest.              *)
(***************************************************************************)
EXTENDS Playback, SequenceTheorems, TLAPS

-----------------------------------------------------------------------------
(* A stop is honest. *)

\* How far a stop is, the cache being usable or not: the first attempt, the
\* search, the second attempt.
Sound(r, usable) ==
    /\ DOMAIN r = DOMAIN Idle
    /\ r.tries \in 0 .. 1 /\ r.again \in 0 .. 1
    /\ r.retry \in BOOLEAN /\ r.missed \in BOOLEAN
    /\ r.pc \in {"drill", "act"} => IF r.retry THEN r.again = 0 ELSE r.tries = 0
    /\ ~r.retry => r.again = 0
    /\ r.pc \in {"search", "searching", "recheck"} => ~r.retry
    /\ r.pc = "recheck" /\ ~usable => r.missed
    /\ r.pc \in {"pause", "paused", "refused"} => r.missed \/ Disabled
    /\ r.pc = "failed" => r.retry /\ r.again = 1

StopInv ==
    /\ gen \in Nat
    /\ available \in BOOLEAN
    /\ available => key # None
    /\ DOMAIN stop = Stoppers
    /\ \A s \in Stoppers : Sound(stop[s], available)

\* The steps of a stop's record, one by one.
LEMMA SoundSteps ==
    ASSUME NEW r, NEW usable \in BOOLEAN, Sound(r, usable)
    PROVE  /\ Sound([r EXCEPT !.fresh = FALSE], usable)
           /\ r.pc = "drill" => Sound([r EXCEPT !.pc = "act", !.fresh = TRUE], usable)
           /\ r.pc = "act" => Sound([Tried(r) EXCEPT !.pc = "stopped"], usable)
           /\ r.pc = "search" => Sound([r EXCEPT !.pc = "searching", !.fresh = TRUE], usable)
           /\ r.pc = "pause" => Sound([r EXCEPT !.pc = "paused"], usable)
           /\ r.pc = "pause" => Sound([r EXCEPT !.pc = "refused"], usable)
  BY DEF Sound, Idle, Tried

\* A failed attempt counts and is tried at most once more.
LEMMA SoundFailure ==
    ASSUME NEW r, NEW usable \in BOOLEAN, Sound(r, usable), r.pc \in {"drill", "act"}
    PROVE  Sound([Tried(r) EXCEPT !.pc = IF r.retry THEN "failed" ELSE "search"], usable)
  BY DEF Sound, Idle, Tried

\* A second try drills if the key is still there, and else only pauses.
LEMMA SoundRecheck ==
    ASSUME NEW r, NEW usable \in BOOLEAN, Sound(r, usable), r.pc = "recheck"
    PROVE  /\ usable => Sound([r EXCEPT !.retry = TRUE, !.pc = "drill"], usable)
           /\ ~usable => Sound([r EXCEPT !.retry = TRUE, !.pc = "pause"], usable)
  BY DEF Sound, Idle

\* A search that ends, in its own record and in another's.
LEMMA SoundSearch ==
    ASSUME NEW r, NEW usable \in BOOLEAN, Sound(r, usable), NEW found \in BOOLEAN,
           NEW busy \in BOOLEAN, r.pc \in {"searching", "recheck"} => busy
    PROVE  LET mine == [r EXCEPT !.missed = @ \/ (~found /\ busy)]
           IN  /\ Sound(mine, found)
               /\ r.pc = "searching" => Sound([mine EXCEPT !.pc = "recheck"], found)
  BY DEF Sound, Idle

\* A new request to stop a zone.
LEMMA SoundBegin ==
    ASSUME NEW name, NEW usable \in BOOLEAN, NEW pc,
           pc = IF Disabled THEN "pause" ELSE IF usable THEN "drill" ELSE "search"
    PROVE  /\ Sound(Idle, usable)
           /\ Sound([Idle EXCEPT !.zone = name, !.pc = pc], usable)
  BY DEF Sound, Idle

\* A step that calls Roon, or that does not, with a sound record leaves all sound.
LEMMA SoundUse ==
    ASSUME StopInv, NEW s \in Stoppers, NEW mine, Sound(mine, available),
           Uses(s, mine) \/ Goes(s, mine),
           gen' \in Nat, UNCHANGED <<key, available>>
    PROVE  StopInv'
  <1>1. DOMAIN stop' = Stoppers
    BY DEF StopInv, Uses, Goes
  <1>2. ASSUME NEW x \in Stoppers
        PROVE  Sound(stop'[x], available)
    <2>1. stop'[x] \in {mine, stop[x], [stop[x] EXCEPT !.fresh = FALSE]}
      BY DEF Uses, Goes, StopInv
    <2>2. Sound(stop[x], available) /\ available \in BOOLEAN
      BY DEF StopInv
    <2>. QED  BY <2>1, <2>2, SoundSteps
  <1>. QED  BY <1>1, <1>2 DEF StopInv

\* No stop is in progress at first.
LEMMA StopInit == Init => StopInv
  <1>. SUFFICES ASSUME Init PROVE StopInv
    OBVIOUS
  <1>1. gen \in Nat /\ available \in BOOLEAN /\ (available => key # None)
    BY PlaybackAssumption DEF Init
  <1>2. Sound(Idle, available)
    BY <1>1, SoundBegin
  <1>. QED  BY <1>1, <1>2 DEF Init, StopInv

\* One step of a stop.
LEMMA StopMoves ==
    ASSUME StopInv, NEW s \in Stoppers, StopStep(s)
    PROVE  StopInv'
  <1>0. Sound(stop[s], available) /\ available \in BOOLEAN /\ gen \in Nat
    BY DEF StopInv
  <1>1. CASE DrillMarker(s)
    <2>1. Sound(FailsTry(s), available)
      BY <1>0, <1>1, SoundFailure DEF DrillMarker, FailsTry
    <2>2. Sound([stop[s] EXCEPT !.pc = "act", !.fresh = TRUE], available)
      BY <1>0, <1>1, SoundSteps DEF DrillMarker
    <2>. QED  BY <1>0, <1>1, <2>1, <2>2, SoundUse DEF DrillMarker, markerVars
  <1>2. CASE PlayMarker(s)
    <2>1. Sound(FailsTry(s), available)
      BY <1>0, <1>2, SoundFailure DEF PlayMarker, FailsTry
    <2>2. Sound([Tried(stop[s]) EXCEPT !.pc = "stopped"], available)
      BY <1>0, <1>2, SoundSteps DEF PlayMarker
    <2>. QED  BY <1>0, <1>2, <2>1, <2>2, SoundUse DEF PlayMarker, markerVars
  <1>3. CASE BeginSearch(s)
    <2>1. Sound([stop[s] EXCEPT !.pc = "searching", !.fresh = TRUE], available)
      BY <1>0, <1>3, SoundSteps DEF BeginSearch
    <2>. QED  BY <1>0, <1>3, <2>1, SoundUse DEF BeginSearch
  <1>4. CASE EndSearch(s)
    <2>1. PICK found \in BOOLEAN :
              /\ key' = IF found THEN gen ELSE None
              /\ available' = found
              /\ stop' = [x \in Stoppers |->
                     LET mine == [stop[x] EXCEPT !.missed = @ \/ (~found /\ Busy(x))]
                     IN  IF x = s THEN [mine EXCEPT !.pc = "recheck"] ELSE mine]
      BY <1>4 DEF EndSearch
    <2>2. gen' = gen
      BY <1>4 DEF EndSearch
    <2>3. available' => key' # None
      BY <1>0, <2>1, PlaybackAssumption
    <2>4. ASSUME NEW x \in Stoppers
          PROVE  Sound(stop'[x], found)
      <3>. DEFINE mine == [stop[x] EXCEPT !.missed = @ \/ (~found /\ Busy(x))]
      <3>1. /\ Sound(stop[x], available)
            /\ Busy(x) \in BOOLEAN
            /\ stop[x].pc \in {"searching", "recheck"} => Busy(x)
        BY DEF StopInv, Busy
      <3>2. Sound(mine, found) /\ (stop[x].pc = "searching" => Sound([mine EXCEPT !.pc = "recheck"], found))
        BY <1>0, <3>1, SoundSearch
      <3>3. stop'[x] = IF x = s THEN [mine EXCEPT !.pc = "recheck"] ELSE mine
        BY <2>1
      <3>4. stop[s].pc = "searching"
        BY <1>4 DEF EndSearch
      <3>. HIDE DEF mine
      <3>. QED  BY <3>2, <3>3, <3>4
    <2>. QED  BY <1>0, <2>1, <2>2, <2>3, <2>4 DEF StopInv
  <1>5. CASE Recheck(s)
    <2>. DEFINE pc == IF available /\ key # None THEN "drill" ELSE "pause"
    <2>1. pc = IF available THEN "drill" ELSE "pause"
      BY DEF StopInv
    <2>2. Sound([stop[s] EXCEPT !.retry = TRUE, !.pc = pc], available)
      BY <1>0, <1>5, <2>1, SoundRecheck DEF Recheck
    <2>. QED  BY <1>0, <1>5, <2>2, SoundUse DEF Recheck, markerVars
  <1>6. CASE PauseZone(s)
    <2>1. /\ Sound([stop[s] EXCEPT !.pc = "paused"], available)
          /\ Sound([stop[s] EXCEPT !.pc = "refused"], available)
      BY <1>0, <1>6, SoundSteps DEF PauseZone
    <2>. QED  BY <1>0, <1>6, <2>1, SoundUse DEF PauseZone, markerVars
  <1>. QED  BY <1>1, <1>2, <1>3, <1>4, <1>5, <1>6 DEF StopStep

\* No step breaks what the stops keep.
LEMMA StopNext == ASSUME StopInv, [Next]_vars PROVE StopInv'
  <1>0. available \in BOOLEAN /\ gen \in Nat
    BY DEF StopInv
  <1>1. CASE UNCHANGED stopVars
    BY <1>1 DEF StopInv, stopVars, markerVars
  <1>2. ASSUME NEW s \in Stoppers, StopStep(s) PROVE StopInv'
    BY <1>2, StopMoves
  <1>3. ASSUME NEW s \in Stoppers, NEW name, BeginStop(s, name) PROVE StopInv'
    <2>. DEFINE pc == IF Disabled THEN "pause"
                      ELSE IF available /\ key # None THEN "drill" ELSE "search"
    <2>1. pc = IF Disabled THEN "pause" ELSE IF available THEN "drill" ELSE "search"
      BY DEF StopInv
    <2>2. Sound([Idle EXCEPT !.zone = name, !.pc = pc], available)
      BY <1>0, <2>1, SoundBegin
    <2>. QED  BY <1>0, <1>3, <2>2, SoundUse DEF BeginStop, markerVars
  <1>4. CASE LibraryChanges
    BY <1>4 DEF LibraryChanges, StopInv
  <1>5. CASE NewLife
    <2>1. /\ gen' \in Nat
          /\ available' \in BOOLEAN
          /\ available' => key' # None
          /\ stop' = [s \in Stoppers |-> Idle]
      BY <1>0, <1>5, PlaybackAssumption DEF NewLife
    <2>2. Sound(Idle, available')
      BY <2>1, SoundBegin
    <2>. QED  BY <2>1, <2>2 DEF StopInv
  <1>6. CASE UNCHANGED <<markerVars, stop>>
    BY <1>6 DEF StopInv, markerVars
  <1>7. /\ Naming \/ Changes \/ HandleStateEvent \/ ClearListening => UNCHANGED <<markerVars, stop>>
        /\ SaveSteps \/ RecordSteps => UNCHANGED <<markerVars, stop>>
    BY DEF Naming, Changes, RoonChanges, Follow, Ends, Refresh, Play, HandleStateEvent,
           ClearListening, DeleteRows, ForgetTitles, SaveSteps, BeginSave, WriteHistory,
           RecordSteps, Record, Remember, stopVars
  <1>. QED
    BY <1>1, <1>2, <1>3, <1>4, <1>5, <1>6, <1>7 DEF Next, vars

\* A stop is answered in at most one attempt before the search and one after it,
\* with a pause or its failure only after a search without the marker, and with
\* an attempt's error only after the one that follows the search
\* (stop_marker.py, dispatch_stop).
THEOREM StopsAreHonest == Spec => []StopIsHonest
  <1>1. StopInv => StopIsHonest
    BY DEF StopInv, Sound, StopIsHonest
  <1>. QED  BY <1>1, StopInit, StopNext, PTL DEF Spec

-----------------------------------------------------------------------------
(* What was heard is on record. *)

\* What the zones' event leaves to be looked at are zones with a title.
HeardInv ==
    /\ HeardIsOnRecord
    /\ clearing \in Nat
    /\ DOMAIN heard = Outputs
    /\ \A e \in due : e = <<e[1], e[2]>>

\* Nothing but the listeners, a clear and a new life touches what was heard.
LEMMA OnlyListeners ==
    ASSUME [Next]_vars
    PROVE  \/ HandleStateEvent \/ RecordSteps \/ ClearListening \/ NewLife
           \/ UNCHANGED heardVars
  <1>1. CASE UNCHANGED vars
    BY <1>1 DEF vars
  <1>2. Naming \/ Changes \/ SaveSteps \/ LibraryChanges => UNCHANGED heardVars
    BY DEF Naming, Changes, RoonChanges, Follow, Ends, Refresh, Play, SaveSteps, BeginSave,
           WriteHistory, LibraryChanges, stopOnly
  <1>3. ASSUME NEW s \in Stoppers, NEW name, StopStep(s) \/ BeginStop(s, name)
        PROVE  UNCHANGED heardVars
    BY <1>3 DEF StopStep, BeginStop, DrillMarker, PlayMarker, BeginSearch, EndSearch, Recheck,
               PauseZone, stopOnly
  <1>. QED  BY <1>1, <1>2, <1>3 DEF Next

\* A title is on record, or about to be, from the moment it is remembered.
LEMMA RecordKeeps ==
    ASSUME HeardInv, RecordSteps
    PROVE  HeardInv'
  <1>1. CASE Record
    <2>1. /\ UNCHANGED <<heard, due, clearing>>
          /\ writing' = {}
      BY <1>1 DEF Record
    <2>2. ASSUME NEW o \in Outputs, Remembered(o)'
          PROVE  OnRecord(o)' \/ o \in lost'
      <3>1. OnRecord(o) \/ o \in lost
        BY <2>1, <2>2 DEF HeardInv, HeardIsOnRecord, Remembered
      <3>2. \/ rows' = rows \cup writing /\ lost' = lost
            \/ rows' = rows /\ lost' = lost \cup {e[1] : e \in writing}
        BY <1>1 DEF Record
      <3>3. <<o, heard[o]>>[1] = o
        OBVIOUS
      <3>. QED  BY <2>1, <3>1, <3>2, <3>3 DEF OnRecord
    <2>. QED  BY <2>1, <2>2 DEF HeardInv, HeardIsOnRecord
  <1>2. ASSUME NEW e \in due, Remember(e) PROVE HeardInv'
    <2>1. /\ writing = {} /\ due' = due \ {e}
          /\ UNCHANGED <<rows, clearing>>
          /\ e = <<e[1], e[2]>>
      BY <1>2 DEF Remember, HeardInv
    <2>2. CASE heard[e[1]] = e[2]
      BY <1>2, <2>1, <2>2 DEF Remember, HeardInv, HeardIsOnRecord, Remembered, OnRecord
    <2>3. CASE heard[e[1]] # e[2]
      <3>1. /\ heard' = [heard EXCEPT ![e[1]] = e[2]]
            /\ writing' = {e} /\ lost' = lost \ {e[1]}
        BY <1>2, <2>3 DEF Remember
      <3>2. ASSUME NEW o \in Outputs, Remembered(o)'
            PROVE  OnRecord(o)' \/ o \in lost'
        <4>1. CASE o = e[1]
          BY <2>1, <3>1, <4>1 DEF OnRecord, HeardInv
        <4>2. CASE o # e[1]
          BY <2>1, <3>1, <3>2, <4>2 DEF OnRecord, Remembered, HeardInv, HeardIsOnRecord
        <4>. QED  BY <4>1, <4>2
      <3>. QED  BY <2>1, <3>1, <3>2 DEF HeardInv, HeardIsOnRecord
    <2>. QED  BY <2>2, <2>3
  <1>. QED  BY <1>1, <1>2 DEF RecordSteps

\* No step makes a listening that was not recorded as a play.
LEMMA HeardNext == ASSUME HeardInv, [Next]_vars PROVE HeardInv'
  <1>1. CASE UNCHANGED heardVars
    BY <1>1 DEF HeardInv, HeardIsOnRecord, Remembered, OnRecord, heardVars
  <1>2. CASE HandleStateEvent
    <2>1. /\ UNCHANGED <<heard, rows, writing, lost, clearing>>
          /\ \A e \in due' : e = <<e[1], e[2]>>
      BY <1>2 DEF HandleStateEvent, ReceivePlays
    <2>. QED  BY <2>1 DEF HeardInv, HeardIsOnRecord, Remembered, OnRecord
  <1>3. CASE DeleteRows
    BY <1>3 DEF DeleteRows, HeardInv, HeardIsOnRecord, Remembered
  <1>4. CASE ForgetTitles
    BY <1>4 DEF ForgetTitles, HeardInv, HeardIsOnRecord, Remembered
  <1>5. CASE NewLife
    BY <1>5 DEF NewLife, HeardInv, HeardIsOnRecord, Remembered
  <1>. QED
    BY <1>1, <1>2, <1>3, <1>4, <1>5, RecordKeeps, OnlyListeners DEF ClearListening

\* The title a zone was last heard with, with which repeated records are
\* suppressed, is in the table or being written to it, unless the write failed
\* or a clear is between its steps (listening_history.py, handle_event and clear).
THEOREM HeardStaysOnRecord == Spec => []HeardIsOnRecord
  <1>1. Init => HeardInv
    BY DEF Init, HeardInv, HeardIsOnRecord, Remembered
  <1>2. HeardInv => HeardIsOnRecord
    BY DEF HeardInv
  <1>. QED  BY <1>1, <1>2, HeardNext, PTL DEF Spec

-----------------------------------------------------------------------------
(* Roon's zones. *)

\* Every output has a name of its own, and no zone is empty.
RoonInv ==
    /\ names \in [Outputs -> Names]
    /\ \A x, y \in Outputs : names[x] = names[y] => x = y
    /\ zones \in SUBSET (Seq(Outputs) \ {<<>>})

\* An output by itself is a zone.
LEMMA Alone == \A o \in Outputs : <<o>> \in Seq(Outputs) \ {<<>>}
  <1>. SUFFICES ASSUME NEW o \in Outputs PROVE <<o>> \in Seq(Outputs) /\ <<o>> # <<>>
    OBVIOUS
  <1>. QED  OBVIOUS

\* At first each output there is in a zone of its own, and no two share a name.
LEMMA RoonInit == Init => RoonInv
  <1>. SUFFICES ASSUME Init PROVE RoonInv
    OBVIOUS
  <1>1. /\ names = CHOOSE f \in [Outputs -> Names] : IsInjective(f)
        /\ zones \in {{<<o>> : o \in S} : S \in SUBSET Outputs}
    BY DEF Init, ZonesInit
  <1>2. names \in [Outputs -> Names] /\ IsInjective(names)
    BY <1>1, ZonesAssumption DEF ZonesAssumption
  <1>3. \A x, y \in Outputs : names[x] = names[y] => x = y
    BY <1>2 DEF IsInjective
  <1>4. PICK S \in SUBSET Outputs : zones = {<<o>> : o \in S}
    BY <1>1
  <1>5. zones \in SUBSET (Seq(Outputs) \ {<<>>})
    BY <1>4, Alone
  <1>. QED  BY <1>2, <1>3, <1>5 DEF RoonInv

\* What Roon changes, coming, going, grouping or renaming, keeps its zones well formed.
LEMMA RoonChange == ASSUME RoonInv, RoonChanges PROVE RoonInv'
  <1>0. /\ names \in [Outputs -> Names]
        /\ \A x, y \in Outputs : names[x] = names[y] => x = y
        /\ zones \in SUBSET (Seq(Outputs) \ {<<>>})
    BY DEF RoonInv
  <1>1. ASSUME NEW o \in Outputs, ComeOnline(o) PROVE RoonInv'
    BY <1>0, <1>1, Alone DEF ComeOnline, Touch, RoonInv
  <1>2. ASSUME NEW o \in Outputs, GoOffline(o) PROVE RoonInv'
    <2>1. PICK z \in zones : \E i \in DOMAIN z :
             /\ zones' = (zones \ {z}) \cup (IF RemoveAt(z, i) = <<>> THEN {} ELSE {RemoveAt(z, i)})
             /\ names' = names
      BY <1>2 DEF GoOffline, Touch
    <2>2. PICK i \in DOMAIN z :
             /\ zones' = (zones \ {z}) \cup (IF RemoveAt(z, i) = <<>> THEN {} ELSE {RemoveAt(z, i)})
             /\ names' = names
      BY <2>1
    <2>3. RemoveAt(z, i) \in Seq(Outputs)
      BY <1>0 DEF RemoveAt
    <2>. QED  BY <1>0, <2>2, <2>3 DEF RoonInv
  <1>3. ASSUME NEW y \in zones, NEW z \in zones, Group(y, z) PROVE RoonInv'
    <2>1. y \o z \in Seq(Outputs) /\ y \o z # <<>>
      BY <1>0
    <2>. QED  BY <1>0, <1>3, <2>1 DEF Group, Touch, RoonInv
  <1>4. ASSUME NEW z \in zones, Ungroup(z) PROVE RoonInv'
    <2>1. Range(z) \subseteq Outputs
      BY <1>0 DEF Range
    <2>2. /\ zones' = (zones \ {z}) \cup {<<o>> : o \in Range(z)}
          /\ names' = names
      BY <1>4 DEF Ungroup, Touch
    <2>3. {<<o>> : o \in Range(z)} \subseteq Seq(Outputs) \ {<<>>}
      BY <2>1, Alone
    <2>. QED  BY <1>0, <2>2, <2>3 DEF RoonInv
  <1>5. ASSUME NEW o \in Outputs, NEW n \in Names, Rename(o, n) PROVE RoonInv'
    BY <1>0, <1>5 DEF Rename, RoonInv
  <1>. QED  BY <1>1, <1>2, <1>3, <1>4, <1>5 DEF RoonChanges

\* The histories' own steps leave the zones alone.
LEMMA HistoriesApart ==
    /\ SaveSteps \/ RecordSteps \/ ForgetTitles \/ LibraryChanges => UNCHANGED zoneVars
    /\ DeleteRows => Input("play") /\ UNCHANGED <<roonVars, aliasVars, defaultVars, lives>>
  BY DEF SaveSteps, BeginSave, WriteHistory, RecordSteps, Record, Remember, ForgetTitles,
         LibraryChanges, stopOnly, DeleteRows

\* Nothing else changes what Roon has.
LEMMA OnlyRoonChanges ==
    ASSUME [Next]_vars
    PROVE  RoonChanges \/ UNCHANGED <<names, zones>>
  <1>1. CASE UNCHANGED vars
    BY <1>1 DEF vars, zoneVars
  <1>2. Naming => UNCHANGED <<names, zones>>
    BY DEF Naming, NamingStep, ReadZones, ReadDefault, SaveDefault, SendDefault, ConnectClient,
           SetAlias, ClearAliases, RemoveAlias, RenameAlias, ToolSetDefault, ControlSetDefault,
           roonVars
  <1>3. HandleStateEvent \/ SaveSteps \/ RecordSteps \/ ClearListening \/ LibraryChanges \/ NewLife
          => UNCHANGED <<names, zones>>
    BY HistoriesApart DEF HandleStateEvent, Reconcile, ClearListening, NewLife,
           Restart, roonVars, zoneVars
  <1>4. ASSUME NEW z \in zones, NEW t, Ends(z) \/ Refresh(z) \/ Play(z, t)
        PROVE  UNCHANGED <<names, zones>>
    BY <1>4 DEF Ends, Refresh, Play, Touch
  <1>5. ASSUME NEW s \in Stoppers, NEW name, StopStep(s) \/ BeginStop(s, name)
        PROVE  UNCHANGED <<names, zones>>
    BY <1>5 DEF StopStep, BeginStop, DrillMarker, PlayMarker, BeginSearch, EndSearch, Recheck,
               PauseZone, stopOnly, roonVars, zoneVars
  <1>. QED  BY <1>1, <1>2, <1>3, <1>4, <1>5 DEF Next, Changes

\* Nothing else changes the zones.
LEMMA RoonNext == ASSUME RoonInv, [Next]_vars PROVE RoonInv'
  <1>1. CASE UNCHANGED <<names, zones>>
    BY <1>1 DEF RoonInv
  <1>. QED  BY <1>1, OnlyRoonChanges, RoonChange

-----------------------------------------------------------------------------
(* An alias stays with its output. *)

\* The tables of the aliases have the same aliases, and the file is the table of
\* remembered names.  An alias that is not stale is anchored on its output or on
\* the name its output has.
AliasInv ==
    /\ DOMAIN anchors = DOMAIN owner /\ DOMAIN outNames = DOMAIN owner
    /\ disk = outNames
    /\ \A a \in DOMAIN owner : owner[a] \in Outputs
    /\ \A a \in DOMAIN owner \ stale :
           /\ anchors[a] \in {owner[a], names[owner[a]]}
           /\ outNames[a] = names[owner[a]]

\* An output, or its name, resolves to the output or stays as it is, and to the
\* output when that is online: no other output has the name.
LEMMA Resolution ==
    ASSUME RoonInv, NEW o \in Outputs, NEW v \in {o, names[o]}
    PROVE  /\ Promoted(v) \in {o, names[o]}
           /\ o \in Online => Promoted(v) = o
           /\ Cached(Promoted(v), names[o]) = names[o]
  <1>1. names[o] \notin Outputs
    BY ZonesAssumption DEF RoonInv, ZonesAssumption
  <1>2. Online \subseteq Outputs
    BY DEF Online
  <1>3. Named(names[o]) = IF o \in Online THEN {o} ELSE {}
    BY <1>2 DEF Named, RoonInv
  <1>4. (CHOOSE x \in {o} : TRUE) = o
    OBVIOUS
  <1>5. Promoted(o) = o
    BY DEF Promoted
  <1>6. Promoted(names[o]) = IF o \in Online THEN o ELSE names[o]
    BY <1>1, <1>3, <1>4 DEF Promoted
  <1>. QED  BY <1>1, <1>2, <1>5, <1>6 DEF Cached

\* Resolving the aliases at a zone event keeps each with its output.
LEMMA ResolveKeeps ==
    ASSUME RoonInv, AliasInv, ResolveAliases, UNCHANGED names
    PROVE  AliasInv'
  <1>. DEFINE held == [a \in DOMAIN anchors |-> Promoted(anchors[a])]
              cached == [a \in DOMAIN anchors |-> Cached(held[a], outNames[a])]
  <1>1. /\ anchors' = held /\ outNames' = cached /\ owner' = owner
        /\ disk' = IF held = anchors /\ cached = outNames THEN disk ELSE cached
        /\ stale' = {a \in stale : held[a] # owner[a] \/ owner[a] \notin Online}
    BY DEF ResolveAliases, Saved
  <1>2. DOMAIN held = DOMAIN owner /\ DOMAIN cached = DOMAIN owner
    BY DEF AliasInv
  <1>3. ASSUME NEW a \in DOMAIN owner, a \notin stale'
        PROVE  held[a] \in {owner[a], names[owner[a]]} /\ cached[a] = names[owner[a]]
    <2>1. /\ owner[a] \in Outputs
          /\ held[a] = Promoted(anchors[a])
          /\ cached[a] = Cached(held[a], outNames[a])
      BY DEF AliasInv
    <2>. HIDE DEF held, cached
    <2>2. CASE a \in stale
      BY <1>1, <1>3, <2>1, <2>2 DEF Cached
    <2>3. CASE a \notin stale
      BY <2>1, <2>3, Resolution DEF AliasInv
    <2>. QED  BY <2>2, <2>3
  <1>. HIDE DEF held, cached
  <1>4. disk' = outNames'
    BY <1>1 DEF AliasInv
  <1>. QED  BY <1>1, <1>2, <1>3, <1>4 DEF AliasInv

\* So does setting an alias.
LEMMA SetKeeps ==
    ASSUME AliasInv, NEW a, NEW o \in Outputs, SetAlias(a, o)
    PROVE  AliasInv'
  <1>1. /\ anchors' = With(anchors, a, o)
        /\ outNames' = With(outNames, a, names[o])
        /\ disk' = outNames'
        /\ owner' = With(owner, a, o)
        /\ stale' = stale \ {a}
        /\ names' = names
    BY DEF SetAlias, Saved, roonVars
  <1>2. /\ DOMAIN anchors' = {a} \cup DOMAIN owner
        /\ DOMAIN outNames' = {a} \cup DOMAIN owner
        /\ DOMAIN owner' = {a} \cup DOMAIN owner
    BY <1>1 DEF AliasInv, With
  <1>3. ASSUME NEW b \in {a} \cup DOMAIN owner
        PROVE  /\ owner'[b] = IF b = a THEN o ELSE owner[b]
               /\ anchors'[b] = IF b = a THEN o ELSE anchors[b]
               /\ outNames'[b] = IF b = a THEN names[o] ELSE outNames[b]
    BY <1>1 DEF AliasInv, With
  <1>. QED  BY <1>1, <1>2, <1>3 DEF AliasInv

\* So does removing one.
LEMMA RemoveKeeps ==
    ASSUME AliasInv, NEW a, RemoveAlias(a)
    PROVE  AliasInv'
  <1>1. /\ anchors' = Without(anchors, a)
        /\ outNames' = Without(outNames, a)
        /\ disk' = outNames'
        /\ owner' = Without(owner, a)
        /\ stale' = stale \ {a}
        /\ names' = names
    BY DEF RemoveAlias, Saved, roonVars
  <1>. QED  BY <1>1 DEF AliasInv, Without

\* So does renaming one.
LEMMA RenameKeeps ==
    ASSUME RoonInv, AliasInv, NEW a, NEW b, RenameAlias(a, b)
    PROVE  AliasInv'
  <1>. DEFINE held == Promoted(anchors[a])
              cached == Cached(held, outNames[a])
  <1>1. /\ a \in DOMAIN owner
        /\ anchors' = With(Without(anchors, a), b, held)
        /\ outNames' = With(Without(outNames, a), b, cached)
        /\ disk' = outNames'
        /\ owner' = With(Without(owner, a), b, owner[a])
        /\ stale' = (stale \ {a, b})
               \cup (IF a \in stale /\ (held # owner[a] \/ held \notin Online) THEN {b} ELSE {})
        /\ names' = names
    BY DEF RenameAlias, Saved, roonVars, AliasInv
  <1>2. owner[a] \in Outputs
    BY <1>1 DEF AliasInv
  <1>3. b \notin stale' => held \in {owner[a], names[owner[a]]} /\ cached = names[owner[a]]
    <2>1. CASE a \in stale
      BY <1>1, <2>1 DEF Cached
    <2>2. CASE a \notin stale
      BY <1>1, <1>2, <2>2, Resolution DEF AliasInv
    <2>. QED  BY <2>1, <2>2
  <1>. HIDE DEF held, cached
  <1>4. /\ DOMAIN anchors' = {b} \cup (DOMAIN owner \ {a})
        /\ DOMAIN outNames' = {b} \cup (DOMAIN owner \ {a})
        /\ DOMAIN owner' = {b} \cup (DOMAIN owner \ {a})
    BY <1>1 DEF AliasInv, With, Without
  <1>5. ASSUME NEW x \in {b} \cup (DOMAIN owner \ {a})
        PROVE  /\ owner'[x] = IF x = b THEN owner[a] ELSE owner[x]
               /\ anchors'[x] = IF x = b THEN held ELSE anchors[x]
               /\ outNames'[x] = IF x = b THEN cached ELSE outNames[x]
    BY <1>1 DEF AliasInv, With, Without
  <1>. QED  BY <1>1, <1>2, <1>3, <1>4, <1>5 DEF AliasInv

\* So does a restart, which reads them from the file.
LEMMA RestartKeeps ==
    ASSUME RoonInv, AliasInv, Restart
    PROVE  AliasInv'
  <1>1. /\ anchors' = [a \in DOMAIN owner |-> Promoted(outNames[a])]
        /\ outNames' = outNames
        /\ disk' = outNames
        /\ owner' = [a \in DOMAIN owner |-> owner[a]]
        /\ stale' = stale \cap DOMAIN owner
        /\ names' = names
    BY DEF Restart, AliasInv
  <1>2. ASSUME NEW a \in DOMAIN owner, a \notin stale
        PROVE  Promoted(outNames[a]) \in {owner[a], names[owner[a]]}
    BY <1>2, Resolution DEF AliasInv
  <1>. QED  BY <1>1, <1>2 DEF AliasInv

\* The steps that leave the aliases alone.
LEMMA OthersKeepAliases ==
    ASSUME [Next]_vars
    PROVE  \/ UNCHANGED <<aliasVars, names>>
           \/ ResolveAliases /\ UNCHANGED names
           \/ \E a \in Aliases, o \in Outputs : SetAlias(a, o)
           \/ \E a \in Aliases : RemoveAlias(a)
           \/ \E a, b \in Aliases : RenameAlias(a, b)
           \/ ClearAliases
           \/ Restart
           \/ \E o \in Outputs, n \in Names : Rename(o, n)
  <1>1. CASE UNCHANGED vars
    BY <1>1 DEF vars, zoneVars, aliasVars
  <1>2. CASE Naming
    <2>1. ReadDefault \/ SaveDefault \/ SendDefault \/ ConnectClient => UNCHANGED <<aliasVars, names>>
      BY DEF ReadDefault, SaveDefault, SendDefault, ConnectClient, roonVars
    <2>2. ReadZones => ResolveAliases /\ UNCHANGED names
      BY DEF ReadZones, roonVars
    <2>3. ASSUME NEW z \in Addressed, ToolSetDefault(z) \/ ControlSetDefault(z)
          PROVE  ResolveAliases /\ UNCHANGED names
      BY <2>3 DEF ToolSetDefault, ControlSetDefault, roonVars
    <2>. QED  BY <1>2, <2>1, <2>2, <2>3 DEF Naming, NamingStep
  <1>3. CASE RoonChanges
    <2>1. ASSUME NEW o \in Outputs, ComeOnline(o) \/ GoOffline(o)
          PROVE  UNCHANGED <<aliasVars, names>>
      BY <2>1 DEF ComeOnline, GoOffline, Touch
    <2>2. ASSUME NEW y \in zones, NEW z \in zones, Group(y, z) \/ Ungroup(z)
          PROVE  UNCHANGED <<aliasVars, names>>
      BY <2>2 DEF Group, Ungroup, Touch
    <2>. QED  BY <1>3, <2>1, <2>2 DEF RoonChanges
  <1>4. HandleStateEvent \/ SaveSteps \/ RecordSteps \/ ClearListening \/ LibraryChanges
          => UNCHANGED <<aliasVars, names>>
    BY HistoriesApart DEF HandleStateEvent, Reconcile, ClearListening, roonVars, zoneVars, aliasVars
  <1>5. ASSUME NEW z \in zones, NEW t, Ends(z) \/ Refresh(z) \/ Play(z, t)
        PROVE  UNCHANGED <<aliasVars, names>>
    BY <1>5 DEF Ends, Refresh, Play, Touch
  <1>6. ASSUME NEW s \in Stoppers, NEW name, StopStep(s) \/ BeginStop(s, name)
        PROVE  UNCHANGED <<aliasVars, names>>
    BY <1>6 DEF StopStep, BeginStop, DrillMarker, PlayMarker, BeginSearch, EndSearch, Recheck,
               PauseZone, stopOnly, roonVars, zoneVars, aliasVars
  <1>7. CASE NewLife
    BY <1>7 DEF NewLife
  <1>. QED  BY <1>1, <1>2, <1>3, <1>4, <1>5, <1>6, <1>7 DEF Next, Changes

\* There is no alias at first.
LEMMA AliasInit == Init => AliasInv
  BY DEF Init, ZonesInit, Empty, AliasInv

\* No step moves an alias to another output.
LEMMA AliasNext == ASSUME RoonInv, AliasInv, [Next]_vars PROVE AliasInv'
  <1>1. CASE UNCHANGED <<aliasVars, names>>
    BY <1>1 DEF AliasInv, aliasVars
  <1>2. CASE ClearAliases
    BY <1>2 DEF ClearAliases, AliasInv, Empty, Saved
  <1>3. ASSUME NEW o \in Outputs, NEW n \in Names, Rename(o, n) PROVE AliasInv'
    <2>1. /\ anchors' = anchors /\ outNames' = outNames /\ disk' = disk /\ owner' = owner
          /\ names' = [names EXCEPT ![o] = n]
          /\ stale' = stale \cup {a \in DOMAIN anchors : owner[a] = o}
      BY <1>3 DEF Rename
    <2>2. \A x \in Outputs \ {o} : names'[x] = names[x]
      BY <2>1 DEF RoonInv
    <2>. QED  BY <2>1, <2>2 DEF AliasInv
  <1>. QED
    BY <1>1, <1>2, <1>3, OthersKeepAliases, ResolveKeeps, SetKeeps, RemoveKeeps, RenameKeeps,
       RestartKeeps

\* An alias resolves to the output it was given to, through grouping, absence,
\* renames and restarts, unless its file is older than its output's last rename
\* (zone_domain.py, resolve_alias and load_zone_aliases).
THEOREM AliasesFollow == Spec => []AliasFollowsOutput
  <1>1. ASSUME RoonInv, AliasInv PROVE AliasFollowsOutput
    <2>. SUFFICES ASSUME NEW a \in DOMAIN anchors \ stale, owner[a] \in Online
                  PROVE  Promoted(anchors[a]) = owner[a]
      BY DEF AliasFollowsOutput
    <2>1. owner[a] \in Outputs /\ anchors[a] \in {owner[a], names[owner[a]]}
      BY <1>1 DEF AliasInv
    <2>. QED  BY <1>1, <2>1, Resolution
  <1>2. Init => RoonInv /\ AliasInv
    BY RoonInit, AliasInit
  <1>3. RoonInv /\ AliasInv /\ [Next]_vars => (RoonInv /\ AliasInv)'
    BY RoonNext, AliasNext
  <1>. QED  BY <1>1, <1>2, <1>3, PTL DEF Spec

-----------------------------------------------------------------------------
(* The default zone. *)

CountInv == inputs \in Nat /\ lives \in Nat

\* The counts of inputs and lives start as numbers.
LEMMA CountInit == Init => CountInv
  BY DEF Init, ZonesInit, CountInv

\* The steps as the default zone sees them.
DefaultStep ==
    \/ ReadDefault \/ SaveDefault \/ SendDefault \/ ConnectClient \/ Reconcile \/ ClearAliases
    \/ \E name : TellLabel(name) /\ UNCHANGED <<roonVars, lives>>
    \/ \E z \in zones : ToolSetDefault(z) \/ ControlSetDefault(z)

\* A step of the default zone, one of Roon's, a new life, or none of these.
LEMMA DefaultSteps ==
    ASSUME [Next]_vars
    PROVE  \/ DefaultStep
           \/ RoonChanges
           \/ \E z \in zones : UNCHANGED <<names, zones, defaultVars, lives>> /\ pending' = Range(z)
           \/ Restart
           \/ UNCHANGED <<roonVars, defaultVars, lives>>
  <1>1. CASE UNCHANGED vars
    BY <1>1 DEF vars, zoneVars, roonVars, defaultVars
  <1>2. CASE Naming
    <2>1. ReadZones => UNCHANGED <<roonVars, defaultVars, lives>>
      BY DEF ReadZones
    <2>2. ASSUME NEW a, NEW o, SetAlias(a, o) PROVE DefaultStep
      BY <2>2 DEF SetAlias, DefaultStep
    <2>3. ASSUME NEW a, RemoveAlias(a) PROVE DefaultStep
      BY <2>3 DEF RemoveAlias, DefaultStep
    <2>4. ASSUME NEW a, NEW b, RenameAlias(a, b) PROVE DefaultStep
      BY <2>4 DEF RenameAlias, DefaultStep
    <2>. QED  BY <1>2, <2>1, <2>2, <2>3, <2>4 DEF Naming, NamingStep, DefaultStep, Addressed
  <1>3. HandleStateEvent => DefaultStep
    BY DEF HandleStateEvent, DefaultStep
  <1>4. SaveSteps \/ RecordSteps \/ ClearListening \/ LibraryChanges => UNCHANGED <<roonVars, defaultVars, lives>>
    BY HistoriesApart DEF ClearListening, zoneVars, roonVars, defaultVars
  <1>5. ASSUME NEW z \in zones, NEW t, Ends(z) \/ Refresh(z) \/ Play(z, t)
        PROVE  UNCHANGED <<names, zones, defaultVars, lives>> /\ pending' = Range(z)
    BY <1>5 DEF Ends, Refresh, Play, Touch
  <1>6. ASSUME NEW s \in Stoppers, PlayMarker(s)
        PROVE  \/ \E z \in zones : UNCHANGED <<names, zones, defaultVars, lives>>
                                   /\ pending' = Range(z)
               \/ UNCHANGED <<roonVars, defaultVars, lives>>
    <2>1. \A name : Reached(name) \subseteq zones
      BY DEF Reached
    <2>2. UNCHANGED <<names, zones, defaultVars, lives>>
      BY <1>6 DEF PlayMarker
    <2>3. UNCHANGED pending \/ \E z \in Reached(stop[s].zone) : pending' = Range(z)
      BY <1>6 DEF PlayMarker
    <2>. QED  BY <2>1, <2>2, <2>3 DEF roonVars
  <1>7. ASSUME NEW s \in Stoppers, NEW name,
               \/ DrillMarker(s) \/ BeginSearch(s) \/ EndSearch(s) \/ Recheck(s) \/ PauseZone(s)
               \/ BeginStop(s, name)
        PROVE  UNCHANGED <<roonVars, defaultVars, lives>>
    BY <1>7 DEF BeginStop, DrillMarker, BeginSearch, EndSearch, Recheck, PauseZone, stopOnly,
               zoneVars, roonVars, defaultVars
  <1>8. NewLife => Restart
    BY DEF NewLife
  <1>. QED
    BY <1>1, <1>2, <1>3, <1>4, <1>5, <1>6, <1>7, <1>8 DEF Next, Changes, StopStep

\* They stay numbers.
LEMMA CountNext == ASSUME CountInv, [Next]_vars PROVE CountInv'
  <1>1. CASE UNCHANGED vars
    BY <1>1 DEF vars, zoneVars, CountInv
  <1>2. CASE Naming
    <2>1. ReadZones \/ ReadDefault \/ SaveDefault \/ SendDefault \/ ConnectClient \/ ClearAliases
            => CountInv'
      BY DEF ReadZones, ReadDefault, SaveDefault, SendDefault, ConnectClient, ClearAliases, Input,
             CountInv
    <2>2. ASSUME NEW a, NEW o, SetAlias(a, o) \/ RemoveAlias(a) \/ RenameAlias(a, o) PROVE CountInv'
      BY <2>2 DEF SetAlias, RemoveAlias, RenameAlias, Input, CountInv
    <2>3. ASSUME NEW z, ToolSetDefault(z) \/ ControlSetDefault(z) PROVE CountInv'
      BY <2>3 DEF ToolSetDefault, ControlSetDefault, Input, CountInv
    <2>. QED  BY <1>2, <2>1, <2>2, <2>3 DEF Naming, NamingStep
  <1>3. CASE RoonChanges
    BY <1>3 DEF RoonChanges, ComeOnline, GoOffline, Group, Ungroup, Rename, Touch, Input, CountInv
  <1>4. HandleStateEvent \/ SaveSteps \/ RecordSteps \/ ClearListening \/ LibraryChanges \/ NewLife
          => CountInv'
    BY HistoriesApart DEF HandleStateEvent, Reconcile, ClearListening, NewLife, Restart,
           zoneVars, Input, CountInv
  <1>5. ASSUME NEW z \in zones, NEW t, Ends(z) \/ Refresh(z) \/ Play(z, t) PROVE CountInv'
    BY <1>5 DEF Ends, Refresh, Play, Touch, Input, CountInv
  <1>6. ASSUME NEW s \in Stoppers, NEW name, StopStep(s) \/ BeginStop(s, name) PROVE CountInv'
    <2>1. BeginStop(s, name) => CountInv'
      BY DEF BeginStop, Input, CountInv
    <2>2. StopStep(s) => UNCHANGED <<inputs, lives>>
      BY DEF StopStep, DrillMarker, PlayMarker, BeginSearch, EndSearch, Recheck, PauseZone,
             stopOnly, zoneVars
    <2>. QED  BY <1>6, <2>1, <2>2 DEF CountInv
  <1>. QED  BY <1>1, <1>2, <1>3, <1>4, <1>5, <1>6 DEF Next, Changes

\* What a step may do to the preferred output.
LEMMA Kept ==
    ASSUME CountInv, [Next]_vars, pref # None, pref' # pref
    PROVE  IF lives' # lives THEN saved.pref # pref
           ELSE inputs' # inputs /\ \E z \in zones : pref' = z[1]
  <1>1. Preferable(pref) = {pref}
    BY DEF Preferable
  <1>2. ASSUME DefaultStep
        PROVE  lives' = lives /\ inputs' # inputs /\ \E z \in zones : pref' = z[1]
    <2>1. PICK z \in zones : ToolSetDefault(z) \/ ControlSetDefault(z)
      BY <1>1, <1>2 DEF DefaultStep, ReadDefault, SaveDefault, SendDefault, ConnectClient, Reconcile,
                        ClearAliases, TellLabel, Broadcast
    <2>. QED  BY <2>1 DEF ToolSetDefault, ControlSetDefault, Input, CountInv
  <1>3. RoonChanges => UNCHANGED pref
    BY DEF RoonChanges, ComeOnline, GoOffline, Group, Ungroup, Rename, Touch, defaultVars
  <1>4. Restart => lives' # lives /\ saved.pref # pref
    BY DEF Restart, RestoreDefault, CountInv
  <1>. QED  BY <1>2, <1>3, <1>4, DefaultSteps DEF defaultVars

\* The preferred output moves only by the user's choice of a zone there is, and
\* a new life takes another only when the choice was not yet saved (zones.py,
\* "the agent doesn't silently substitute").
THEOREM DefaultStays == Spec => DefaultIsKept
  <1>1. CountInv /\ [Next]_vars =>
           [pref # None /\ pref' # pref =>
               IF lives' # lives THEN saved.pref # pref
               ELSE inputs' # inputs /\ \E z \in zones : pref' = z[1]]_zoneVars
    BY Kept
  <1>. QED  BY <1>1, CountInit, CountNext, PTL DEF Spec, DefaultIsKept

-----------------------------------------------------------------------------
(* What the client shows of the default zone. *)

\* Between events the remembered state is the present one, unless the default was
\* read or chosen since the last; then the client shows it or is excused.
DefaultInv ==
    /\ pref = None => lastState \in {None, <<None, FALSE>>}
    /\ ~moved /\ pending = {} /\ lastState # None => lastState = DefaultState
    /\ ~moved /\ lastState # None /\ lastState = DefaultState /\ sending = None /\ ~excused
         => shown \in {None, View}

\* What the client is told is the default zone as it is, but for a Misnamed one.
LEMMA ToldIsView ==
    ASSUME NEW p, ~Misnamed(p)
    PROVE  Payload(p) = IF NameHolding(p) = None THEN [name |-> label, online |-> FALSE]
                        ELSE [name |-> NameHolding(p), online |-> TRUE]
  <1>1. CASE NameHolding(p) = None
    <2>1. LabelFor(p) = label /\ ~Known(LabelFor(p))
      BY <1>1 DEF LabelFor, Misnamed
    <2>. QED  BY <1>1, <2>1 DEF Payload
  <1>2. CASE NameHolding(p) # None
    <2>1. LabelFor(p) = NameHolding(p)
      BY <1>2 DEF LabelFor
    <2>2. Known(NameHolding(p))
      <3>1. p \in Online
        BY <1>2 DEF NameHolding
      <3>2. \E z \in zones : p \in Range(z)
        BY <3>1 DEF Online
      <3>. DEFINE home == CHOOSE z \in zones : p \in Range(z)
      <3>3. home \in zones
        BY <3>2
      <3>4. NameHolding(p) = ZoneName(home)
        BY <3>1 DEF NameHolding
      <3>. HIDE DEF home
      <3>. QED  BY <3>3, <3>4 DEF Known
    <2>. QED  BY <1>2, <2>1, <2>2 DEF Payload
  <1>. QED  BY <1>1, <1>2

\* The default zone is an output; without one, none is online.
LEMMA Preferences ==
    ASSUME RoonInv
    PROVE  /\ \A z \in zones : z[1] # None /\ z[1] \in Range(z) /\ Range(z) # {}
           /\ \A p \in Preferable(pref) : p = None => pref = None
           /\ pref # None => Preferable(pref) = {pref}
           /\ NameHolding(None) = None
  <1>1. None \notin Outputs
    BY ZonesAssumption DEF ZonesAssumption
  <1>2. ASSUME NEW z \in zones PROVE z[1] \in Outputs /\ z[1] \in Range(z)
    <2>1. z \in Seq(Outputs) /\ z # <<>>
      BY DEF RoonInv
    <2>2. 1 \in DOMAIN z
      BY <2>1
    <2>. QED  BY <2>1, <2>2 DEF Range
  <1>3. None \notin Online
    BY <1>1 DEF Online
  <1>. QED  BY <1>1, <1>2, <1>3 DEF Preferable, NameHolding

\* There is no default zone at first.
LEMMA DefaultInit == Init => DefaultInv
  BY DEF Init, ZonesInit, DefaultInv

\* A step of the default zone.
LEMMA DefaultMoves ==
    ASSUME RoonInv, DefaultInv, DefaultStep
    PROVE  DefaultInv'
  <1>1. CASE ReadDefault \/ ConnectClient
    BY <1>1, Preferences DEF ReadDefault, ConnectClient, DefaultInv
  <1>2. CASE SaveDefault
    BY <1>2 DEF SaveDefault, DefaultInv, View, DefaultState, NameHolding, ZoneName, Online, roonVars
  <1>3. CASE SendDefault
    <2>1. /\ UNCHANGED <<names, zones, pending, pref, label, lastState, moved>>
          /\ shown' = Shown(sending) /\ excused' = (sending # View)
      BY <1>3 DEF SendDefault, roonVars
    <2>2. View' = View /\ DefaultState' = DefaultState
      BY <2>1 DEF View, DefaultState, NameHolding, ZoneName, Online
    <2>. QED  BY <2>1, <2>2 DEF DefaultInv, Shown
  <1>4. CASE Reconcile
    <2>1. /\ UNCHANGED <<names, zones, sending>>
          /\ lastState' = DefaultState /\ moved' = FALSE /\ pending' = {}
      BY <1>4 DEF Reconcile
    <2>2. CASE lastState # None /\ lastState # DefaultState
      <3>1. pref # None
        BY <2>2, Preferences DEF DefaultInv, DefaultState
      <3>2. /\ pref' = pref /\ label' = LabelFor(pref)
            /\ shown' = Shown(Payload(pref)) /\ excused' = Misnamed(pref)
        BY <1>4, <2>2, <3>1, Preferences DEF Reconcile, Broadcast
      <3>3. NameHolding(pref)' = NameHolding(pref)
        BY <2>1, <3>2 DEF NameHolding, ZoneName, Online
      <3>4. View' = IF NameHolding(pref) = None THEN [name |-> label, online |-> FALSE]
                    ELSE [name |-> NameHolding(pref), online |-> TRUE]
        BY <3>2, <3>3 DEF View, LabelFor
      <3>5. DefaultState' = DefaultState
        BY <3>3 DEF DefaultState
      <3>. QED  BY <2>1, <3>1, <3>2, <3>4, <3>5, ToldIsView DEF DefaultInv, Shown
    <2>3. CASE ~(lastState # None /\ lastState # DefaultState)
      <3>1. /\ UNCHANGED <<pref, label, shown>>
            /\ excused' = (excused \/ ((moved \/ lastState = None) /\ shown # Shown(View)))
        BY <1>4, <2>3 DEF Reconcile
      <3>2. View' = View /\ DefaultState' = DefaultState
        BY <2>1, <3>1 DEF View, DefaultState, NameHolding, ZoneName, Online
      <3>3. pref' = None => lastState' = <<None, FALSE>>
        BY <2>1, <3>1, Preferences DEF DefaultState
      <3>. QED  BY <2>1, <2>3, <3>1, <3>2, <3>3 DEF DefaultInv, Shown
    <2>. QED  BY <2>2, <2>3
  <1>5. CASE ClearAliases
    BY <1>5, Preferences DEF ClearAliases, Broadcast, DefaultInv
  <1>6. ASSUME NEW name, TellLabel(name), UNCHANGED <<roonVars, lives>>
        PROVE  DefaultInv'
    BY <1>6, Preferences DEF TellLabel, Broadcast, DefaultInv
  <1>7. ASSUME NEW z \in zones, ToolSetDefault(z) \/ ControlSetDefault(z)
        PROVE  DefaultInv'
    BY <1>7, Preferences DEF ToolSetDefault, ControlSetDefault, DefaultInv
  <1>. QED  BY <1>1, <1>2, <1>3, <1>4, <1>5, <1>6, <1>7 DEF DefaultStep

\* An event to be handled excuses what the default zone has become meanwhile.
LEMMA Awaits ==
    ASSUME DefaultInv, UNCHANGED defaultVars, pending = {},
           \/ pending' # {}
           \/ NameHolding(pref)' = NameHolding(pref)
    PROVE  DefaultInv'
  <1>1. UNCHANGED <<pref, label, lastState, shown, sending, moved, excused>>
    BY DEF defaultVars
  <1>2. DefaultState' = DefaultState => NameHolding(pref)' = NameHolding(pref)
    BY DEF DefaultState
  <1>3. NameHolding(pref)' = NameHolding(pref) => View' = View /\ DefaultState' = DefaultState
    BY <1>1 DEF View, DefaultState
  <1>4. ~moved /\ lastState # None => lastState = DefaultState
    BY DEF DefaultInv
  <1>. QED  BY <1>1, <1>2, <1>3, <1>4 DEF DefaultInv

\* What happens to the zones leaves the default as it was or to be told.
LEMMA RoonMovesDefault ==
    ASSUME RoonInv, DefaultInv, RoonChanges
    PROVE  DefaultInv'
  <1>1. ASSUME NEW o \in Outputs, ComeOnline(o) PROVE DefaultInv'
    BY <1>1, Awaits DEF ComeOnline, Touch
  <1>2. ASSUME NEW o \in Outputs, GoOffline(o) PROVE DefaultInv'
    BY <1>2, Awaits, Preferences DEF GoOffline, Touch
  <1>3. ASSUME NEW y \in zones, NEW z \in zones, Group(y, z) PROVE DefaultInv'
    BY <1>3, Awaits, Preferences DEF Group, Touch
  <1>4. ASSUME NEW z \in zones, Ungroup(z) PROVE DefaultInv'
    BY <1>4, Awaits, Preferences DEF Ungroup, Touch
  <1>5. ASSUME NEW o \in Outputs, NEW n \in Names, Rename(o, n) PROVE DefaultInv'
    <2>1. /\ pending = {} /\ UNCHANGED <<zones, defaultVars>>
          /\ names' = [names EXCEPT ![o] = n]
          /\ pending' = {x \in Online : \E z \in zones : {o, x} \subseteq Range(z)}
      BY <1>5 DEF Rename
    <2>2. CASE o \in Online
      BY <2>1, <2>2, Awaits DEF Online
    <2>3. CASE o \notin Online
      <3>1. \A z \in zones : z[1] # o
        BY <2>3, Preferences DEF Online
      <3>2. \A z \in zones : z[1] \in DOMAIN names
        BY Preferences DEF RoonInv, Range
      <3>3. \A z \in zones : ZoneName(z)' = ZoneName(z)
        BY <2>1, <3>1 DEF ZoneName, RoonInv
      <3>4. Online' = Online
        BY <2>1 DEF Online
      <3>5. pref \in Online => (CHOOSE z \in zones : pref \in Range(z)) \in zones
        BY DEF Online
      <3>6. NameHolding(pref)' = NameHolding(pref)
        BY <2>1, <3>3, <3>4, <3>5 DEF NameHolding, defaultVars
      <3>. QED  BY <2>1, <3>6, Awaits
    <2>. QED  BY <2>2, <2>3
  <1>. QED  BY <1>1, <1>2, <1>3, <1>4, <1>5 DEF RoonChanges

\* No step loses track of the default zone.
LEMMA DefaultNext == ASSUME RoonInv, DefaultInv, [Next]_vars PROVE DefaultInv'
  <1>1. ASSUME UNCHANGED <<names, zones, defaultVars>>
        PROVE  View' = View /\ DefaultState' = DefaultState
    BY <1>1 DEF View, DefaultState, NameHolding, ZoneName, Online, defaultVars
  <1>2. ASSUME NEW z \in zones, UNCHANGED <<names, zones, defaultVars, lives>>, pending' = Range(z)
        PROVE  DefaultInv'
    <2>1. pending' # {}
      BY <1>2, Preferences
    <2>. QED  BY <1>1, <1>2, <2>1 DEF DefaultInv, defaultVars
  <1>3. CASE UNCHANGED <<roonVars, defaultVars, lives>>
    BY <1>1, <1>3 DEF DefaultInv, roonVars, defaultVars
  <1>4. CASE Restart
    BY <1>4 DEF Restart, DefaultInv
  <1>. QED  BY <1>2, <1>3, <1>4, DefaultSteps, DefaultMoves, RoonMovesDefault

\* When the state last reconciled is the present one, the client shows the
\* default zone as it is, the named exceptions apart (zone_domain.py,
\* reconcile_zone_state and broadcast_default_zone).
THEOREM StaleIsRepaired == Spec => []StaleIsRepairable
  <1>1. ASSUME DefaultInv PROVE StaleIsRepairable
    <2>1. ~Misnamed(pref) => Payload(pref) = View
      BY ToldIsView DEF View
    <2>. QED  BY <1>1, <2>1 DEF DefaultInv, StaleIsRepairable
  <1>2. Init => RoonInv /\ DefaultInv
    BY RoonInit, DefaultInit
  <1>3. RoonInv /\ DefaultInv /\ [Next]_vars => (RoonInv /\ DefaultInv)'
    BY RoonNext, DefaultNext
  <1>. QED  BY <1>1, <1>2, <1>3, PTL DEF Spec
=============================================================================
