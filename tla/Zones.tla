------------------------------- MODULE Zones -------------------------------
(***************************************************************************)
(* Zone names in the agent: the user's aliases, the default zone and the   *)
(* default-zone update sent to the web client (app/roon/zone_domain.py,    *)
(* app/roon/config_action_service.py, roon_core/zones.py).                 *)
(*                                                                         *)
(* Roon reports zones; a zone is a sequence of outputs, the first one its  *)
(* base.  A zone of one output has the output's name, a group has the name *)
(* of its base "+ k".  The program names zones by these display names,     *)
(* which move with every grouping, so it anchors an alias and the default  *)
(* zone on an output id.  The alias file holds output NAMES, read back     *)
(* when the process starts.                                                *)
(*                                                                         *)
(* The fuzzy matching of names, the cache of display names (what listings  *)
(* show of an offline zone) and the texts are left out: a request's zone   *)
(* argument is the zone it resolves to.                                    *)
(***************************************************************************)
EXTENDS Integers, SequencesExt

CONSTANTS
    Outputs,      \* Roon's outputs, each with a permanent id
    Names,        \* names an output can have
    Aliases,      \* names users give to zones
    None,         \* no zone, no name
    Mixes,        \* bound: the kinds of change that Roon, users and the agent's
                  \* tools make in one behaviour, and how many of them
    MaxLives      \* bound: lives of the process

Kinds == {"alias", "default", "zones", "rename", "play", "stop"}

ASSUME ZonesAssumption ==
    /\ DOMAIN Mixes \subseteq SUBSET Kinds
    /\ Range(Mixes) \subseteq Nat
    /\ MaxLives \in Nat \ {0}
    /\ None \notin Outputs \cup Names \cup Aliases
    /\ Outputs \cap Names = {}
    /\ \E f \in [Outputs -> Names] : IsInjective(f)

VARIABLES
    names,        \* Roon: the name of each output
    zones,        \* Roon: the zones (api.zones), of the outputs online
    pending,      \* outputs of the changed zones; their event is to be handled
    anchors,      \* zone_aliases: alias -> output id, or the name saved for it
    outNames,     \* _alias_output_name_cache
    disk,         \* the alias file: alias -> output name
    pref,         \* _preferred_output_id
    label,        \* _preferred_zone_label
    lastState,    \* _last_default_zone_state: <<zone name, online>> or None
    saved,        \* the default zone in the state snapshot: [pref, label]
    shown,        \* the client's default zone: [name, online], None unconnected
    sending,      \* a default-zone update built by a thread and not yet sent
    owner,        \* history: the output each alias was given to
    stale,        \* history: aliases not resolved since their output was renamed
    moved,        \* history: the default was read or chosen since Reconcile
    excused,      \* history: the client was last told what was already outdated
    mix,          \* the kinds of change of this behaviour, see Mixes
    inputs,       \* changes so far, see Mixes
    lives         \* lives of the process so far

zoneVars == <<names, zones, pending, anchors, outNames, disk, pref, label, lastState,
              saved, shown, sending, owner, stale, moved, excused, mix, inputs, lives>>
aliasVars == <<anchors, outNames, disk, owner, stale>>
defaultVars == <<pref, label, lastState, saved, shown, sending, moved, excused>>
roonVars == <<names, zones, pending>>

-----------------------------------------------------------------------------
(* Roon's zones. *)

Online == {o \in Outputs : \E z \in zones : o \in Range(z)}

\* The display name of a zone.
ZoneName(z) == IF Len(z) = 1 THEN names[z[1]] ELSE <<names[z[1]], Len(z) - 1>>

\* The name of the zone that holds an output now, None when it is offline.
NameHolding(o) ==
    IF o \in Online THEN ZoneName(CHOOSE z \in zones : o \in Range(z)) ELSE None

\* _find_zone_by_name
Known(name) == \E z \in zones : ZoneName(z) = name

\* _lookup_output_id: the zone a command reaches.  Without a name it is the one
\* that holds the preferred output; an output's name reaches the group it is in.
Reached(name) ==
    LET sought == IF name = None THEN NameHolding(pref) ELSE name
        exact == {z \in zones : ZoneName(z) = sought}
    IN  IF exact # {} THEN exact
        ELSE {z \in zones : \E o \in Range(z) : names[o] = sought}

Input(kind) ==
    /\ kind \in mix
    /\ inputs < Mixes[mix]
    /\ inputs' = inputs + 1
    /\ UNCHANGED mix

-----------------------------------------------------------------------------
(* Aliases. *)

\* _coerce_alias_value_to_output_id: the output of that name, if it is online.
Named(n) == {o \in Online : names[o] = n}

\* An alias still holding a name is promoted to an output as soon as one
\* online has the name.
Promoted(value) ==
    IF value \notin Outputs /\ Named(value) # {} THEN CHOOSE o \in Named(value) : TRUE
    ELSE value

\* The output name remembered with it.
Cached(value, old) == IF value \in Online THEN names[value] ELSE old

\* What save_zone_aliases writes: output names, which grouping leaves alone.
SavedZoneNames(held, cached) ==
    [a \in DOMAIN held |-> IF held[a] \in Online THEN NameHolding(held[a]) ELSE cached[a]]
Saved(held, cached) == cached

\* _resolve_alias_to_display_name on every alias, which each name resolution
\* and each request's context does: names are refreshed, and the file with them.
ResolveAliases ==
    LET held == [a \in DOMAIN anchors |-> Promoted(anchors[a])]
        cached == [a \in DOMAIN anchors |-> Cached(held[a], outNames[a])]
    IN  /\ anchors' = held
        /\ outNames' = cached
        /\ disk' = IF held = anchors /\ cached = outNames THEN disk
                   ELSE Saved(held, cached)
        /\ stale' = {a \in stale : held[a] # owner[a] \/ owner[a] \notin Online}
        /\ UNCHANGED owner

\* A request or a tool reads the zones' status.
ReadZones ==
    /\ ResolveAliases
    /\ aliasVars' # aliasVars
    /\ UNCHANGED <<roonVars, defaultVars, mix, inputs, lives>>

-----------------------------------------------------------------------------
(* The default zone. *)

Preferable(p) == IF p # None \/ zones = {} THEN {p} ELSE {z[1] : z \in zones}

\* get_default_zone_payload once get_default_zone has preferred p.
LabelFor(p) == IF NameHolding(p) = None THEN label ELSE NameHolding(p)
Payload(p) == [name |-> LabelFor(p), online |-> LabelFor(p) # None /\ Known(LabelFor(p))]

\* An output offline counts as online when its last label has become the name
\* of another zone.
Misnamed(p) == NameHolding(p) = None /\ Known(LabelFor(p))

\* The default zone as it is.
View == IF NameHolding(pref) = None THEN [name |-> label, online |-> FALSE]
        ELSE [name |-> NameHolding(pref), online |-> TRUE]

\* The state reconcile_zone_state compares.
DefaultStateByOutput == <<pref, NameHolding(pref) # None>>
DefaultState == <<NameHolding(pref), NameHolding(pref) # None>>

Shown(payload) == IF shown = None THEN None ELSE payload

\* broadcast_default_zone, the client's view updated in the same step.
Broadcast(p) ==
    /\ p \in Preferable(pref)
    /\ pref' = p
    /\ label' = LabelFor(p)
    /\ shown' = Shown(Payload(p))
    /\ excused' = Misnamed(p)

\* A listing or a request's context asks for the default zone and tells nobody.
ReadDefault ==
    \E p \in Preferable(pref) :
        /\ "default" \in mix
        /\ <<p, LabelFor(p)>> # <<pref, label>>
        /\ pref' = p
        /\ label' = LabelFor(p)
        /\ moved' = TRUE
        /\ UNCHANGED <<roonVars, aliasVars, lastState, saved, shown, sending, excused, mix, inputs,
                       lives>>

\* resolve_zone_name: a zone's name or part of one, an alias or a member's name
\* resolves to a zone that is online, or the request is refused.
Addressed == zones

\* Set Default Zone by the agent's tool: all under zone_state_lock.  Naming a
\* zone resolves the aliases first; the base output is preferred.
ToolSetDefault(z) ==
    /\ Input("default")
    /\ ResolveAliases
    /\ pref' = z[1]
    /\ label' = ZoneName(z)
    /\ shown' = Shown([name |-> ZoneName(z), online |-> TRUE])
    /\ moved' = TRUE
    /\ excused' = FALSE
    /\ UNCHANGED <<roonVars, lastState, saved, sending, lives>>

\* The same by the web client's control message, whose thread holds no lock
\* between building the update and sending it.
ControlSetDefault(z) ==
    /\ Input("default")
    /\ sending = None
    /\ ResolveAliases
    /\ pref' = z[1]
    /\ label' = ZoneName(z)
    /\ sending' = [name |-> ZoneName(z), online |-> TRUE]
    /\ moved' = TRUE
    /\ UNCHANGED <<roonVars, lastState, saved, shown, excused, lives>>

SendDefault ==
    /\ sending # None
    /\ shown' = Shown(sending)
    /\ excused' = (sending # View)
    /\ sending' = None
    /\ UNCHANGED <<roonVars, aliasVars, pref, label, lastState, saved, moved, mix, inputs, lives>>

\* The web client connects; its copy is built in a thread and sent afterwards.
Blank == [name |-> None, online |-> FALSE]
ConnectClient ==
    /\ "default" \in mix
    /\ shown = None
    /\ sending = None
    /\ \E p \in Preferable(pref) :
        /\ pref' = p
        /\ label' = LabelFor(p)
        /\ sending' = Payload(p)
    /\ shown' = Blank
    /\ moved' = TRUE
    /\ UNCHANGED <<roonVars, aliasVars, lastState, saved, excused, mix, inputs, lives>>

\* A request completes and the state is committed, the default zone with it.
\* The control message of the web client is no request and commits nothing.
SaveDefault ==
    /\ "default" \in mix
    /\ saved # [pref |-> pref, label |-> label]
    /\ saved' = [pref |-> pref, label |-> label]
    /\ UNCHANGED <<roonVars, aliasVars, pref, label, lastState, shown, sending, moved, excused,
                   mix, inputs, lives>>

\* reconcile_zone_state on the thread that receives Roon's events, under
\* zone_state_lock.  The first observation is remembered and not broadcast.
Reconcile ==
    /\ lastState' = DefaultState
    /\ IF lastState # None /\ lastState # DefaultState
       THEN \E p \in Preferable(pref) : Broadcast(p)
       ELSE /\ excused' = (excused \/ ((moved \/ lastState = None) /\ shown # Shown(View)))
            /\ UNCHANGED <<pref, label, shown>>
    /\ moved' = FALSE
    /\ pending' = {}
    /\ UNCHANGED <<names, zones, aliasVars, saved, sending, mix, inputs, lives>>

-----------------------------------------------------------------------------
(* What users do with aliases, by the agent's tool under zone_state_lock.  An *)
(* alias that is a zone's or an output's name is refused.                    *)

\* _broadcast_zone_labels: the default zone is sent again when it is the one
\* whose label changed.
TellLabel(name) ==
    \E p \in Preferable(pref) :
        /\ IF LabelFor(p) = name THEN Broadcast(p)
           ELSE /\ pref' = p
                /\ label' = LabelFor(p)
                /\ UNCHANGED <<shown, excused>>
        /\ moved' = TRUE
        /\ UNCHANGED <<lastState, saved, sending>>

\* _resolve_target_to_output: an output by its name, wherever it is grouped, or
\* by its zone's name when it is alone in it.
Targets == Online

\* The tables of the aliases.
Empty == [a \in {} |-> None]
With(f, a, value) == [x \in DOMAIN f \cup {a} |-> IF x = a THEN value ELSE f[x]]
Without(f, a) == [x \in DOMAIN f \ {a} |-> f[x]]

\* Set Zone Alias
SetAlias(a, o) ==
    /\ Input("alias")
    /\ o \in Targets
    /\ a \notin DOMAIN anchors
    /\ anchors' = With(anchors, a, o)
    /\ outNames' = With(outNames, a, names[o])
    /\ disk' = Saved(anchors', outNames')
    /\ owner' = With(owner, a, o)
    /\ stale' = stale \ {a}
    /\ TellLabel(NameHolding(o))
    /\ UNCHANGED <<roonVars, lives>>

\* get_alias_display_name, None standing for any name of an offline zone.
NameOf(a) == NameHolding(Promoted(anchors[a]))

\* Remove Zone Alias
RemoveAlias(a) ==
    /\ Input("alias")
    /\ a \in DOMAIN anchors
    /\ anchors' = Without(anchors, a)
    /\ outNames' = Without(outNames, a)
    /\ disk' = Saved(anchors', outNames')
    /\ owner' = Without(owner, a)
    /\ stale' = stale \ {a}
    /\ TellLabel(NameOf(a))
    /\ UNCHANGED <<roonVars, lives>>

\* Rename Zone Alias does not ask whether the new name is taken: an alias of
\* that name is replaced.  The renamed one is resolved for its label.
RenameAlias(a, b) ==
    LET Moved(f, value) == With(Without(f, a), b, value)
        held == Promoted(anchors[a])
        unknown == held # owner[a] \/ held \notin Online
    IN  /\ Input("alias")
        /\ a \in DOMAIN anchors
        /\ a # b
        /\ anchors' = Moved(anchors, held)
        /\ outNames' = Moved(outNames, Cached(held, outNames[a]))
        /\ disk' = Saved(anchors', outNames')
        /\ owner' = Moved(owner, owner[a])
        /\ stale' = (stale \ {a, b}) \cup (IF a \in stale /\ unknown THEN {b} ELSE {})
        /\ TellLabel(NameOf(a))
        /\ UNCHANGED <<roonVars, lives>>

\* Clear All Zone Aliases
ClearAliases ==
    /\ Input("alias")
    /\ anchors' = Empty /\ outNames' = Empty /\ owner' = Empty
    /\ disk' = Saved(anchors', outNames')
    /\ stale' = {}
    /\ \E p \in Preferable(pref) : Broadcast(p)
    /\ moved' = TRUE
    /\ UNCHANGED <<roonVars, lastState, saved, sending, lives>>

-----------------------------------------------------------------------------
(* What Roon does.  Its socket's thread updates api.zones and then delivers  *)
(* the event, so one change is handled before the next one is seen.          *)

Touch(kind, new, os) ==
    /\ Input(kind)
    /\ pending = {}
    /\ zones' = new
    /\ pending' = os
    /\ UNCHANGED <<aliasVars, defaultVars, lives>>

\* An output is switched on, in a zone of its own.
ComeOnline(o) ==
    /\ o \notin Online
    /\ Touch("zones", zones \cup {<<o>>}, {o})
    /\ UNCHANGED names

\* An output goes away; what is left of its group goes on.
GoOffline(o) ==
    \E z \in zones : \E i \in DOMAIN z :
        LET rest == RemoveAt(z, i)
        IN  /\ z[i] = o
            /\ Touch("zones", (zones \ {z}) \cup (IF rest = <<>> THEN {} ELSE {rest}), Range(z))
            /\ UNCHANGED names

\* Group Zones or Ungroup Zones, asked of Roon by the tool or by another remote.
Group(y, z) ==
    /\ y # z
    /\ Touch("zones", (zones \ {y, z}) \cup {y \o z}, Range(y) \cup Range(z))
    /\ UNCHANGED names

Ungroup(z) ==
    /\ Len(z) > 1
    /\ Touch("zones", (zones \ {z}) \cup {<<o>> : o \in Range(z)}, Range(z))
    /\ UNCHANGED names

\* A user renames an output in Roon; its aliases know it by the old name yet.
Rename(o, n) ==
    /\ \A x \in Outputs : names[x] # n
    /\ Input("rename")
    /\ pending = {}
    /\ names' = [names EXCEPT ![o] = n]
    /\ pending' = {x \in Online : \E z \in zones : {o, x} \subseteq Range(z)}
    /\ stale' = stale \cup {a \in DOMAIN anchors : owner[a] = o}
    /\ UNCHANGED <<zones, anchors, outNames, disk, owner, defaultVars, lives>>

-----------------------------------------------------------------------------
(* The process ends, by a crash or a restart, and starts again: the default  *)
(* zone is adopted, or restored from the snapshot, then the alias file is    *)
(* read (load_zone_aliases).                                                 *)

RestoreNothing ==
    /\ pref' \in Preferable(None)
    /\ label' = NameHolding(pref')
RestoreDefault ==
    IF saved.pref = None THEN RestoreNothing
    ELSE pref' = saved.pref /\ label' = saved.label

Restart ==
    /\ lives < MaxLives
    /\ lives' = lives + 1
    /\ anchors' = [a \in DOMAIN disk |-> Promoted(disk[a])]
    /\ outNames' = disk
    /\ owner' = [a \in DOMAIN disk |-> owner[a]]
    /\ stale' = stale \cap DOMAIN disk
    /\ RestoreDefault
    /\ lastState' = None
    /\ shown' = None
    /\ sending' = None
    /\ moved' = FALSE
    /\ excused' = FALSE
    /\ pending' = {}
    /\ UNCHANGED <<names, zones, disk, saved, mix, inputs>>

ZonesInit ==
    /\ names = CHOOSE f \in [Outputs -> Names] : IsInjective(f)
    /\ zones \in {{<<o>> : o \in S} : S \in SUBSET Outputs}
    /\ pending = {}
    /\ anchors = Empty /\ outNames = Empty /\ disk = Empty /\ owner = Empty
    /\ stale = {}
    /\ pref \in Preferable(None)
    /\ label = NameHolding(pref)
    /\ lastState = None
    /\ saved = [pref |-> None, label |-> None]
    /\ shown = None
    /\ sending = None
    /\ moved = FALSE
    /\ excused = FALSE
    /\ mix \in DOMAIN Mixes
    /\ inputs = 0
    /\ lives = 1

\* The steps that touch nothing but the names of zones.
NamingStep ==
    \/ ReadZones \/ ReadDefault \/ SaveDefault \/ SendDefault \/ ConnectClient
    \/ \E a \in Aliases, o \in Outputs : SetAlias(a, o)
    \/ ClearAliases \/ \E a \in Aliases : RemoveAlias(a)
    \/ \E a, b \in Aliases : RenameAlias(a, b)
    \/ \E z \in Addressed : ToolSetDefault(z) \/ ControlSetDefault(z)

-----------------------------------------------------------------------------
(* Properties. *)

\* An alias stays with the output it was given to: through grouping, through
\* an output's absence, renames and a restart.  It resolves to the zone that
\* holds the output whenever that is online.  The exception is an alias whose
\* file was written before its output's last rename was noticed.
\* (zone_domain.py: "Auto-saved when a resolve detects a name change")
AliasFollowsOutput ==
    \A a \in DOMAIN anchors \ stale :
        owner[a] \in Online => Promoted(anchors[a]) = owner[a]

\* No step but a choice of the user's moves the preferred output, whatever
\* becomes of its zone (zones.py: "the agent doesn't silently substitute"), and
\* a new life keeps it if a request has completed since it was chosen.
DefaultIsKept ==
    [][pref # None /\ pref' # pref =>
          IF lives' # lives THEN saved.pref # pref
          ELSE inputs' # inputs /\ \E z \in zones : pref' = z[1]]_zoneVars

\* When the state remembered by reconcile_zone_state is the present one, so
\* that no later event will bring a correction, the client shows that state.
\* Excused: an update sent after a newer one had been, a change that comes with
\* the first event of a life, one that undoes, before the next event, what a
\* read or a choice of the default did, and Misnamed.
StaleIsRepairable ==
    LET settled == lastState # None /\ lastState = DefaultState /\ ~moved /\ sending = None
    IN  settled /\ ~excused /\ ~Misnamed(pref) => shown \in {None, Payload(pref)}
=============================================================================
