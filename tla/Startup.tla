------------------------------ MODULE Startup ------------------------------
(***************************************************************************)
(* Every life of the agent (Lifecycle) brings Roon up: its boot thread      *)
(* validates, pairs with a Core or finds the one it is paired with, and     *)
(* connects, while browsers attach, requests try the same, and the process  *)
(* may end at any step.  Browsers show what they were last told of it.      *)
(*                                                                          *)
(* The Core, and the reconnects of the roonapi library, are outside.        *)
(***************************************************************************)
EXTENDS Lifecycle

CONSTANTS Core, \* Roon Cores of the network
          None  \* no Core, no file

ASSUME StartupAssumption ==
  /\ IsFiniteSet(Core)
  /\ None \notin Core \cup {"boot", "request"}
  /\ {"empty", "stale"} \cap Core = {}    \* what a file may hold besides

VARIABLES
  url,         \* ROON_CORE_URL: the Core it leads to, or None
  named,       \* the Cores ROON_CORE_NAME matches, or None when it is not set
  idFile,      \* what roon_core_id holds
  tokenFile,   \* what roon_core_token holds: the Core the token is good for
  call,        \* what each caller of ensure_initialised is doing
  holder,      \* whose call holds _init_lock
  stage,       \* and how far it is
  target,      \* the Core it talks to
  initialised,
  wired,       \* roon_connection is set
  link,        \* its socket is connected
  seen,        \* RoonHealthMonitor._last
  roonState,   \* roon_state
  due,         \* a feature broadcast waits for the event loop
  asking,      \* the Core whose user is asked to enable the extension
  granted,     \* the user enabled it, and a connection came of it
  faults,      \* faults so far
  view,        \* what each connection's handler has sent
  got,         \* the roon_state it has read and not yet sent
  shown,       \* the roon_state its page was told last
  lost,        \* its page shows the Core as lost
  overtaken    \* the state it was sent had changed, and been broadcast, before

config == <<url, named>>
files == <<idFile, tokenFile>>
attempt == <<call, holder, stage, target>>
runtime == <<initialised, wired, roonState, due>>
core == <<asking, granted>>
pages == <<view, got, shown, lost, overtaken>>
lifecycle == vars
startup ==
  <<config, files, attempt, runtime, link, seen, core, faults, pages>>
all == <<lifecycle, startup>>

Caller == {"boot", "request"}
Stages == {"none", "files", "ask", "approval", "id", "id_open", "token",
           "token_open", "connect", "reapproval", "wire", "tools"}

\* With required config missing, a life does not try.
NewLife ==
  IF bound.roon THEN "initialising" ELSE "awaiting_config"

StartupInit ==
  /\ Init
  /\ url \in IF bound.fresh THEN Core \cup {None} ELSE {None}
  /\ named \in IF bound.fresh /\ url = None
              THEN SUBSET Core \cup {None} ELSE {None}
  /\ idFile \in IF bound.fresh THEN {None} ELSE Core
  /\ tokenFile = idFile
  /\ call = [w \in Caller |-> "idle"]
  /\ holder = None /\ stage = "none" /\ target = None
  /\ initialised = FALSE /\ wired = FALSE
  /\ link = FALSE /\ seen = "unknown"
  /\ roonState = NewLife
  /\ due = FALSE
  /\ asking = None /\ granted = ~bound.fresh
  /\ faults = 0
  /\ view = [c \in Client |-> "out"]
  /\ got = [c \in Client |-> None]
  /\ shown = [c \in Client |-> None]
  /\ lost = [c \in Client |-> FALSE]
  /\ overtaken = [c \in Client |-> FALSE]

Alive == bound.roon /\ proc # "gone"

Set(f, x, value) == [f EXCEPT ![x] = value]

-----------------------------------------------------------------------------
(* ensure_initialised, by the boot thread and by requests.                   *)

\* The boot thread's live validation passes, or it is the end of its attempt.
Validated ==
  /\ Alive /\ call["boot"] = "idle" /\ roonState = "initialising"
  /\ \/ call' = Set(call, "boot", "calls") /\ UNCHANGED <<roonState, due>>
     \/ /\ call' = Set(call, "boot", "over")
        /\ roonState' = "awaiting_config"
        /\ due' = TRUE
  /\ UNCHANGED <<lifecycle, config, files, holder, stage, target, initialised,
                 wired, link, seen, core, faults, pages>>

RequestCalls ==
  /\ Alive /\ call["request"] = "idle"
  /\ \E c \in Client : conn[c] = "in"
  /\ call' = Set(call, "request", "calls")
  /\ UNCHANGED <<lifecycle, config, files, holder, stage, target, runtime,
                 link, seen, core, faults, pages>>

\* What a caller makes of the end of its call: only the boot thread tells.
Returns(w, state) ==
  /\ call' = Set(call, w, "over")
  /\ IF w = "boot" THEN roonState' = state /\ due' = TRUE
     ELSE UNCHANGED <<roonState, due>>

AlreadyInitialised(w) ==
  /\ Alive /\ call[w] = "calls" /\ initialised
  /\ Returns(w, "paired")
  /\ UNCHANGED <<lifecycle, config, files, holder, stage, target, initialised,
                 wired, link, seen, core, faults, pages>>

\* Mutant: whoever waited for the lock goes on, whatever was done meanwhile.
BeginUnchecked(w) == call[w] = "calls" /\ holder = None

\* The check, made again under the lock.
MayBegin(w) == call[w] = "calls" /\ holder = None /\ ~initialised

\* _reset_partial_init drops what a failed attempt left.
Begin(w) ==
  /\ Alive /\ MayBegin(w)
  /\ holder' = w
  /\ stage' = "files"
  /\ wired' = FALSE
  /\ link' = FALSE
  /\ UNCHANGED <<lifecycle, config, files, call, target, initialised,
                 roonState, due, seen, core, faults, pages>>

Raises ==
  /\ holder' = None /\ stage' = "none" /\ target' = None
  /\ asking' = None
  /\ Returns(holder, "failed")

Goes(to) == stage' = to /\ UNCHANGED <<call, holder, roonState, due>>

-----------------------------------------------------------------------------
(* RoonConnection(...): which Core, and the pairing.                         *)

HaveFiles == idFile # None /\ tokenFile # None

\* What discover_cores may find: each Core once, by its id, whatever addresses
\* it answers from; or not at all, when its packets are lost or it is off.
Discoveries == SUBSET Core

\* select_core, of the Cores found.
Selected(found) ==
  LET eligible == IF named = None THEN found ELSE found \cap named
  IN IF Cardinality(eligible) = 1 THEN eligible ELSE {}

\* The configured Core; or the one of the files, looked up among those found;
\* or, without files, the one selected.
Sought(found) ==
  IF url # None THEN {url}
  ELSE IF HaveFiles THEN found \cap {idFile}
  ELSE Selected(found)

FindCore ==
  /\ Alive /\ stage = "files"
  /\ \E found \in Discoveries :
       IF Sought(found) = {} THEN Raises
       ELSE /\ target' \in Sought(found)
            /\ Goes(IF HaveFiles THEN "connect" ELSE "ask")
            /\ UNCHANGED asking
  /\ UNCHANGED <<lifecycle, config, files, initialised, wired, link, seen,
                 granted, faults, pages>>

\* _perform_auth registers the extension: Roon asks its user to enable it.
Ask ==
  /\ Alive /\ stage = "ask"
  /\ asking' = target
  /\ Goes("approval")
  /\ UNCHANGED <<lifecycle, config, files, target, initialised, wired, link,
                 seen, granted, faults, pages>>

Enable ==
  /\ Alive /\ asking # None
  /\ asking' = None
  /\ UNCHANGED <<lifecycle, config, files, attempt, runtime, link, seen,
                 granted, faults, pages>>

\* Mutant: the token of a pairing the library made is not kept.
HealedInMemory == "wire"

\* After a pairing made inside RoonApi(...) the new id and token are kept too.
Healed == "id"

\* The loop that waits for the token: it comes, or the deadline does.
Approval ==
  /\ Alive /\ stage = "approval"
  /\ IF asking = None THEN Goes("id") /\ UNCHANGED <<target, asking>>
     ELSE Raises
  /\ UNCHANGED <<lifecycle, config, files, initialised, wired, link, seen,
                 granted, faults, pages>>

\* RoonApi(...) returns, with a token of its own.
Reapproval ==
  /\ Alive /\ stage = "reapproval" /\ asking = None
  /\ link' = TRUE
  /\ Goes(Healed)
  /\ UNCHANGED <<lifecycle, config, files, target, initialised, wired, seen,
                 core, faults, pages>>

\* _write_id_and_token: each file is truncated, then written.
WriteFiles ==
  /\ Alive
  /\ \/ /\ stage = "id" /\ Goes("id_open")
        /\ idFile' = "empty" /\ UNCHANGED tokenFile
     \/ /\ stage = "id_open" /\ Goes("token")
        /\ idFile' = target /\ UNCHANGED tokenFile
     \/ /\ stage = "token" /\ Goes("token_open")
        /\ tokenFile' = "empty" /\ UNCHANGED idFile
     \/ /\ stage = "token_open" /\ Goes(IF link THEN "wire" ELSE "connect")
        /\ tokenFile' = target /\ UNCHANGED idFile
  /\ UNCHANGED <<lifecycle, config, target, initialised, wired, link, seen,
                 core, faults, pages>>

\* RoonApi(...): a token the Core does not know makes the library register
\* again, and wait without a deadline; a Core that is off makes it raise.
OpenApi ==
  /\ Alive /\ stage = "connect"
  /\ \/ /\ tokenFile = target
        /\ Goes("wire") /\ link' = TRUE
        /\ UNCHANGED <<target, asking, faults>>
     \/ /\ tokenFile # target
        /\ Goes("reapproval") /\ asking' = target
        /\ UNCHANGED <<target, link, faults>>
     \/ /\ faults < bound.faults /\ faults' = faults + 1
        /\ Raises
        /\ UNCHANGED link
  /\ UNCHANGED <<lifecycle, config, files, initialised, wired, seen, granted,
                 pages>>

-----------------------------------------------------------------------------
(* The rest of ensure_initialised.                                           *)

Wire ==
  /\ Alive /\ stage = "wire"
  /\ wired' = TRUE
  /\ granted' = TRUE
  /\ Goes("tools")
  /\ UNCHANGED <<lifecycle, config, files, target, initialised, link, seen,
                 asking, faults, pages>>

\* The stop marker's walk, the tools and the skills, of which one may raise.
Finish ==
  /\ Alive /\ stage = "tools"
  /\ \/ /\ initialised' = TRUE
        /\ holder' = None /\ stage' = "none" /\ target' = None
        /\ Returns(holder, "paired")
        /\ UNCHANGED <<asking, faults>>
     \/ /\ faults < bound.faults /\ faults' = faults + 1
        /\ Raises
        /\ UNCHANGED initialised
  /\ UNCHANGED <<lifecycle, config, files, wired, link, seen, granted, pages>>

-----------------------------------------------------------------------------
(* The link to the Core, and its watcher.                                    *)

Up == wired /\ link

Drop ==
  /\ Alive /\ Up /\ initialised
  /\ faults < bound.faults /\ faults' = faults + 1
  /\ link' = FALSE
  /\ UNCHANGED <<lifecycle, config, files, attempt, runtime, seen, core,
                 pages>>

\* The library reconnects, many polls later.
Reconnect ==
  /\ Alive /\ wired /\ ~link /\ seen = "down"
  /\ link' = TRUE
  /\ UNCHANGED <<lifecycle, config, files, attempt, runtime, seen, core,
                 faults, pages>>

Open == {c \in Client : conn[c] = "in"}

\* A change is told, but not what the first poll sees.
Edge(state) == seen \notin {"unknown", state}

Poll ==
  /\ Alive
  /\ LET state == IF Up THEN "up" ELSE "down" IN
       /\ seen # state
       /\ seen' = state
       /\ lost' = [c \in Client |->
                    IF bound.pages /\ Edge(state) /\ c \in Open
                    THEN state = "down" ELSE lost[c]]
  /\ UNCHANGED <<lifecycle, config, files, attempt, runtime, link, core,
                 faults, view, got, shown, overtaken>>

-----------------------------------------------------------------------------
(* What the pages are told.                                                  *)

\* Mutant: a page is told of changes once its handler has sent it all.
ToldWhenReady == {c \in Open : view[c] = "ready"}

\* ws_clients: a connection is among them before anything is read for it.
Told == Open

\* _broadcast_feature_availability, on the loop: the state of that moment.
Broadcast ==
  /\ Alive /\ LoopRuns /\ due
  /\ due' = FALSE
  /\ shown' = [c \in Client |->
                IF bound.pages /\ c \in Told THEN roonState ELSE shown[c]]
  /\ UNCHANGED <<lifecycle, config, files, attempt, initialised, wired,
                 roonState, link, seen, core, faults, view, got, lost,
                 overtaken>>

\* The payload is read on a worker thread ...
ReadState(c) ==
  /\ Alive /\ conn[c] = "in" /\ view[c] = "added"
  /\ view' = Set(view, c, "read")
  /\ got' = Set(got, c, roonState)
  /\ UNCHANGED <<lifecycle, config, files, attempt, runtime, link, seen, core,
                 faults, shown, lost, overtaken>>

\* ... and sent when the loop is back in the handler.
SendState(c) ==
  /\ Alive /\ LoopRuns /\ conn[c] = "in" /\ view[c] = "read"
  /\ view' = Set(view, c, "told")
  /\ shown' = Set(shown, c, got[c])
  /\ got' = Set(got, c, None)
  /\ overtaken' = Set(overtaken, c, got[c] # roonState /\ ~due)
  /\ UNCHANGED <<lifecycle, config, files, attempt, runtime, link, seen, core,
                 faults, lost>>

\* roon_core_status_for_connect: nothing before the pairing.
SendStatus(c) ==
  /\ Alive /\ LoopRuns /\ conn[c] = "in" /\ view[c] = "told"
  /\ view' = Set(view, c, "ready")
  /\ lost' = Set(lost, c, IF roonState = "paired" THEN ~Up ELSE lost[c])
  /\ UNCHANGED <<lifecycle, config, files, attempt, runtime, link, seen, core,
                 faults, got, shown, overtaken>>

\* A page starts from nothing, whatever it showed of an earlier connection.
Page(c, state) ==
  /\ view' = Set(view, c, state)
  /\ got' = Set(got, c, None)
  /\ shown' = Set(shown, c, None)
  /\ lost' = Set(lost, c, FALSE)
  /\ overtaken' = Set(overtaken, c, FALSE)

Attaches(c) ==
  /\ Connect(c)
  /\ Page(c, IF bound.pages THEN "added" ELSE "out")
  /\ UNCHANGED <<config, files, attempt, runtime, link, seen, core, faults>>

Detaches(c) ==
  /\ Leave(c)
  /\ Page(c, "out")
  /\ UNCHANGED <<config, files, attempt, runtime, link, seen, core, faults>>

-----------------------------------------------------------------------------
\* A new process: nothing but the files is left.
Restarts ==
  /\ Respawn
  /\ call' = [w \in Caller |-> "idle"]
  /\ holder' = None /\ stage' = "none" /\ target' = None
  /\ initialised' = FALSE /\ wired' = FALSE
  /\ link' = FALSE /\ seen' = "unknown"
  /\ roonState' = NewLife
  /\ due' = FALSE
  /\ asking' = None
  /\ view' = [c \in Client |-> "out"]
  /\ got' = [c \in Client |-> None]
  /\ shown' = [c \in Client |-> None]
  /\ lost' = [c \in Client |-> FALSE]
  /\ overtaken' = [c \in Client |-> FALSE]
  /\ UNCHANGED <<config, files, granted, faults>>

\* Between two lives the user removes the extension in Roon.
Remove ==
  /\ bound.roon /\ proc = "gone" /\ ~ended
  /\ tokenFile \in Core
  /\ faults < bound.faults /\ faults' = faults + 1
  /\ tokenFile' = "stale"
  /\ granted' = FALSE
  /\ UNCHANGED <<lifecycle, config, idFile, attempt, runtime, link, seen,
                 asking, pages>>

LifecycleStep ==
  /\ \/ \E c \in Client : Depart(c) \/ SaveAndRestart(c)
     \/ AutoFire \/ RestartTimerFires \/ Signal \/ LoopEnds \/ MainEnds
     \/ SuperviseEnds \/ Tick \/ Over
  /\ UNCHANGED startup

StartupStep ==
  \/ Validated \/ RequestCalls
  \/ \E w \in Caller : AlreadyInitialised(w) \/ Begin(w)
  \/ FindCore \/ Ask \/ Enable \/ Approval \/ Reapproval \/ WriteFiles
  \/ OpenApi \/ Wire \/ Finish
  \/ Drop \/ Reconnect \/ Poll \/ Remove
  \/ Broadcast
  \/ \E c \in Client : ReadState(c) \/ SendState(c) \/ SendStatus(c)

Next ==
  \/ \E c \in Client : Attaches(c) \/ Detaches(c)
  \/ Restarts \/ LifecycleStep \/ StartupStep

\* Of the lifecycle: the loop runs its timers, a closing server closes every
\* connection and awaits its handler, whose request ends, and processes that can
\* go on do.  Of the start: pages are sent their state, and polls come.
\* The user need not enable anything.
Fairness ==
  /\ \A c \in Client :
       /\ WF_all(proc = "closing" /\ Detaches(c))
       /\ WF_all(Depart(c) /\ UNCHANGED startup)
       /\ WF_all(ReadState(c) \/ SendState(c) \/ SendStatus(c))
  /\ WF_all(AutoFire /\ UNCHANGED startup)
  /\ WF_all(RestartTimerFires /\ UNCHANGED startup)
  /\ WF_all(LoopEnds /\ UNCHANGED startup)
  /\ WF_all(MainEnds /\ UNCHANGED startup)
  /\ WF_all(SuperviseEnds /\ UNCHANGED startup)
  /\ WF_all(Restarts)
  /\ WF_all(Poll) /\ WF_all(Broadcast)

Spec == StartupInit /\ [][Next]_all /\ Fairness

-----------------------------------------------------------------------------
(* Properties.                                                               *)

\* What the browser says is paired works, whatever requests and the boot thread
\* did at the same time: the tools are there, and a connection for them.
PairedIsUsable == roonState = "paired" => initialised /\ wired

\* "This is a one-time step" (RoonSetup): once the user has enabled the
\* extension and it has connected, no later life asks again, unless it is
\* removed.
AskedOnce == [][asking = None /\ asking' # None => ~granted]_all

\* What a page must show before anything else.
Requires(c) ==
  CASE shown[c] = "awaiting_config" -> "settings"
    [] shown[c] \in {"initialising", "failed"} -> "setup"
    [] OTHER -> "nothing"

\* And what it shows.
Screen(c) ==
  IF shown[c] = None THEN "connecting"
  ELSE IF Requires(c) # "nothing" THEN Requires(c)
  ELSE IF lost[c] THEN "lost" ELSE "app"

\* "This page will continue automatically once Roon confirms" (RoonSetup): while
\* the agent is paired and its Core is up, a browser that stays ends up with the
\* app, but for one whose first state was overtaken by the broadcast of a newer.
PageContinues ==
  \A c \in Client :
    <>[](/\ bound.pages /\ proc = "serving" /\ conn[c] = "in"
         /\ roonState = "paired" /\ Up)
      => <>[](Screen(c) = "app" \/ overtaken[c])
=============================================================================
