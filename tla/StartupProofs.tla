---------------------------- MODULE StartupProofs ----------------------------
(***************************************************************************)
(* Proofs about Startup, and the Lifecycle it extends, for any browsers,    *)
(* Cores, faults, signals and restarts.  Three invariants, one of each      *)
(* concern: the lock of ensure_initialised and what is done under it; the   *)
(* pairing files between the steps that write them; AutoShutdown's count.   *)
(* Last, of Settings, which the boot thread waits for: verdict and settings.*)
(***************************************************************************)
EXTENDS Startup, Settings, FiniteSetTheorems, TLAPS

\* A step of the lifecycle alone, and the end of a process, leave the start be.
Untouched ==
  UNCHANGED <<url, files, attempt, runtime, core>>

-----------------------------------------------------------------------------
(* Paired is usable.                                                         *)

\* One call holds the lock and goes through the stages; it began without what
\* it is to make, and what is made stays for the life.
PairedInv ==
  /\ stage # "none" => holder # None
  /\ holder # None => ~initialised
  /\ stage = "tools" => wired
  /\ initialised => wired
  /\ roonState = "paired" => initialised

\* Steps of the lifecycle and of the pages leave the start alone.
LEMMA AsideLeavesUntouched ==
  /\ \A c \in Client : Attaches(c) => Untouched
  /\ \A c \in Client : Detaches(c) => Untouched
  /\ LifecycleStep => Untouched
  /\ \A c \in Client : ReadState(c) \/ SendState(c) \/ SendStatus(c) => Untouched
  /\ Poll => Untouched
  /\ UNCHANGED all => Untouched
BY DEF Untouched, Attaches, Detaches, LifecycleStep, ReadState, SendState,
       SendStatus, Poll, startup, all, config, files, attempt, runtime, core

\* No pairing is at hand when the program starts.
LEMMA InitPaired == StartupInit => PairedInv
BY DEF StartupInit, PairedInv, NewLife

\* No step breaks what a paired connection rests on.
LEMMA NextPaired == PairedInv /\ [Next]_all => PairedInv'
<1> SUFFICES ASSUME PairedInv, [Next]_all PROVE PairedInv'
  OBVIOUS
<1> USE StartupAssumption
<1> USE DEF PairedInv, files, attempt, runtime, core
<1>1. CASE Untouched
  BY <1>1 DEF Untouched
<1>2. CASE Restarts
  BY <1>2 DEF Restarts, NewLife
<1>3. CASE Validated
  BY <1>3 DEF Validated
<1>4. CASE RequestCalls
  BY <1>4 DEF RequestCalls
<1>5. ASSUME NEW w \in Caller, AlreadyInitialised(w) PROVE PairedInv'
  BY <1>5 DEF AlreadyInitialised, Returns
\* Under the lock, and not initialised: nothing is announced as paired.
<1>6. ASSUME NEW w \in Caller, Begin(w) PROVE PairedInv'
  BY <1>6 DEF Begin, MayBegin, Caller
<1>7. CASE FindCore
  BY <1>7 DEF FindCore, Raises, Returns, Goes
<1>8. CASE Ask \/ Enable \/ Approval \/ Reapproval
  BY <1>8 DEF Ask, Enable, Approval, Reapproval, Healed, Raises, Returns, Goes
<1>9. CASE WriteFiles
  BY <1>9 DEF WriteFiles, Goes
<1>10. CASE OpenApi
  BY <1>10 DEF OpenApi, Raises, Returns, Goes
<1>11. CASE Wire
  BY <1>11 DEF Wire, Goes
<1>12. CASE Finish
  BY <1>12 DEF Finish, Raises, Returns
<1>13. CASE Drop \/ Reconnect \/ Remove \/ Broadcast
  BY <1>13 DEF Drop, Reconnect, Remove, Broadcast
<1> QED
  BY <1>1, <1>2, <1>3, <1>4, <1>5, <1>6, <1>7, <1>8, <1>9, <1>10, <1>11,
     <1>12, <1>13, AsideLeavesUntouched
  DEF Next, StartupStep

\* What the browser shows as paired has its tools and its connection, whatever
\* requests and the boot thread do in ensure_initialised at the same time, and
\* whichever step of theirs fails.
THEOREM PairedWorks == Spec => []PairedIsUsable
<1>1. PairedInv => PairedIsUsable
  BY DEF PairedInv, PairedIsUsable
<1> QED BY <1>1, InitPaired, NextPaired, PTL DEF Spec

-----------------------------------------------------------------------------
(* The user is asked once.                                                   *)

\* A call talks to a Core, the configured one if there is one.
TargetInv ==
  stage \notin {"none", "files"} =>
    target \in Core /\ (url # None => target = url)

\* A token is of the Core whose id was written before it: the files are not
\* rewritten for another one.
FilesInv ==
  tokenFile \in Core =>
    idFile = tokenFile /\ (url # None => idFile = url)

\* In a living process, the files as the stages find and leave them.
StagesInv ==
  /\ stage \in {"ask", "approval", "reapproval", "id", "id_open", "token",
                "token_open"} => tokenFile \notin Core
  /\ stage \in {"token", "token_open"} => idFile = target
  /\ stage = "connect" /\ tokenFile \in Core => tokenFile = target
  /\ stage \in {"wire", "tools"} => tokenFile = target

PairingInv ==
  /\ url \in Core \cup {None}
  /\ FilesInv
  /\ proc # "gone" => TargetInv /\ StagesInv
  /\ granted => tokenFile \in Core

\* No discovery is on at first.
LEMMA InitPairing == StartupInit => PairingInv
BY StartupAssumption
DEF StartupInit, PairingInv, FilesInv, TargetInv, StagesInv

\* The end of a process and the steps between two lives.
LEMMA GoneStays ==
  /\ \A c \in Client : Attaches(c) \/ Detaches(c) => proc # "gone"
  /\ LifecycleStep /\ proc = "gone" => proc' = "gone"
BY DEF Attaches, Detaches, Connect, Leave, LoopRuns, LifecycleStep, Depart,
       SaveAndRestart, AutoFire, RestartTimerFires, Signal, LoopEnds, MainEnds,
       SuperviseEnds, Tick, Over, vars, process

\* No step breaks what a pairing rests on.
LEMMA NextPairing == PairingInv /\ [Next]_all => PairingInv'
<1> SUFFICES ASSUME PairingInv, [Next]_all PROVE PairingInv'
  OBVIOUS
<1> USE StartupAssumption
<1> USE DEF PairingInv, files, attempt, runtime, core, config
<1>1. ASSUME Untouched, proc = "gone" => proc' = "gone" PROVE PairingInv'
  BY <1>1 DEF Untouched, FilesInv, TargetInv, StagesInv
<1>2. CASE Restarts
  BY <1>2 DEF Restarts, FilesInv, TargetInv, StagesInv
<1>3. CASE Validated \/ RequestCalls
  BY <1>3
  DEF Validated, RequestCalls, FilesInv, TargetInv, StagesInv, lifecycle, vars,
      process
<1>5. ASSUME NEW w \in Caller, AlreadyInitialised(w) PROVE PairingInv'
  BY <1>5
  DEF AlreadyInitialised, FilesInv, TargetInv, StagesInv, lifecycle, vars,
      process
<1>6. ASSUME NEW w \in Caller, Begin(w) PROVE PairingInv'
  BY <1>6
  DEF Begin, FilesInv, TargetInv, StagesInv, lifecycle, vars, process
\* The Core found is the one of a usable pair of files.
<1>7. CASE FindCore
  BY <1>7
  DEF FindCore, Raises, Goes, Sought, Selected, Discoveries, HaveFiles, Alive,
      FilesInv, TargetInv, StagesInv, lifecycle, vars, process
<1>8. CASE Ask \/ Enable \/ Approval \/ Reapproval
  BY <1>8
  DEF Ask, Enable, Approval, Reapproval, Healed, Raises, Goes, Alive,
      FilesInv, TargetInv, StagesInv, lifecycle, vars, process
<1>9. CASE WriteFiles
  BY <1>9
  DEF WriteFiles, Goes, Alive, FilesInv, TargetInv, StagesInv, lifecycle,
      vars, process
<1>10. CASE OpenApi
  BY <1>10
  DEF OpenApi, Raises, Goes, Alive, FilesInv, TargetInv, StagesInv,
      lifecycle, vars, process
<1>11. CASE Wire
  BY <1>11
  DEF Wire, Goes, Alive, FilesInv, TargetInv, StagesInv, lifecycle, vars,
      process
<1>12. CASE Finish
  BY <1>12
  DEF Finish, Raises, Alive, FilesInv, TargetInv, StagesInv, lifecycle,
      vars, process
<1>13. CASE Drop \/ Reconnect \/ Broadcast
  BY <1>13
  DEF Drop, Reconnect, Broadcast, FilesInv, TargetInv, StagesInv, lifecycle,
      vars, process
<1>14. CASE Remove
  BY <1>14 DEF Remove, FilesInv, lifecycle, vars, process
<1>15. ASSUME NEW c \in Client, ReadState(c) \/ SendState(c) \/ SendStatus(c)
       PROVE  PairingInv'
  BY <1>1, <1>15, AsideLeavesUntouched
  DEF ReadState, SendState, SendStatus, lifecycle, vars, process
<1>16. CASE Poll \/ UNCHANGED all
  BY <1>1, <1>16, AsideLeavesUntouched DEF Poll, all, lifecycle, vars, process
<1>17. ASSUME NEW c \in Client, Attaches(c) \/ Detaches(c) PROVE PairingInv'
  BY <1>1, <1>17, AsideLeavesUntouched, GoneStays
<1>18. CASE LifecycleStep
  BY <1>1, <1>18, AsideLeavesUntouched, GoneStays
<1> QED
  BY <1>2, <1>3, <1>5, <1>6, <1>7, <1>8, <1>9, <1>10, <1>11, <1>12, <1>13,
     <1>14, <1>15, <1>16, <1>17, <1>18
  DEF Next, StartupStep

\* "This is a one-time step": once the user has enabled the extension and a
\* connection came of it, no later life asks again, whichever step of writing the
\* files or of connecting a process ended at, unless the extension is removed.
THEOREM AsksOnce == Spec => AskedOnce
<1>1. PairingInv /\ [Next]_all
        => [asking = None /\ asking' # None => ~granted]_all
  <2> SUFFICES ASSUME PairingInv, Next, asking = None, asking' # None, granted
               PROVE  FALSE
    BY DEF all
  <2> USE StartupAssumption
  <2>1. tokenFile \in Core
    BY DEF PairingInv
  <2>2. Ask \/ OpenApi
    BY AsideLeavesUntouched
    DEF Next, StartupStep, Untouched, core, Restarts, Validated, RequestCalls,
        AlreadyInitialised, Begin, FindCore, Raises, Enable, Approval,
        Reapproval, WriteFiles, Wire, Finish, Drop, Reconnect, Remove, Broadcast
  <2>3. CASE Ask
    BY <2>1, <2>3 DEF Ask, Alive, PairingInv, StagesInv
  <2>4. CASE OpenApi
    BY <2>1, <2>4 DEF OpenApi, Raises, Alive, PairingInv, StagesInv
  <2> QED BY <2>2, <2>3, <2>4
<1> QED BY <1>1, InitPairing, NextPairing, PTL DEF Spec, AskedOnce

-----------------------------------------------------------------------------
(* AutoShutdown.                                                             *)

\* The count is that of the connections whose handler has not ended; without
\* the bundle nothing counts and no grace runs.
CountInv ==
  /\ bundle \in BOOLEAN
  /\ conn \in [Client -> {"out", "in", "leaving"}]
  /\ count = IF bundle THEN Cardinality(Connected) ELSE 0
  /\ ~bundle => pending = "none"

\* Who is connected is a finite set, and a change of one connection adds it or
\* takes it away.
LEMMA ConnectedFinite == IsFiniteSet(Connected) /\ Cardinality(Connected) \in Nat
<1>1. Connected \subseteq Client
  BY DEF Connected
<1> QED BY <1>1, LifecycleAssumption, FS_Subset, FS_CardinalityType

\* No client is connected at first.
LEMMA InitCount == StartupInit => CountInv
<1> SUFFICES ASSUME StartupInit PROVE CountInv
  OBVIOUS
<1>1. Connected = {}
  BY DEF StartupInit, Init, Connected
<1>2. bundle \in BOOLEAN
  BY LifecycleAssumption DEF StartupInit, Init
<1> QED
  BY <1>1, <1>2, FS_EmptySet DEF StartupInit, Init, CountInv, StartupGrace

\* No step loses count of the connections.
LEMMA NextCount == CountInv /\ [Next]_all => CountInv'
<1> SUFFICES ASSUME CountInv, [Next]_all PROVE CountInv'
  OBVIOUS
<1> USE DEF clients
<1>1. ASSUME UNCHANGED <<bundle, clients>> PROVE CountInv'
  BY <1>1 DEF CountInv, Connected
<1>2. ASSUME NEW c \in Client, Connect(c) PROVE CountInv'
  <2>1. /\ c \notin Connected /\ Connected' = Connected \cup {c}
        /\ conn' \in [Client -> {"out", "in", "leaving"}]
    BY <1>2 DEF Connect, Connected, CountInv
  <2>2. Cardinality(Connected') = Cardinality(Connected) + 1
    BY <2>1, ConnectedFinite, FS_AddElement
  <2> QED
    BY <1>2, <2>1, <2>2 DEF Connect, CountAfterConnect, CountInv
<1>3. ASSUME NEW c \in Client, Leave(c) PROVE CountInv'
  <2>1. /\ Connected' = Connected
        /\ conn' \in [Client -> {"out", "in", "leaving"}]
    BY <1>3 DEF Leave, Connected, CountInv
  <2> QED BY <1>3, <2>1 DEF Leave, CountInv
<1>4. ASSUME NEW c \in Client, Depart(c) PROVE CountInv'
  <2>1. /\ c \in Connected /\ Connected' = Connected \ {c}
        /\ conn' \in [Client -> {"out", "in", "leaving"}]
    BY <1>4 DEF Depart, Connected, CountInv
  <2>2. /\ Cardinality(Connected') = Cardinality(Connected) - 1
        /\ Cardinality(Connected') \in Nat
    BY <2>1, ConnectedFinite, FS_RemoveElement, FS_CardinalityType
  <2>3. CASE bundle
    <3>1. count = Cardinality(Connected) /\ count # 0
      BY <2>2, <2>3, ConnectedFinite DEF CountInv
    <3> QED
      BY <1>4, <2>1, <2>2, <2>3, <3>1 DEF Depart, CountAfterDepart, CountInv
  <2>4. CASE ~bundle
    BY <1>4, <2>1, <2>4 DEF Depart, CountAfterDepart, CountInv
  <2> QED BY <2>3, <2>4
<1>5. CASE Respawn
  <2>1. Connected' = {} /\ conn' \in [Client -> {"out", "in", "leaving"}]
    BY <1>5 DEF Respawn, Connected
  <2> QED
    BY <1>5, <2>1, FS_EmptySet DEF Respawn, StartupGrace, CountInv
<1>6. CASE AutoFire
  BY <1>6 DEF AutoFire, CountInv, Connected
<1>7. CASE LifecycleStep
  BY <1>1, <1>4, <1>6, <1>7
  DEF LifecycleStep, SaveAndRestart, RestartTimerFires, Signal, LoopEnds,
      MainEnds, SuperviseEnds, Tick, Over, vars
<1>8. CASE StartupStep
  BY <1>1, <1>8
  DEF StartupStep, lifecycle, vars, Validated, RequestCalls,
      AlreadyInitialised, Begin, FindCore, Ask, Enable, Approval, Reapproval,
      WriteFiles, OpenApi, Wire, Finish, Drop, Reconnect, Poll, Remove,
      Broadcast, ReadState, SendState, SendStatus
<1>9. CASE UNCHANGED all
  BY <1>1, <1>9 DEF all, lifecycle, vars
<1> QED
  BY <1>2, <1>3, <1>5, <1>7, <1>8, <1>9
  DEF Next, Attaches, Detaches, Restarts

\* AutoShutdown's timer never begins a shutdown under a connected browser,
\* however connections, late ends of handlers and restarts interleave with it.
THEOREM SparesLiveClients == Spec => NeverQuitsOnLiveClient
<1>1. CountInv /\ [Next]_all
        => [pending # "none" /\ pending' = "none" /\ stopping' /\ ~stopping
              => Connected = {}]_vars
  <2> SUFFICES ASSUME CountInv, [Next]_all, pending # "none",
                      pending' = "none", stopping', ~stopping
               PROVE  Connected = {}
    OBVIOUS
  <2>1. AutoFire
    <3>1. pending' # pending /\ stopping' # stopping
      OBVIOUS
    <3>2. CASE LifecycleStep
      BY <3>1, <3>2
      DEF LifecycleStep, Depart, SaveAndRestart, RestartTimerFires, Signal,
          LoopEnds, MainEnds, SuperviseEnds, Tick, Over, vars, clients, process
    <3>3. ~StartupStep
      BY <3>1
      DEF StartupStep, lifecycle, vars, clients, Validated, RequestCalls,
          AlreadyInitialised, Begin, FindCore, Ask, Enable, Approval,
          Reapproval, WriteFiles, OpenApi, Wire, Finish, Drop, Reconnect, Poll,
          Remove, Broadcast, ReadState, SendState, SendStatus
    <3> QED
      BY <3>1, <3>2, <3>3
      DEF Next, Attaches, Connect, Detaches, Leave, Restarts, Respawn, process,
          all, lifecycle, vars, clients
  <2>2. count = 0
    <3>1. ~StandsDown
      BY <2>1, Zenon DEF AutoFire
    <3>2. count \in Nat
      BY ConnectedFinite DEF CountInv
    <3> QED BY <3>1, <3>2 DEF StandsDown
  <2>3. Cardinality(Connected) = 0
    BY <2>2 DEF CountInv
  <2> QED BY <2>3, ConnectedFinite, FS_EmptySet
<1> QED BY <1>1, InitCount, NextCount, PTL DEF Spec, NeverQuitsOnLiveClient

-----------------------------------------------------------------------------
(* The verdict is current: Settings.                                         *)

\* Some request changed the environment, or is about to ask for a validation.
Unsettled == \E h \in Handler : save[h].step \in {"resetting", "answering"}

\* The cache is the environment's but between a reload and the reset, and when
\* what a reader built was overtaken; what nothing is to validate any more is
\* validated, or has been, as it stands.
SettingsInv ==
  /\ DOMAIN save = Handler
  /\ \A h \in Handler : DOMAIN save[h] = {"step", "todo", "copy"}
  /\ DOMAIN status = {"state", "results", "pending", "backends"}
  /\ waiting \in Seq({"boot", "save"})
  /\ (\A h \in Handler : save[h].step # "resetting") /\ ~stale =>
        cached \in {Unset, environ}
  /\ excused \subseteq {"reload", "unheard"}
  /\ status.results # {} =>
       running.who = "nobody" /\ status.state \in {"passed", "failed"}
  /\ running.who # "nobody" => status.state = "validating"
  /\ waiting = <<>> /\ excused = {} /\ ~stale /\ ~Unsettled =>
       /\ running.who # "nobody" => running.of = environ
       /\ status.state \in {"passed", "failed"} => about = environ

\* No verdict is on record when the settings are first shown.
LEMMA InitSettings == SettingsInit => SettingsInv
BY DEF SettingsInit, SettingsInv, Unsettled, Idle, Unchecked, NotRunning

\* A reader is given what the cache then holds: the environment, when nobody
\* is about to empty the cache and what was built in time is assigned.
LEMMA ReadsTheEnvironment ==
  ASSUME SettingsInv, NEW s, Reads(s)
  PROVE  /\ cached' = s
         /\ ~stale' => ~stale
         /\ ~stale' /\ (\A h \in Handler : save[h].step # "resetting")
              => s = environ
<1>1. CASE cached # Unset /\ s = cached /\ UNCHANGED cache
  BY <1>1 DEF SettingsInv, cache
<1>2. CASE s \in loading /\ cached' = s /\ stale' = (stale \/ s # environ)
  <2>1. CASE stale
    BY <1>2, <2>1
  <2>2. CASE ~stale
    BY <1>2, <2>2
  <2>3. QED
    BY <2>1, <2>2
<1>3. QED
  BY <1>1, <1>2 DEF Reads

\* A request for new settings, from its arrival to the validation it asks for.
LEMMA SaveKeepsSettings ==
  ASSUME SettingsInv, NEW h \in Handler,
         Save(h) \/ SaveSteps(h) \/ WriteFails(h) \/ Reload(h)
  PROVE  SettingsInv'
<1> USE DEF SettingsInv, Unsettled, disk, cache
<1>1. CASE Save(h)
  BY <1>1 DEF Save
<1>2. CASE ReadFile(h)
  BY <1>2 DEF ReadFile
<1>3. CASE ReplaceFile(h)
  BY <1>3 DEF ReplaceFile
<1>4. CASE WriteFails(h)
  BY <1>4 DEF WriteFails, Idle
<1>5. CASE ReloadEnv(h)
  BY <1>5 DEF ReloadEnv
<1>6. CASE ResetCache(h)
  BY <1>6 DEF ResetCache
<1>7. CASE Answer(h)
  <2>1. PICK s \in Seen : Reads(s)
    BY <1>7 DEF Answer
  <2>2. CASE waiting' = Queue("save") /\ excused' = {}
    BY <1>7, <2>1, <2>2, ReadsTheEnvironment DEF Answer, Queue, Idle
  <2>3. CASE excused' = excused \cup {"unheard"} /\ UNCHANGED waiting
    BY <1>7, <2>1, <2>3, ReadsTheEnvironment DEF Answer, Idle
  <2>4. QED
    BY <1>7, <2>2, <2>3 DEF Answer
<1>8. CASE Reload(h)
  BY <1>8 DEF Reload
<1>9. QED
  BY <1>1, <1>2, <1>3, <1>4, <1>5, <1>6, <1>7, <1>8 DEF SaveSteps

\* The validator, and what changes its verdict.
LEMMA ValidatorKeepsSettings ==
  ASSUME SettingsInv,
         Validates \/ MarkFailed \/ Polls \/ TestBackend \/ SearchFails
  PROVE  SettingsInv'
<1> USE DEF SettingsInv, Unsettled, disk, cache
<1>1. CASE Start
  <2>1. PICK s \in Seen :
          /\ Reads(s)
          /\ running' = [who |-> Head(waiting), stage |-> "checking", of |-> s]
    BY <1>1 DEF Start
  <2>2. running.who = "nobody" /\ status'.results = {}
    BY <1>1 DEF Start
  <2>3. QED
    BY <1>1, <2>1, <2>2, ReadsTheEnvironment DEF Start
<1>2. CASE Check
  BY <1>2 DEF Check
<1>3. CASE Conclude
  BY <1>3 DEF Conclude, NotRunning
<1>4. CASE Abort
  BY <1>4 DEF Abort, Unlock, NotRunning
<1>5. CASE MarkFailed
  <2>1. PICK r \in status.results : TRUE
    BY <1>5 DEF MarkFailed
  <2>2. /\ running.who = "nobody" /\ status.state \in {"passed", "failed"}
        /\ DOMAIN status' = DOMAIN status /\ status'.state = "failed"
        /\ UNCHANGED <<environ, cached, save, waiting, running, about, excused, stale>>
    BY <1>5, <2>1 DEF MarkFailed
  <2>3. QED
    BY <2>2
<1>6. CASE Probe
  BY <1>6 DEF Probe
<1>7. CASE Update
  BY <1>7 DEF Update, Row
<1>8. CASE ProbeRaises
  BY <1>8 DEF ProbeRaises
<1>9. CASE TestBackend
  BY <1>9 DEF TestBackend, Row
<1>10. CASE SearchFails
  BY <1>10 DEF SearchFails, Row
<1>11. CASE PollOnce
  BY <1>11, ReadsTheEnvironment DEF PollOnce
<1>12. QED
  BY <1>1, <1>2, <1>3, <1>4, <1>5, <1>6, <1>7, <1>8, <1>9, <1>10, <1>11
     DEF Validates, Polls

\* No step leaves a verdict on what was since changed.
LEMMA NextSettings == SettingsInv /\ [SettingsNext]_settings => SettingsInv'
<1> SUFFICES ASSUME SettingsInv, [SettingsNext]_settings PROVE SettingsInv'
  OBVIOUS
<1> USE DEF disk, memory, cache
<1>1. CASE Boot
  BY <1>1, ReadsTheEnvironment DEF SettingsInv, Unsettled, Boot, Queue
<1>2. CASE Build
  BY <1>2, ReadsTheEnvironment DEF SettingsInv, Unsettled, Build
<1>3. CASE ChatBuilds
  BY <1>3, ReadsTheEnvironment DEF SettingsInv, Unsettled, ChatBuilds
<1>4. CASE NewProcess
  BY <1>4 DEF SettingsInv, Unsettled, NewProcess, Idle, Unchecked, NotRunning
<1>5. CASE ServiceChanges
  BY <1>5 DEF SettingsInv, Unsettled, ServiceChanges
<1>6. CASE UNCHANGED settings
  BY <1>6 DEF SettingsInv, Unsettled, settings
<1>7. CASE Load
  BY <1>7 DEF SettingsInv, Unsettled, Load
<1>8. CASE Read
  BY <1>8, ReadsTheEnvironment DEF SettingsInv, Unsettled, Read
<1>9. QED
  BY <1>1, <1>2, <1>3, <1>4, <1>5, <1>6, <1>7, <1>8, SaveKeepsSettings,
     ValidatorKeepsSettings DEF SettingsNext

\* However saves, partial writes and validations overlap, a verdict that is
\* shown when all is quiet is one on the settings the process has
\* (ConfigValidator, handle_save, the reload of os.environ and the cache);
\* unless a reload or an unheard answer, which validate nothing, came last, or
\* get_settings assigned what it had read before the change.
THEOREM VerdictsAreCurrent == SettingsSpec => []VerdictIsCurrent
<1>1. SettingsInv => VerdictIsCurrent
  BY DEF SettingsInv, Unsettled, VerdictIsCurrent, Quiet, Verdict
<1>2. QED
  BY <1>1, InitSettings, NextSettings, PTL DEF SettingsSpec
=============================================================================
