------------------------------ MODULE Lifecycle ------------------------------
(***************************************************************************)
(* The life of the agent process in WebSocket mode, run natively or from    *)
(* the installer's bundle: shutting down (agent.py), the bundle's           *)
(* AutoShutdown, the Settings page's save-and-restart, and the supervisor   *)
(* that respawns the agent (swarpius.py).                                   *)
(*                                                                          *)
(* Timers carry no duration: an armed one may fire at any time while the    *)
(* event loop runs.  The clock only dates the supervisor's restarts.        *)
(***************************************************************************)
EXTENDS Integers, Sequences, FiniteSets

CONSTANTS Client,    \* browser connections
          Threshold, \* CRASH_LOOP_THRESHOLD
          Window,    \* CRASH_LOOP_WINDOW_SECONDS, in clock ticks
          Bounds     \* bounds, of which a behaviour has one: the clock's last
                     \* tick, the restarts asked for of one process, the signals
                     \* in all, who connects, and the bundle or not; and of
                     \* Startup, the faults, whether Roon is brought up, on a
                     \* fresh install, and whether the pages are followed

ASSUME LifecycleAssumption ==
  /\ IsFiniteSet(Client)
  /\ Threshold \in Nat
  /\ Window \in Nat
  /\ Bounds \subseteq
       [time : Nat, saves : Nat, signals : Nat, clients : SUBSET Client,
        bundles : SUBSET BOOLEAN, faults : Nat, roon : BOOLEAN,
        fresh : BOOLEAN, pages : BOOLEAN]

VARIABLES
  bound,     \* the bounds of this behaviour
  bundle,    \* _running_from_bundle: AutoShutdown exists
  proc,      \* "serving", "closing" (the server), "drained" (the loop is over)
             \* or "gone"
  exit,      \* the exit code of the process, when it is gone
  requested, \* restart_signal's flag
  stopping,  \* shutdown_state["requested"]
  timers,    \* armed call_later(2.0, signal_shutdown)
  conn,      \* each connection: "out", "in", or "leaving" its handler
  count,     \* AutoShutdown._count
  pending,   \* AutoShutdown._pending: which grace is running
  saves,     \* restarts asked for of this process
  signals,   \* signals received
  now,       \* the supervisor's clock
  stamps,    \* restart_timestamps
  ended      \* the supervisor has returned

process == <<proc, exit, requested, stopping, timers, saves>>
clients == <<conn, count, pending>>
supervisor == <<stamps, ended>>
vars == <<bound, bundle, process, clients, signals, now, supervisor>>

Restart == 75      \* RESTART_EXIT_CODE
Interrupted == 130 \* a signal that nothing handles any more

TypeOK ==
  /\ bound \in Bounds
  /\ bundle \in BOOLEAN
  /\ proc \in {"serving", "closing", "drained", "gone"}
  /\ exit \in {0, Restart, Interrupted}
  /\ requested \in BOOLEAN /\ stopping \in BOOLEAN /\ ended \in BOOLEAN
  /\ conn \in [Client -> {"out", "in", "leaving"}]
  /\ count \in 0 .. Cardinality(Client)
  /\ pending \in {"none", "startup", "disconnect"}
  /\ timers \in 0 .. bound.saves /\ saves \in 0 .. bound.saves
  /\ signals \in 0 .. bound.signals
  /\ now \in 0 .. bound.time
  /\ stamps \in Seq(0 .. bound.time)

-----------------------------------------------------------------------------
\* Mutant: only a cold start gets the startup grace.
GraceOfColdStart(restarts) ==
  IF bundle /\ restarts = <<>> THEN "startup" ELSE "none"

\* start_startup_grace, of every process.
StartupGrace(restarts) == IF bundle THEN "startup" ELSE "none"

Init ==
  /\ bound \in Bounds
  /\ bundle \in bound.bundles
  /\ proc = "serving"
  /\ exit = 0
  /\ requested = FALSE
  /\ stopping = FALSE
  /\ timers = 0
  /\ conn = [c \in Client |-> "out"]
  /\ count = 0
  /\ saves = 0
  /\ signals = 0
  /\ now = 0
  /\ stamps = <<>>
  /\ ended = FALSE
  /\ pending = StartupGrace(<<>>)

LoopRuns == proc \in {"serving", "closing"}

Exits(code) == proc' = "gone" /\ exit' = code

\* _signal_shutdown: a second call forces the exit.
SignalShutdown ==
  IF stopping
  THEN Exits(0) /\ UNCHANGED stopping
  ELSE /\ stopping' = TRUE
       /\ proc' = "closing"
       /\ UNCHANGED exit

-----------------------------------------------------------------------------
(* Connections and AutoShutdown.                                            *)

\* Mutant: the count is set, not raised.
CountOnConnect == IF bundle THEN 1 ELSE count

\* on_connect cancels the grace that is running.
CountAfterConnect == IF bundle THEN count + 1 ELSE count

Connect(c) ==
  /\ proc = "serving" /\ c \in bound.clients
  /\ conn[c] = "out"
  /\ conn' = [conn EXCEPT ![c] = "in"]
  /\ count' = CountAfterConnect
  /\ pending' = "none"
  /\ UNCHANGED <<bound, bundle, process, signals, now, supervisor>>

\* The tab closes, or the closing server closes the connection; the handler
\* still awaits its active request.
Leave(c) ==
  /\ LoopRuns
  /\ conn[c] = "in"
  /\ conn' = [conn EXCEPT ![c] = "leaving"]
  /\ UNCHANGED <<bound, bundle, process, count, pending, signals, now,
                 supervisor>>

\* A late end of a connection that was never counted is ignored.
CountAfterDepart == IF count = 0 THEN 0 ELSE count - 1

\* on_disconnect, at the end of the handler: the last one arms the grace.
Depart(c) ==
  /\ LoopRuns
  /\ conn[c] = "leaving"
  /\ conn' = [conn EXCEPT ![c] = "out"]
  /\ count' = CountAfterDepart
  /\ pending' = IF count # 0 /\ count' = 0 THEN "disconnect" ELSE pending
  /\ UNCHANGED <<bound, bundle, process, signals, now, supervisor>>

\* Mutant: a restart in flight does not stop AutoShutdown.
StandsDownForClients == count > 0

\* _fire stands down for a live client, and for a restart in flight.
StandsDown == count > 0 \/ requested

AutoFire ==
  /\ LoopRuns
  /\ pending # "none"
  /\ pending' = "none"
  /\ IF StandsDown
     THEN UNCHANGED <<proc, exit, stopping>>
     ELSE SignalShutdown
  /\ UNCHANGED <<bound, bundle, requested, timers, saves, conn, count, signals,
                 now, supervisor>>

-----------------------------------------------------------------------------
(* Restarts and signals.                                                    *)

\* A settings save that asks for a restart: the flag at once, the shutdown two
\* seconds later.
SaveAndRestart(c) ==
  /\ proc = "serving"
  /\ conn[c] = "in"
  /\ saves < bound.saves
  /\ saves' = saves + 1
  /\ requested' = TRUE
  /\ timers' = timers + 1
  /\ UNCHANGED <<bound, bundle, proc, exit, stopping, clients, signals, now,
                 supervisor>>

RestartTimerFires ==
  /\ LoopRuns
  /\ timers > 0
  /\ timers' = timers - 1
  /\ SignalShutdown
  /\ UNCHANGED <<bound, bundle, requested, saves, clients, signals, now,
                 supervisor>>

\* SIGINT or SIGTERM; once the loop is over nothing handles it.
Signal ==
  /\ proc # "gone"
  /\ signals < bound.signals
  /\ signals' = signals + 1
  /\ IF LoopRuns THEN SignalShutdown
     ELSE Exits(Interrupted) /\ UNCHANGED stopping
  /\ UNCHANGED <<bound, bundle, requested, timers, saves, clients, now,
                 supervisor>>

\* The server is closed once every handler has returned; then asyncio.run
\* returns.
LoopEnds ==
  /\ proc = "closing"
  /\ \A c \in Client : conn[c] = "out"
  /\ proc' = "drained"
  /\ UNCHANGED <<bound, bundle, exit, requested, stopping, timers, saves,
                 clients, signals, now, supervisor>>

\* The end of main: perform_restart, or os._exit(0).
ExitCode == IF requested THEN Restart ELSE 0

MainEnds ==
  /\ proc = "drained"
  /\ Exits(ExitCode)
  /\ UNCHANGED <<bound, bundle, requested, stopping, timers, saves, clients,
                 signals, now, supervisor>>

-----------------------------------------------------------------------------
(* run_supervised.                                                          *)

\* The restarts of the window, this one included.
Recent == SelectSeq(Append(stamps, now), LAMBDA t : now - t <= Window)

\* Any other exit code than the restart's, or a crash loop, is the end.
SuperviseEnds ==
  /\ proc = "gone"
  /\ ~ended
  /\ exit = Restart => Len(Recent) > Threshold
  /\ ended' = TRUE
  /\ UNCHANGED <<bound, bundle, process, clients, signals, now, stamps>>

\* A restart: a new process, with nothing in memory.
Respawn ==
  /\ proc = "gone"
  /\ ~ended
  /\ exit = Restart
  /\ Len(Recent) <= Threshold
  /\ stamps' = Recent
  /\ proc' = "serving"
  /\ exit' = 0
  /\ requested' = FALSE
  /\ stopping' = FALSE
  /\ timers' = 0
  /\ saves' = 0
  /\ conn' = [c \in Client |-> "out"]
  /\ count' = 0
  /\ pending' = StartupGrace(Recent)
  /\ UNCHANGED <<bound, bundle, signals, now, ended>>

Tick ==
  /\ now < bound.time
  /\ ~ended
  /\ now' = now + 1
  /\ UNCHANGED <<bound, bundle, process, clients, signals, supervisor>>

\* The supervisor has returned: nothing is left to run.
Over == ended /\ UNCHANGED vars

-----------------------------------------------------------------------------
(* Properties.                                                              *)

Connected == {c \in Client : conn[c] # "out"}

\* AutoShutdown never shuts the agent down under a connected browser, however
\* connects, reconnects and late handler ends interleave with its timer.
NeverQuitsOnLiveClient ==
  [][pending # "none" /\ pending' = "none" /\ stopping' /\ ~stopping
     => Connected = {}]_vars

\* The bundle does not linger: when browsers stay away for good, the process --
\* a respawned one too -- ends, and its supervisor with it.
BundleQuits == bundle /\ <>[](Connected = {}) => <>ended

\* One request to restart is honoured: unless a signal or another request comes
\* in between, the process exits with the restart code, whatever becomes of the
\* browser that asked for it and of AutoShutdown's timer.
RestartHonoured ==
  (requested /\ saves = 1 /\ signals = 0)
    ~> ((proc = "gone" /\ exit = Restart) \/ saves > 1 \/ signals > 0)
=============================================================================
