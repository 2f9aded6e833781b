------------------------------ MODULE Settings ------------------------------
(* Settings and their validation (app/settings): the .env file, os.environ,  *)
(* the cached Settings, ConfigValidator, the boot that waits for its verdict *)
(* and the poller of backends.  File, environment and cache are three copies *)
(* that save, reload, validation, boot and poller read at times of their     *)
(* own.  One optional agent beside the coordinator stands for the others; an *)
(* API key belongs to the model spec it is used with, and the provider of    *)
(* web search to its URL.                                                    *)
EXTENDS Naturals, Sequences

CONSTANTS
  Provider,     \* LLM providers
  Unset,
  Handler,      \* connections whose settings requests run at the same time
  Scenes        \* bounds, one of which a behaviour keeps: the .env file it starts
                \* from, what a save may write (sequences of keys with their
                \* values), the services that start and stop, how many saves and
                \* reloads there are, and how many processes

ASSUME SettingsAssumption ==
  /\ Unset \notin Provider
  /\ \A s \in Scenes : /\ s.services \subseteq {"search", "tts"}
                      /\ s.saves \in Nat /\ s.lives \in Nat \ {0}

VARIABLES
  file,         \* the .env file
  environ,      \* os.environ
  cached,       \* _cached of get_settings
  loading,      \* settings that readers have built and not yet assigned to it
  stale,        \* what was assigned to it since it was emptied was out of date
  save,         \* what each handler's settings request is doing
  submitted,    \* settings requests so far
  waiting,      \* validations waiting for ConfigValidator._lock
  running,      \* the validation that holds it
  status,       \* ConfigValidator._status
  about,        \* the settings of the last verdict
  excused,      \* why the last change may have gone without a validation
  boot,         \* the Roon init thread
  built,        \* the settings the LLM clients and tools were built from
  poll,         \* the poller's pass over the backends
  up,           \* which services answer
  life,
  scene         \* the bounds of this behaviour

disk == <<file, up>>
lives == <<life, scene>>
cache == <<cached, loading, stale>>
memory == <<environ, cache, save, waiting, running, status, about, excused,
            boot, built, poll>>
settings == <<disk, memory, submitted, lives>>

Url == {"url", "malformed"}
Env == [LLM_MODEL : Provider \cup {Unset}, LLM_MODEL_ARBITER : Provider \cup {Unset},
        SEARXNG_URL : Url \cup {Unset}, TTS_URL : Url \cup {Unset}]
Agents == {"coordinator", "arbiter"}

\* The backends, in the order active_backend_checks lists them.
Backends == <<"search", "tts">>
Backend == {"search", "tts"}
UrlOf(s, b) == IF b = "search" THEN s.SEARXNG_URL ELSE s.TTS_URL
Active(s) == SelectSeq(Backends, LAMBDA b : UrlOf(s, b) # Unset)

Idle == [step |-> "idle", todo |-> <<>>, copy |-> Unset]
Unchecked == [state |-> "open", results |-> {}, pending |-> FALSE,
              backends |-> [b \in Backend |-> "none"]]
NotPolling == [todo |-> <<>>, of |-> Unset, row |-> "none"]
NotRunning == [who |-> "nobody"]

SettingsTypeOK ==
  /\ file \in Env /\ environ \in Env
  /\ cached \in Env \cup {Unset} /\ loading \subseteq Env /\ built \in Env \cup {Unset}
  /\ about \in Env \cup {Unset}
  /\ \A h \in Handler : save[h].step \in
       {"idle", "writing", "replacing", "reloading", "resetting", "answering"}
  /\ \A i \in DOMAIN waiting : waiting[i] \in {"boot", "save"}
  /\ running.who \in {"nobody", "boot", "save"}
  /\ status.state \in {"open", "validating", "failed", "passed"}
  /\ status.backends \in [Backend -> {"none", "ok", "down"}]
  /\ status.pending \in BOOLEAN
  /\ boot \in {"starting", "validating", "building", "awaiting_config", "failed",
               "paired"}
  /\ poll.row \in {"none", "ok", "down", "raised", "dead"}
  /\ excused \subseteq {"reload", "unheard"}
  /\ up \in [Backend -> BOOLEAN]
  /\ scene \in Scenes
  /\ submitted \in 0 .. scene.saves /\ life \in 1 .. scene.lives
------------------------------------------------------------------------------
(* Settings.                                                                 *)

\* get_settings finds the cache empty and builds settings from os.environ ...
Load ==
  /\ cached = Unset
  /\ loading' = loading \cup {environ}
  /\ UNCHANGED <<disk, environ, cached, save, submitted, waiting, running, status,
                 about, excused, boot, built, poll, stale, lives>>

\* ... which it assigns later, whatever the environment and the cache are by
\* then; a cache that is filled is returned as it is.
Reads(s) ==
  \/ cached # Unset /\ s = cached /\ UNCHANGED cache
  \/ /\ s \in loading
     /\ cached' = s /\ loading' = loading \ {s}
     /\ stale' = (stale \/ s # environ)

\* What a reader may be given.
Seen == ({cached} \ {Unset}) \cup loading

\* Settings.model_for
ModelFor(s, a) ==
  IF a = "arbiter" /\ s.LLM_MODEL_ARBITER # Unset
  THEN s.LLM_MODEL_ARBITER ELSE s.LLM_MODEL

\* required_config_missing
Missing(s) == ModelFor(s, "coordinator") = Unset

\* _collect_unique_tuples
Tuples(s) == {ModelFor(s, a) : a \in Agents} \ {Unset}

\* load_dotenv(override = True): what the file lacks stays in os.environ.
Reloaded == [k \in DOMAIN file |-> IF file[k] = Unset THEN environ[k] ELSE file[k]]

SettingsInit ==
  /\ scene \in Scenes
  /\ file = scene.file /\ environ = file
  /\ cached = Unset /\ loading = {} /\ stale = FALSE
  /\ save = [h \in Handler |-> Idle] /\ submitted = 0
  /\ waiting = <<>> /\ running = NotRunning
  /\ status = Unchecked /\ about = Unset /\ excused = {}
  /\ boot = "starting" /\ built = Unset
  /\ poll = NotPolling
  /\ up \in [Backend -> BOOLEAN] /\ \A b \in Backend \ scene.services : up[b]
  /\ life = 1
------------------------------------------------------------------------------
(* Save and reload: a thread per handler.                                    *)

\* Mutant: a validation that runs is taken to do for this save as well.
QueueUnlessRunning(who) ==
  IF running.who = "nobody" THEN Append(waiting, who) ELSE waiting

\* A task of its own that waits for the validator's lock.
Queue(who) == Append(waiting, who)

\* handle_save; updates that are empty go straight to the answer.
Save(h) ==
  \E u \in scene.updates :
    /\ save[h].step = "idle" /\ submitted < scene.saves
    /\ submitted' = submitted + 1
    /\ save' = [save EXCEPT ![h] =
                  [step |-> IF u = <<>> THEN "answering" ELSE "writing",
                   todo |-> u, copy |-> Unset]]
    /\ UNCHANGED <<disk, environ, cache, waiting, running, status, about, excused,
                   boot, built, poll, lives>>

\* set_key and unset_key: one key at a time, the whole file read and replaced.
ReadFile(h) ==
  /\ save[h].step = "writing"
  /\ save[h].todo # <<>>
  /\ save' = [save EXCEPT ![h].step = "replacing", ![h].copy = file]
  /\ UNCHANGED <<disk, environ, cache, submitted, waiting, running, status, about,
                 excused, boot, built, poll, lives>>

ReplaceFile(h) ==
  /\ save[h].step = "replacing"
  /\ LET update == Head(save[h].todo)
     IN  file' = [save[h].copy EXCEPT ![update.key] = update.value]
  /\ save' = [save EXCEPT ![h] =
                [step |-> IF Len(save[h].todo) = 1 THEN "reloading" ELSE "writing",
                 todo |-> Tail(save[h].todo), copy |-> Unset]]
  /\ UNCHANGED <<up, environ, cache, submitted, waiting, running, status, about,
                 excused, boot, built, poll, lives>>

\* An OSError: some keys are in the file, and nothing is reloaded.
WriteFails(h) ==
  /\ save[h].step = "replacing"
  /\ save' = [save EXCEPT ![h] = Idle]
  /\ UNCHANGED <<disk, environ, cache, submitted, waiting, running, status, about,
                 excused, boot, built, poll, lives>>

ReloadEnv(h) ==
  /\ save[h].step = "reloading"
  /\ environ' = Reloaded
  /\ save' = [save EXCEPT ![h].step = "resetting"]
  /\ UNCHANGED <<disk, cache, submitted, waiting, running, status, about, excused,
                 boot, built, poll, lives>>

ResetCache(h) ==
  /\ save[h].step = "resetting"
  /\ cached' = Unset /\ stale' = FALSE
  /\ save' = [save EXCEPT ![h].step = "answering"]
  /\ UNCHANGED <<disk, environ, loading, submitted, waiting, running, status, about,
                 excused, boot, built, poll, lives>>

\* The answer names what is missing.  Sent, it starts a validation of its own;
\* a client that is gone makes the send raise, which skips that.
Answer(h) ==
  /\ save[h].step = "answering"
  /\ save' = [save EXCEPT ![h] = Idle]
  /\ \E s \in Seen : Reads(s)
  /\ \/ waiting' = Queue("save") /\ excused' = {}
     \/ excused' = excused \cup {"unheard"} /\ UNCHANGED waiting
  /\ UNCHANGED <<disk, environ, submitted, running, status, about, boot, built, poll,
                 lives>>

\* handle_reload: the environment changes and nothing is validated.
Reload(h) ==
  /\ save[h].step = "idle" /\ submitted < scene.saves
  /\ submitted' = submitted + 1
  /\ environ' = Reloaded
  /\ cached' = Unset /\ stale' = FALSE
  /\ excused' = excused \cup {"reload"}
  /\ UNCHANGED <<disk, loading, save, waiting, running, status, about, boot, built, poll,
                 lives>>
------------------------------------------------------------------------------
(* ConfigValidator.                                                          *)

\* validate with the lock just taken.
Start ==
  /\ running.who = "nobody" /\ waiting # <<>>
  /\ \E s \in Seen :
       /\ Reads(s)
       /\ running' = [who |-> Head(waiting), stage |-> "checking", of |-> s]
  /\ waiting' = Tail(waiting)
  /\ status' = [status EXCEPT !.state = "validating", !.results = {}]
  /\ UNCHANGED <<disk, environ, save, submitted, about, excused, boot, built, poll,
                 lives>>

\* The probe of a backend: absent, an answer, or an exception, which a
\* malformed URL is for the search service; that of TTS is parsed first.
ProbeOf(s, b) ==
  CASE UrlOf(s, b) = Unset -> "none"
    [] UrlOf(s, b) = "malformed" -> IF b = "search" THEN "raised" ELSE "down"
    [] OTHER -> IF up[b] THEN "ok" ELSE "down"

\* update_backend
Row(b, row) == status' = [status EXCEPT !.backends[b] = row]

\* Every distinct provider is asked, and every backend probed.
Check ==
  /\ running.who # "nobody" /\ running.stage = "checking"
  /\ \E good \in SUBSET Tuples(running.of) :
       running' = [who |-> running.who, stage |-> "checked", of |-> running.of,
                   good |-> good,
                   backends |-> [b \in Backend |-> ProbeOf(running.of, b)]]
  /\ UNCHANGED <<disk, environ, cache, save, submitted, waiting, status, about,
                 excused, boot, built, poll, lives>>

\* _build_agent_result
Result(s, a, good) ==
  LET its == ModelFor(s, a)
  IN [agent |-> a, provider |-> its, ok |-> its \in good]

Results == {Result(running.of, a, running.good) : a \in Agents}
CoordinatorFailed ==
  \E r \in Results : r.agent = "coordinator" /\ ~r.ok

Raised == \E b \in Backend : running.backends[b] = "raised"

\* What the boot thread does when its validation ends; Unset: it raised.
AfterBoot(verdict) == IF verdict = "failed" THEN "awaiting_config" ELSE "building"

\* The verdict, and, for a save, set_pending_restart.
Conclude ==
  /\ running.who # "nobody" /\ running.stage = "checked"
  /\ ~Raised
  /\ LET verdict == IF CoordinatorFailed THEN "failed" ELSE "passed"
     IN  /\ status' = [state |-> verdict, results |-> Results,
                       backends |-> running.backends,
                       pending |-> IF running.who = "save" THEN verdict = "passed"
                                   ELSE status.pending]
         /\ boot' = IF running.who = "boot" THEN AfterBoot(verdict) ELSE boot
  /\ about' = running.of
  /\ running' = NotRunning
  /\ UNCHANGED <<disk, environ, cache, save, submitted, waiting, excused, built,
                 poll, lives>>

Unlock == NotRunning

\* A check raises out of gather: the status stays as Start left it.
Abort ==
  /\ running.who # "nobody" /\ running.stage = "checked"
  /\ Raised
  /\ running' = Unlock
  /\ boot' = IF running.who = "boot" THEN AfterBoot(Unset) ELSE boot
  /\ UNCHANGED <<disk, environ, cache, save, submitted, waiting, status, about,
                 excused, built, poll, lives>>

\* mark_provider_failed: a call of a live client is refused for good.
MarkFailed ==
  \E p \in Provider :
    /\ built # Unset /\ p \in Tuples(built)
    /\ \E r \in status.results : r.provider = p /\ r.ok
    /\ status' = [status EXCEPT
                    !.state = "failed", !.pending = FALSE,
                    !.results = {IF r.provider = p THEN [r EXCEPT !.ok = FALSE] ELSE r :
                                 r \in status.results}]
    /\ UNCHANGED <<disk, environ, cache, save, submitted, waiting, running, about,
                   excused, boot, built, poll, lives>>
------------------------------------------------------------------------------
(* Backends.                                                                 *)

\* A pass of the poller, over the backends the settings name now ...
PollOnce ==
  /\ poll = NotPolling
  /\ \E s \in Seen :
       /\ Reads(s)
       /\ Active(s) # <<>>
       /\ poll' = [todo |-> Active(s), of |-> s, row |-> "none"]
  /\ UNCHANGED <<disk, environ, save, submitted, waiting, running, status, about,
                 excused, boot, built, lives>>

\* ... one at a time: it is probed, which takes its time ...
Probe ==
  /\ poll.todo # <<>> /\ poll.row = "none"
  /\ poll' = [poll EXCEPT !.row = ProbeOf(poll.of, Head(poll.todo))]
  /\ UNCHANGED <<disk, environ, cache, save, submitted, waiting, running, status, about,
                 excused, boot, built, lives>>

\* ... and reported.
Update ==
  /\ poll.row \in {"ok", "down"}
  /\ Row(Head(poll.todo), poll.row)
  /\ poll' = IF Len(poll.todo) = 1 THEN NotPolling
             ELSE [poll EXCEPT !.todo = Tail(poll.todo), !.row = "none"]
  /\ UNCHANGED <<disk, environ, cache, save, submitted, waiting, running, about,
                 excused, boot, built, lives>>

\* Mutant: the poller's thread ends with its first exception.
DiesOfRaise == [NotPolling EXCEPT !.row = "dead"]
\* The loop catches it, outside the pass: what is left of the pass is lost.
AfterRaise == NotPolling

ProbeRaises ==
  /\ poll.row = "raised"
  /\ poll' = AfterRaise
  /\ UNCHANGED <<disk, environ, cache, save, submitted, waiting, running, status, about,
                 excused, boot, built, lives>>

\* The Test button, on values that are saved: an exception is an error too.
TestBackend ==
  \E b \in Backend :
    /\ ProbeOf(file, b) # "none"
    /\ Row(b, IF ProbeOf(file, b) = "ok" THEN "ok" ELSE "down")
    /\ UNCHANGED <<disk, environ, cache, save, submitted, waiting, running, about,
                   excused, boot, built, poll, lives>>

\* A web search fails, with the settings its tool was built from.
SearchFails ==
  /\ built # Unset /\ ProbeOf(built, "search") \in {"down", "raised"}
  /\ Row("search", "down")
  /\ UNCHANGED <<disk, environ, cache, save, submitted, waiting, running, about,
                 excused, boot, built, poll, lives>>

ServiceChanges ==
  \E b \in scene.services :
    /\ up' = [up EXCEPT ![b] = ~up[b]]
    /\ UNCHANGED <<file, memory, submitted, lives>>
------------------------------------------------------------------------------
(* The process.                                                              *)

\* Any of the many other readers of the settings.
Read ==
  /\ \E s \in Seen : Reads(s)
  /\ UNCHANGED <<disk, environ, save, submitted, waiting, running, status, about,
                 excused, boot, built, poll, lives>>

\* _start_roon_init_async: without the required settings nothing is started.
Boot ==
  /\ boot = "starting"
  /\ \E s \in Seen :
       /\ Reads(s)
       /\ boot' = IF Missing(s) THEN "awaiting_config" ELSE "validating"
       /\ waiting' = IF Missing(s) THEN waiting ELSE Queue("boot")
  /\ UNCHANGED <<disk, environ, save, submitted, running, status, about, excused,
                 built, poll, lives>>

\* ensure_initialised by the boot thread; Roon may not answer.
Build ==
  /\ boot = "building"
  /\ \E s \in Seen :
       /\ Reads(s)
       /\ \/ built' = (IF built = Unset THEN s ELSE built) /\ boot' = "paired"
          \/ built = Unset /\ boot' = "failed" /\ UNCHANGED built
  /\ UNCHANGED <<disk, environ, save, submitted, waiting, running, status, about,
                 excused, poll, lives>>

\* ensure_initialised by a chat request that comes before, or instead.
ChatBuilds ==
  /\ built = Unset /\ boot # "starting"
  /\ \E s \in Seen : Reads(s) /\ ~Missing(s) /\ built' = s
  /\ UNCHANGED <<disk, environ, save, submitted, waiting, running, status, about,
                 excused, boot, poll, lives>>

\* The process ends, anywhere, and the supervisor starts another.
NewProcess ==
  /\ life < scene.lives
  /\ life' = life + 1
  /\ environ' = file
  /\ cached' = Unset /\ loading' = {} /\ stale' = FALSE
  /\ save' = [h \in Handler |-> Idle]
  /\ waiting' = <<>> /\ running' = NotRunning
  /\ status' = Unchecked /\ about' = Unset /\ excused' = {}
  /\ boot' = "starting" /\ built' = Unset
  /\ poll' = NotPolling
  /\ UNCHANGED <<disk, submitted, scene>>

SaveSteps(h) ==
  ReadFile(h) \/ ReplaceFile(h) \/ ReloadEnv(h) \/ ResetCache(h) \/ Answer(h)
Validates == Start \/ Check \/ Conclude \/ Abort
Polls == PollOnce \/ Probe \/ Update \/ ProbeRaises

SettingsNext ==
  \/ \E h \in Handler : Save(h) \/ SaveSteps(h) \/ WriteFails(h) \/ Reload(h)
  \/ Validates
  \/ MarkFailed
  \/ Polls \/ TestBackend \/ SearchFails \/ ServiceChanges
  \/ Load \/ Read
  \/ Boot \/ Build \/ ChatBuilds \/ NewProcess

SettingsFairness ==
  /\ \A h \in Handler : WF_settings(SaveSteps(h))
  /\ WF_settings(Validates) /\ WF_settings(Boot) /\ WF_settings(Build)
  /\ WF_settings(Polls) /\ WF_settings(Load)

SettingsSpec == SettingsInit /\ [][SettingsNext]_settings
SettingsFairSpec == SettingsSpec /\ SettingsFairness
------------------------------------------------------------------------------
(* Properties.                                                               *)

Quiet ==
  running.who = "nobody" /\ waiting = <<>> /\ \A h \in Handler : save[h].step = "idle"

Verdict == status.state \in {"passed", "failed"}

\* However saves, partial writes and validations overlap, once all is quiet the
\* verdict shown is one on the settings the process has, unless what changed
\* them last validates nothing (a reload, a save whose answer found no client)
\* or get_settings was left with settings read before the change.
VerdictIsCurrent ==
  Quiet /\ Verdict /\ excused = {} /\ ~stale => about = environ

Healthy(b) == up[b] /\ UrlOf(environ, b) = "url" /\ cached \in {Unset, environ}

\* "re-probed on a timer so the Settings UI auto-recovers when a service comes
\* back": with a service that stays up under a good URL, the row turns green
\* again and again, whatever raised in the poller before, as long as no backend
\* ahead of it in the pass goes on raising.
BackendRecovers ==
  \A b \in Backend :
    <>[](Healthy(b) /\ (b = "tts" => environ.SEARXNG_URL # "malformed"))
      => []<>(status.backends[b] = "ok")

==============================================================================
