----------------------------- MODULE MCSettings -----------------------------
(* Two providers and no coordinator model at first.  Saves mend the model    *)
(* and the URL, or remove a key and break the URL: two of them in one        *)
(* process, or one before or after the process is replaced.  In the last     *)
(* scene there is TTS as well, the services come and go, and one save mends. *)
EXTENDS Settings

CONSTANTS p, q, h1

Sets(k, v) == [key |-> k, value |-> v]

Broken(tts) == [LLM_MODEL |-> Unset, LLM_MODEL_ARBITER |-> p,
                SEARXNG_URL |-> "malformed", TTS_URL |-> tts]

Mends == <<Sets("LLM_MODEL", q), Sets("SEARXNG_URL", "url")>>
Breaks == <<Sets("LLM_MODEL_ARBITER", Unset), Sets("SEARXNG_URL", "malformed")>>

MCScenes ==
  { [file |-> Broken(Unset), updates |-> {Mends, Breaks}, services |-> {},
     saves |-> 2, lives |-> 1],
    [file |-> Broken(Unset), updates |-> {Mends, Breaks}, services |-> {},
     saves |-> 1, lives |-> 2],
    [file |-> Broken("url"), updates |-> {Mends}, services |-> {"search", "tts"},
     saves |-> 1, lives |-> 1] }
=============================================================================
