---------------------------- MODULE RequestReply ----------------------------
(***************************************************************************)
(* What the Roon layer's callers are promised of browse_browse and          *)
(* browse_load, however many threads call at once: a call ends, with the    *)
(* answer to its own request or with None.  Only a call that is waiting     *)
(* when its connection is replaced may be told another's.                   *)
(***************************************************************************)
CONSTANT Call

VARIABLE outcome  \* per call: not made, asked, asked over a connection that
                  \* was replaced, its answer, another's, or None

Outcomes == {"idle", "asked", "astray", "own", "foreign", "none"}

Init == outcome = [c \in Call |-> "idle"]

Becomes(c, from, to) ==
  outcome[c] = from /\ outcome' = [outcome EXCEPT ![c] = to]

Ask(c) == Becomes(c, "idle", "asked")
Answer(c) == Becomes(c, "asked", "own")
GiveUp(c) == Becomes(c, "asked", "none") \/ Becomes(c, "astray", "none")
Refuse(c) == Becomes(c, "idle", "none")
Mislead(c) == Becomes(c, "astray", "foreign")

\* The connection is replaced under those that wait.
Outlive(S) ==
  /\ \A c \in S : outcome[c] = "asked"
  /\ outcome' = [c \in Call |-> IF c \in S THEN "astray" ELSE outcome[c]]

Next ==
  \/ \E c \in Call : Ask(c) \/ Answer(c) \/ GiveUp(c) \/ Refuse(c) \/ Mislead(c)
  \/ \E S \in SUBSET Call : Outlive(S)

\* What no step may do, and what must come.
Safety == Init /\ [][Next]_outcome

Spec ==
  /\ Safety
  /\ \A c \in Call : WF_outcome(Answer(c) \/ GiveUp(c) \/ Mislead(c))
=============================================================================
