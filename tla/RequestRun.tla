----------------------------- MODULE RequestRun -----------------------------
(***************************************************************************)
(* What a user is promised of a request once its tool loop has begun: the   *)
(* model is asked a bounded number of times, a cancel stops the asking at   *)
(* the next step, and the request ends.                                     *)
(***************************************************************************)
EXTENDS Naturals

CONSTANTS Req, Limit

VARIABLES outcome,    \* of each request: none yet, or how it ended
          asks,       \* completions asked of the model for it
          cancelled   \* whether the user has cancelled it

vars == <<outcome, asks, cancelled>>

Init ==
  /\ outcome = [r \in Req |-> "none"]
  /\ asks = [r \in Req |-> 0]
  /\ cancelled = [r \in Req |-> FALSE]

Running(r) == outcome[r] = "none"

\* A step asks once, a cancelled request none; after the last step comes one
\* question more, for a text.
Ask(r) ==
  /\ Running(r)
  /\ asks[r] < Limit => ~cancelled[r]
  /\ asks[r] <= Limit
  /\ asks' = [asks EXCEPT ![r] = @ + 1]
  /\ UNCHANGED <<outcome, cancelled>>

Outcomes(r) ==
  {"error"} \cup (IF cancelled[r] THEN {"interrupted"} ELSE {})
            \cup (IF asks[r] = Limit + 1 THEN {"step_limit"} ELSE {})
            \cup (IF asks[r] \in 1 .. Limit THEN {"completion"} ELSE {})

End(r) ==
  /\ Running(r)
  /\ \E o \in Outcomes(r) : outcome' = [outcome EXCEPT ![r] = o]
  /\ UNCHANGED <<asks, cancelled>>

Cancel(r) ==
  /\ Running(r)
  /\ cancelled' = [cancelled EXCEPT ![r] = TRUE]
  /\ UNCHANGED <<outcome, asks>>

Next == \E r \in Req : Ask(r) \/ End(r) \/ Cancel(r)

\* What no step may do, and what must come.
Safety == Init /\ [][Next]_vars

Spec ==
  /\ Safety
  /\ \A r \in Req : (asks[r] > 0) ~> ~Running(r)
=============================================================================
