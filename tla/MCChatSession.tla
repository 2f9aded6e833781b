--------------------------- MODULE MCChatSession ---------------------------
(* Instances of ChatSession for TLC.                                         *)
EXTENDS ChatSession, TLC

CONSTANTS c1, c2, s1, s2

\* Two tabs, each with a session of its own.
PairSession == (c1 :> s1) @@ (c2 :> s2)
=============================================================================
