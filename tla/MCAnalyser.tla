----------------------------- MODULE MCAnalyser -----------------------------
(* Two conversations of yesterday in one batch, one of them too large for   *)
(* any model, and two findings an operator disputes.                         *)
EXTENDS Analyser
CONSTANTS c1, c2, f1, f2, o1
MCOrder == <<c1, c2>>
MCDated == c1 :> 0 @@ c2 :> 0
MCAnswers == {f1 :> 2 @@ f2 :> 1, f1 :> 1 @@ f2 :> 0}
=============================================================================
