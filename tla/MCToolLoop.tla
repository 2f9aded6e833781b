----------------------------- MODULE MCToolLoop -----------------------------
(* The instance of ToolLoop for TLC; ToolLoop.cfg gives its values.          *)
EXTENDS ToolLoop, TLC
=============================================================================
