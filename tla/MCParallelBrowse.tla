-------------------------- MODULE MCParallelBrowse --------------------------
(* Instances of ParallelBrowse for TLC.                                      *)
EXTENDS ParallelBrowse, TLC

CONSTANTS c1, c2, l1, l2
=============================================================================
