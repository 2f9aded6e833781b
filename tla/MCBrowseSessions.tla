-------------------------- MODULE MCBrowseSessions --------------------------
(* Instances of BrowseSessions for TLC.                                      *)
EXTENDS BrowseSessions, TLC

CONSTANTS t1, t2, x, y

Symmetry == Permutations(Thread) \cup Permutations(Search)
=============================================================================
