----------------------------- MODULE MCStartup -----------------------------
(* Instances of Startup for TLC.                                             *)
EXTENDS Startup

CONSTANTS c1, c2, a, b

\* The process with nothing to bring up; a fresh install, restarted; and
\* a paired one whose pages are followed.
MCBounds ==
  {[time |-> 3, saves |-> 2, signals |-> 1, clients |-> {c1, c2},
    bundles |-> BOOLEAN, faults |-> 0, roon |-> FALSE, fresh |-> FALSE,
    pages |-> FALSE],
   [time |-> 0, saves |-> 1, signals |-> 0, clients |-> {c1},
    bundles |-> {FALSE}, faults |-> 1, roon |-> TRUE, fresh |-> TRUE,
    pages |-> FALSE],
   [time |-> 0, saves |-> 0, signals |-> 0, clients |-> {c1, c2},
    bundles |-> {FALSE}, faults |-> 1, roon |-> TRUE, fresh |-> FALSE,
    pages |-> TRUE]}
=============================================================================
