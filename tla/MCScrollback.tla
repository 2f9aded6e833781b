---------------------------- MODULE MCScrollback ----------------------------
(* Instances of Scrollback for TLC.                                          *)
EXTENDS Scrollback

CONSTANTS r1, r2, r3

MCOrder == <<r1, r2, r3>>
MCBusyTimes == {<<0, 0, 3, 4>>}
=============================================================================
