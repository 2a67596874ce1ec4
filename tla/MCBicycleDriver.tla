--------------------------- MODULE MCBicycleDriver ---------------------------
(* Instances of BicycleDriver for TLC.                                      *)
EXTENDS BicycleDriver

CONSTANTS slow, fast, t1, t2

MCCommands == {slow, fast}
MCCallers == {t1, t2}
=============================================================================
