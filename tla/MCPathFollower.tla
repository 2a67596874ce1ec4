---------------------------- MODULE MCPathFollower ----------------------------
(* Instances of PathFollower for TLC.                                        *)
EXTENDS PathFollower

CONSTANTS long, short, empty, bad

MCPaths == {long, short, empty, bad}
MCMalformed == {bad}
MCSize == [p \in MCPaths |-> IF p = long THEN 2 ELSE IF p = empty THEN 0 ELSE 1]
=============================================================================
