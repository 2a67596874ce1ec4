------------------------- MODULE MCComponentStatus -------------------------
(* Instances of ComponentStatus for TLC.                                    *)
EXTENDS ComponentStatus

CONSTANTS main, hw, text

MCNames == {main, hw}
MCIntervals == {0, 1}
MCMessages == {text}
MCPunctual == {hw}
=============================================================================
