--------------------------- MODULE MCSegwayDrive ---------------------------
(* Instances of SegwayDrive for TLC.                                        *)
EXTENDS SegwayDrive, TLC

CONSTANTS ice1, ice2

MCTwoThreads == {ice1, ice2}
MCSymmetry == Permutations(MCTwoThreads)

\* forward, and turning on the spot
MCCommands == {[v |-> MaxSpeed, w |-> 0], [v |-> 0, w |-> 1]}

\* States that differ only in what is never read again are one: the command of a call
\* that has returned, and what Begin(b) is going to overwrite when it starts anew. No
\* property reads it either: they are about bases that are operated, or about steps
\* that change what was sent.
MCView ==
  <<main, estopVars, turnOf, [d \in {e \in Dispatchers : ~Idle(e)} |-> task[d]], pc,
    [b \in {c \in Bases : Operating(c)} |->
       <<store[b], setPoint[b], speed[b], w[b], lag[b], dt[b], timer[b], sent[b]>>],
    clocks>>
=============================================================================
