------------------------------ MODULE JobPool ------------------------------
(***************************************************************************)
(* What hydroiceutil::JobQueue promises its users (jobqueue.h, the class   *)
(* comment and the comments of stop() and add()): jobs are taken up in the *)
(* order in which they were accepted, each by one worker and once; closing *)
(* the pool discards what has not been taken up and takes in nothing more, *)
(* and the pool is closed only when every job it took up has ended.        *)
(* No thread, lock or wake-up appears here: JobQueue is shown to implement *)
(* this module.                                                            *)
(***************************************************************************)
EXTENDS Naturals, Sequences, FiniteSets

CONSTANTS Jobs,         \* the jobs that may be submitted
          Slots         \* how many jobs the pool may run at a time

VARIABLES queue,        \* accepted and not taken up, oldest first
          underWay,     \* taken up and not ended
          ended,        \* ran to their end, by return or by exception
          dropped,      \* accepted, then discarded by closing the pool
          gate          \* "open", "closing" or "closed"

poolVars == <<queue, underWay, ended, dropped, gate>>

Queued == {queue[i] : i \in DOMAIN queue}

Init ==
  /\ queue = <<>>
  /\ underWay = {}
  /\ ended = {}
  /\ dropped = {}
  /\ gate = "open"

Accept(j) ==
  /\ gate = "open"
  /\ j \notin Queued \cup underWay \cup ended \cup dropped
  /\ queue' = Append(queue, j)
  /\ UNCHANGED <<underWay, ended, dropped, gate>>

TakeUp ==
  /\ queue # <<>>
  /\ Cardinality(underWay) < Slots
  /\ underWay' = underWay \cup {Head(queue)}
  /\ queue' = Tail(queue)
  /\ UNCHANGED <<ended, dropped, gate>>

End(j) ==
  /\ j \in underWay
  /\ underWay' = underWay \ {j}
  /\ ended' = ended \cup {j}
  /\ UNCHANGED <<queue, dropped, gate>>

Close ==
  /\ gate = "open"
  /\ gate' = "closing"
  /\ dropped' = dropped \cup Queued
  /\ queue' = <<>>
  /\ UNCHANGED <<underWay, ended>>

Closed ==
  /\ gate = "closing"
  /\ underWay = {}
  /\ gate' = "closed"
  /\ UNCHANGED <<queue, underWay, ended, dropped>>

Next ==
  \/ \E j \in Jobs : Accept(j) \/ End(j)
  \/ TakeUp
  \/ Close
  \/ Closed

Spec == Init /\ [][Next]_poolVars
=============================================================================
