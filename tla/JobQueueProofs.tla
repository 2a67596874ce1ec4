--------------------------- MODULE JobQueueProofs ---------------------------
(***************************************************************************)
(* Proofs about JobQueue for any pool, any set of jobs and any bounds:     *)
(* the inductive invariant IInv, and from it the properties the runs check *)
(* on three workers and three jobs.                                        *)
(*                                                                         *)
(* Each part of IInv has a lemma that every step keeps it. Where few       *)
(* actions touch the variables of the part, its first step says which, and *)
(* only those are looked at one by one.                                    *)
(***************************************************************************)
EXTENDS JobQueue, SequenceTheorems, FiniteSetTheorems, TLAPS

-----------------------------------------------------------------------------
(* Sequences and finite sets                                                *)

\* Moving the head of one sequence to the end of the one before it leaves
\* their concatenation as it was.
LEMMA MoveHead ==
  ASSUME NEW S, NEW s \in Seq(S), NEW t \in Seq(S), t # <<>>
  PROVE  Append(s, Head(t)) \o Tail(t) = s \o t
<1>1. /\ Append(s, Head(t)) \in Seq(S)
      /\ Tail(t) \in Seq(S)
      /\ Append(s, Head(t)) \o Tail(t) \in Seq(S)
      /\ s \o t \in Seq(S)
  BY HeadTailProperties, AppendProperties, ConcatProperties
<1>2. Len(Append(s, Head(t)) \o Tail(t)) = Len(s \o t)
  BY <1>1, HeadTailProperties, AppendProperties, ConcatProperties
<1>3. ASSUME NEW i \in 1 .. Len(s \o t)
      PROVE  (Append(s, Head(t)) \o Tail(t))[i] = (s \o t)[i]
  BY <1>1, HeadTailProperties, AppendProperties, ConcatProperties
<1>4. QED
  BY <1>1, <1>2, <1>3

\* Appending to the end of the second sequence appends to the concatenation.
LEMMA PushLast ==
  ASSUME NEW S, NEW s \in Seq(S), NEW t \in Seq(S), NEW e \in S
  PROVE  s \o Append(t, e) = Append(s \o t, e)
<1>1. <<e>> \in Seq(S)
  OBVIOUS
<1>2. s \o t \in Seq(S)
  BY ConcatProperties
<1>3. s \o Append(t, e) = s \o (t \o <<e>>)
  BY AppendIsConcat
<1>4. Append(s \o t, e) = (s \o t) \o <<e>>
  BY <1>2, AppendIsConcat
<1>5. QED
  BY <1>1, <1>3, <1>4, ConcatAssociative

\* Appending adds one element to the range.
LEMMA RangeOfAppend ==
  ASSUME NEW S, NEW s \in Seq(S), NEW e \in S
  PROVE  Range(Append(s, e)) = Range(s) \cup {e}
<1>1. DOMAIN Append(s, e) = 1 .. Len(s) + 1 /\ DOMAIN s = 1 .. Len(s)
  OBVIOUS
<1>2. \A i \in 1 .. Len(s) : Append(s, e)[i] = s[i]
  BY AppendProperties
<1>3. Append(s, e)[Len(s) + 1] = e
  BY AppendProperties
<1>4. Len(s) \in Nat
  OBVIOUS
<1>5. QED
  BY <1>1, <1>2, <1>3, <1>4 DEF Range

\* A sequence without repetitions that splits in two has no element in both
\* parts: the head of the second is not in the first.
LEMMA FreshHead ==
  ASSUME NEW S, NEW s \in Seq(S), NEW t \in Seq(S), NEW u \in Seq(S), t # <<>>,
         \A i, k \in DOMAIN ((s \o t) \o u) :
           ((s \o t) \o u)[i] = ((s \o t) \o u)[k] => i = k
  PROVE  Head(t) \notin Range(s)
<1> DEFINE a == (s \o t) \o u
<1>1. /\ s \o t \in Seq(S)
      /\ a \in Seq(S)
      /\ Len(a) = Len(s) + Len(t) + Len(u)
  BY ConcatProperties
<1>2. DOMAIN a = 1 .. Len(a) /\ Len(t) > 0
  BY <1>1
<1>3. a[Len(s) + 1] = Head(t) /\ Len(s) + 1 \in DOMAIN a
  BY <1>1, <1>2, ConcatProperties
<1>4. ASSUME NEW i \in DOMAIN s
      PROVE  a[i] = s[i] /\ i \in DOMAIN a /\ i # Len(s) + 1
  BY <1>1, <1>2, ConcatProperties
<1>5. QED
  BY <1>3, <1>4 DEF Range

\* Every set of workers is finite.
LEMMA WorkersFinite ==
  ASSUME NEW C \in SUBSET Workers
  PROVE  /\ IsFiniteSet(C)
         /\ Cardinality(C) \in Nat
         /\ Cardinality(C) <= Cardinality(Workers)
         /\ \A w \in C : Cardinality(C \ {w}) = Cardinality(C) - 1
         /\ \A w \in Workers \ C : Cardinality(C \cup {w}) = Cardinality(C) + 1
BY PoolAssumption, FS_Subset, FS_CardinalityType, FS_AddElement, FS_RemoveElement

-----------------------------------------------------------------------------
(* The initial states                                                       *)

LEMMA InitIInv == Init => IInv
<1> SUFFICES ASSUME Init PROVE IInv
  OBVIOUS
<1> USE PoolAssumption DEF Init
<1>1. Cardinality(Workers) \in Nat
  BY WorkersFinite
<1>2. TypeOK
  <2>1. activeJobCount \in 0..Cardinality(Workers)
    BY <1>1
  <2>2. /\ pendingJobs \in Seq(Jobs) /\ accepted \in Seq(Jobs)
        /\ taken \in Seq(Jobs) /\ discarded \in Seq(Jobs)
    OBVIOUS
  <2>3. /\ pc \in [Workers -> PcLabels]
        /\ newJob \in [Workers -> Jobs \cup {NoJob}]
        /\ job \in [Workers -> Jobs \cup {NoJob}]
        /\ joins \in [Workers -> Nat]
    BY DEF PcLabels
  <2>4. isQueueStopping \in BOOLEAN
    OBVIOUS
  <2>5. /\ monitor \in Workers \cup {Nobody, Client}
        /\ adding \in Jobs \cup {NoJob}
        /\ stopPc \in {"idle", "signal", "cancel", "join", "stopped"}
        /\ stops \in 0..MaxStops /\ spurious \in 0..MaxSpurious
    OBVIOUS
  <2>6. /\ workerPool \subseteq Workers /\ isStopping \subseteq Workers
        /\ visited \subseteq Workers /\ controls \subseteq Workers
        /\ cancelled \subseteq Jobs /\ submitted \subseteq Jobs /\ finished \subseteq Jobs
    OBVIOUS
  <2>7. QED
    BY <2>1, <2>2, <2>3, <2>4, <2>5, <2>6 DEF TypeOK
<1>3. MonitorExclusive /\ HoldsByPlace /\ PopFindsJob /\ JoinedOnce
  BY DEF MonitorExclusive, HoldsByPlace, PopFindsJob, JoinedOnce
<1>4. ActiveCountExplained
  <2>1. Workers \in SUBSET Workers
    OBVIOUS
  <2>2. QED
    BY <2>1 DEF ActiveCountExplained, InGet
<1>5. StopOrder /\ JoinOrder
  BY DEF StopOrder, JoinOrder
<1>6. NothingLost
  BY DEF NothingLost
<1>7. NoLostWakeup /\ RunOnce
  BY DEF NoLostWakeup, Waiting, RunOnce, Holding
<1>8. AcceptedOnce
  <2>1. DOMAIN accepted = {} /\ Range(accepted) = {}
    BY DEF Range
  <2>2. QED
    BY <2>1 DEF AcceptedOnce
<1>9. QED
  BY <1>2, <1>3, <1>4, <1>5, <1>6, <1>7, <1>8 DEF IInv

-----------------------------------------------------------------------------
(* Steps                                                                    *)

\* The handover of one job, seen by the sequences: every step either moves the
\* head of the list to the jobs handed out, or appends a job to the list and to
\* the accepted jobs, or moves the whole list to the discarded ones, or touches
\* none of the four.
LEMMA SequenceSteps ==
  [Next]_vars => \/ \E w \in Workers : GetJob(w)
                 \/ \E j \in Jobs : AddPush(j)
                 \/ StopClear
                 \/ UNCHANGED <<pendingJobs, accepted, taken, discarded>>
BY DEF Next, vars, Work, StopProceeds, queueVars, historyVars, LoopTest, GetEnter,
       GetWait, GetProceed, SpuriousWake, GetRelock, GetNothing, TakeJob,
       ExecuteEnds, DropAfterReturn, DropAfterThrow, AddIgnored, AddNotify,
       StopWorker, CancelWorker, StopNotifyAll, StopJoin, StopForget, StopReturn, CountOut, MonitorFree, AfterWait, AcceptsJobs, Notify, NotifyAll, AllForgotten

\* A worker about to pop finds a job in the list.
LEMMA PopIsSafe ==
  ASSUME IInv, NEW w \in Workers, GetJob(w)
  PROVE  /\ pendingJobs # <<>>
         /\ Head(pendingJobs) \in Jobs
         /\ Tail(pendingJobs) \in Seq(Jobs)
         /\ Len(Tail(pendingJobs)) = Len(pendingJobs) - 1
         /\ Head(pendingJobs) \notin Range(taken)
<1>1. pendingJobs # <<>>
  BY DEF IInv, PopFindsJob, GetJob, At, PopFront
<1>2. pendingJobs \in Seq(Jobs) /\ taken \in Seq(Jobs) /\ discarded \in Seq(Jobs)
  BY DEF IInv, TypeOK
<1>3. \A i, k \in DOMAIN ((taken \o pendingJobs) \o discarded) :
        ((taken \o pendingJobs) \o discarded)[i] = ((taken \o pendingJobs) \o discarded)[k] => i = k
  BY DEF IInv, NothingLost, AcceptedOnce
<1>4. Head(pendingJobs) \notin Range(taken)
  BY <1>1, <1>2, <1>3, FreshHead
<1>5. QED
  BY <1>1, <1>2, <1>4, HeadTailProperties

LEMMA NothingLostStep == IInv /\ [Next]_vars => NothingLost'
<1> SUFFICES ASSUME IInv, [Next]_vars PROVE NothingLost'
  OBVIOUS
<1> USE DEF NothingLost
<1>0. /\ pendingJobs \in Seq(Jobs) /\ taken \in Seq(Jobs) /\ discarded \in Seq(Jobs)
      /\ accepted = (taken \o pendingJobs) \o discarded
      /\ taken \o pendingJobs \in Seq(Jobs)
  BY ConcatProperties DEF IInv, TypeOK
<1>1. ASSUME NEW w \in Workers, GetJob(w) PROVE NothingLost'
  <2>1. Append(taken, Head(pendingJobs)) \o Tail(pendingJobs) = taken \o pendingJobs
    BY <1>0, <1>1, PopIsSafe, MoveHead
  <2>2. QED
    BY <1>0, <1>1, <2>1 DEF GetJob, stopVars, historyVars, PopFront
<1>2. ASSUME NEW j \in Jobs, AddPush(j) PROVE NothingLost'
  <2>1. discarded = <<>>
    BY <1>2 DEF AddPush, IInv, StopOrder, AcceptsJobs, MonitorFree
  <2>2. taken \o Append(pendingJobs, j) = Append(taken \o pendingJobs, j)
    BY <1>0, PushLast
  <2>3. Append(taken \o pendingJobs, j) \in Seq(Jobs)
    BY <1>0, AppendProperties
  <2>4. accepted = taken \o pendingJobs
    BY <1>0, <2>1, ConcatEmptySeq
  <2>5. QED
    BY <1>2, <2>1, <2>2, <2>3, <2>4, ConcatEmptySeq DEF AddPush, AcceptsJobs, MonitorFree
<1>3. CASE StopClear
  <2>1. /\ taken' = taken /\ accepted' = accepted /\ pendingJobs' = <<>>
        /\ discarded' = discarded \o pendingJobs
    BY <1>3 DEF StopClear, MonitorFree
  <2>2. taken \o <<>> = taken
    BY <1>0, ConcatEmptySeq
  <2>3. CASE isQueueStopping
    <3>1. pendingJobs = <<>>
      BY <2>3 DEF IInv, StopOrder
    <3>2. QED
      BY <1>0, <2>1, <2>2, <3>1, ConcatEmptySeq
  <2>4. CASE ~isQueueStopping
    <3>1. discarded = <<>>
      BY <2>4 DEF IInv, StopOrder
    <3>2. discarded \o pendingJobs = pendingJobs /\ accepted = taken \o pendingJobs
      BY <1>0, <3>1, ConcatEmptySeq
    <3>3. QED
      BY <2>1, <2>2, <3>2
  <2>5. QED
    BY <2>3, <2>4
<1>4. CASE UNCHANGED <<pendingJobs, accepted, taken, discarded>>
  BY <1>0, <1>4
<1>5. QED
  BY <1>1, <1>2, <1>3, <1>4, SequenceSteps

\* The parts that only relate places in the code need no more than each
\* action's guard and assignments.
LEMMA MonitorStep == IInv /\ [Next]_vars => MonitorExclusive'
<1> SUFFICES ASSUME IInv, [Next]_vars PROVE MonitorExclusive'
  OBVIOUS
<1> USE PoolAssumption DEF IInv, TypeOK, MonitorExclusive, Waiting, At
<1>1. ASSUME NEW w \in Workers, Work(w) PROVE MonitorExclusive'
  BY <1>1 DEF Work, LoopTest, GetEnter, GetWait, GetProceed, GetRelock, GetNothing,
              GetJob, TakeJob, ExecuteEnds, DropAfterReturn, DropAfterThrow, CountOut, MonitorFree, AfterWait, PopFront
<1>2. ASSUME NEW w \in Workers, SpuriousWake(w) PROVE MonitorExclusive'
  BY <1>2 DEF SpuriousWake
<1>3. ASSUME NEW j \in Jobs, AddIgnored(j) \/ AddPush(j) PROVE MonitorExclusive'
  BY <1>3 DEF AddIgnored, AddPush, workerVars, AcceptsJobs, MonitorFree
<1>4. CASE AddNotify
  BY <1>4 DEF AddNotify, Notify
<1>5. CASE StopClear \/ StopNotifyAll
  BY <1>5 DEF StopClear, StopNotifyAll, workerVars, NotifyAll, MonitorFree
<1>6. CASE StopProceeds /\ ~StopNotifyAll
  BY <1>6 DEF StopProceeds, StopWorker, CancelWorker, StopJoin, StopForget, StopReturn,
              workerVars, AllForgotten
<1>7. CASE UNCHANGED vars
  BY <1>7 DEF vars, workerVars
<1>8. QED
  BY <1>1, <1>2, <1>3, <1>4, <1>5, <1>6, <1>7 DEF Next

LEMMA PlaceStep == IInv /\ [Next]_vars => HoldsByPlace'
<1> SUFFICES ASSUME IInv, [Next]_vars PROVE HoldsByPlace'
  OBVIOUS
<1> USE PoolAssumption DEF IInv, TypeOK, HoldsByPlace, Waiting, At
<1>1. ASSUME NEW w \in Workers, Work(w), ~GetJob(w) PROVE HoldsByPlace'
  BY <1>1 DEF Work, LoopTest, GetEnter, GetWait, GetProceed, GetRelock, GetNothing,
              TakeJob, ExecuteEnds, DropAfterReturn, DropAfterThrow, CountOut, MonitorFree, AfterWait
<1>2. ASSUME NEW w \in Workers, GetJob(w) PROVE HoldsByPlace'
  BY <1>2, PopIsSafe DEF GetJob, PopFront
<1>3. ASSUME NEW w \in Workers, SpuriousWake(w) PROVE HoldsByPlace'
  BY <1>3 DEF SpuriousWake
<1>4. ASSUME NEW j \in Jobs, AddIgnored(j) \/ AddPush(j) PROVE HoldsByPlace'
  BY <1>4 DEF AddIgnored, AddPush, workerVars, AcceptsJobs, MonitorFree
<1>5. CASE AddNotify \/ StopNotifyAll
  BY <1>5 DEF AddNotify, StopNotifyAll, Notify, NotifyAll, MonitorFree
<1>6. CASE StopClear \/ (StopProceeds /\ ~StopNotifyAll)
  BY <1>6 DEF StopClear, StopProceeds, StopWorker, CancelWorker, StopJoin, StopForget,
              StopReturn, workerVars, MonitorFree, AllForgotten
<1>7. CASE UNCHANGED vars
  BY <1>7 DEF vars, workerVars
<1>8. QED
  BY <1>1, <1>2, <1>3, <1>4, <1>5, <1>6, <1>7 DEF Next

LEMMA StopOrderStep == IInv /\ [Next]_vars => StopOrder'
<1> SUFFICES ASSUME IInv, [Next]_vars PROVE StopOrder'
  OBVIOUS
<1> USE PoolAssumption DEF IInv, TypeOK, StopOrder, MonitorExclusive, queueVars,
                           stopVars, historyVars
<1>0. ASSUME NEW w \in Workers, GetJob(w) PROVE StopOrder'
  BY <1>0, PopIsSafe DEF GetJob, PopFront
<1>1. ASSUME NEW w \in Workers, Work(w) \/ SpuriousWake(w), ~GetJob(w) PROVE StopOrder'
  BY <1>1 DEF Work, LoopTest, GetEnter, GetWait, GetProceed, GetRelock, GetNothing,
              TakeJob, ExecuteEnds, DropAfterReturn, DropAfterThrow, SpuriousWake, CountOut, MonitorFree, AfterWait
<1>2. ASSUME NEW j \in Jobs, AddIgnored(j) \/ AddPush(j) PROVE StopOrder'
  BY <1>2 DEF AddIgnored, AddPush, AcceptsJobs, MonitorFree
<1>3. CASE AddNotify
  BY <1>3 DEF AddNotify, Notify
<1>4. CASE StopClear
  BY <1>4 DEF StopClear, MonitorFree
<1>5. CASE StopProceeds
  BY <1>5 DEF StopProceeds, StopWorker, CancelWorker, StopNotifyAll, StopJoin,
              StopForget, StopReturn, NotifyAll, MonitorFree, AllForgotten
<1>6. CASE UNCHANGED vars
  BY <1>6 DEF vars
<1>7. QED
  BY <1>0, <1>1, <1>2, <1>3, <1>4, <1>5, <1>6 DEF Next

LEMMA PopStep == IInv /\ [Next]_vars => PopFindsJob'
<1> SUFFICES ASSUME IInv, [Next]_vars PROVE PopFindsJob'
  OBVIOUS
<1> USE PoolAssumption DEF IInv, TypeOK, PopFindsJob, MonitorExclusive, StopOrder, At,
                           Waiting, queueVars, workerVars, stopVars, historyVars
<1>0. ASSUME NEW w \in Workers, GetJob(w) PROVE PopFindsJob'
  BY <1>0 DEF GetJob, PopFront
<1>1. ASSUME NEW w \in Workers, Work(w) \/ SpuriousWake(w), ~GetJob(w) PROVE PopFindsJob'
  BY <1>1 DEF Work, LoopTest, GetEnter, GetWait, GetProceed, GetRelock, GetNothing,
              TakeJob, ExecuteEnds, DropAfterReturn, DropAfterThrow, SpuriousWake, CountOut, MonitorFree, AfterWait
<1>2. ASSUME NEW j \in Jobs, AddIgnored(j) PROVE PopFindsJob'
  BY <1>2 DEF AddIgnored, AcceptsJobs, MonitorFree
<1>3. ASSUME NEW j \in Jobs, AddPush(j) PROVE PopFindsJob'
  BY <1>3 DEF AddPush, AcceptsJobs, MonitorFree
<1>4. CASE AddNotify
  BY <1>4 DEF AddNotify, Notify
<1>5. CASE StopClear
  BY <1>5 DEF StopClear, MonitorFree
<1>6. CASE StopProceeds
  BY <1>6 DEF StopProceeds, StopWorker, CancelWorker, StopNotifyAll, StopJoin,
              StopForget, StopReturn, NotifyAll, MonitorFree, AllForgotten
<1>7. CASE UNCHANGED vars
  BY <1>7 DEF vars
<1>8. QED
  BY <1>0, <1>1, <1>2, <1>3, <1>4, <1>5, <1>6, <1>7 DEF Next

LEMMA JoinOrderStep == IInv /\ [Next]_vars => JoinOrder' /\ JoinedOnce'
<1> SUFFICES ASSUME IInv, [Next]_vars PROVE JoinOrder' /\ JoinedOnce'
  OBVIOUS
<1> USE PoolAssumption DEF IInv, TypeOK, JoinOrder, JoinedOnce, StopOrder, At, Waiting,
                           workerVars, stopVars
<1>1. ASSUME NEW w \in Workers, Work(w) \/ SpuriousWake(w)
      PROVE  JoinOrder' /\ JoinedOnce'
  <2>1. UNCHANGED <<stopVars, isStopping>> /\ UNCHANGED isQueueStopping
    BY <1>1 DEF Work, LoopTest, GetEnter, GetWait, GetProceed, GetRelock, GetNothing,
                GetJob, TakeJob, ExecuteEnds, DropAfterReturn, DropAfterThrow,
                SpuriousWake, queueVars, CountOut, MonitorFree, AfterWait, PopFront
  <2>2. /\ pc[w] # "exited"
        /\ \A u \in Workers \ {w} : pc'[u] = pc[u]
        /\ pc'[w] = "exited" => w \in isStopping
    BY <1>1 DEF Work, LoopTest, GetEnter, GetWait, GetProceed, GetRelock, GetNothing,
                GetJob, TakeJob, ExecuteEnds, DropAfterReturn, DropAfterThrow,
                SpuriousWake, CountOut, MonitorFree, AfterWait, PopFront
  <2>3. QED
    BY <2>1, <2>2
<1>2. ASSUME NEW j \in Jobs, AddIgnored(j) \/ AddPush(j)
      PROVE  JoinOrder' /\ JoinedOnce'
  BY <1>2 DEF AddIgnored, AddPush, AcceptsJobs, MonitorFree
<1>3. CASE AddNotify
  BY <1>3 DEF AddNotify, Notify
<1>4. CASE StopClear
  BY <1>4 DEF StopClear, MonitorFree
<1>5. ASSUME NEW w \in Workers, StopWorker(w) \/ CancelWorker(w)
      PROVE  JoinOrder' /\ JoinedOnce'
  BY <1>5 DEF StopWorker, CancelWorker
<1>6. CASE StopNotifyAll
  BY <1>6 DEF StopNotifyAll, NotifyAll, MonitorFree
<1>7. ASSUME NEW w \in Workers, StopJoin(w) PROVE JoinOrder' /\ JoinedOnce'
  BY <1>7 DEF StopJoin
<1>8. ASSUME NEW w \in Workers, StopForget(w) PROVE JoinOrder' /\ JoinedOnce'
  BY <1>8 DEF StopForget
<1>9. CASE StopReturn
  BY <1>9 DEF StopReturn, AllForgotten
<1>10. CASE UNCHANGED vars
  BY <1>10 DEF vars
<1>11. QED
  BY <1>1, <1>2, <1>3, <1>4, <1>5, <1>6, <1>7, <1>8, <1>9, <1>10 DEF Next, StopProceeds

\* A step of one worker changes the sets Waiting and Alert by that worker.
LEMMA WakeupStep == IInv /\ [Next]_vars => NoLostWakeup'
<1> SUFFICES ASSUME IInv, [Next]_vars PROVE NoLostWakeup'
  OBVIOUS
<1> USE PoolAssumption DEF NoLostWakeup, Waiting, Alert
<1> DEFINE n == Cardinality(Alert)
<1>0. /\ pc \in [Workers -> PcLabels] /\ pendingJobs \in Seq(Jobs)
      /\ Len(pendingJobs) \in Nat
      /\ n \in Nat
      /\ \A w \in Alert : Cardinality(Alert \ {w}) = n - 1
      /\ \A w \in Workers \ Alert : Cardinality(Alert \cup {w}) = n + 1
  <2>1. pc \in [Workers -> PcLabels] /\ pendingJobs \in Seq(Jobs)
    BY DEF IInv, TypeOK
  <2>2. Len(pendingJobs) \in Nat
    BY <2>1
  <2>3. Alert \in SUBSET Workers
    OBVIOUS
  <2>4. QED
    BY <2>1, <2>2, <2>3, WorkersFinite
<1>1. ASSUME NEW w \in Workers,
             LoopTest(w) \/ TakeJob(w) \/ ExecuteEnds(w) \/ DropAfterReturn(w) \/ DropAfterThrow(w)
      PROVE  NoLostWakeup'
  <2>1. Waiting' = Waiting /\ Alert' = Alert
    BY <1>0, <1>1 DEF LoopTest, TakeJob, ExecuteEnds, DropAfterReturn, DropAfterThrow, At
  <2>2. pendingJobs' = pendingJobs /\ monitor' = monitor
    BY <1>1 DEF LoopTest, TakeJob, ExecuteEnds, DropAfterReturn, DropAfterThrow, queueVars
  <2>3. QED
    BY <2>1, <2>2 DEF IInv
<1>2. ASSUME NEW w \in Workers, GetEnter(w) PROVE NoLostWakeup'
  <2>1. Waiting' = Waiting /\ Alert' = Alert \cup {w} /\ w \notin Alert
    BY <1>0, <1>2 DEF GetEnter, At, CountOut, MonitorFree
  <2>2. pendingJobs' = pendingJobs /\ monitor # Client
    BY <1>2 DEF GetEnter, CountOut, MonitorFree
  <2>3. Cardinality(Alert') = n + 1
    BY <1>0, <2>1
  <2>4. QED
    BY <1>0, <2>1, <2>2, <2>3 DEF IInv
<1>3. ASSUME NEW w \in Workers, GetWait(w) PROVE NoLostWakeup'
  <2>1. Len(pendingJobs') = 0
    BY <1>3 DEF GetWait, queueVars
  <2>2. Cardinality(Alert') \in Nat
    <3>1. Alert' \subseteq Workers
      OBVIOUS
    <3>2. QED
      BY <3>1, WorkersFinite
  <2>3. QED
    BY <2>1, <2>2
<1>4. ASSUME NEW w \in Workers, GetProceed(w) \/ GetRelock(w) PROVE NoLostWakeup'
  <2>1. Waiting' = Waiting /\ Alert' = Alert
    BY <1>0, <1>4 DEF GetProceed, GetRelock, At, AfterWait, MonitorFree
  <2>2. pendingJobs' = pendingJobs /\ (monitor = Client => monitor' = Client)
    BY <1>4 DEF GetProceed, GetRelock, queueVars, AfterWait, MonitorFree
  <2>3. QED
    BY <1>0, <1>4, <2>1, <2>2 DEF IInv, GetProceed, GetRelock, AfterWait, MonitorFree
<1>5. ASSUME NEW w \in Workers, SpuriousWake(w) PROVE NoLostWakeup'
  <2>1. Waiting' \subseteq Waiting /\ Alert' = Alert \cup {w} /\ w \notin Alert
    BY <1>0, <1>5 DEF SpuriousWake, At
  <2>2. pendingJobs' = pendingJobs /\ monitor' = monitor
    BY <1>5 DEF SpuriousWake, queueVars
  <2>3. Cardinality(Alert') = n + 1
    BY <1>0, <2>1
  <2>4. QED
    BY <1>0, <2>1, <2>2, <2>3 DEF IInv
<1>6. ASSUME NEW w \in Workers, GetNothing(w) PROVE NoLostWakeup'
  <2>1. Len(pendingJobs') = 0
    BY <1>6 DEF GetNothing, queueVars, IInv, StopOrder
  <2>2. Alert' \subseteq Workers
    OBVIOUS
  <2>3. Cardinality(Alert') \in Nat
    BY <2>2, WorkersFinite
  <2>4. QED
    BY <2>1, <2>3
<1>7. ASSUME NEW w \in Workers, GetJob(w) PROVE NoLostWakeup'
  <2>1. Waiting' = Waiting /\ Alert' = Alert \ {w} /\ w \in Alert
    BY <1>0, <1>7 DEF GetJob, At, PopFront
  <2>2. Len(pendingJobs') = Len(pendingJobs) - 1
    BY <1>7, PopIsSafe DEF GetJob, PopFront
  <2>3. monitor # Client
    BY <1>7 DEF GetJob, At, IInv, MonitorExclusive, PopFront
  <2>4. Cardinality(Alert') = n - 1
    BY <1>0, <2>1
  <2>5. QED
    BY <1>0, <2>1, <2>2, <2>3, <2>4 DEF IInv
<1>8. ASSUME NEW j \in Jobs, AddIgnored(j) PROVE NoLostWakeup'
  BY <1>8 DEF AddIgnored, queueVars, workerVars, IInv, AcceptsJobs, MonitorFree
<1>9. ASSUME NEW j \in Jobs, AddPush(j) PROVE NoLostWakeup'
  <2>1. Len(pendingJobs') = Len(pendingJobs) + 1
    BY <1>0, <1>9 DEF AddPush, AcceptsJobs, MonitorFree
  <2>2. pc' = pc /\ monitor' = Client /\ monitor # Client
    BY <1>9 DEF AddPush, workerVars, AcceptsJobs, MonitorFree
  <2>3. QED
    BY <1>0, <2>1, <2>2 DEF IInv
<1>10. CASE AddNotify
  <2>1. pendingJobs' = pendingJobs /\ monitor = Client
    BY <1>10 DEF AddNotify, queueVars, Notify
  <2>2. CASE Waiting = {}
    BY <1>10, <2>2 DEF AddNotify, Notify
  <2>3. ASSUME NEW w \in Waiting, pc' = [pc EXCEPT ![w] = "woken"] PROVE NoLostWakeup'
    <3>1. Alert' = Alert \cup {w} /\ w \in Workers \ Alert
      BY <1>0, <2>3
    <3>2. Cardinality(Alert') = n + 1
      BY <1>0, <3>1
    <3>3. QED
      BY <1>0, <2>1, <3>2 DEF IInv
  <2>4. QED
    BY <1>10, <2>2, <2>3 DEF AddNotify, Notify
<1>11. CASE StopClear
  <2>1. Len(pendingJobs') = 0 /\ pc' = pc
    BY <1>11 DEF StopClear, workerVars, MonitorFree
  <2>2. QED
    BY <1>0, <2>1
<1>12. CASE StopNotifyAll
  BY <1>0, <1>12 DEF StopNotifyAll, NotifyAll, MonitorFree
<1>13. ASSUME NEW w \in Workers, StopWorker(w) \/ CancelWorker(w) \/ StopJoin(w) \/ StopForget(w)
       PROVE  NoLostWakeup'
  BY <1>13 DEF StopWorker, CancelWorker, StopJoin, StopForget, queueVars, workerVars, IInv
<1>14. CASE StopReturn \/ UNCHANGED vars
  BY <1>14 DEF StopReturn, vars, queueVars, workerVars, IInv, AllForgotten
<1>15. QED
  BY <1>1, <1>2, <1>3, <1>4, <1>5, <1>6, <1>7, <1>8, <1>9, <1>10, <1>11, <1>12, <1>13, <1>14
     DEF Next, Work, StopProceeds

\* A worker is uncounted when it enters get() and counted when it leaves with a
\* job; one that leaves without a job is on its way out and stays uncounted.
LEMMA ActiveCountStep == IInv /\ [Next]_vars => ActiveCountExplained'
<1> SUFFICES ASSUME IInv, [Next]_vars PROVE ActiveCountExplained'
  OBVIOUS
<1> USE PoolAssumption DEF InGet
<1>0. pc \in [Workers -> PcLabels]
  BY DEF IInv, TypeOK
<1>1. PICK C \in SUBSET Workers :
        /\ activeJobCount = Cardinality(C)
        /\ \A w \in C : ~InGet(w)
        /\ \A w \in Workers \ C : InGet(w) \/ (w \in isStopping /\ pc[w] \in {"loop", "exited"})
  BY DEF IInv, ActiveCountExplained
<1>2. ASSUME NEW w \in Workers, GetEnter(w) PROVE ActiveCountExplained'
  <2>1. w \in C
    BY <1>0, <1>1, <1>2 DEF GetEnter, At, CountOut, MonitorFree
  <2>2. activeJobCount' = Cardinality(C \ {w})
    BY <1>1, <1>2, <2>1, WorkersFinite DEF GetEnter, CountOut, MonitorFree
  <2>3. \A u \in C \ {w} : ~InGet(u)'
    BY <1>0, <1>1, <1>2 DEF GetEnter, At, CountOut, MonitorFree
  <2>4. \A u \in Workers \ (C \ {w}) :
          InGet(u)' \/ (u \in isStopping' /\ pc'[u] \in {"loop", "exited"})
    BY <1>0, <1>1, <1>2 DEF GetEnter, At, CountOut, MonitorFree
  <2>5. QED
    BY <2>2, <2>3, <2>4 DEF ActiveCountExplained
<1>3. ASSUME NEW w \in Workers, GetJob(w) PROVE ActiveCountExplained'
  <2>1. w \in Workers \ C
    BY <1>0, <1>1, <1>3 DEF GetJob, At, PopFront
  <2>2. activeJobCount' = Cardinality(C \cup {w})
    BY <1>1, <1>3, <2>1, WorkersFinite DEF GetJob, PopFront
  <2>3. \A u \in C \cup {w} : ~InGet(u)'
    BY <1>0, <1>1, <1>3 DEF GetJob, At, PopFront
  <2>4. \A u \in Workers \ (C \cup {w}) :
          InGet(u)' \/ (u \in isStopping' /\ pc'[u] \in {"loop", "exited"})
    BY <1>0, <1>1, <1>3 DEF GetJob, At, PopFront
  <2>5. QED
    BY <2>1, <2>2, <2>3, <2>4 DEF ActiveCountExplained
<1>4. ASSUME activeJobCount' = activeJobCount,
             \A w \in C : ~InGet(w)',
             \A w \in Workers \ C :
               InGet(w)' \/ (w \in isStopping' /\ pc'[w] \in {"loop", "exited"})
      PROVE  ActiveCountExplained'
  BY <1>1, <1>4 DEF ActiveCountExplained
<1>5. ASSUME NEW w \in Workers, (Work(w) /\ ~GetEnter(w) /\ ~GetJob(w)) \/ SpuriousWake(w)
      PROVE  ActiveCountExplained'
  <2>1. activeJobCount' = activeJobCount /\ isStopping' = isStopping
    BY <1>5 DEF Work, LoopTest, GetWait, GetProceed, GetRelock, GetNothing, TakeJob,
                ExecuteEnds, DropAfterReturn, DropAfterThrow, SpuriousWake, queueVars, AfterWait, MonitorFree
  <2>2. /\ \A u \in C : ~InGet(u)'
        /\ \A u \in Workers \ C :
             InGet(u)' \/ (u \in isStopping' /\ pc'[u] \in {"loop", "exited"})
    BY <1>0, <1>1, <1>5
       DEF Work, LoopTest, GetWait, GetProceed, GetRelock, GetNothing, TakeJob,
           ExecuteEnds, DropAfterReturn, DropAfterThrow, SpuriousWake, At, AfterWait, MonitorFree
  <2>3. QED
    BY <1>4, <2>1, <2>2
<1>6. ASSUME NEW j \in Jobs, AddIgnored(j) \/ AddPush(j) PROVE ActiveCountExplained'
  BY <1>1, <1>4, <1>6 DEF AddIgnored, AddPush, queueVars, workerVars, AcceptsJobs, MonitorFree
<1>7. CASE AddNotify
  BY <1>0, <1>1, <1>4, <1>7 DEF AddNotify, queueVars, Waiting, Notify
<1>8. CASE StopClear \/ StopNotifyAll
  BY <1>0, <1>1, <1>4, <1>8 DEF StopClear, StopNotifyAll, queueVars, workerVars, Waiting, NotifyAll, MonitorFree
<1>9. ASSUME NEW w \in Workers, StopWorker(w) \/ CancelWorker(w) \/ StopJoin(w) \/ StopForget(w)
      PROVE  ActiveCountExplained'
  BY <1>1, <1>4, <1>9 DEF StopWorker, CancelWorker, StopJoin, StopForget, queueVars, workerVars
<1>10. CASE StopReturn \/ UNCHANGED vars
  BY <1>1, <1>4, <1>10 DEF StopReturn, vars, queueVars, workerVars, AllForgotten
<1>11. QED
  BY <1>2, <1>3, <1>5, <1>6, <1>7, <1>8, <1>9, <1>10 DEF Next, StopProceeds

\* What ActiveCountExplained says about the number itself.
LEMMA ActiveCountRange ==
  ActiveCountExplained => activeJobCount \in 0..Cardinality(Workers) /\ ActiveCountBounds
<1> SUFFICES ASSUME ActiveCountExplained
             PROVE  activeJobCount \in 0..Cardinality(Workers) /\ ActiveCountBounds
  OBVIOUS
<1>1. PICK C \in SUBSET Workers :
        /\ activeJobCount = Cardinality(C)
        /\ \A w \in C : ~InGet(w)
        /\ \A w \in Workers \ C : InGet(w) \/ (w \in isStopping /\ pc[w] \in {"loop", "exited"})
  BY DEF ActiveCountExplained
<1>2. Cardinality(C) \in Nat /\ Cardinality(C) <= Cardinality(Workers) /\ Cardinality(Workers) \in Nat
  BY WorkersFinite
<1> DEFINE H == {w \in Workers : Holding(w)}
           O == Workers \ (Alert \cup Waiting)
<1>3. H \in SUBSET C /\ C \in SUBSET O
  BY <1>1 DEF Holding, InGet, Alert, Waiting
<1>4. IsFiniteSet(C) /\ IsFiniteSet(O)
  BY WorkersFinite
<1>5. Cardinality(H) <= Cardinality(C) /\ Cardinality(C) <= Cardinality(O)
  BY <1>3, <1>4, FS_Subset
<1>6. QED
  BY <1>1, <1>2, <1>5 DEF ActiveCountBounds

LEMMA TypeStep == IInv /\ [Next]_vars => TypeOK'
<1> SUFFICES ASSUME IInv, [Next]_vars PROVE TypeOK'
  OBVIOUS
<1> USE PoolAssumption DEF IInv, TypeOK, PcLabels, At
<1>1. activeJobCount' \in 0..Cardinality(Workers)
  <2>1. PICK C \in SUBSET Workers : activeJobCount' = Cardinality(C)
    BY ActiveCountStep DEF ActiveCountExplained
  <2>2. Cardinality(C) \in Nat /\ Cardinality(C) <= Cardinality(Workers) /\ Cardinality(Workers) \in Nat
    BY WorkersFinite
  <2>3. QED
    BY <2>1, <2>2
<1>2. ASSUME NEW w \in Workers,
             LoopTest(w) \/ GetEnter(w) \/ GetWait(w) \/ GetProceed(w) \/ GetRelock(w) \/ GetNothing(w)
      PROVE  TypeOK'
  BY <1>1, <1>2 DEF LoopTest, GetEnter, GetWait, GetProceed, GetRelock, GetNothing,
                    queueVars, stopVars, historyVars, CountOut, MonitorFree, AfterWait
<1>3. ASSUME NEW w \in Workers, SpuriousWake(w) PROVE TypeOK'
  BY <1>1, <1>3 DEF SpuriousWake, queueVars, stopVars, historyVars
<1>4. ASSUME NEW w \in Workers, GetJob(w) PROVE TypeOK'
  <2>1. Append(taken, Head(pendingJobs)) \in Seq(Jobs)
    BY <1>4, PopIsSafe, AppendProperties
  <2>2. QED
    BY <1>1, <1>4, <2>1, PopIsSafe DEF GetJob, stopVars, PopFront
<1>5. ASSUME NEW w \in Workers, TakeJob(w) PROVE TypeOK'
  BY <1>1, <1>5 DEF TakeJob, queueVars, stopVars, historyVars
<1>6. ASSUME NEW w \in Workers, ExecuteEnds(w) PROVE TypeOK'
  BY <1>1, <1>6 DEF ExecuteEnds, queueVars, stopVars, HoldsByPlace
<1>7. ASSUME NEW w \in Workers, DropAfterReturn(w) \/ DropAfterThrow(w) PROVE TypeOK'
  BY <1>1, <1>7 DEF DropAfterReturn, DropAfterThrow, queueVars, stopVars, historyVars
<1>8. ASSUME NEW j \in Jobs, AddIgnored(j) PROVE TypeOK'
  BY <1>1, <1>8 DEF AddIgnored, queueVars, workerVars, stopVars, AcceptsJobs, MonitorFree
<1>9. ASSUME NEW j \in Jobs, AddPush(j) PROVE TypeOK'
  BY <1>1, <1>9, AppendProperties DEF AddPush, workerVars, stopVars, AcceptsJobs, MonitorFree
<1>10. CASE AddNotify
  BY <1>1, <1>10 DEF AddNotify, Waiting, queueVars, stopVars, historyVars, Notify
<1>11. CASE StopClear
  BY <1>1, <1>11, ConcatProperties DEF StopClear, workerVars, MonitorFree
<1>12. ASSUME NEW w \in Workers, StopWorker(w) \/ CancelWorker(w) PROVE TypeOK'
  BY <1>1, <1>12 DEF StopWorker, CancelWorker, queueVars, workerVars, historyVars
<1>13. ASSUME NEW w \in Workers, StopJoin(w) \/ StopForget(w) PROVE TypeOK'
  BY <1>1, <1>13 DEF StopJoin, StopForget, queueVars, workerVars, historyVars
<1>14. CASE StopNotifyAll
  BY <1>1, <1>14 DEF StopNotifyAll, Waiting, queueVars, historyVars, NotifyAll, MonitorFree
<1>15. CASE StopReturn \/ UNCHANGED vars
  BY <1>1, <1>15 DEF StopReturn, vars, queueVars, workerVars, stopVars, historyVars, AllForgotten
<1>16. QED
  BY <1>2, <1>3, <1>4, <1>5, <1>6, <1>7, <1>8, <1>9, <1>10, <1>11, <1>12, <1>13, <1>14, <1>15
     DEF Next, Work, StopProceeds

\* Jobs are submitted once, so the accepted jobs have no repetition; only a job
\* that was handed out ends.
LEMMA AcceptedStep == IInv /\ [Next]_vars => AcceptedOnce'
<1> SUFFICES ASSUME IInv, [Next]_vars PROVE AcceptedOnce'
  OBVIOUS
<1> USE DEF AcceptedOnce
<1>0. /\ accepted \in Seq(Jobs) /\ taken \in Seq(Jobs) /\ pc \in [Workers -> PcLabels]
      /\ job \in [Workers -> Jobs \cup {NoJob}]
      /\ AcceptedOnce
  BY DEF IInv, TypeOK
<1>1. ASSUME NEW w \in Workers, GetJob(w) PROVE AcceptedOnce'
  <2>1. Range(taken') = Range(taken) \cup {Head(pendingJobs)}
    BY <1>0, <1>1, PopIsSafe, RangeOfAppend DEF GetJob, PopFront
  <2>2. /\ accepted' = accepted /\ submitted' = submitted
        /\ finished' = finished /\ job' = job
    BY <1>1 DEF GetJob, PopFront
  <2>3. \A u \in Workers : pc'[u] \in {"returned", "thrown"} => pc[u] = pc'[u]
    BY <1>0, <1>1 DEF GetJob, At, PopFront
  <2>4. QED
    BY <1>0, <2>1, <2>2, <2>3
<1>2. ASSUME NEW j \in Jobs, AddPush(j) PROVE AcceptedOnce'
  <2>1. /\ accepted' = Append(accepted, j) /\ submitted' = submitted \cup {j}
        /\ j \notin Range(accepted)
        /\ UNCHANGED <<taken, finished, pc, job>>
    BY <1>0, <1>2 DEF AddPush, workerVars, AcceptsJobs, MonitorFree
  <2>2. Range(accepted') = Range(accepted) \cup {j}
    BY <1>0, <2>1, RangeOfAppend
  <2>3. \A i, k \in DOMAIN accepted' : accepted'[i] = accepted'[k] => i = k
    <3>1. DOMAIN accepted' = 1 .. Len(accepted) + 1 /\ DOMAIN accepted = 1 .. Len(accepted)
      BY <1>0, <2>1
    <3>2. \A i \in 1 .. Len(accepted) : accepted'[i] = accepted[i] /\ accepted[i] # j
      BY <1>0, <2>1, <3>1, AppendProperties DEF Range
    <3>3. accepted'[Len(accepted) + 1] = j
      BY <1>0, <2>1, AppendProperties
    <3>4. QED
      BY <1>0, <3>1, <3>2, <3>3
  <2>4. QED
    BY <1>0, <2>1, <2>2, <2>3
<1>3. ASSUME NEW w \in Workers, ExecuteEnds(w) PROVE AcceptedOnce'
  <2>1. job[w] \in Range(taken)
    BY <1>3 DEF ExecuteEnds, At, IInv, RunOnce, Holding, HeldJob
  <2>2. /\ UNCHANGED <<accepted, submitted, taken, job>>
        /\ finished' = finished \cup {job[w]}
        /\ \A u \in Workers \ {w} : pc'[u] = pc[u]
    BY <1>0, <1>3 DEF ExecuteEnds, At
  <2>3. QED
    BY <1>0, <2>1, <2>2
<1>4. ASSUME NEW w \in Workers,
             \/ LoopTest(w) \/ GetEnter(w) \/ GetWait(w) \/ GetProceed(w) \/ SpuriousWake(w)
             \/ GetRelock(w) \/ GetNothing(w) \/ TakeJob(w)
             \/ DropAfterReturn(w) \/ DropAfterThrow(w)
      PROVE  AcceptedOnce'
  BY <1>0, <1>4
     DEF LoopTest, GetEnter, GetWait, GetProceed, SpuriousWake, GetRelock, GetNothing,
         TakeJob, DropAfterReturn, DropAfterThrow, At, historyVars, CountOut, MonitorFree, AfterWait
<1>5. ASSUME NEW j \in Jobs, AddIgnored(j) PROVE AcceptedOnce'
  BY <1>0, <1>5 DEF AddIgnored, workerVars, AcceptsJobs, MonitorFree
<1>6. CASE AddNotify \/ StopNotifyAll
  BY <1>0, <1>6 DEF AddNotify, StopNotifyAll, historyVars, Waiting, Notify, NotifyAll, MonitorFree
<1>7. CASE StopClear \/ StopReturn \/ UNCHANGED vars
  BY <1>0, <1>7 DEF StopClear, StopReturn, vars, workerVars, historyVars, MonitorFree, AllForgotten
<1>8. ASSUME NEW w \in Workers, StopWorker(w) \/ CancelWorker(w) \/ StopJoin(w) \/ StopForget(w)
      PROVE  AcceptedOnce'
  BY <1>0, <1>8 DEF StopWorker, CancelWorker, StopJoin, StopForget, workerVars, historyVars
<1>9. QED
  BY <1>1, <1>2, <1>3, <1>4, <1>5, <1>6, <1>7, <1>8 DEF Next, Work, StopProceeds

\* The job a worker pops is new, and no other step gives a worker a job.
LEMMA RunOnceStep == IInv /\ [Next]_vars => RunOnce'
<1> SUFFICES ASSUME IInv, [Next]_vars PROVE RunOnce'
  OBVIOUS
<1> USE DEF RunOnce, Holding, HeldJob
<1>0. /\ taken \in Seq(Jobs) /\ pc \in [Workers -> PcLabels]
      /\ job \in [Workers -> Jobs \cup {NoJob}]
      /\ newJob \in [Workers -> Jobs \cup {NoJob}]
      /\ finished \subseteq Range(taken)
      /\ RunOnce
  BY DEF IInv, TypeOK, AcceptedOnce
<1>1. ASSUME NEW w \in Workers, GetJob(w) PROVE RunOnce'
  <2>1. /\ Range(taken') = Range(taken) \cup {Head(pendingJobs)}
        /\ Head(pendingJobs) \notin Range(taken)
    BY <1>0, <1>1, PopIsSafe, RangeOfAppend DEF GetJob, PopFront
  <2>2. /\ finished' = finished /\ job' = job
        /\ pc' = [pc EXCEPT ![w] = "got"]
        /\ newJob' = [newJob EXCEPT ![w] = Head(pendingJobs)]
    BY <1>1 DEF GetJob, At, PopFront
  <2>3. QED
    BY <1>0, <2>1, <2>2
<1>2. ASSUME NEW w \in Workers, TakeJob(w) PROVE RunOnce'
  BY <1>0, <1>2 DEF TakeJob, At, historyVars
<1>3. ASSUME NEW w \in Workers, ExecuteEnds(w) PROVE RunOnce'
  BY <1>0, <1>3 DEF ExecuteEnds, At
<1>4. ASSUME NEW w \in Workers,
             \/ LoopTest(w) \/ GetEnter(w) \/ GetWait(w) \/ GetProceed(w) \/ SpuriousWake(w)
             \/ GetRelock(w) \/ GetNothing(w) \/ DropAfterReturn(w) \/ DropAfterThrow(w)
      PROVE  RunOnce'
  BY <1>0, <1>4
     DEF LoopTest, GetEnter, GetWait, GetProceed, SpuriousWake, GetRelock, GetNothing,
         DropAfterReturn, DropAfterThrow, At, historyVars, CountOut, MonitorFree, AfterWait
<1>5. ASSUME NEW j \in Jobs, AddIgnored(j) \/ AddPush(j) PROVE RunOnce'
  BY <1>0, <1>5 DEF AddIgnored, AddPush, workerVars, AcceptsJobs, MonitorFree
<1>6. CASE AddNotify \/ StopNotifyAll
  BY <1>0, <1>6 DEF AddNotify, StopNotifyAll, historyVars, Waiting, Notify, NotifyAll, MonitorFree
<1>7. CASE StopClear \/ StopReturn \/ UNCHANGED vars
  BY <1>0, <1>7 DEF StopClear, StopReturn, vars, workerVars, historyVars, MonitorFree, AllForgotten
<1>8. ASSUME NEW w \in Workers, StopWorker(w) \/ CancelWorker(w) \/ StopJoin(w) \/ StopForget(w)
      PROVE  RunOnce'
  BY <1>0, <1>8 DEF StopWorker, CancelWorker, StopJoin, StopForget, workerVars, historyVars
<1>9. QED
  BY <1>1, <1>2, <1>3, <1>4, <1>5, <1>6, <1>7, <1>8 DEF Next, Work, StopProceeds

-----------------------------------------------------------------------------
(* Theorems                                                                 *)

\* IInv holds in every reachable state.
THEOREM Invariance == Spec => []IInv
<1>1. IInv /\ [Next]_vars => IInv'
  <2> SUFFICES ASSUME IInv, [Next]_vars PROVE IInv'
    OBVIOUS
  <2>1. TypeOK' /\ MonitorExclusive' /\ HoldsByPlace' /\ ActiveCountExplained'
    BY TypeStep, MonitorStep, PlaceStep, ActiveCountStep
  <2>2. StopOrder' /\ JoinOrder' /\ JoinedOnce' /\ PopFindsJob'
    BY StopOrderStep, JoinOrderStep, PopStep
  <2>3. NothingLost' /\ NoLostWakeup' /\ AcceptedOnce' /\ RunOnce'
    BY NothingLostStep, WakeupStep, AcceptedStep, RunOnceStep
  <2>4. QED
    BY <2>1, <2>2, <2>3 DEF IInv
<1>2. QED
  BY InitIInv, <1>1, PTL DEF Spec

\* The variables of the queue keep their types, activeJobCount_ between zero
\* and the pool size included.
THEOREM TypeCorrect == Spec => []TypeOK
<1>1. IInv => TypeOK
  BY DEF IInv
<1>2. QED
  BY Invariance, <1>1, PTL

\* The sections of get() and add() exclude one another.
THEOREM MonitorIsSafe == Spec => []MonitorExclusive
<1>1. IInv => MonitorExclusive
  BY DEF IInv
<1>2. QED
  BY Invariance, <1>1, PTL

\* get() never pops an empty list, for any interleaving with stop() and with the
\* other workers (jobqueue.cpp, the two looks at isStopping() around wait()).
THEOREM ListIsNotEmpty == Spec => []PopFindsJob
<1>1. IInv => PopFindsJob
  BY DEF IInv
<1>2. QED
  BY Invariance, <1>1, PTL

\* No accepted job is lost, duplicated or overtaken on its way to a worker.
THEOREM NoJobIsLost == Spec => []NothingLost
<1>1. IInv => NothingLost
  BY DEF IInv
<1>2. QED
  BY Invariance, <1>1, PTL

\* No worker sleeps on while there are more pending jobs than awake workers.
THEOREM NoWakeupIsLost == Spec => []NoLostWakeup
<1>1. IInv => NoLostWakeup
  BY DEF IInv
<1>2. QED
  BY Invariance, <1>1, PTL

\* No job is executed by two workers, or a second time.
THEOREM JobsRunOnce == Spec => []RunOnce
<1>1. IInv => RunOnce
  BY DEF IInv
<1>2. QED
  BY Invariance, <1>1, PTL

\* add() never follows a null worker pointer.
THEOREM PoolOutlivesAdd == Spec => []AddMeetsLivePool
<1>1. IInv => AddMeetsLivePool
  BY DEF IInv, StopOrder, JoinOrder, AddMeetsLivePool
<1>2. QED
  BY Invariance, <1>1, PTL

\* stop() never joins a thread twice, though it is called twice.
THEOREM ThreadsAreJoinedOnce == Spec => []JoinedOnce
<1>1. IInv => JoinedOnce
  BY DEF IInv, JoinOrder
<1>2. QED
  BY Invariance, <1>1, PTL

\* When stop() returns, no worker is left in walk() and no job is held.
THEOREM StopLeavesNothing == Spec => []QuietAfterStop
<1>1. IInv => QuietAfterStop
  <2> SUFFICES ASSUME IInv, stopPc = "stopped"
               PROVE  /\ pendingJobs = <<>>
                      /\ \A w \in Workers : pc[w] = "exited" /\ job[w] = NoJob /\ newJob[w] = NoJob
    BY DEF QuietAfterStop
  <2>1. \A w \in Workers : pc[w] = "exited"
    BY DEF IInv, JoinOrder
  <2>2. pendingJobs = <<>>
    BY DEF IInv, StopOrder
  <2>3. QED
    BY <2>1, <2>2 DEF IInv, HoldsByPlace
<1>2. QED
  BY Invariance, <1>1, PTL

\* status().activeJobCount lies between the workers that hold a job and the
\* workers outside get().
THEOREM ActiveCountIsBounded == Spec => []ActiveCountBounds
<1>1. IInv => ActiveCountBounds
  BY ActiveCountRange DEF IInv
<1>2. QED
  BY Invariance, <1>1, PTL

-----------------------------------------------------------------------------
(* The queue implements the job pool                                        *)

Held == {HeldJob(w) : w \in {u \in Workers : Holding(u)}}
Gate == IF ~isQueueStopping THEN "open"
        ELSE IF workerPool = {} THEN "closed" ELSE "closing"
mappedVars == <<pendingJobs, Held, finished, Range(discarded), Gate>>

\* What the mapping of a step looks like when the step leaves the list, the
\* finished and the discarded jobs, the flag and the pool of workers alone.
LEMMA MappedStutter ==
  ASSUME pendingJobs' = pendingJobs, finished' = finished, discarded' = discarded,
         isQueueStopping' = isQueueStopping, workerPool' = workerPool, Held' = Held
  PROVE  mappedVars' = mappedVars
BY DEF mappedVars, Gate

\* A worker that holds no job leaves room for one more in the pool.
LEMMA RoomForOne ==
  ASSUME NEW w \in Workers, ~Holding(w)
  PROVE  Cardinality(Held) < Cardinality(Workers)
<1> DEFINE H == {u \in Workers : Holding(u)}
           f == [u \in H |-> HeldJob(u)]
<1>1. H \in SUBSET (Workers \ {w}) /\ IsFiniteSet(H)
  BY WorkersFinite
<1>2. Cardinality(H) <= Cardinality(Workers) - 1
  <2>1. IsFiniteSet(Workers \ {w})
    BY WorkersFinite
  <2>2. Cardinality(Workers \ {w}) = Cardinality(Workers) - 1
    BY WorkersFinite
  <2>3. QED
    BY <1>1, <2>1, <2>2, FS_Subset
<1>3. f \in Surjection(H, Held)
  BY DEF Surjection, Held
<1>4. Cardinality(Held) <= Cardinality(H) /\ IsFiniteSet(Held)
  BY <1>1, <1>3, FS_Surjection
<1>5. Cardinality(Held) \in Nat /\ Cardinality(H) \in Nat /\ Cardinality(Workers) \in Nat
  BY <1>1, <1>4, FS_CardinalityType, WorkersFinite
<1>6. QED
  BY <1>2, <1>4, <1>5

\* Every job the pool knows of has been submitted.
LEMMA KnownAreSubmitted ==
  ASSUME IInv
  PROVE  /\ Range(pendingJobs) \subseteq submitted
         /\ Range(discarded) \subseteq submitted
         /\ Range(taken) \subseteq submitted
         /\ Held \subseteq Range(taken)
         /\ finished \subseteq Range(taken)
<1>1. pendingJobs \in Seq(Jobs) /\ taken \in Seq(Jobs) /\ discarded \in Seq(Jobs)
  BY DEF IInv, TypeOK
<1>2. taken \o pendingJobs \in Seq(Jobs)
  BY <1>1, ConcatProperties
<1>3. Range(accepted) = (Range(taken) \cup Range(pendingJobs)) \cup Range(discarded)
  <2>1. Range(taken \o pendingJobs) = Range(taken) \cup Range(pendingJobs)
    BY <1>1, RangeConcatenation
  <2>2. Range((taken \o pendingJobs) \o discarded) = Range(taken \o pendingJobs) \cup Range(discarded)
    BY <1>1, <1>2, RangeConcatenation
  <2>3. QED
    BY <2>1, <2>2 DEF IInv, NothingLost
<1>4. Held \subseteq Range(taken)
  BY DEF IInv, RunOnce, Held
<1>5. QED
  BY <1>3, <1>4 DEF IInv, AcceptedOnce

\* The pool's module has the library's Cardinality under its own name.
LEMMA SameCardinality == \A S : Pool!Cardinality(S) = Cardinality(S)
BY DEF Pool!Cardinality, Cardinality

LEMMA PoolInit == Init => Pool!Init
<1> SUFFICES ASSUME Init PROVE Pool!Init
  OBVIOUS
<1>1. {HeldJob(w) : w \in {u \in Workers : Holding(u)}} = {}
  BY DEF Init, Holding
<1>2. Range(discarded) = {}
  BY DEF Init, Range
<1>3. QED
  BY <1>1, <1>2 DEF Init, Pool!Init

\* A worker's step is the pool's TakeUp when it pops a job, End when execute()
\* ends, and otherwise one the pool does not see.
LEMMA PoolWork ==
  ASSUME IInv, NEW w \in Workers, Work(w) \/ SpuriousWake(w)
  PROVE  Pool!Next \/ mappedVars' = mappedVars
<1>0. /\ pc \in [Workers -> PcLabels]
      /\ job \in [Workers -> Jobs \cup {NoJob}]
      /\ newJob \in [Workers -> Jobs \cup {NoJob}]
      /\ pendingJobs \in Seq(Jobs)
  BY DEF IInv, TypeOK
<1>1. CASE GetJob(w)
  <2>1. /\ pendingJobs # <<>>
        /\ pendingJobs' = Tail(pendingJobs)
        /\ finished' = finished /\ discarded' = discarded
        /\ isQueueStopping' = isQueueStopping /\ workerPool' = workerPool
    BY <1>1, PopIsSafe DEF GetJob, stopVars, PopFront
  <2>2. Cardinality(Held) < Cardinality(Workers)
    BY <1>1, RoomForOne DEF GetJob, At, Holding, PopFront
  <2>3. Held' = Held \cup {Head(pendingJobs)}
    BY <1>0, <1>1 DEF GetJob, At, Held, Holding, HeldJob, PopFront
  <2>4. Pool!TakeUp
    <3>1. Range(discarded)' = Range(discarded) /\ Gate' = Gate
      BY <2>1 DEF Gate
    <3>2. QED
      BY <2>1, <2>2, <2>3, <3>1, SameCardinality DEF Pool!TakeUp, Held, Gate
  <2>5. QED
    BY <2>4 DEF Pool!Next
<1>2. CASE ExecuteEnds(w)
  <2>1. /\ job[w] \in Held /\ job[w] \in Jobs
        /\ Held' = Held \ {job[w]}
    BY <1>0, <1>2 DEF ExecuteEnds, At, Held, Holding, HeldJob, IInv, RunOnce, HoldsByPlace
  <2>2. /\ finished' = finished \cup {job[w]}
        /\ UNCHANGED <<pendingJobs, discarded, isQueueStopping, workerPool>>
    BY <1>2 DEF ExecuteEnds, queueVars, stopVars
  <2>3. Pool!End(job[w])
    BY <2>1, <2>2 DEF Pool!End, Held
  <2>4. QED
    BY <2>1, <2>3 DEF Pool!Next
<1>3. CASE TakeJob(w)
  <2>1. Held' = Held
    BY <1>0, <1>3 DEF TakeJob, At, Held, Holding, HeldJob
  <2>2. QED
    BY <1>3, <2>1, MappedStutter DEF TakeJob, queueVars, stopVars, historyVars
<1>4. CASE \/ LoopTest(w) \/ GetEnter(w) \/ GetWait(w) \/ GetProceed(w) \/ SpuriousWake(w)
           \/ GetRelock(w) \/ GetNothing(w) \/ DropAfterReturn(w) \/ DropAfterThrow(w)
  <2>1. \A u \in Workers : Holding(u)' = Holding(u)
    BY <1>0, <1>4
       DEF LoopTest, GetEnter, GetWait, GetProceed, SpuriousWake, GetRelock, GetNothing,
           DropAfterReturn, DropAfterThrow, At, Holding, CountOut, MonitorFree, AfterWait
  <2>2. \A u \in Workers : Holding(u) => HeldJob(u)' = HeldJob(u)
    BY <1>0, <1>4
       DEF LoopTest, GetEnter, GetWait, GetProceed, SpuriousWake, GetRelock, GetNothing,
           DropAfterReturn, DropAfterThrow, At, Holding, HeldJob, CountOut, MonitorFree, AfterWait
  <2>3. Held' = Held
    BY <2>1, <2>2 DEF Held
  <2>4. QED
    BY <1>4, <2>3, MappedStutter
       DEF LoopTest, GetEnter, GetWait, GetProceed, SpuriousWake, GetRelock, GetNothing,
           DropAfterReturn, DropAfterThrow, queueVars, stopVars, historyVars, CountOut, MonitorFree, AfterWait
<1>5. QED
  BY <1>1, <1>2, <1>3, <1>4 DEF Work

\* add() is the pool's Accept, or nothing when the queue is stopping.
LEMMA PoolAdd ==
  ASSUME IInv, NEW j \in Jobs, AddIgnored(j) \/ AddPush(j)
  PROVE  Pool!Next \/ mappedVars' = mappedVars
<1>1. Held' = Held
  BY DEF AddIgnored, AddPush, workerVars, Held, Holding, HeldJob, AcceptsJobs, MonitorFree
<1>2. CASE AddIgnored(j)
  BY <1>1, <1>2, MappedStutter DEF AddIgnored, queueVars, stopVars, AcceptsJobs, MonitorFree
<1>3. CASE AddPush(j)
  <2>1. /\ ~isQueueStopping /\ ~isQueueStopping'
        /\ pendingJobs' = Append(pendingJobs, j)
        /\ finished' = finished /\ discarded' = discarded
        /\ j \notin submitted
    BY <1>3 DEF AddPush, AcceptsJobs, MonitorFree
  <2>2. Pool!Queued = Range(pendingJobs)
    BY DEF Pool!Queued, Range
  <2>3. j \notin Range(pendingJobs) \cup Held \cup finished \cup Range(discarded)
    BY <2>1, KnownAreSubmitted
  <2>4. Pool!Accept(j)
    BY <1>1, <2>1, <2>2, <2>3 DEF Pool!Accept, Held
  <2>5. QED
    BY <2>4 DEF Pool!Next
<1>4. QED
  BY <1>2, <1>3

\* The first stop() is the pool's Close, and forgetting the last worker is its
\* Closed; the rest of stop() is not seen.
LEMMA PoolStop ==
  ASSUME IInv, AddNotify \/ StopClear \/ StopProceeds
  PROVE  Pool!Next \/ mappedVars' = mappedVars
<1>0. /\ pc \in [Workers -> PcLabels] /\ workerPool \subseteq Workers
      /\ pendingJobs \in Seq(Jobs) /\ discarded \in Seq(Jobs)
  BY DEF IInv, TypeOK
<1>1. Held' = Held
  <2>1. UNCHANGED <<newJob, job>> /\ \A u \in Workers : Holding(u)' = Holding(u) /\ (Holding(u) => pc'[u] = pc[u])
    BY <1>0 DEF AddNotify, StopClear, StopProceeds, StopWorker, CancelWorker, StopNotifyAll,
                StopJoin, StopForget, StopReturn, Waiting, Holding, workerVars, Notify, NotifyAll, MonitorFree, AllForgotten
  <2>2. QED
    BY <2>1 DEF Held, HeldJob
<1>2. CASE StopClear
  <2>1. /\ isQueueStopping' /\ pendingJobs' = <<>> /\ finished' = finished
        /\ discarded' = discarded \o pendingJobs /\ workerPool' = workerPool
    BY <1>2 DEF StopClear, MonitorFree
  <2>2. Range(discarded') = Range(discarded) \cup Range(pendingJobs)
    BY <1>0, <2>1, RangeConcatenation
  <2>3. CASE isQueueStopping
    <3>1. pendingJobs = <<>>
      BY <2>3 DEF IInv, StopOrder
    <3>2. discarded' = discarded
      BY <1>0, <2>1, <3>1, ConcatEmptySeq
    <3>3. isQueueStopping' = isQueueStopping
      BY <2>1, <2>3, <1>2 DEF IInv, TypeOK
    <3>4. QED
      BY <1>1, <2>1, <3>1, <3>2, <3>3, MappedStutter
  <2>4. CASE ~isQueueStopping
    <3>1. workerPool # {}
      BY <2>4, PoolAssumption DEF IInv, StopOrder, JoinOrder
    <3>2. Pool!Queued = Range(pendingJobs)
      BY DEF Pool!Queued, Range
    <3>3. Pool!Close
      BY <1>1, <2>1, <2>2, <2>4, <3>1, <3>2 DEF Pool!Close, Held
    <3>4. QED
      BY <3>3 DEF Pool!Next
  <2>5. QED
    BY <2>3, <2>4
<1>3. ASSUME NEW w \in Workers, StopForget(w)
      PROVE  Pool!Next \/ mappedVars' = mappedVars
  <2>1. /\ workerPool' = workerPool \ {w} /\ w \in workerPool
        /\ UNCHANGED <<pendingJobs, isQueueStopping, finished, discarded>>
        /\ stopPc = "join" /\ controls = {}
    BY <1>3 DEF StopForget, queueVars, historyVars
  <2>2. isQueueStopping
    BY <2>1 DEF IInv, StopOrder
  <2>3. CASE workerPool' = {}
    <3>1. \A u \in Workers : pc[u] = "exited"
      BY <2>1 DEF IInv, JoinOrder
    <3>2. Held = {}
      BY <3>1 DEF Held, Holding
    <3>3. Pool!Closed
      BY <1>1, <2>1, <2>2, <2>3, <3>2 DEF Pool!Closed, Held
    <3>4. QED
      BY <3>3 DEF Pool!Next
  <2>4. CASE workerPool' # {}
    <3>1. Gate' = Gate
      BY <2>1, <2>2, <2>4 DEF Gate
    <3>2. QED
      BY <1>1, <2>1, <3>1 DEF mappedVars
  <2>5. QED
    BY <2>3, <2>4
<1>4. CASE AddNotify
  BY <1>1, <1>4, MappedStutter DEF AddNotify, queueVars, stopVars, historyVars, Notify
<1>5. ASSUME NEW w \in Workers, StopWorker(w) \/ CancelWorker(w) \/ StopJoin(w)
      PROVE  mappedVars' = mappedVars
  BY <1>1, <1>5, MappedStutter DEF StopWorker, CancelWorker, StopJoin, queueVars, historyVars
<1>6. CASE StopNotifyAll \/ StopReturn
  BY <1>1, <1>6, MappedStutter DEF StopNotifyAll, StopReturn, queueVars, historyVars, NotifyAll, MonitorFree, AllForgotten
<1>7. QED
  BY <1>2, <1>3, <1>4, <1>5, <1>6 DEF StopProceeds

\* The queue, with its threads, its monitor and its stop protocol, implements
\* the pool of jobs that jobqueue.h describes.
THEOREM QueueImplementsPool == Spec => ImplementsPool
<1>1. IInv /\ [Next]_vars => [Pool!Next]_(mappedVars)
  <2> SUFFICES ASSUME IInv, [Next]_vars PROVE Pool!Next \/ mappedVars' = mappedVars
    OBVIOUS
  <2>1. CASE UNCHANGED vars
    <3>1. Held' = Held
      BY <2>1 DEF vars, workerVars, Held, Holding, HeldJob
    <3>2. QED
      BY <2>1, <3>1, MappedStutter DEF vars, queueVars, stopVars, historyVars
  <2>2. QED
    BY <2>1, PoolWork, PoolAdd, PoolStop DEF Next
<1>2. mappedVars = Pool!poolVars
  BY DEF mappedVars, Pool!poolVars, Held, Gate
<1>3. IInv /\ [Next]_vars => [Pool!Next]_(Pool!poolVars)
  BY <1>1 DEF mappedVars, Pool!poolVars, Held, Gate
<1>4. QED
  BY PoolInit, Invariance, <1>3, PTL DEF Spec, ImplementsPool, Pool!Spec
=============================================================================
