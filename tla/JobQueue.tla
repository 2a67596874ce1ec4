------------------------------ MODULE JobQueue ------------------------------
(***************************************************************************)
(* hydroiceutil::JobQueue (hydrolibs/hydroiceutil/jobqueue.{h,cpp}): a     *)
(* queue of jobs worked off by a pool of threads.                          *)
(*                                                                         *)
(* The queue is an IceUtil::Monitor: get(), add() and two sections of      *)
(* stop() run under its mutex, here "monitor", the thread that holds it.   *)
(* Three pieces of state are written or read outside that mutex, and the   *)
(* module keeps their reads and writes apart: a worker's isStopping flag   *)
(* (written by stop(), read twice by get()), a worker's job_ (guarded by   *)
(* its own jobMutex_, written after get() has returned), and workerPool_   *)
(* (zeroed by stop() after the join).                                      *)
(*                                                                         *)
(* Threads: the workers; a client, whichever thread is inside add(); and   *)
(* the thread that calls stop(), once from user code and once more from    *)
(* user code or the destructor.                                            *)
(***************************************************************************)
EXTENDS Naturals, Sequences, FiniteSets, Functions

CONSTANTS
  Workers,       \* the threads of the pool, Config::threadPoolSize of them
  Jobs,          \* the jobs clients may submit, each once
  EndlessJobs,   \* those whose execute() returns only when cancelled
  MaxSpurious,   \* bound: wake-ups without a notification
  MaxStops,      \* bound: calls of stop()
  NoJob,         \* the null JobPtr
  Nobody,        \* the monitor is free
  Client         \* the monitor is held by a thread inside add()

ASSUME PoolAssumption ==
  /\ IsFiniteSet(Workers)
  /\ Workers # {}
  /\ NoJob \notin Jobs
  /\ Nobody \notin Workers /\ Client \notin Workers /\ Nobody # Client
  /\ MaxSpurious \in Nat
  /\ MaxStops \in Nat

VARIABLES
  pendingJobs,       \* JobQueue::pendingJobs_
  isQueueStopping,   \* JobQueue::isQueueStopping_
  activeJobCount,    \* JobQueue::activeJobCount_
  workerPool,        \* the entries of JobQueue::workerPool_ that are not null
  monitor,           \* who holds the queue's mutex
  pc,                \* where each worker is in Worker::walk() and get()
  newJob,            \* walk()'s local newJob, and get()'s result
  job,               \* Worker::job_
  isStopping,        \* the workers whose Thread::stop() has been called
  adding,            \* the job of the add() that is under way
  stopPc,            \* where the stopping thread is in stop()
  visited,           \* the workers stop()'s first loop has dealt with
  controls,          \* stop()'s local controls: threads still to be joined
  stops,             \* calls of stop() so far
  joins,             \* how often each thread has been joined
  cancelled,         \* the jobs with isCancelled_ set
  spurious,          \* wake-ups without a notification so far
  submitted,         \* history: jobs handed to add()
  accepted,          \* history: jobs add() did not ignore, in order
  taken,             \* history: jobs get() handed out, in order
  finished,          \* history: jobs whose execute() returned or threw
  discarded          \* history: jobs stop() cleared from the queue, in order

queueVars   == <<pendingJobs, isQueueStopping, activeJobCount>>
workerVars  == <<pc, newJob, job>>
stopVars    == <<stopPc, visited, controls, stops, joins, workerPool>>
historyVars == <<submitted, accepted, taken, finished, discarded>>
vars == <<queueVars, workerVars, stopVars, historyVars,
          monitor, isStopping, adding, cancelled, spurious>>

-----------------------------------------------------------------------------
(* A worker: Worker::walk() and JobQueue::get()                             *)

Init ==
  /\ pendingJobs = <<>>
  /\ isQueueStopping = FALSE
  /\ activeJobCount = Cardinality(Workers)
  /\ workerPool = Workers
  /\ monitor = Nobody
  /\ pc = [w \in Workers |-> "loop"]
  /\ newJob = [w \in Workers |-> NoJob]
  /\ job = [w \in Workers |-> NoJob]
  /\ isStopping = {}
  /\ adding = NoJob
  /\ stopPc = "idle"
  /\ visited = {}
  /\ controls = {}
  /\ stops = 0
  /\ joins = [w \in Workers |-> 0]
  /\ cancelled = {}
  /\ spurious = 0
  /\ submitted = {}
  /\ accepted = <<>>
  /\ taken = <<>>
  /\ finished = {}
  /\ discarded = <<>>

At(w, from, to) ==
  /\ pc[w] = from
  /\ pc' = [pc EXCEPT ![w] = to]

\* Each operator that ends in "Mutant" is a plausible slip in the operator below
\* it and is not part of the model.

\* the mutex can be taken
MonitorFree == monitor = Nobody

\* --activeJobCount_ on the way into get()
CountOut == activeJobCount' = activeJobCount - 1

\* after wait() get() tests its loop condition again (mutant: if, not while)
AfterWaitMutant == "leave"
AfterWait == "test"

\* pop_front() (mutant: the job is read and left in the list)
PopFrontMutant == UNCHANGED pendingJobs
PopFront == pendingJobs' = Tail(pendingJobs)

\* while ( !isStopping() )
LoopTest(w) ==
  /\ At(w, "loop", IF w \in isStopping THEN "exited" ELSE "enter")
  /\ UNCHANGED <<queueVars, newJob, job, stopVars, historyVars, monitor,
                 isStopping, adding, cancelled, spurious>>

\* get(): the lock and the decrement
GetEnter(w) ==
  /\ MonitorFree
  /\ At(w, "enter", "test")
  /\ monitor' = w
  /\ CountOut
  /\ UNCHANGED <<pendingJobs, isQueueStopping, newJob, job, stopVars,
                 historyVars, isStopping, adding, cancelled, spurious>>

\* get(): the loop condition holds, wait() gives the mutex up
GetWait(w) ==
  /\ w \notin isStopping
  /\ pendingJobs = <<>>
  /\ At(w, "test", "waiting")
  /\ monitor' = Nobody
  /\ UNCHANGED <<queueVars, newJob, job, stopVars, historyVars, isStopping,
                 adding, cancelled, spurious>>

\* get(): the loop condition fails
GetProceed(w) ==
  /\ w \in isStopping \/ pendingJobs # <<>>
  /\ At(w, "test", "leave")
  /\ UNCHANGED <<queueVars, newJob, job, stopVars, historyVars, monitor,
                 isStopping, adding, cancelled, spurious>>

\* a condition variable may wake a thread that nobody notified
SpuriousWake(w) ==
  /\ spurious < MaxSpurious
  /\ At(w, "waiting", "woken")
  /\ spurious' = spurious + 1
  /\ UNCHANGED <<queueVars, newJob, job, stopVars, historyVars, monitor,
                 isStopping, adding, cancelled>>

\* wait() takes the mutex again before it returns; the condition is re-read
GetRelock(w) ==
  /\ MonitorFree
  /\ At(w, "woken", AfterWait)
  /\ monitor' = w
  /\ UNCHANGED <<queueVars, newJob, job, stopVars, historyVars, isStopping,
                 adding, cancelled, spurious>>

\* get(): isStopping() is read a second time, and the worker gets no job
GetNothing(w) ==
  /\ w \in isStopping
  /\ At(w, "leave", "loop")
  /\ monitor' = Nobody
  /\ UNCHANGED <<queueVars, newJob, job, stopVars, historyVars, isStopping,
                 adding, cancelled, spurious>>

\* get(): the oldest pending job is popped
GetJob(w) ==
  /\ w \notin isStopping
  /\ At(w, "leave", "got")
  /\ newJob' = [newJob EXCEPT ![w] = Head(pendingJobs)]
  /\ taken' = Append(taken, Head(pendingJobs))
  /\ PopFront
  /\ activeJobCount' = activeJobCount + 1
  /\ monitor' = Nobody
  /\ UNCHANGED <<isQueueStopping, job, stopVars, isStopping, adding, cancelled,
                 spurious, submitted, accepted, finished, discarded>>

\* takeJob(), then newJob goes out of scope
TakeJob(w) ==
  /\ At(w, "got", "running")
  /\ job' = [job EXCEPT ![w] = newJob[w]]
  /\ newJob' = [newJob EXCEPT ![w] = NoJob]
  /\ UNCHANGED <<queueVars, stopVars, historyVars, monitor, isStopping, adding,
                 cancelled, spurious>>

\* job_->execute() returns, or throws and the exception is caught: the job's
\* own code decides, an endless job only once it finds itself cancelled
ExecuteEnds(w) ==
  /\ job[w] \in EndlessJobs => job[w] \in cancelled
  /\ \/ At(w, "running", "returned")
     \/ At(w, "running", "thrown")
  /\ finished' = finished \cup {job[w]}
  /\ UNCHANGED <<queueVars, newJob, job, stopVars, monitor, isStopping, adding,
                 cancelled, spurious, submitted, accepted, taken, discarded>>

\* dropJob() after a normal return, then continue
DropAfterReturn(w) ==
  /\ At(w, "returned", "loop")
  /\ job' = [job EXCEPT ![w] = NoJob]
  /\ UNCHANGED <<queueVars, newJob, stopVars, historyVars, monitor, isStopping,
                 adding, cancelled, spurious>>

\* dropJob() after the catch clauses and the warning
DropAfterThrow(w) ==
  /\ At(w, "thrown", "loop")
  /\ job' = [job EXCEPT ![w] = NoJob]
  /\ UNCHANGED <<queueVars, newJob, stopVars, historyVars, monitor, isStopping,
                 adding, cancelled, spurious>>

Work(w) ==
  \/ LoopTest(w)
  \/ GetEnter(w)
  \/ GetWait(w)
  \/ GetProceed(w)
  \/ GetRelock(w)
  \/ GetNothing(w)
  \/ GetJob(w)
  \/ TakeJob(w)
  \/ ExecuteEnds(w)
  \/ DropAfterReturn(w)
  \/ DropAfterThrow(w)

-----------------------------------------------------------------------------
(* A client: JobQueue::add()                                                *)

\* mutant: add() does not look whether the queue is stopping
AcceptsJobsMutant == TRUE
AcceptsJobs == ~isQueueStopping

\* the queue is stopping: the request is quietly ignored
AddIgnored(j) ==
  /\ MonitorFree
  /\ ~AcceptsJobs
  /\ j \notin submitted
  /\ submitted' = submitted \cup {j}
  /\ UNCHANGED <<queueVars, workerVars, stopVars, monitor, isStopping, adding,
                 cancelled, spurious, accepted, taken, finished, discarded>>

\* push_back(); the client keeps the mutex and, with traceStalledJobs, goes
\* on to ask every worker of workerPool_ for its job
AddPush(j) ==
  /\ MonitorFree
  /\ AcceptsJobs
  /\ j \notin submitted
  /\ monitor' = Client
  /\ adding' = j
  /\ pendingJobs' = Append(pendingJobs, j)
  /\ accepted' = Append(accepted, j)
  /\ submitted' = submitted \cup {j}
  /\ UNCHANGED <<isQueueStopping, activeJobCount, workerVars, stopVars,
                 isStopping, cancelled, spurious, taken, finished, discarded>>

Waiting == {w \in Workers : pc[w] = "waiting"}

\* notify() wakes one of the waiting workers, if there is one (mutant: left out)
NotifyMutant == UNCHANGED pc
Notify ==
  \/ \E w \in Waiting : pc' = [pc EXCEPT ![w] = "woken"]
  \/ Waiting = {} /\ UNCHANGED pc

\* the end of add(): notify() and the unlock
AddNotify ==
  /\ monitor = Client
  /\ Notify
  /\ monitor' = Nobody
  /\ adding' = NoJob
  /\ UNCHANGED <<queueVars, newJob, job, stopVars, historyVars, isStopping,
                 cancelled, spurious>>

-----------------------------------------------------------------------------
(* JobQueue::stop()                                                         *)

\* the first locked section: no new jobs, and the pending ones are cleared
StopClear ==
  /\ stopPc \in {"idle", "stopped"}
  /\ stops < MaxStops
  /\ MonitorFree
  /\ isQueueStopping' = TRUE
  /\ discarded' = discarded \o pendingJobs
  /\ pendingJobs' = <<>>
  /\ stopPc' = "signal"
  /\ stops' = stops + 1
  /\ visited' = {}
  /\ controls' = {}
  /\ UNCHANGED <<activeJobCount, workerVars, workerPool, joins, monitor,
                 isStopping, adding, cancelled, spurious, submitted, accepted,
                 taken, finished>>

\* the first loop, a worker that is still there: its control is kept and its
\* flag set, without the queue's mutex
StopWorker(w) ==
  /\ stopPc = "signal"
  /\ w \in workerPool \ visited
  /\ controls' = controls \cup {w}
  /\ isStopping' = isStopping \cup {w}
  /\ stopPc' = "cancel"
  /\ UNCHANGED <<queueVars, workerVars, visited, stops, joins, workerPool,
                 historyVars, monitor, adding, cancelled, spurious>>

\* the first loop, cancelJob(): it can only cancel the job the worker shows
CancelWorker(w) ==
  /\ stopPc = "cancel"
  /\ w \in controls \ visited
  /\ cancelled' = cancelled \cup ({job[w]} \ {NoJob})
  /\ visited' = visited \cup {w}
  /\ stopPc' = "signal"
  /\ UNCHANGED <<queueVars, workerVars, controls, stops, joins, workerPool,
                 historyVars, monitor, isStopping, adding, spurious>>

\* notifyAll() (mutant: left out)
NotifyAllMutant == UNCHANGED pc
NotifyAll == pc' = [w \in Workers |-> IF w \in Waiting THEN "woken" ELSE pc[w]]

\* the second locked section
StopNotifyAll ==
  /\ stopPc = "signal"
  /\ workerPool \subseteq visited
  /\ MonitorFree
  /\ NotifyAll
  /\ stopPc' = "join"
  /\ UNCHANGED <<queueVars, newJob, job, visited, controls, stops, joins,
                 workerPool, historyVars, monitor, isStopping, adding,
                 cancelled, spurious>>

\* controls[i].join()
StopJoin(w) ==
  /\ stopPc = "join"
  /\ w \in controls
  /\ pc[w] = "exited"
  /\ controls' = controls \ {w}
  /\ joins' = [joins EXCEPT ![w] = @ + 1]
  /\ UNCHANGED <<queueVars, workerVars, stopPc, visited, stops, workerPool,
                 historyVars, monitor, isStopping, adding, cancelled, spurious>>

\* the last loop: workerPool_[i] = 0, without the queue's mutex
StopForget(w) ==
  /\ stopPc = "join"
  /\ controls = {}
  /\ w \in workerPool
  /\ workerPool' = workerPool \ {w}
  /\ UNCHANGED <<queueVars, workerVars, stopPc, visited, controls, stops, joins,
                 historyVars, monitor, isStopping, adding, cancelled, spurious>>

\* the last loop is done (mutant: there is no last loop)
AllForgottenMutant == TRUE
AllForgotten == workerPool = {}

StopReturn ==
  /\ stopPc = "join"
  /\ controls = {}
  /\ AllForgotten
  /\ stopPc' = "stopped"
  /\ UNCHANGED <<queueVars, workerVars, visited, controls, stops, joins,
                 workerPool, historyVars, monitor, isStopping, adding,
                 cancelled, spurious>>

StopProceeds ==
  \/ \E w \in Workers : StopWorker(w) \/ CancelWorker(w) \/ StopJoin(w) \/ StopForget(w)
  \/ StopNotifyAll
  \/ StopReturn

-----------------------------------------------------------------------------

Next ==
  \/ \E w \in Workers : Work(w) \/ SpuriousWake(w)
  \/ \E j \in Jobs : AddIgnored(j) \/ AddPush(j)
  \/ AddNotify
  \/ StopClear
  \/ StopProceeds

Spec == Init /\ [][Next]_vars

\* Every thread that is inside the queue's code goes on; nobody has to call
\* add() or stop(), and no wake-up comes unless somebody notifies.
FairSpec ==
  /\ Spec
  /\ \A w \in Workers : WF_vars(Work(w))
  /\ WF_vars(AddNotify)
  /\ WF_vars(StopProceeds)

-----------------------------------------------------------------------------
(* Properties                                                               *)

PcLabels == {"loop", "enter", "test", "waiting", "woken", "leave", "got",
             "running", "returned", "thrown", "exited"}

\* The variables keep their types; in particular activeJobCount_ stays between
\* zero and the pool size however get() and its callers interleave.
TypeOK ==
  /\ pendingJobs \in Seq(Jobs)
  /\ isQueueStopping \in BOOLEAN
  /\ activeJobCount \in 0..Cardinality(Workers)
  /\ workerPool \subseteq Workers
  /\ monitor \in Workers \cup {Nobody, Client}
  /\ pc \in [Workers -> PcLabels]
  /\ newJob \in [Workers -> Jobs \cup {NoJob}]
  /\ job \in [Workers -> Jobs \cup {NoJob}]
  /\ isStopping \subseteq Workers
  /\ adding \in Jobs \cup {NoJob}
  /\ stopPc \in {"idle", "signal", "cancel", "join", "stopped"}
  /\ visited \subseteq Workers
  /\ controls \subseteq Workers
  /\ stops \in 0..MaxStops
  /\ joins \in [Workers -> Nat]
  /\ cancelled \subseteq Jobs
  /\ spurious \in 0..MaxSpurious
  /\ submitted \subseteq Jobs
  /\ accepted \in Seq(Jobs)
  /\ taken \in Seq(Jobs)
  /\ finished \subseteq Jobs
  /\ discarded \in Seq(Jobs)

\* get() and add() are sections of one monitor: a worker between the lock and
\* the unlock of get() is the only thread there.
MonitorExclusive ==
  /\ \A w \in Workers : pc[w] \in {"test", "leave"} <=> monitor = w
  /\ adding # NoJob <=> monitor = Client

\* Every accepted job is handed to a worker, still pending, or was discarded by
\* stop(), and jobs are handed out in the order in which they were accepted:
\* none is lost, handed out twice or overtaken.
NothingLost == accepted = (taken \o pendingJobs) \o discarded

\* get() never calls front() on an empty list, although isStopping() is read
\* twice and may turn true between the reads, and stop() clears the list.
PopFindsJob ==
  \A w \in Workers :
    pc[w] = "leave" /\ w \notin isStopping => pendingJobs # <<>>

\* The workers that will look at the list again without being notified.
Alert == {w \in Workers : pc[w] \in {"test", "woken", "leave"}}

\* No wake-up is lost: as long as some worker sleeps in wait(), the pending
\* jobs are no more than the workers that are awake in get() (while add() has
\* pushed but not yet notified, one more). So a job never sits in the list
\* while a worker that could do it sleeps on.
NoLostWakeup ==
  Waiting # {} =>
    Len(pendingJobs) <= Cardinality(Alert) + (IF monitor = Client THEN 1 ELSE 0)

Holding(w) == pc[w] \in {"got", "running"}
HeldJob(w) == IF pc[w] = "got" THEN newJob[w] ELSE job[w]

\* A job is held by at most one worker, and one that has ended is not run
\* again: execute() runs at most once per accepted job.
RunOnce ==
  \A w \in Workers : Holding(w) =>
    /\ HeldJob(w) \in Range(taken) \ finished
    /\ \A u \in Workers \ {w} : Holding(u) => HeldJob(u) # HeldJob(w)

\* add() asks the workers for their jobs without testing the pointers: while a
\* client is past add()'s stopping test no entry of workerPool_ is null, though
\* stop() zeroes them outside the mutex.
AddMeetsLivePool == monitor = Client => workerPool = Workers

\* stop() may be called twice, by user code and by the destructor: no thread is
\* joined a second time.
JoinedOnce == \A w \in Workers : joins[w] <= 1

\* When stop() has returned every worker has left walk(), no job is held, and
\* nothing is pending.
QuietAfterStop ==
  stopPc = "stopped" =>
    /\ pendingJobs = <<>>
    /\ \A w \in Workers : pc[w] = "exited" /\ job[w] = NoJob /\ newJob[w] = NoJob

\* status() never reports fewer active jobs than workers holding one, nor more
\* than the workers outside get().
ActiveCountBounds ==
  /\ Cardinality({w \in Workers : Holding(w)}) <= activeJobCount
  /\ activeJobCount <= Cardinality(Workers \ (Alert \cup Waiting))

Pool == INSTANCE JobPool WITH
  Slots    <- Cardinality(Workers),
  queue    <- pendingJobs,
  underWay <- {HeldJob(w) : w \in {u \in Workers : Holding(u)}},
  ended    <- finished,
  dropped  <- Range(discarded),
  gate     <- IF ~isQueueStopping THEN "open"
              ELSE IF workerPool = {} THEN "closed" ELSE "closing"

\* The queue, its threads and its locks implement the job pool of the header.
ImplementsPool == Pool!Spec

\* An accepted job that ends by itself runs to its end or is discarded by
\* stop(), as long as endless jobs do not occupy every worker.
AcceptedJobEnds ==
  \A j \in Jobs \ EndlessJobs :
    j \in Range(accepted) ~> j \in finished \cup Range(discarded)

\* The worker holds a job that stop() has not cancelled and will not cancel:
\* it was popped, but not yet made job_, when cancelJob() looked.
Escaped(w) == w \in visited /\ Holding(w) /\ HeldJob(w) \notin cancelled

\* stop() returns, whatever the workers are doing, unless an endless job slips
\* past cancelJob().
StopReturns ==
  stopPc = "signal" ~>
    (stopPc = "stopped" \/ \E w \in Workers : Escaped(w) /\ HeldJob(w) \in EndlessJobs)

-----------------------------------------------------------------------------
(* What makes the safety properties inductive                               *)

\* A worker's local newJob and its job_ follow its place in walk().
HoldsByPlace ==
  \A w \in Workers :
    /\ newJob[w] # NoJob <=> pc[w] = "got"
    /\ job[w] # NoJob <=> pc[w] \in {"running", "returned", "thrown"}

InGet(w) == pc[w] \in {"test", "waiting", "woken", "leave"}

\* activeJobCount_ counts the workers outside get(), except that a worker sent
\* away without a job on stopping is never counted again.
ActiveCountExplained ==
  \E C \in SUBSET Workers :
    /\ activeJobCount = Cardinality(C)
    /\ \A w \in C : ~InGet(w)
    /\ \A w \in Workers \ C :
         InGet(w) \/ (w \in isStopping /\ pc[w] \in {"loop", "exited"})

\* The order of stop()'s sections: the queue's flag before any worker's flag,
\* the list cleared with the flag and empty from then on.
StopOrder ==
  /\ isStopping # {} => isQueueStopping
  /\ isQueueStopping => pendingJobs = <<>> /\ monitor # Client
  /\ ~isQueueStopping => discarded = <<>>
  /\ isQueueStopping <=> stopPc # "idle"

\* No worker leaves walk() before stop() has set its flag, and stop() forgets a
\* worker only when it has joined it.
JoinOrder ==
  /\ \A w \in Workers : pc[w] = "exited" => w \in isStopping
  /\ visited \subseteq controls \/ stopPc \in {"join", "stopped"}
  /\ stopPc = "idle" => workerPool = Workers
  /\ stopPc = "stopped" => workerPool = {}
  /\ \A w \in Workers :
       /\ w \notin workerPool => pc[w] = "exited"
       /\ w \in workerPool /\ joins[w] # 0 =>
            stopPc = "join" /\ w \notin controls /\ pc[w] = "exited"
       /\ w \in workerPool /\ stopPc = "join" /\ w \notin controls => joins[w] # 0
       /\ w \in controls => w \in workerPool

\* A job is accepted once.
AcceptedOnce ==
  /\ Range(accepted) \subseteq submitted
  /\ \A i, k \in DOMAIN accepted : accepted[i] = accepted[k] => i = k
  /\ finished \subseteq Range(taken)
  /\ \A w \in Workers : pc[w] \in {"returned", "thrown"} => job[w] \in finished

IInv ==
  /\ TypeOK
  /\ MonitorExclusive
  /\ HoldsByPlace
  /\ ActiveCountExplained
  /\ StopOrder
  /\ JoinOrder
  /\ PopFindsJob
  /\ NothingLost
  /\ NoLostWakeup
  /\ AcceptedOnce
  /\ RunOnce
  /\ JoinedOnce
=============================================================================
