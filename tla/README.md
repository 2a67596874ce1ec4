# A verification project for Orca

Orca is a component framework for robotics on top of ZeroC Ice. A robot's
software is a set of *components*, processes that offer and require *interfaces*.
This project models what every component runs on (worker threads, status,
publishing of data, start-up and shutdown) and a chain of components that move a
robot: from an operator or a goal down to the wheels. The modules are checked with
TLC on small instances; the safety invariants of every component, the action
properties, that the job queue implements its abstract pool, and in which steps the
path follower departs from its interface, are proved with TLAPS for any size.

Paths below are those of the repository, without the leading `src/` of the
checkout (`hydrolibs/...` is `src/hydrolibs/...` there).

## 1. The system

### Inventory

| Part | Source | State | Operations | What is hard |
|---|---|---|---|---|
| JobQueue | `hydrolibs/hydroiceutil/jobqueue.*` | pending list, stopping flag, active count, worker pool, each worker's job | `add`, `get`, `stop`, worker loop | condition variable, flags written outside the lock, two calls of `stop` |
| LocalStatus, StatusImpl | `hydrolibs/hydroiceutil/localstatus.*`, `libs/orcaice/detail/statusImpl.*` | table of subsystems, heartbeat timers, publish timer, store for readers | reports, `heartbeat`, `message`, `process` | what is published when, stall detection against late heartbeats |
| ComponentStatusAggregator | `libs/orcaice/detail/componentstatusaggregator.*` | none | `convertStateBased` | priority among states of many subsystems |
| Application, Service, Component, Context | `libs/orcaice/*.cpp` | stages of the container, stopped flag, adapter | `run`, `start`, `stop`, interrupt callback | shutdown racing start-up, two threads that stop the component |
| ComponentThread | `libs/orcaice/detail/componentthread.*` | stage of `walk()`, Home registered, router session | activation, registration, periodic `process` | a registry that comes and goes, exits at every stage |
| SubsystemThread | `hydrolibs/hydroiceutil/subsystemthread.*` | stage, reported state | `initialise`, `work`, `finalise` | exceptions, being stopped in every stage |
| ProviderImpl | `libs/orcaifaceimpl/providerImpl.h` | the data and whether it is set | `initInterface`, `localSet`, `localSend`, `localSetAndSend`, `internalSubscribe` | a subscription in the middle of an update |
| TopicHandler, IceStorm utilities | `libs/orcaice/topichandler.h`, `icestormutils.*` | proxies of topic and publisher | `connectToTopic`, `subscribe`, `publish` | IceStorm down, restarted, answers lost |
| ConsumerImpl | `libs/orcaifaceimpl/consumerImpl.h` | the topic it subscribed to | `subscribeWithString`, `unsubscribe`, destructor | retries of a call that had an effect |
| EStopMonitor | `libs/orcaestoputil` | last e-stop data, keep-alive timer | `addData`, `isEStopTriggered` | silence means stop, but is only looked at on commands |
| SegwayRmp | `components/segwayrmp`, `hydrolibs/hydrormputil` | command store, ramp, command time-out, fault state | `setCommand`, `handleData`, driver loop | commands, e-stop, time-out and faults race |
| Bicycle, its Player driver | `components/bicycle`, `hydrodrivers/hydrobicycleplayerclient` | state machine, command store, connection | `setCommand`, `enable`, `read`, `write`, loops | the server goes away and comes back |
| Teleoperation, EventQueue | `libs/orcateleop`, `hydrolibs/hydroiceutil/eventqueue.*` | queue of events, the command kept | inputs, `optimizedAdd`, `timedGet`, repeat | commands merged while they wait, calls that fail |
| LocalNav (path follower) | `components/localnav`, `libs/orcalocalnav` | store of requests, follower's state, path and waypoint, what was last sent | `setData`, `activateNow`, `setEnabled`, loop | requests between the steps of the loop, failures, two threads that publish |
| GoalPlanner, PathPlanner | `components/goalplanner`, `components/pathplanner` | stores of path, activation and answer, task queue | `setData`, `activateNow`, `setTask`, loops | retries, answers that come late |
| EventLoop, EventScheduler | `hydrolibs/hydroiceutil/event*` | receivers, schedule | post, schedule, dispatch | receivers removed while events wait |
| Tracer | `hydrolibs/hydroiceutil/localtracer.*`, `libs/orcaice/detail/tracerImpl.*` | verbosity, repeat counters | `info` ... `debug` | formatting and routing |
| Home, LocalHistory | `libs/orcaice/detail/homeImpl.cpp`, `hydroiceutil/localhistory.cpp` | history file | `report` | I/O |
| Connection utilities | `libs/orcaice/connectutils.*`, `icegridutils.*` | none | retry loops | timing only |
| Sensor servers, other robot drivers | `components/*` | driver, provider | main loops | I/O around the interfaces above |
| Log recording and replay | `libs/orcalog`, `utils/logplayer` | files, replay clock | read, write, play | file formats |
| SystemStatus, monitors, GUIs | `components/systemstatus`, `libs/orcaqgui*`, ... | views of other components | display | user interface |
| Geometry, maps, vision, path planning | `hydrolibs/*`, `libs/orcaogfusion`, `libs/orcavfh` | none | numerical algorithms | not discrete |

### How the parts interact

A component is run by an `Application` or a `Service`. Its `start()` makes its
threads (`SubsystemThread`), each with references to those before it; `stop()`
stops and joins them in the opposite order. They report to the *status* of their
component. The *infrastructure thread* (`ComponentThread`) activates the adapter,
registers the component and calls `status().process()` about once a second; that
detects subsystems that fell silent and republishes. Every publication goes to a
store that remote readers are served from, and to a topic. A *provider* sets its
data locally and publishes through its *topic handler* to an IceStorm topic; a
*consumer* calls `subscribe()` on the provider (a remote call, run in a dispatch
thread of the provider's process), which subscribes it to the topic and pushes the
data there is. A component may also hand work to a `JobQueue`.

Towards the wheels: an operator's inputs are queued by teleoperation and sent as
velocities. Or a client gives GoalPlanner a path; it has PathPlanner refine it and
hands it to the path follower of LocalNav, which sends velocities. A robot
component (SegwayRmp, Bicycle) takes velocities in dispatch threads and executes
them in a driver loop; SegwayRmp also listens to an e-stop.

### What makes the parts correct

* JobQueue: no job lost, duplicated or overtaken; no worker asleep while there is
  work; `stop()` returns, and leaves nothing running or pending.
* Status: readers see the truth as soon as it is known; stalls are reported in
  time, and never falsely; the component's state is that of its parts.
* Publishing: a subscriber ends up with what the provider has, without gaps and
  without updates applied twice, across failures of IceStorm.
* Lifecycle: whatever was started is stopped and joined once, users before what
  they use, in every order of start-up, interrupt and exception.
* Robots: they stop within a bounded time of the last command and of the e-stop,
  never jerk, and are commanded only while the hardware answers.
* Teleoperation: merging is invisible, and the last command gets through.
* Path following: the last request, all of it and nothing else, is carried out,
  and what is reported about it is so.

Where this code is exposed is listed, line by line, under `hazards` in
`PROJECT.json`, with the properties that guard it.

## 2. The plan

Modules were written from the framework outwards to the components that command
a robot, each with its proofs before the next:

1. `JobPool` (abstract) and `JobQueue` (detailed, a refinement of it).
2. `StatusAggregator` (pure) and `ComponentStatus`, which composes it.
3. `PubSub`: provider, topic handler and consumer around an external topic.
4. `SegwayDrive`: e-stop monitor, component and driver threads.
5. `ComponentLifecycle`: container, infrastructure thread and subsystems.
6. `BicycleDriver`: the two threads of the component and the Player driver.
7. `Teleop`: inputs, event queue, network thread.
8. `PathFollower2d` (abstract, what the interface promises) and `PathFollower`
   (interface, store and loop of LocalNav, compared with it step by step).
9. `GoalPlanner`: its clients, GoalPlanner, PathPlanner and the path follower's
   input.

`EventLoop` and `EventScheduler` were left out: no component uses them, only
their tests do, and what they rest on is in `JobQueue`. `LogCompressor` has no
effect outside the text of messages.

## 3. The modules

`Foo` is a component, `MCFoo` its instances for TLC, `FooProofs` its theorems; those
of `PathFollower` and `GoalPlanner` share `NavigationProofs`.
Operators whose names end in `Mutant` or `Forgotten` are plausible
slips in the definition that follows them. They are not part of the models; they
show that the properties notice the slip.

### JobPool and JobQueue

`JobPool` is the promise of `jobqueue.h` without threads: jobs are accepted,
taken up in order, run at most so many at a time, ended; closing discards the
queue and ends when everything under way has ended.

`JobQueue` is `jobqueue.cpp` at the granularity of its locks.

* `pendingJobs`, `isQueueStopping`, `activeJobCount`, `workerPool` are the
  members; `monitor` is the mutex of the monitor the queue is; `newJob` and `job`
  are `walk()`'s local and the worker's `job_`; `isStopping` is the flag of the
  `Thread`, which `stop()` writes without the mutex.
* A worker's `pc` walks through `Worker::walk()` and `get()`: `loop`, `enter`
  (lock), `test` (loop condition), `waiting`, `woken`, `leave` (second test of the
  flag), `got`, `running`, `returned` or `thrown`, `exited`.
* A client's `add()` is `AddIgnored`, or `AddPush` followed by `AddNotify` with
  the mutex held.
* `stop()` is `StopClear`, then for each worker `StopWorker` and `CancelWorker`,
  then `StopNotifyAll`, a `StopJoin` per control, a `StopForget` per worker and
  `StopReturn`. The order of the workers is left open, which contains the code's.
  A second call starts when the first has returned: the class is stopped by its
  owner, then by its destructor.

Locks held from end to end make one action (`takeJob`, `cancelJob`, `dropJob`).
`execute()` is the job's own code: it ends by return or by exception, and for an
*endless* job only once it is cancelled. Left out: the messages to the tracer,
the read-only `status()`, `pending()`, `toString()`, and the stall test of
`add()`, except that `add()` dereferences the worker pool (`AddMeetsLivePool`).

### StatusAggregator and ComponentStatus

`StatusAggregator` is the pure translation of a table of subsystems and the state
of the infrastructure into the component's status.

`ComponentStatus` is the table itself. Each public operation of `LocalStatus`
holds one mutex from end to end, so each is one action, with the publication it
makes; `SetStatus` is `internalSetStatus()`, and `Keep` its argument -1. The
enumeration's own range does not hold -1; compilers that keep the bit pattern and
compare as a signed number give the meaning the code counts on, and that is the
one modelled. `store` is what remote readers get. `walk` is the stage of the
infrastructure thread, and `Tick` lets time pass. Two assumptions bound time: the
infrastructure thread, once in its loop, comes round to `process()` within
`ProcessPeriod`; and the subsystems in `Punctual` are heard from within the
interval they promise. The latter is a premise of `PunctualNeverStalled` alone.

The status interface is taken to be enabled, so that the loop of the
infrastructure thread is entered; `ComponentLifecycle` has the case in which there
is nothing left for it to do. Left out: names and texts, the exceptions for
unknown subsystems (the actions are disabled: nothing changes), up time and time
stamps, the topic the status is published to.

### PubSub

The owner of a provider, any number of consumers, the dispatch threads that serve
their `subscribe()`, and IceStorm. Data is counted: `made` updates exist, `data` is
how many of them `data_` has, a message is either the whole (`Data(n)`) or one
update (`Update(n)`); `picture` is what a consumer knows of.

* `owner` walks through `initInterface()` (`connect`, `push`, `serve`) and
  through `localSetAndSend()`, `localSet()`, `localSend()` with
  `tryPushToIceStormWithReconnect()` (`push`, `reconnect`, `again`, `set`).
  `style` says which of the two versions of `localSetAndSend()` the component
  uses.
* `call` is the dispatch thread: `grab` (the critical section that copies the
  data), `topic` (`subscribeAndGetPublisher`), `push` (the initial data), and its
  answer.
* `consumer` is `subscribeWithString()` with retry, `unsubscribe()`, the destructor.
* IceStorm is external and modelled from how the code uses it: a set of
  subscribers, a queue per subscriber delivered in order, a publisher that is a
  oneway proxy, so that a failing call may raise an exception or not. A crash
  loses the queues, and the subscriptions unless they are in its database.
* `quiet` and `served` are history: consumers whose last subscription overlapped
  no update, no fault; consumers that were sent something.

Left out: the connection to the registry, the activity's stopping flag other than
as `GiveUp`, Ice's own retries, more than one owner thread.

### SegwayDrive

`SetCommand` and `SetDesiredSpeed` are `setCommand()`: the e-stop is tested, then
the command is handed to one powerbase after the other, and other threads may step
in between. The e-stop's data comes in dispatch threads as well; `silence` is
its keep-alive timer, which only a test looks at. A driver thread's pass is
`Enable` and `Begin` (hardware enabled, timers and ramp reset), `FetchAndRamp` (the
store is read and `SpeedSetPoint` moves towards the set point), `Write`,
`CheckTimeout` (which stores a stop in the thread's own command store), and after a
fault `Recover`. `Tick` is time: it cannot pass a loop that is later than
`LoopMax`. `quiet` and `denied` count ticks since a command to move was stored,
and since the e-stop was seen released. `sent` restarts with each enabling.

Left out: published odometry and power, stall reports, the merging of two
powerbases' data, the exception for speeds above the hard limit of the protocol.

### ComponentLifecycle

`main` is the container: `Application::run()` or `Service::start()/stop()`.
`handler` is the interrupt callback, a thread of its own. Both stop the component
through `stopComponent()`: `holder` has `mutex_`, `pos` is the thread it is at,
counted down as `component.cpp` of the components does. `infra` is
`ComponentThread::walk()`, with the router session, the activation that is tried
again while the registry is down, the registration of Home, "nothing left to do",
and its exits, by an exception as well. `sub` is `SubsystemThread::run()`: any of its
three stages may throw. `joins` and `told` count what was done to each thread,
`hasty` notes that `stop()` came before `start()` was through.

Left out: the window between making a thread and starting it, `start()` failing
to make the infrastructure thread, adapters activated by hand, components that
keep the main thread for a GUI.

### BicycleDriver

`hw` is HwThread's loop: enable, presume well, read, take the command, write,
report. `net` is NetThread, told to stop before HwThread. `caller` is a dispatch
thread between the test for a fault and the store (`Receive`, `Store`). `enabled`
and `link` are the driver's; `server` is the Player server, which may go away and
come back. A lost connection stays lost: see the observations. Robot2d has the
same threads.

Left out: `disable()`, called on the way out of the program only; the limits and
conversions of commands; drivers that report a change of state from `read()`.

### Teleop

`events` is the queue with its optimizer: `NewCommand` combines an input with the
last event that waits if `Combines` says so. `network` is NetworkThread: take an
event and apply it, or time out and repeat the command; then send, which may fail
with or without effect (`SendFails`), after which the command is to stand still.
`intended` and `aims` are history: what the inputs, taken one by one, amount to.

Left out: the transverse axis; `newIncrementCommand()` and `newRelativeCommand()`,
which have no callers; DriveBicycleDriver, which has the same form; a call that
timed out and is executed later.

### PathFollower2d and PathFollower

`SetData`, `ActivateNow`, `SetEnabled` are dispatch threads; `pending`,
`haveNewPath`, `havePendingActivation` are the store of requests. `pc` walks through
`MainThread::work()`: `service` (the store is emptied), `sendPath`, `activate` and
`sendActivation` (critical section and push), `note` (PathMaintainer), `changes` and
`sendState`, `inputs` (waypoints reached are peeled off, at random, and a command is
worked out), `decide` (enabled, or just disabled), `letGo`, `send`, `stopVehicle`.
`seen` and `seenPath` are what was published last. `wanted` is history: what the
requests so far amount to by the interface and by what `setData()` says of a path it
refuses ("we should stop immediately", `pathfollowerinterface.cpp:70`). A refused path
asks for standing still; the code, which has stored it to be followed at once, takes it up.

`PathFollower2d` is what `pathfollower2d.ice` promises its users, without store,
thread or waypoint: path and activation are taken up together (`TakeUp`), the robot
is sent along the path that is followed at that moment or nowhere (`Drive`), hands
leave the wheel only with the robot standing (`LetGo`), and send nothing from then on;
a path that is refused is never followed (`Refuse`). The mapping takes as followed what
was taken out of the store, from the moment it was (`Followed`), and the hands to be off
the wheel while MainThread notes that it is disabled (`Wheel`): the passes that only
publish are stuttering steps of the interface. MainThread notes a call of `setEnabled()`
in its next pass only; a command that is under way at that moment still counts as sent
by an enabled follower.

The code does not implement this interface. `DepartsOnlyAsRecorded` says that each of its
steps is a step of `PathFollower2d` or one of two that have names: `TakesUpRefused`
(`serviceRequests()` takes up a path that was refused, `pathfollowerinterface.cpp:73`)
and `StopsUnasked` (a failure stops the vehicle of a follower whose hands are off the
wheel, `localnav/mainthread.cpp:332`). The instance has both; without either of the two
exceptions TLC finds the property violated.

Left out: the geometry of waypoints and goals, the speed limiter, test mode and
set-up, IceStorm losing a publication. One `setEnabled()` at a time.

### GoalPlanner

`SetPath` and `SetActivation` are the two halves of `setData()`, `GPActivateNow` and
`PassActivation` (or `PassFails`) those of `activateNow()`. MainThread takes a path (`Take`), sends a task
(`SetTask`), takes an answer (`Receive`) or gives up (`TimeOut`), fetches the
activation, sends the path. A failure gives the request up or leaves it to be tried
again, as the exception says. A remote call that fails has had no effect
(`TakenFails`, `SendFails`) or has had it and only its reply was lost
(`StopRobotUnanswered`, `SetTaskUnanswered`, `SendFails`): `strays` counts, as history, the
tasks that PathPlanner got in this way, and `Abandoned` those and the waits that timed
out. PathPlanner serves its queue of tasks in order (`Plan`). The stores are external
(`gbxiceutilacfr::Store`), modelled after what the test of their sibling
`orcaice::PtrStore` requires (`libs/orcaice/test/ptrstoretest.cpp`). Names that `PathFollower` has as well carry the prefix
`GP` (`GPInit`, `GPSendPath`), so that one module can prove theorems about both;
`activationStore` and `mainPc` are `activationStore_` and the place of MainThread.

Left out: replanning (`EnableReplan` is 0 by default), the threads being stopped,
the timing of waypoints, the progress monitor.

## 4. The runs

| Run | Instance | States | Shows |
|---|---|---|---|
| `jobqueue` | 2 workers, 3 jobs (1 endless), 1 spurious wake-up, 2 calls of `stop()` | 189,000 | no job and no wake-up is lost, `stop()` returns and leaves nothing; `JobQueue` implements `JobPool` |
| `status` | 2 subsystems, 1 of them punctual, intervals 0 and 1, 4 calls beside heartbeats | 1,288,000 | readers are current, stalls are shown in time and never falsely |
| `pubsub` | 1 consumer, 3 updates, 2 faults | 95,000 | no update twice, an undisturbed subscription misses none, and subscribing succeeds in the end |
| `pubsub_served` (violated) | 1 consumer, 2 updates, 1 fault | | the retry of a subscription brings no data |
| `segway` | 1 powerbase, e-stop, 2 dispatch threads, 2 commands to move, symmetry and a view | 207,000 | bounded stopping, limited acceleration |
| `lifecycle` | 2 subsystems, 3 configurations, 2 signals, `start()` may throw | 432,000 | nothing left behind, order of joins, a signal ends the program, the registry is found |
| `bicycle` | 2 commands, 2 dispatch threads, 2 outages | 208,000 | writes follow reads, honest health, commands are executed, the thread can be stopped |
| `teleop` | speeds -1 to 1, queue of 2, 2 pending increments, 1 failure, both devices | 348,000 | merging is invisible, the robot follows the command |
| `teleop_stop` (violated) | the same, keyboard | | a stop merged with a waiting increment does not stop |
| `pathfollower` | paths of 2, 1 and 0 waypoints and a malformed one, 3 calls, 2 failures | 455,000 | requests are honoured, state is current, the robot stands or follows as wanted; `PathFollower` departs from `PathFollower2d` in the two recorded ways only |
| `goalplanner` | 2 callers, 2 paths, 1 release, 1 time-out, 2 faults | 170,000 | plans lag by no more than the abandoned tasks, an idle planner has served, the last request is served |
| `goalplanner_late` (violated) | 1 caller, 2 paths, 1 time-out | | a late answer is taken for the plan of the next path |

The violated runs each check one sentence of a comment, a driver's note or the
documentation that the code does not keep; `findings` in `PROJECT.json` quotes it.

Each run's instance lies inside what its theorems cover. Some invariants were checked on
these instances before they were proved and are not checked again by a run: the
types, and those of section 5 that are marked (proved only).

### The bounds, and why they are enough

* `jobqueue`: one spurious wake-up sends a worker through its loop condition with an
  empty list; a second `stop()` meets every stage the first has left behind; with
  two workers and three jobs a lost notification can be told from a pending one,
  and one worker can be busy for ever.
* `status`: an interval of 1 with nothing added to it is the tightest tolerance:
  a silence of 3 that is not shown would be a violation, and 3 is where a
  subsystem's timer stops. Publications are due at 2 and made by 3; the publish
  timer stops one later. Four calls let a subsystem be added, started, stall, and
  change or leave; another one interferes.
* `pubsub`: with three updates an old copy can be told from a new one and an update
  can overtake another; two faults allow a crash after a lost answer. Consumers share
  only the provider and never write to it, so one suffices; the proofs cover any
  number.
* `segway`: the smallest values that tell a ramp (two steps to full speed), a time-out
  and a late iteration apart: `MaxSpeed` 2, acceleration 1, `CommandTimeout` 1,
  `DtLimit` 2, `LoopMax` 3, `KeepAlive` 1. Two dispatch threads let one be overtaken
  between the test of the e-stop and the handing over. The view (`MCView`) makes one of states
  that differ only in values that are overwritten before they are read: the command of a
  call that has returned, and the loop's variables of a base that is not operated.
* `lifecycle`: two subsystems are the bicycle's; a first one can be used by a second.
  Two signals let one come while the first is handled.
* `bicycle`: two outages let one come while the driver is being enabled after the other.
* `teleop`: `MaxSpeed` 1 already clamps; the queue holds an event that is taken while
  another is merged into.
* `pathfollower`: a path of two waypoints has a waypoint between activation and end, and
  one shorter has fewer than it; a malformed path can come before and after each of
  them. Three calls are a path, another one, and disabling or
  activating. Two failures: one in the loop, one of stopping the vehicle.
* `goalplanner`: two callers let one's path meet the other's activation; one time-out
  and two faults let a late answer meet a retry, or two tasks be abandoned in different
  ways.

Deadlock checking is off where the system may stop for good: a stopped queue,
consumers that have gone, a program that ended, threads that are over, clients that
have no more to ask. A component's status and a powerbase's loop never stop, and
those runs check for deadlock.

### Fairness

Weak fairness is what the operating system's scheduler gives a runnable thread, and
what Ice gives a call that can return. No run relies on a client calling, an operator
typing, a signal coming or anything failing; faults are bounded by constants, so that
nothing fails for ever.

* `JobQueue`: each worker, the thread inside `add()` and the one inside `stop()` go on.
  There is no fairness for spurious wake-ups.
* `PubSub`: the owner inside an operation, a dispatched call, a consumer inside its
  retry loop and IceStorm's deliveries go on. That IceStorm is started again is an
  assumption on its environment (it runs under IceGrid or an init script), made
  because the retry loop has no other hope.
* `ComponentLifecycle`: the container, the handler, the stopping and the infrastructure
  thread go on, and a subsystem that was told to stop leaves its stage. The last is an
  assumption on the components; `HwThreadStops` discharges it for one of their threads.
  Nobody has to stop a Service.
* `BicycleDriver`: both threads and the callers go on; the server need not come back.
* `Teleop`: NetworkThread runs and its calls return.
* `PathFollower`: MainThread goes on, which includes range data arriving, and so does
  the second half of `setEnabled()`.
* `GoalPlanner`: MainThread, the planner and the second halves of calls go on; a wait
  times out if its answer got lost, which is what the wait's limit is for.

`ComponentStatus` and `SegwayDrive` state their promises about time as safety, with
ticks that the threads cannot miss, and need no fairness.

## 5. The proofs

The proof modules follow the same argument: an inductive invariant `IInv` made of
named parts; `Init => IInv`; lemmas that say how each action keeps each part; `IInv`
implies the property. Each assumes only the named ASSUME of its module, which says that
bounds are natural numbers and special values are not ordinary ones. The bounds are
arbitrary, so what is proved holds without them.

**JobQueueProofs** (`PoolAssumption`: also that the pool is finite and not empty). `IInv`
adds to the properties what they rest on. `HoldsByPlace`: which of a worker's pointers is
set follows from its place. `ActiveCountExplained`: the counter is the size of a set of
workers outside `get()` that misses only those on their way out. `StopOrder`: the queue's
flag is set, and the list cleared, before any worker's flag: this is why an unlocked
second look at the flag cannot meet an empty list. `JoinOrder`: a thread is forgotten only
after it was joined, once. `AcceptedOnce`: histories have no repetitions. Proved: all
safety properties of the run, `RunOnce`, `ActiveCountBounds` and mutual exclusion of the
monitor (proved only), and that every behaviour implements `JobPool` (`QueueImplementsPool`).

**ComponentStatusProofs** (`StatusAssumption`: the multiplicative tolerance and the two
periods are positive). `IInv` adds `PublishedFirst`, `SilenceBounded` (a subsystem that is
watched and not stalled has been silent no longer than tolerated plus the time since
`process()` looked last; the same for publications) and `PunctualInTime`.
`StallShownInTime` and `UpdatesKeepComing` follow from `SilenceBounded`, and need
`StoreIsCurrent` for what readers see. All properties of the run are proved. `EndIsShown`
(proved only: the end is seen, and no work before the infrastructure works) needs
`EndIsKnown`, which relates the stage of `walk()` to the state it has set, and that the
aggregate of an infrastructure that does not work is that state.

**PubSubProofs** (`PubSubAssumption`). `NoUpdateTwice` looks at the head of a queue only,
and says nothing of where the queue came from. `IInv` adds `NothingNewer` (while an update
is `Unsent`, whatever is stored, copied, queued or known is older than it: this is where
sending before setting counts), `UpdatesInOrder`, `SomethingToSend` and `NotServedYet`.
`QueueMoves` lists the five ways a queue can change in a step. For
`QuietSubscriptionMissesNothing` a second invariant, `QuietInv`, adds that calls are
waited for and `QuietIsUndisturbed`: while a quiet subscription is being made the owner
does nothing and the copy is current; afterwards what the queue adds to what the consumer
knows is all that has been published. A third one, `FaultlessInv`, describes the call of a
consumer at each of its stages while nothing has failed; from it follow (proved only)
`GoneAreUnsubscribed` and `FaultlessSubscribersAreServed`: what the violated run shows
takes a fault.

**SegwayDriveProofs** (`DriveAssumption`). `LoopFacts` is what a loop's variables say of what the hardware was told;
`QuietFacts` bounds each of the phases after the last moving command: `Waiting` (it lies
in the store), `Followed` (it is the set point, until the time-out), `Stopping` (the stop
lies in the store), `Slowing` (the ramp goes down). Their bounds add up to `StopBound`.
`Permission` says that a command to move is handed out only in the tick in which it was
permitted, which makes the e-stop a case of the former. All properties of the run are
proved. Proved only, for the two switches of the configuration: `EStopComesFirst`, from
`EStopFirst` (while `initialise()` connects, every thread is unstarted), and
`DisabledMotionNeverMoves`, from `Standing` (with motion disabled store, set point, speed
and what was sent are at rest together).

**ComponentLifecycleProofs** (`LifecycleAssumption`). `NotBegun`, `OneStops`,
`NoneStartsLate` (after a stop that was not hasty nothing is started), `PastAreJoined` and
`OthersAreNot` (the threads above `pos` are told, ended and joined once, those below
not at all), `DropoutsAreShown`. Proved for any number of subsystems and signals.
`SignalsExplain` says that only a signal to a program makes the handler run or a stop
hasty, and that before the container has waited only it tells threads to stop. Two
properties follow (proved only): `LeavesNothing`, which needs no exception for hasty
stops, and `FailedStartStopsNobody`, the observation about `application.cpp:196`.

**BicycleDriverProofs** (`BicycleAssumption`). `PassKnows` says what HwThread knows at
each place of its pass; a good read implies an enabled driver. Proved only: NetThread ends
before HwThread (`NetEndsFirst`, from `ToldInOrder`), and a connection that was lost
stays lost (`LossIsForever`, from `LinkIsMade`: a driver has had a connection exactly if
it is enabled, and an enabled driver does not connect), the observation about
`driver.cpp:177`.

**TeleopProofs** (`TeleopAssumption`). `CombiningIsInvisible` is inductive with the types,
one aim per event, and `OneAxisEach`: a joystick's events set axes and never increment
them. With `RobotIsCurrent` (what is kept is what the robot has, except while it is being
sent) `RobotDoesWhatIsIntended` follows (proved only).

**NavigationProofs**, about `PathFollower` (`PathFollowerAssumption`). `StoreIsTrue`: a path in
the store is the one set last, with its activation wanted exactly if noted, or one that was
refused, with nothing wanted. `WantedIsSane`: no refused path is wanted. `TakenIsTrue`:
what was taken out is on its way into PathMaintainer. `PathIsThere`, `StateIsCurrent`. From
these `WaypointInRange`, `RequestsAreHonoured` and `StateIsCurrent` follow. For the
comparison with the interface (`FollowerDepartsOnlyAsRecorded`) `CommandIsForPath` is
added: a command that was worked out is for the path followed now, and only hands on the
wheel send it. Each action is then shown to be one step of `PathFollower2d`, a stutter or
one of the two departures; where the store is emptied, `StoreIsTrue` says that what is
taken up is what was asked, or was refused. Two properties of the loop are proved only:
`HandsOffTheWheel` (`HandsOff` is an invariant of `PathFollower2d` that the departures keep
as well, and the mapping carries it over), and `CommandsFollowThePath`.

**NavigationProofs**, about `GoalPlanner` (`GoalPlannerAssumption`). Answers come in the order
of the tasks, and each wait that did not time out took one; the answers still to come
therefore lag the task sent last by no more than there were tasks abandoned, by a wait that
timed out or by a `setTask()` that was executed though it failed for its caller. A
time-out whose answer was lost was paid for by a fault, which bounds them. This gives
`PlanLagsByAbandoned` and, before the first task is abandoned, that the plan is that of the
path being served (`PlansOnTimeMatch`: the violated run takes a time-out) and that
the follower is never sent back (`FollowerGoesForward`). A request is unread, being served,
served or given up, hence `IdleMeansServed`. `GoIsTraced` follows an activation from its
request through both stores to the follower: `NeverGoesUnasked` (proved only).

### Model-checked only

Liveness under fairness is out of the prover's reach: `AcceptedJobEnds`, `StopReturns`,
`SubscribeSucceeds`, `SignalEndsProgram`, `RegistryIsFound`, `AcceptedCommandIsExecuted`,
`HwThreadStops`, `RobotFollowsCommand`, `RobotStands`, `PathIsFollowed`,
`LastRequestIsServed`. All that the passing runs check beside these is proved. No module uses RECURSIVE operators, and
there is no induction over data.

## 6. Not modelled, and why

Numerical code (geometry, maps, vision, planning), which has no discrete state to speak
of; drivers, file formats and user interfaces, which are input and output; string,
property and configuration utilities, which are sequential and covered by unit tests;
tracing; vendored algorithms and generators; sensor servers, which are a driver and a
provider. `EventLoop` and `EventScheduler` have no users but their tests. The topic of
StatusImpl has the form of `PubSub`; connection utilities the form of its retry loops.
Data races on smart pointers (`toString()` of the queue, the proxies of the topic
handler) and the lifetime of C++ objects are not modelled: each access is atomic.
`PROJECT.json` lists every component with its status.

## 7. Observations

What was noticed while modelling and is not the subject of a run. Each is a reading of
the code at the line given.

Framework:

* `jobqueue.cpp:282`: a worker between `get()` and `takeJob()` escapes `cancelJob()`,
  though `jobqueue.h:153` says that `stop()` cancels all running jobs.
  `jobqueue.cpp:348`: `activeJobCount_` may stay above zero after `stop()`.
* `localstatus.cpp:307`: a heartbeat that ends a stall erases the text. `:279`: -1 is
  cast to an enumeration without negative values. `:389`: a component without subsystems
  goes silent. `:438`: IceStorm is called with the status' mutex held.
* `providerImpl.h:75`: a provider that found IceStorm down serves without a topic until a
  publication happens to reconnect. `:217`: a subscription that overlaps an update misses
  it or gets the older data after it. `icestormutils.h:326`: what is published while
  IceStorm is down is lost.
* `statusImpl.cpp:114`: if IceStorm is down when the topic handler is made, the pointer is
  dropped and the status stays local for the life of the component.
* `consumerImpl.h:258`: a consumer destroyed while the answer to its subscription is
  missing stays subscribed.
* `application.cpp:196`: when `start()` throws, `run()` returns without stopping the
  threads that were started. `componentthread.cpp:120`: "nothing left to do" skips
  `infrastructureFinalising()`. A component stopped during `start()` leaves the threads
  that are started afterwards (`hasty`). An exception of the router session leaves the
  adapter inactive for ever.

Robots:

* Silence of the e-stop is noticed only when a command is tested; what stops the robot is
  the 0.2 s time-out of commands. The keep-alive limit is 1.5 periods, while `estop.ice:37`
  speaks of one. `driverthread.cpp:222`: the time-out's stop overwrites a command that
  arrived since `isNewData()` was asked at 182.
* `hydrobicycleplayerclient/driver.cpp:177`: `enabled_ = false` stands behind a `throw` and
  is never executed, so that `enable()` after a lost connection returns at 116 without
  connecting (likewise in `hydrorobot2dplayerclient/driver.cpp:147`).
* Bicycle writes the last command in every pass, after faults too: it has no command
  time-out. The published reference is the last command accepted, not the last written.
  `netthread.cpp:100`: commands that come before `setNotifyHandler()` are dropped.
  `hwthread.cpp:201`: a command may be stored in a fault.
* Teleoperation sends no stop when it ends, and joystick events that are no axis resend the
  previous command. Clamping makes combined key increments differ from single ones.

Path following:

* The two departures of `DepartsOnlyAsRecorded`. `localnav/mainthread.cpp:332`: any failure
  makes a follower that is disabled command the robot to stand, whoever drives it, though
  `pathfollower2d.ice:153` says that it sends nothing. `pathfollowerinterface.cpp:73`: a path
  that is not sane is refused after it has been stored with activation, and is followed
  until another one is set, though the comment at 70 says to stop (the `stopPathData` made
  there is not used).
* `pathfollowerinterface.cpp:163`: an empty path that is activated is first published as
  following waypoint 0. `:117`: states are published outside the critical section by two
  threads and may overtake each other.
* A path follower's thread that is stopped leaves its last command in force.
* `goalplanner/mainthread.cpp:299`: the activation is read after planning and may be that of
  a newer request; one stored after that is never applied, and an empty store drops the
  request. A late plan can restart an old path after a stop, and a `stopRobot()` that fails
  drops the stop. `:470`: when the reply of `setTask()` is lost the request is given up, the
  task is planned all the same, and its answer is taken for that of the next path, as
  after a time-out. `:480`: stopped while it waits, `planPath()` looks at a path that was never
  filled in. `:646`: `!x == y` compares a negation.
