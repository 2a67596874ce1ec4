------------------------- MODULE ComponentLifecycle -------------------------
(***************************************************************************)
(* The life of an Orca component, from Component::init() to the return of  *)
(* its container: orcaice::Application, which runs it as a program of its  *)
(* own and handles signals, or orcaice::Service, which an IceBox starts    *)
(* and stops.                                                              *)
(*                                                                         *)
(* A component's start() makes its subsystem threads one after the other,  *)
(* each with a reference to those before it; its stop() stops and joins    *)
(* them in the opposite order (components/bicycle/component.cpp is the     *)
(* pattern). Thread 0 is the infrastructure thread (ComponentThread), the  *)
(* threads 1..NThreads are the subsystems (SubsystemThread).               *)
(***************************************************************************)
EXTENDS Integers

CONSTANTS
  NThreads,    \* number of subsystem threads
  Configs,     \* the configurations a component may be run with
  StartThrows, \* whether the constructor of a subsystem may throw
  MaxSignals   \* bound: number of interrupt signals

Subsystems == 1..NThreads
Threads == 0..NThreads

\* app: run by an Application; home, status, history, router: what the
\* infrastructure thread looks after; require: Orca.Component.RequireRegistry
Config == [app : BOOLEAN, home : BOOLEAN, status : BOOLEAN, history : BOOLEAN,
           router : BOOLEAN, require : BOOLEAN]

ASSUME LifecycleAssumption ==
  /\ NThreads \in Nat
  /\ Configs \subseteq Config
  /\ StartThrows \in BOOLEAN
  /\ MaxSignals \in Nat

VARIABLES
  config,       \* the properties that are read at run time
  main,         \* how far the container is
  handler,      \* Application::interruptCallback()
  signals,      \* number of signals received
  holder,       \* who holds Application::mutex_ and stops the component
  pos,          \* the thread it is at
  stopped,      \* Application::isComponentStopped_
  infra,        \* where ComponentThread::walk() is
  infraStatus,  \* the last state it reported
  registered,   \* registeredHome
  sub,          \* where the run() of each subsystem is
  subStatus,    \* the last state it reported
  faulty,       \* the subsystems that reported a fault
  told,         \* the threads whose stop() has been called
  joins,        \* how often each thread has been joined
  communicator, \* Ice::Communicator
  adapter,      \* the component's object adapter
  registry,     \* whether the IceGrid registry answers
  hasty         \* history: the component was stopped before it had started

containerVars == <<main, handler, signals>>
stopVars == <<holder, pos, stopped, told, joins, hasty>>
infraVars == <<infra, infraStatus, registered>>
subVars == <<sub, subStatus, faulty>>
iceVars == <<communicator, adapter>>
vars == <<config, containerVars, stopVars, infraVars, subVars, iceVars, registry>>

Init ==
  /\ config \in Configs
  /\ main = "init"
  /\ handler = "idle"
  /\ signals = 0
  /\ holder = "nobody"
  /\ pos = -1
  /\ stopped = FALSE
  /\ infra = "none"
  /\ infraStatus = "none"
  /\ registered = FALSE
  /\ sub = [i \in Subsystems |-> "none"]
  /\ subStatus = [i \in Subsystems |-> "none"]
  /\ faulty = {}
  /\ told = [i \in Threads |-> FALSE]
  /\ joins = [i \in Threads |-> 0]
  /\ communicator = "up"
  /\ adapter = "holding"
  /\ registry \in {"up", "down"}
  /\ hasty = FALSE

Started(i) == IF i = 0 THEN infra # "none" ELSE sub[i] # "none"
Ended(i) == IF i = 0 THEN infra \in {"left", "escaped"} ELSE sub[i] = "over"

-----------------------------------------------------------------------------
(* The container                                                            *)

\* Component::init(): the infrastructure thread is started
InitComponent ==
  /\ main = "init"
  /\ main' = "starting"
  /\ infra' = "beginning"
  /\ UNCHANGED <<config, handler, signals, stopVars, infraStatus, registered,
                 subVars, iceVars, registry>>

\* a statement pair of Component::start(): make a subsystem and start its thread
StartSubsystem(i) ==
  /\ main = "starting"
  /\ sub[i] = "none"
  /\ \A j \in 1..(i - 1) : sub[j] # "none"
  /\ sub' = [sub EXCEPT ![i] = "initialising"]
  /\ subStatus' = [subStatus EXCEPT ![i] = "initialising"]
  /\ UNCHANGED <<config, containerVars, stopVars, infraVars, faulty, iceVars,
                 registry>>

\* Component::start() returns
StartReturns ==
  /\ main = "starting"
  /\ \A i \in Subsystems : sub[i] # "none"
  /\ main' = "waiting"
  /\ UNCHANGED <<config, handler, signals, stopVars, infraVars, subVars, iceVars,
                 registry>>

\* Component::start() throws: an Application returns 1, a Service has only
\* logged it when it returns to the IceBox
StartFails ==
  /\ StartThrows
  /\ main = "starting"
  /\ \E i \in Subsystems : sub[i] = "none"
  /\ main' = IF config.app THEN "failed" ELSE "waiting"
  /\ UNCHANGED <<config, handler, signals, stopVars, infraVars, subVars, iceVars,
                 registry>>

\* waitForShutdown() returns, or the IceBox calls Service::stop()
WaitReturns ==
  /\ main = "waiting"
  /\ config.app => communicator # "up"
  /\ main' = "stopping"
  /\ UNCHANGED <<config, handler, signals, stopVars, infraVars, subVars, iceVars,
                 registry>>

\* a signal is received: Ice calls interruptCallback() in a thread of its own
Interrupt ==
  /\ config.app
  /\ main \notin {"failed", "returned"}
  /\ handler = "idle"
  /\ signals < MaxSignals
  /\ signals' = signals + 1
  /\ handler' = "stopping"
  /\ UNCHANGED <<config, main, stopVars, infraVars, subVars, iceVars, registry>>

Stopping(who) ==
  \/ who = "main" /\ main = "stopping"
  \/ who = "handler" /\ handler = "stopping"

\* the caller of stopComponent() goes on behind it
\* (mutant: the handler forgets to shut the communicator down)
GoesOnMutant(who) ==
  /\ main' = IF who = "main" THEN "deactivating" ELSE main
  /\ handler' = IF who = "handler" THEN "idle" ELSE handler
GoesOn(who) ==
  /\ main' = IF who = "main" THEN "deactivating" ELSE main
  /\ handler' = IF who = "handler" THEN "shutting" ELSE handler

\* the test of isComponentStopped_, which a Service does not have
AlreadyStopped == config.app /\ stopped

\* stopComponent() returns at once
StopAgain(who) ==
  /\ Stopping(who)
  /\ holder = "nobody"
  /\ AlreadyStopped
  /\ GoesOn(who)
  /\ UNCHANGED <<config, signals, stopVars, infraVars, subVars, iceVars, registry>>

\* the thread to be stopped first
FirstToStop == NThreads

\* the one after it (mutant: the infrastructure thread is forgotten)
NextToStopMutant(i) == IF i = 1 THEN -1 ELSE i - 1
NextToStop(i) == i - 1

StopBegins(who) ==
  /\ Stopping(who)
  /\ holder = "nobody"
  /\ ~AlreadyStopped
  /\ holder' = who
  /\ pos' = FirstToStop
  /\ hasty' = (hasty \/ main \in {"init", "starting"})
  /\ UNCHANGED <<config, containerVars, stopped, told, joins, infraVars, subVars,
                 iceVars, registry>>

\* stopAndJoin(): there is no thread
SkipThread ==
  /\ pos \in Threads
  /\ ~Started(pos)
  /\ pos' = NextToStop(pos)
  /\ UNCHANGED <<config, containerVars, holder, stopped, told, joins, hasty,
                 infraVars, subVars, iceVars, registry>>

\* stopAndJoin(): the thread is told to stop ...
TellThread ==
  /\ pos \in Threads
  /\ Started(pos)
  /\ ~told[pos]
  /\ told' = [told EXCEPT ![pos] = TRUE]
  /\ UNCHANGED <<config, containerVars, holder, pos, stopped, joins, hasty,
                 infraVars, subVars, iceVars, registry>>

\* ... and waited for (mutant: not waited for)
MayJoinMutant(i) == told[i]
MayJoin(i) == told[i] /\ Ended(i)

JoinThread ==
  /\ pos \in Threads
  /\ Started(pos)
  /\ MayJoin(pos)
  /\ joins' = [joins EXCEPT ![pos] = IF @ < 2 THEN @ + 1 ELSE 2]
  /\ pos' = NextToStop(pos)
  /\ UNCHANGED <<config, containerVars, holder, stopped, told, hasty, infraVars,
                 subVars, iceVars, registry>>

StopEnds(who) ==
  /\ holder = who
  /\ pos = -1
  /\ stopped' = TRUE
  /\ holder' = "nobody"
  /\ GoesOn(who)
  /\ UNCHANGED <<config, signals, pos, told, joins, hasty, infraVars, subVars,
                 iceVars, registry>>

\* interruptCallback(): communicator()->shutdown(), which deactivates the adapter
ShutsDown ==
  /\ communicator' = IF communicator = "up" THEN "shutdown" ELSE communicator
  /\ adapter' = "deactivated"

HandlerShutsDown ==
  /\ handler = "shutting"
  /\ handler' = "idle"
  /\ ShutsDown
  /\ UNCHANGED <<config, main, signals, stopVars, infraVars, subVars, registry>>

\* run() waits for the adapter; Service::stop() deactivates it first
ContainerReturns ==
  /\ main = "deactivating"
  /\ IF config.app THEN adapter = "deactivated" /\ UNCHANGED adapter
                   ELSE adapter' = "deactivated"
  /\ main' = "returned"
  /\ UNCHANGED <<config, handler, signals, stopVars, infraVars, subVars,
                 communicator, registry>>

\* Ice::Application::main() destroys the communicator after run() has returned
DestroyCommunicator ==
  /\ config.app
  /\ main \in {"failed", "returned"}
  /\ communicator # "destroyed"
  /\ communicator' = "destroyed"
  /\ adapter' = "deactivated"
  /\ UNCHANGED <<config, containerVars, stopVars, infraVars, subVars, registry>>

-----------------------------------------------------------------------------
(* The infrastructure thread                                                *)

\* walk(), to the router
InfraBegins ==
  /\ infra = "beginning"
  /\ infraStatus' = "working"
  /\ infra' = IF config.router THEN "routing" ELSE "activating"
  /\ UNCHANGED <<config, containerVars, stopVars, registered, subVars, iceVars,
                 registry>>

\* the session with the router is made or refused, or an exception that is not
\* caught leaves walk()
ConnectRouter ==
  /\ infra = "routing"
  /\ infra' \in {"activating", "escaped"}
  /\ UNCHANGED <<config, containerVars, stopVars, infraStatus, registered, subVars,
                 iceVars, registry>>

\* whether activateAdapter() gives up after Context::activate() has thrown
\* (mutant: it does)
GivesUpMutant == TRUE
GivesUp == communicator = "destroyed" \/ ~config.require

\* activateAdapter(): the adapter is activated
ActivationSucceeds ==
  /\ infra = "activating"
  /\ ~told[0]
  /\ registry = "up"
  /\ adapter = "holding"
  /\ adapter' = "active"
  /\ infra' = "looping"
  /\ UNCHANGED <<config, containerVars, stopVars, infraStatus, registered, subVars,
                 communicator, registry>>

\* activateAdapter(): without an active adapter; otherwise it tries again
ActivationEnds ==
  /\ infra = "activating"
  /\ told[0] \/ (GivesUp /\ (registry = "down" \/ communicator = "destroyed"))
  /\ infra' = "looping"
  /\ UNCHANGED <<config, containerVars, stopVars, infraStatus, registered, subVars,
                 iceVars, registry>>

NeedRegisterHome == config.home /\ ~registered

\* the test of what is left to do
NothingToDo ==
  ~NeedRegisterHome /\ ~config.status /\ ~config.history /\ ~config.router

\* walk(): "nothing left to do, quitting"
InfraQuits ==
  /\ infra = "looping"
  /\ ~told[0]
  /\ NothingToDo
  /\ infra' = "left"
  /\ UNCHANGED <<config, containerVars, stopVars, infraStatus, registered, subVars,
                 iceVars, registry>>

\* tryRegisterHome()
RegisterHome == (registry = "up" /\ communicator = "up") \/ ~config.require

\* a pass of the loop that registers Home
InfraLoops ==
  /\ infra = "looping"
  /\ ~told[0]
  /\ NeedRegisterHome
  /\ RegisterHome
  /\ registered' = TRUE
  /\ UNCHANGED <<config, containerVars, stopVars, infra, infraStatus, subVars,
                 iceVars, registry>>

\* the loop ends, because the thread is told to stop or by an exception
InfraLeaves ==
  /\ infra = "looping"
  /\ told[0] \/ ~NothingToDo
  /\ infra' = "left"
  /\ infraStatus' = "finalising"
  /\ UNCHANGED <<config, containerVars, stopVars, registered, subVars, iceVars,
                 registry>>

-----------------------------------------------------------------------------
(* The subsystem threads                                                    *)

Becomes(i, place, state) ==
  /\ sub' = [sub EXCEPT ![i] = place]
  /\ subStatus' = [subStatus EXCEPT ![i] = state]
  /\ faulty' = faulty
  /\ UNCHANGED <<config, containerVars, stopVars, infraVars, iceVars, registry>>

\* initialise() returns, to work() unless the thread is being stopped
Initialised(i) ==
  /\ sub[i] = "initialising"
  /\ IF told[i] THEN Becomes(i, "finalising", "finalising")
                ELSE Becomes(i, "working", "working")

\* work() returns
Worked(i) ==
  /\ sub[i] = "working"
  /\ Becomes(i, "finalising", "finalising")

\* finalise() returns, and run() waits to be told to stop
Finalised(i) ==
  /\ sub[i] = "finalising"
  /\ Becomes(i, "over", "shutdown")

\* run() catches an exception: one that says that the component is going down
\* is no news; another one is a fault unless the thread is being stopped
\* (mutant: every exception is taken for a sign of the shutdown)
IsNewsMutant(i) == ~told[i] /\ communicator # "up"
IsNews(i) == ~told[i]
Throws(i) ==
  /\ sub[i] \in {"initialising", "working", "finalising"}
  /\ sub' = [sub EXCEPT ![i] = "over"]
  /\ \/ communicator # "up" /\ faulty' = faulty
     \/ faulty' = IF IsNews(i) THEN faulty \cup {i} ELSE faulty
  /\ UNCHANGED <<config, containerVars, stopVars, infraVars, subStatus, iceVars,
                 registry>>

\* a subsystem calls Context::shutdown(), which a Service ignores
RequestShutdown(i) ==
  /\ sub[i] = "working"
  /\ config.app
  /\ ShutsDown
  /\ UNCHANGED <<config, containerVars, stopVars, infraVars, subVars, registry>>

-----------------------------------------------------------------------------

RegistryChanges ==
  /\ registry' \in {"up", "down"} \ {registry}
  /\ UNCHANGED <<config, containerVars, stopVars, infraVars, subVars, iceVars>>

StopStep == SkipThread \/ TellThread \/ JoinThread

MainStep ==
  \/ InitComponent \/ StartReturns \/ StartFails \/ WaitReturns
  \/ \E i \in Subsystems : StartSubsystem(i)
  \/ StopAgain("main") \/ StopBegins("main") \/ StopEnds("main")
  \/ ContainerReturns

HandlerStep ==
  \/ StopAgain("handler") \/ StopBegins("handler") \/ StopEnds("handler")
  \/ HandlerShutsDown

InfraStep ==
  \/ InfraBegins \/ ConnectRouter \/ ActivationSucceeds \/ ActivationEnds
  \/ InfraQuits \/ InfraLoops

SubReturns(i) == Initialised(i) \/ Worked(i) \/ Finalised(i)

Next ==
  \/ MainStep \/ HandlerStep \/ StopStep \/ Interrupt \/ DestroyCommunicator
  \/ InfraStep \/ InfraLeaves
  \/ \E i \in Subsystems : SubReturns(i) \/ Throws(i) \/ RequestShutdown(i)
  \/ RegistryChanges

\* the container and its handler go on when they can, but nobody has to stop a
\* Service; a thread that has been told to stop returns from what it is doing;
\* the infrastructure thread makes its attempts
Fairness ==
  /\ WF_vars((config.app \/ main # "waiting") /\ MainStep)
  /\ WF_vars(HandlerStep)
  /\ WF_vars(StopStep)
  /\ WF_vars(InfraStep)
  /\ WF_vars(told[0] /\ InfraLeaves)
  /\ \A i \in Subsystems : WF_vars(told[i] /\ SubReturns(i))

Spec == Init /\ [][Next]_vars
FairSpec == Spec /\ Fairness

-----------------------------------------------------------------------------
(* Properties                                                               *)

TypeOK ==
  /\ config \in Config
  /\ main \in {"init", "starting", "waiting", "stopping", "deactivating",
               "returned", "failed"}
  /\ handler \in {"idle", "stopping", "shutting"}
  /\ signals \in 0..MaxSignals
  /\ holder \in {"nobody", "main", "handler"}
  /\ pos \in -1..NThreads
  /\ stopped \in BOOLEAN
  /\ infra \in {"none", "beginning", "routing", "activating", "looping", "left",
                "escaped"}
  /\ infraStatus \in {"none", "working", "finalising"}
  /\ registered \in BOOLEAN
  /\ sub \in [Subsystems -> {"none", "initialising", "working", "finalising", "over"}]
  /\ subStatus \in [Subsystems -> {"none", "initialising", "working", "finalising",
                                   "shutdown"}]
  /\ faulty \subseteq Subsystems
  /\ told \in [Threads -> BOOLEAN]
  /\ joins \in [Threads -> 0..2]
  /\ communicator \in {"up", "shutdown", "destroyed"}
  /\ adapter \in {"holding", "active", "deactivated"}
  /\ registry \in {"up", "down"}
  /\ hasty \in BOOLEAN

\* A container that has returned regularly leaves no thread behind: every thread
\* that was started has ended and has been joined, whoever stopped the component,
\* however often and whatever failed, unless it was stopped before it had started.
NothingLeftBehind ==
  main = "returned" /\ ~hasty =>
    \A i \in Threads : Started(i) => Ended(i) /\ joins[i] = 1

\* Only a signal can stop a component before it has started, and only that of a program.
\* A Service, even if its start() threw, and a program that got no signal leave nothing
\* behind, whatever else happened.
LeavesNothing ==
  main = "returned" /\ (~config.app \/ signals = 0) =>
    \A i \in Threads : Started(i) => Ended(i) /\ joins[i] = 1

\* application.cpp:196: when start() throws, run() returns without stopComponent(). Unless
\* a signal came, no thread that was started has been told to stop.
FailedStartStopsNobody ==
  main = "failed" /\ signals = 0 => \A i \in Threads : ~told[i]

\* A subsystem that still runs never outlives one it holds a reference to, nor
\* the infrastructure thread that looks after its status.
UsersStopFirst ==
  ~hasty =>
    \A i, j \in Threads :
      i < j /\ Started(j) /\ joins[i] > 0 => Ended(j) /\ joins[j] > 0

\* A subsystem that has dropped out without being told to shows it, by a fault or
\* by its shutdown, as long as the component is not going down.
DropoutsAreShown ==
  \A i \in Subsystems :
    sub[i] = "over" /\ ~told[i] /\ communicator = "up" =>
      i \in faulty \/ subStatus[i] = "shutdown"

\* After a signal the program ends, whenever the signal comes and whatever the
\* threads are doing.
SignalEndsProgram ==
  (handler = "stopping") ~> (main \in {"returned", "failed"})

\* If the registry comes up and stays, the adapter is activated and Home is
\* registered, however often that failed before, or the thread is stopped.
RegistryIsFound ==
  <>[](registry = "up") =>
    (infra = "activating" /\ config.require ~>
       \/ told[0] \/ communicator # "up" \/ infra \in {"left", "escaped"}
       \/ adapter = "active" /\ ~NeedRegisterHome)
=============================================================================
