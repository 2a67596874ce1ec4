----------------------- MODULE ComponentLifecycleProofs -----------------------
(***************************************************************************)
(* Proofs about ComponentLifecycle, for any number of subsystem threads:   *)
(* whoever stops the component, no thread is left behind, none is joined   *)
(* before those that use it, and subsystems that drop out show it.         *)
(***************************************************************************)
EXTENDS ComponentLifecycle, TLAPS

USE LifecycleAssumption

(* The inductive invariant.                                                  *)

\* the infrastructure thread is started once
NotBegun == main = "init" => infra = "none"

\* one caller at a time stops the component, and the component is stopped once
OneStops ==
  /\ holder = "nobody" => pos = -1
  /\ holder = "main" => main = "stopping"
  /\ holder = "handler" => handler = "stopping" /\ config.app
  /\ handler # "idle" => config.app
  /\ holder # "nobody" => ~stopped
  /\ main \in {"deactivating", "returned"} => stopped
  /\ stopped /\ ~config.app => main \in {"deactivating", "returned"}

\* no thread is started once the component is being stopped
NoneStartsLate ==
  (holder # "nobody" \/ stopped) /\ ~hasty => main \notin {"init", "starting"}

\* the threads that stop() has come past have ended and been joined once, ...
Past(i) == Started(i) => told[i] /\ Ended(i) /\ joins[i] = 1
PastAreJoined ==
  ~hasty =>
    \A i \in Threads : (holder # "nobody" /\ i > pos) \/ stopped => Past(i)

\* ... and the others have not been joined
OthersAreNot ==
  ~stopped => \A i \in Threads : holder = "nobody" \/ i <= pos => joins[i] = 0

IInv ==
  TypeOK /\ NotBegun /\ OneStops /\ NoneStartsLate /\ PastAreJoined /\ OthersAreNot /\ DropoutsAreShown

-----------------------------------------------------------------------------
(* Which variables change                                                    *)

\* A step that is none of those of stop() leaves its state alone.
StopMoves ==
  \/ StopStep
  \/ \E who \in {"main", "handler"} : StopBegins(who) \/ StopEnds(who)

LEMMA StopStateMoves ==
  ASSUME [Next]_vars, ~StopMoves
  PROVE  UNCHANGED stopVars
  BY DEF StopMoves, Next, vars, stopVars, MainStep, HandlerStep, InfraStep, SubReturns,
         InitComponent, StartReturns, StartFails, WaitReturns, StartSubsystem, StopAgain,
         ContainerReturns, HandlerShutsDown, InfraBegins, ConnectRouter,
         ActivationSucceeds, ActivationEnds, InfraQuits, InfraLoops, InfraLeaves,
         Initialised, Worked, Finalised, Becomes, Throws, RequestShutdown,
         RegistryChanges, Interrupt, DestroyCommunicator

\* The moves of stop() leave the threads alone.
LEMMA StopLeavesThreads ==
  ASSUME StopMoves
  PROVE  UNCHANGED <<infraVars, subVars, iceVars, registry, config, signals>>
  BY DEF StopMoves, StopStep, SkipThread, TellThread, JoinThread, StopBegins, StopEnds,
         containerVars

\* A thread that was started stays so, and one that has ended stays so; a thread is
\* started only before the container waits.
LEMMA ThreadsMove ==
  ASSUME TypeOK, NotBegun, [Next]_vars, NEW i \in Threads
  PROVE  /\ Started(i) => Started(i)'
         /\ Ended(i) => Ended(i)'
         /\ Started(i)' => Started(i) \/ main \in {"init", "starting"}
  <1>1. CASE StopMoves
    BY <1>1, StopLeavesThreads DEF Started, Ended, infraVars, subVars
  <1>2. CASE ~StopMoves
    <2>1. CASE i = 0
      <3>1. \/ infra' = infra
            \/ main = "init" /\ infra' = "beginning"
            \/ /\ infra \in {"beginning", "routing", "activating", "looping"}
               /\ infra' \in {"routing", "activating", "looping", "left", "escaped"}
        BY <1>2 DEF StopMoves, Next, vars, subVars, infraVars, StopStep, MainStep, HandlerStep,
         InfraStep, SubReturns,
         InitComponent, StartReturns, StartFails, WaitReturns, StartSubsystem, StopAgain,
         ContainerReturns, HandlerShutsDown, InfraBegins, ConnectRouter,
         ActivationSucceeds, ActivationEnds, InfraQuits, InfraLoops, InfraLeaves,
         Initialised, Worked, Finalised, Becomes, Throws, RequestShutdown,
         RegistryChanges, Interrupt, DestroyCommunicator
      <3> QED BY <2>1, <3>1 DEF Started, Ended, NotBegun
    <2>2. CASE i # 0
      <3>1. i \in Subsystems
        BY <2>2 DEF Threads, Subsystems
      <3>3. DOMAIN sub = Subsystems
        BY DEF TypeOK
      <3>2. \/ sub' = sub
            \/ \E j \in Subsystems :
                 \/ sub[j] = "none" /\ main = "starting" /\ sub' = [sub EXCEPT ![j] = "initialising"]
                 \/ sub[j] \in {"initialising", "working", "finalising"} /\
                      \E p \in {"working", "finalising", "over"} : sub' = [sub EXCEPT ![j] = p]
        BY <1>2 DEF StopMoves, Next, vars, subVars, StopStep, MainStep, HandlerStep,
         InfraStep, SubReturns,
         InitComponent, StartReturns, StartFails, WaitReturns, StartSubsystem, StopAgain,
         ContainerReturns, HandlerShutsDown, InfraBegins, ConnectRouter,
         ActivationSucceeds, ActivationEnds, InfraQuits, InfraLoops, InfraLeaves,
         Initialised, Worked, Finalised, Becomes, Throws, RequestShutdown,
         RegistryChanges, Interrupt, DestroyCommunicator
      <3> QED BY <2>2, <3>1, <3>2, <3>3 DEF Started, Ended
    <2> QED BY <2>1, <2>2
  <1> QED BY <1>1, <1>2

\* The container starts once, and does not come back to it.
LEMMA MainMoves ==
  ASSUME [Next]_vars, main \notin {"init", "starting"}
  PROVE  main' \notin {"init", "starting"}
  BY DEF Next, vars, containerVars, StopStep, MainStep, HandlerStep, InfraStep, SubReturns,
         SkipThread, TellThread, JoinThread, StopBegins, StopEnds, GoesOn,
         InitComponent, StartReturns, StartFails, WaitReturns, StartSubsystem, StopAgain,
         ContainerReturns, HandlerShutsDown, InfraBegins, ConnectRouter,
         ActivationSucceeds, ActivationEnds, InfraQuits, InfraLoops, InfraLeaves,
         Initialised, Worked, Finalised, Becomes, Throws, RequestShutdown,
         RegistryChanges, Interrupt, DestroyCommunicator

-----------------------------------------------------------------------------
(* The parts of the invariant                                               *)

LEMMA InitHolds == Init => IInv
  <1> SUFFICES ASSUME Init PROVE IInv
    OBVIOUS
  <1>1. TypeOK
    <2>1. 0 \in 0..MaxSignals /\ -1 \in -1..NThreads /\ 0 \in 0..2
      OBVIOUS
    <2> QED BY <2>1 DEF Init, TypeOK, Threads, Subsystems
  <1>2. DropoutsAreShown
    BY DEF Init, DropoutsAreShown
  <1>3. NotBegun /\ OneStops /\ NoneStartsLate
    BY DEF Init, NotBegun, OneStops, NoneStartsLate
  <1>4. PastAreJoined /\ OthersAreNot
    BY DEF Init, PastAreJoined, OthersAreNot, Threads
  <1> QED BY <1>1, <1>2, <1>3, <1>4 DEF IInv

LEMMA NotBegunPreserved == TypeOK /\ NotBegun /\ [Next]_vars => NotBegun'
  BY DEF TypeOK, NotBegun, Next, vars, containerVars, iceVars, MainStep, HandlerStep, InfraStep,
         SubReturns, InitComponent, StartReturns, StartFails, WaitReturns, StartSubsystem,
         StopAgain, ContainerReturns, HandlerShutsDown, InfraBegins, ConnectRouter,
         ActivationSucceeds, ActivationEnds, InfraQuits, InfraLoops, InfraLeaves,
         Initialised, Worked, Finalised, Becomes, Throws, RequestShutdown,
         RegistryChanges, Interrupt, DestroyCommunicator, infraVars,
         StopStep, SkipThread, TellThread, JoinThread, StopBegins, StopEnds, GoesOn

\* The state of stop() keeps its type.
LEMMA StopTyped ==
  ASSUME TypeOK, StopMoves
  PROVE  TypeOK'
  <1>1. UNCHANGED <<infraVars, subVars, iceVars, registry, config, signals>>
    BY StopLeavesThreads
  <1>2. /\ main' \in {"init", "starting", "waiting", "stopping", "deactivating", "returned", "failed"}
        /\ handler' \in {"idle", "stopping", "shutting"}
        /\ holder' \in {"nobody", "main", "handler"}
    BY DEF TypeOK, StopMoves, containerVars, StopStep, SkipThread, TellThread, JoinThread, StopBegins, StopEnds, GoesOn
  <1>3. pos' \in -1..NThreads
    BY DEF TypeOK, StopMoves, FirstToStop, NextToStop, Threads, StopStep, SkipThread, TellThread, JoinThread, StopBegins, StopEnds, GoesOn
  <1>4. stopped' \in BOOLEAN
    BY DEF TypeOK, StopMoves, StopStep, SkipThread, TellThread, JoinThread, StopBegins, StopEnds, GoesOn
  <1>5. hasty' \in BOOLEAN
    BY DEF TypeOK, StopMoves, StopStep, SkipThread, TellThread, JoinThread, StopBegins, StopEnds, GoesOn
  <1>6. told' \in [Threads -> BOOLEAN]
    BY DEF TypeOK, StopMoves, StopStep, SkipThread, TellThread, JoinThread, StopBegins, StopEnds, GoesOn
  <1>7. joins' \in [Threads -> 0..2]
    <2>1. CASE JoinThread
      <3>1. joins[pos] \in 0..2
        BY <2>1 DEF TypeOK, JoinThread
      <3>2. (IF joins[pos] < 2 THEN joins[pos] + 1 ELSE 2) \in 0..2
        BY <3>1
      <3> QED BY <2>1, <3>2 DEF TypeOK, JoinThread
    <2>2. CASE ~JoinThread
      BY <2>2 DEF TypeOK, StopMoves, StopStep, SkipThread, TellThread, JoinThread, StopBegins, StopEnds, GoesOn
    <2> QED BY <2>1, <2>2
  <1> QED BY <1>1, <1>2, <1>3, <1>4, <1>5, <1>6, <1>7
          DEF TypeOK, infraVars, subVars, iceVars

\* So does that of the container and of Ice.
LEMMA ContainerTyped ==
  ASSUME TypeOK, [Next]_vars, ~StopMoves
  PROVE  /\ config' \in Config
         /\ main' \in {"init", "starting", "waiting", "stopping", "deactivating", "returned", "failed"}
         /\ handler' \in {"idle", "stopping", "shutting"}
         /\ signals' \in 0..MaxSignals
         /\ communicator' \in {"up", "shutdown", "destroyed"}
         /\ adapter' \in {"holding", "active", "deactivated"}
         /\ registry' \in {"up", "down"}
  BY DEF TypeOK, StopMoves, ShutsDown, GoesOn,
         Next, vars, containerVars, iceVars, MainStep, HandlerStep, InfraStep,
         SubReturns, InitComponent, StartReturns, StartFails, WaitReturns, StartSubsystem,
         StopAgain, ContainerReturns, HandlerShutsDown, InfraBegins, ConnectRouter,
         ActivationSucceeds, ActivationEnds, InfraQuits, InfraLoops, InfraLeaves,
         Initialised, Worked, Finalised, Becomes, Throws, RequestShutdown,
         RegistryChanges, Interrupt, DestroyCommunicator

\* So does that of the threads.
LEMMA ThreadsTyped ==
  ASSUME TypeOK, [Next]_vars, ~StopMoves
  PROVE  /\ infra' \in {"none", "beginning", "routing", "activating", "looping", "left",
                       "escaped"}
         /\ infraStatus' \in {"none", "working", "finalising"}
         /\ registered' \in BOOLEAN
         /\ sub' \in [Subsystems -> {"none", "initialising", "working", "finalising", "over"}]
         /\ subStatus' \in [Subsystems -> {"none", "initialising", "working", "finalising",
                                          "shutdown"}]
         /\ faulty' \subseteq Subsystems
  <1>1. infra' \in {"none", "beginning", "routing", "activating", "looping", "left", "escaped"}
    BY DEF TypeOK, StopMoves, infraVars, Next, vars, containerVars, iceVars, MainStep, HandlerStep, InfraStep,
         SubReturns, InitComponent, StartReturns, StartFails, WaitReturns, StartSubsystem,
         StopAgain, ContainerReturns, HandlerShutsDown, InfraBegins, ConnectRouter,
         ActivationSucceeds, ActivationEnds, InfraQuits, InfraLoops, InfraLeaves,
         Initialised, Worked, Finalised, Becomes, Throws, RequestShutdown,
         RegistryChanges, Interrupt, DestroyCommunicator
  <1>2. infraStatus' \in {"none", "working", "finalising"}
    BY DEF TypeOK, StopMoves, infraVars, Next, vars, containerVars, iceVars, MainStep, HandlerStep, InfraStep,
         SubReturns, InitComponent, StartReturns, StartFails, WaitReturns, StartSubsystem,
         StopAgain, ContainerReturns, HandlerShutsDown, InfraBegins, ConnectRouter,
         ActivationSucceeds, ActivationEnds, InfraQuits, InfraLoops, InfraLeaves,
         Initialised, Worked, Finalised, Becomes, Throws, RequestShutdown,
         RegistryChanges, Interrupt, DestroyCommunicator
  <1>3. registered' \in BOOLEAN
    BY DEF TypeOK, StopMoves, infraVars, Next, vars, containerVars, iceVars, MainStep, HandlerStep, InfraStep,
         SubReturns, InitComponent, StartReturns, StartFails, WaitReturns, StartSubsystem,
         StopAgain, ContainerReturns, HandlerShutsDown, InfraBegins, ConnectRouter,
         ActivationSucceeds, ActivationEnds, InfraQuits, InfraLoops, InfraLeaves,
         Initialised, Worked, Finalised, Becomes, Throws, RequestShutdown,
         RegistryChanges, Interrupt, DestroyCommunicator
  <1>4. sub' \in [Subsystems -> {"none", "initialising", "working", "finalising", "over"}]
    BY DEF TypeOK, StopMoves, subVars, Next, vars, containerVars, iceVars, MainStep, HandlerStep, InfraStep,
         SubReturns, InitComponent, StartReturns, StartFails, WaitReturns, StartSubsystem,
         StopAgain, ContainerReturns, HandlerShutsDown, InfraBegins, ConnectRouter,
         ActivationSucceeds, ActivationEnds, InfraQuits, InfraLoops, InfraLeaves,
         Initialised, Worked, Finalised, Becomes, Throws, RequestShutdown,
         RegistryChanges, Interrupt, DestroyCommunicator
  <1>5. subStatus' \in [Subsystems -> {"none", "initialising", "working", "finalising", "shutdown"}]
    BY DEF TypeOK, StopMoves, subVars, Next, vars, containerVars, iceVars, MainStep, HandlerStep, InfraStep,
         SubReturns, InitComponent, StartReturns, StartFails, WaitReturns, StartSubsystem,
         StopAgain, ContainerReturns, HandlerShutsDown, InfraBegins, ConnectRouter,
         ActivationSucceeds, ActivationEnds, InfraQuits, InfraLoops, InfraLeaves,
         Initialised, Worked, Finalised, Becomes, Throws, RequestShutdown,
         RegistryChanges, Interrupt, DestroyCommunicator
  <1>6. faulty' \subseteq Subsystems
    BY DEF TypeOK, StopMoves, subVars, Next, vars, containerVars, iceVars, MainStep, HandlerStep, InfraStep,
         SubReturns, InitComponent, StartReturns, StartFails, WaitReturns, StartSubsystem,
         StopAgain, ContainerReturns, HandlerShutsDown, InfraBegins, ConnectRouter,
         ActivationSucceeds, ActivationEnds, InfraQuits, InfraLoops, InfraLeaves,
         Initialised, Worked, Finalised, Becomes, Throws, RequestShutdown,
         RegistryChanges, Interrupt, DestroyCommunicator
  <1> QED BY <1>1, <1>2, <1>3, <1>4, <1>5, <1>6

LEMMA TypePreserved == TypeOK /\ [Next]_vars => TypeOK'
  <1> SUFFICES ASSUME TypeOK, [Next]_vars PROVE TypeOK'
    OBVIOUS
  <1>1. CASE StopMoves
    BY <1>1, StopTyped
  <1>2. CASE ~StopMoves
    BY <1>2, StopStateMoves, ContainerTyped, ThreadsTyped DEF TypeOK, stopVars
  <1> QED BY <1>1, <1>2

\* One at a time stops the component, once.
LEMMA OneStopsPreserved ==
  ASSUME TypeOK, OneStops, [Next]_vars
  PROVE  OneStops'
  <1>1. CASE StopMoves
    BY <1>1 DEF TypeOK, OneStops, StopMoves, containerVars, Stopping, AlreadyStopped, Threads,
      StopStep, SkipThread, TellThread, JoinThread, StopBegins, StopEnds, GoesOn
  <1>2. CASE ~StopMoves
    <2>1. UNCHANGED stopVars
      BY <1>2, StopStateMoves
    <2> QED BY <1>2, <2>1 DEF TypeOK, OneStops, StopMoves, stopVars, Stopping, AlreadyStopped, GoesOn,
         Next, vars, containerVars, iceVars, MainStep, HandlerStep, InfraStep,
         SubReturns, InitComponent, StartReturns, StartFails, WaitReturns, StartSubsystem,
         StopAgain, ContainerReturns, HandlerShutsDown, InfraBegins, ConnectRouter,
         ActivationSucceeds, ActivationEnds, InfraQuits, InfraLoops, InfraLeaves,
         Initialised, Worked, Finalised, Becomes, Throws, RequestShutdown,
         RegistryChanges, Interrupt, DestroyCommunicator
  <1> QED BY <1>1, <1>2

\* No thread is started late: who stops the component before notes it.
LEMMA NoneStartsLatePreserved ==
  ASSUME TypeOK, NoneStartsLate, [Next]_vars
  PROVE  NoneStartsLate'
  <1>1. CASE \E who \in {"main", "handler"} : StopBegins(who)
    BY <1>1 DEF NoneStartsLate, StopBegins, containerVars
  <1>2. CASE ~\E who \in {"main", "handler"} : StopBegins(who)
    <2>1. hasty' = hasty /\ ((holder' # "nobody" \/ stopped') => (holder # "nobody" \/ stopped))
      <3>1. CASE StopMoves
        BY <1>2, <3>1 DEF StopMoves, StopStep, SkipThread, TellThread, JoinThread, StopEnds
      <3>2. CASE ~StopMoves
        BY <3>2, StopStateMoves DEF stopVars
      <3> QED BY <3>1, <3>2
    <2> QED BY <2>1, MainMoves DEF NoneStartsLate
  <1> QED BY <1>1, <1>2

\* A subsystem that drops out shows it.
LEMMA DropoutsPreserved ==
  ASSUME TypeOK, DropoutsAreShown, [Next]_vars
  PROVE  DropoutsAreShown'
  <1>1. CASE StopMoves
    <2>1. \A i \in Threads : told[i] => told'[i]
      BY <1>1 DEF TypeOK, StopMoves, StopStep, SkipThread, TellThread, JoinThread, StopBegins, StopEnds, GoesOn
    <2>2. Subsystems \subseteq Threads
      BY DEF Subsystems, Threads
    <2> QED BY <1>1, <2>1, <2>2, StopLeavesThreads DEF DropoutsAreShown, subVars, iceVars
  <1>2. CASE ~StopMoves
    <2>1. told' = told
      BY <1>2, StopStateMoves DEF stopVars
    <2>2. communicator' = "up" => communicator = "up"
      BY <1>2 DEF TypeOK, StopMoves, ShutsDown, Next, vars, containerVars, iceVars, MainStep, HandlerStep, InfraStep,
         SubReturns, InitComponent, StartReturns, StartFails, WaitReturns, StartSubsystem,
         StopAgain, ContainerReturns, HandlerShutsDown, InfraBegins, ConnectRouter,
         ActivationSucceeds, ActivationEnds, InfraQuits, InfraLoops, InfraLeaves,
         Initialised, Worked, Finalised, Becomes, Throws, RequestShutdown,
         RegistryChanges, Interrupt, DestroyCommunicator
    <2>3. CASE \E j \in Subsystems : StartSubsystem(j) \/ SubReturns(j) \/ Throws(j)
      <3>1. PICK j \in Subsystems : StartSubsystem(j) \/ SubReturns(j) \/ Throws(j)
        BY <2>3
      <3>2. ASSUME NEW i \in Subsystems
            PROVE  (sub[i] = "over" /\ ~told[i] /\ communicator = "up" =>
                      i \in faulty \/ subStatus[i] = "shutdown")'
        <4>1. CASE i # j
          BY <2>1, <2>2, <3>1, <4>1 DEF TypeOK, DropoutsAreShown, StartSubsystem, SubReturns,
             Initialised, Worked, Finalised, Becomes, Throws
        <4>2. CASE i = j
          BY <2>1, <2>2, <3>1, <4>2 DEF TypeOK, DropoutsAreShown, StartSubsystem, SubReturns,
             Initialised, Worked, Finalised, Becomes, Throws, IsNews
        <4> QED BY <4>1, <4>2
      <3> QED BY <3>2 DEF DropoutsAreShown
    <2>4. CASE ~\E j \in Subsystems : StartSubsystem(j) \/ SubReturns(j) \/ Throws(j)
      <3>1. UNCHANGED subVars
        BY <1>2, <2>4 DEF StopMoves, Next, vars, MainStep, HandlerStep, InfraStep,
         InitComponent, StartReturns, StartFails, WaitReturns,
         StopAgain, ContainerReturns, HandlerShutsDown, InfraBegins, ConnectRouter,
         ActivationSucceeds, ActivationEnds, InfraQuits, InfraLoops, InfraLeaves,
         RequestShutdown, RegistryChanges, Interrupt, DestroyCommunicator
      <3> QED BY <2>1, <2>2, <3>1 DEF DropoutsAreShown, subVars
    <2> QED BY <2>3, <2>4
  <1> QED BY <1>1, <1>2

\* Threads that have not been come past are not joined.
LEMMA OthersAreNotPreserved ==
  ASSUME TypeOK, OneStops, OthersAreNot, [Next]_vars
  PROVE  OthersAreNot'
  <1>1. CASE JoinThread
    <2>1. /\ pos \in Threads /\ pos' = pos - 1 /\ holder' = holder /\ stopped' = stopped
          /\ \A i \in Threads : i # pos => joins'[i] = joins[i]
      BY <1>1 DEF TypeOK, JoinThread, NextToStop
    <2>2. holder # "nobody"
      BY <2>1 DEF OneStops, Threads
    <2> QED BY <2>1, <2>2 DEF OthersAreNot, TypeOK, Threads
  <1>2. CASE StopMoves /\ ~JoinThread
    BY <1>2 DEF TypeOK, OneStops, OthersAreNot, StopMoves, StopStep, SkipThread, TellThread,
       StopBegins, StopEnds, NextToStop, FirstToStop, Threads
  <1>3. CASE ~StopMoves
    BY <1>3, StopStateMoves DEF OthersAreNot, stopVars
  <1> QED BY <1>1, <1>2, <1>3

\* Threads that have been come past stay joined, once.
LEMMA PastAreJoinedPreserved ==
  ASSUME IInv, [Next]_vars
  PROVE  PastAreJoined'
  <1> USE DEF IInv
  <1>1. SUFFICES ASSUME ~hasty', NEW i \in Threads,
                        (holder' # "nobody" /\ i > pos') \/ stopped', Started(i)'
                 PROVE  told'[i] /\ Ended(i)' /\ joins'[i] = 1
    BY DEF PastAreJoined, Past
  <1>2. CASE StopMoves
    <2>1. Started(i) /\ (Ended(i) => Ended(i)')
      BY <1>1, <1>2, StopLeavesThreads DEF Started, Ended, infraVars, subVars
    <2>2. CASE SkipThread
      <3>1. ~hasty /\ pos \in Threads /\ pos' = pos - 1 /\ i # pos
        BY <1>1, <2>1, <2>2 DEF SkipThread, NextToStop
      <3>2. UNCHANGED <<holder, stopped, told, joins>>
        BY <2>2 DEF SkipThread
      <3>3. (holder # "nobody" /\ i > pos) \/ stopped
        BY <1>1, <3>1, <3>2 DEF Threads
      <3> QED BY <2>1, <3>1, <3>2, <3>3 DEF PastAreJoined, Past
    <2>3. CASE TellThread
      <3>1. UNCHANGED <<holder, stopped, pos, joins, hasty>> /\ (told[i] => told'[i])
        BY <2>3 DEF TellThread, TypeOK
      <3> QED BY <1>1, <2>1, <3>1 DEF PastAreJoined, Past
    <2>4. CASE JoinThread
      <3>1. /\ ~hasty /\ pos \in Threads /\ pos' = pos - 1
            /\ UNCHANGED <<holder, stopped, told>>
            /\ told[pos] /\ Ended(pos)
            /\ joins' = [joins EXCEPT ![pos] = IF @ < 2 THEN @ + 1 ELSE 2]
        BY <1>1, <2>4 DEF JoinThread, NextToStop, MayJoin
      <3>2. holder # "nobody" /\ ~stopped /\ joins[pos] = 0
        BY <3>1 DEF OneStops, OthersAreNot, Threads
      <3>3. CASE i = pos
        BY <2>1, <3>1, <3>2, <3>3 DEF TypeOK
      <3>4. CASE i # pos
        <4>1. i > pos
          BY <1>1, <3>1, <3>2, <3>4 DEF Threads
        <4>2. told[i] /\ Ended(i) /\ joins[i] = 1
          BY <2>1, <3>1, <3>2, <4>1 DEF PastAreJoined, Past
        <4> QED BY <2>1, <3>1, <3>4, <4>2 DEF TypeOK
      <3> QED BY <3>3, <3>4
    <2>5. CASE \E who \in {"main", "handler"} : StopBegins(who)
      <3>1. holder = "nobody" /\ pos' = NThreads /\ ~hasty /\ UNCHANGED <<stopped, told, joins>>
        BY <1>1, <2>5 DEF StopBegins, FirstToStop
      <3>2. stopped
        BY <1>1, <3>1 DEF Threads
      <3> QED BY <2>1, <3>1, <3>2 DEF PastAreJoined, Past
    <2>6. CASE \E who \in {"main", "handler"} : StopEnds(who)
      <3>1. holder # "nobody" /\ pos = -1 /\ ~hasty /\ UNCHANGED <<told, joins>>
        BY <1>1, <2>6 DEF StopEnds
      <3>2. i > pos
        BY <3>1 DEF Threads
      <3> QED BY <2>1, <3>1, <3>2 DEF PastAreJoined, Past
    <2> QED BY <1>2, <2>2, <2>3, <2>4, <2>5, <2>6 DEF StopMoves, StopStep
  <1>3. CASE ~StopMoves
    <2>1. UNCHANGED stopVars
      BY <1>3, StopStateMoves
    <2>2. main \notin {"init", "starting"}
      BY <1>1, <2>1 DEF NoneStartsLate, stopVars
    <2>3. Started(i) /\ (Ended(i) => Ended(i)')
      BY <1>1, <2>2, ThreadsMove
    <2> QED BY <1>1, <2>1, <2>3 DEF PastAreJoined, Past, stopVars
  <1> QED BY <1>2, <1>3

LEMMA NextInductive == IInv /\ [Next]_vars => IInv'
  BY TypePreserved, NotBegunPreserved, OneStopsPreserved, NoneStartsLatePreserved,
     PastAreJoinedPreserved, OthersAreNotPreserved, DropoutsPreserved DEF IInv

-----------------------------------------------------------------------------
(* The theorems                                                             *)

\* The invariant, for any number of threads and any configurations.
THEOREM Invariance ==
  ASSUME LifecycleAssumption
  PROVE  Spec => []IInv
  BY InitHolds, NextInductive, PTL DEF Spec

\* The variables keep their types.
THEOREM TypeCorrect ==
  ASSUME LifecycleAssumption
  PROVE  Spec => []TypeOK
  BY Invariance, PTL DEF IInv

\* Whoever stops the component, however often: unless it was stopped before it had
\* started, each thread has been joined once when the container returns.
THEOREM ContainerLeavesNothing ==
  ASSUME LifecycleAssumption
  PROVE  Spec => []NothingLeftBehind
  <1>1. IInv => NothingLeftBehind
    BY DEF IInv, OneStops, PastAreJoined, Past, NothingLeftBehind
  <1> QED BY <1>1, Invariance, PTL

\* A thread is joined when those that were started after it have been.
THEOREM UsersAreJoinedFirst ==
  ASSUME LifecycleAssumption
  PROVE  Spec => []UsersStopFirst
  <1>1. IInv => UsersStopFirst
    <2> SUFFICES ASSUME IInv, ~hasty, NEW i \in Threads, NEW j \in Threads,
                        i < j, Started(j), joins[i] > 0
                 PROVE  Ended(j) /\ joins[j] > 0
      BY DEF UsersStopFirst
    <2>1. stopped \/ (holder # "nobody" /\ i > pos)
      <3>1. joins[i] # 0
        BY DEF IInv, TypeOK
      <3>2. i \in Int /\ pos \in Int
        BY DEF IInv, TypeOK, Threads
      <3>3. ~(i <= pos) => i > pos
        BY <3>2
      <3>4. CASE stopped
        BY <3>4
      <3>5. CASE ~stopped
        <4>1. (holder = "nobody" \/ i <= pos) => joins[i] = 0
          BY <3>5 DEF IInv, OthersAreNot
        <4> QED BY <3>1, <3>3, <4>1
      <3> QED BY <3>4, <3>5
    <2>2. stopped \/ (holder # "nobody" /\ j > pos)
      BY <2>1 DEF IInv, TypeOK, Threads
    <2> QED BY <2>2 DEF IInv, PastAreJoined, Past
  <1> QED BY <1>1, Invariance, PTL

\* A subsystem that drops out of a running component shows it.
THEOREM DropoutsShow ==
  ASSUME LifecycleAssumption
  PROVE  Spec => []DropoutsAreShown
  BY Invariance, PTL DEF IInv

-----------------------------------------------------------------------------
(* What only a signal can do                                                 *)

\* where the container is until it stops the component, if it ever does
BeforeStop == {"init", "starting", "waiting", "failed"}

\* The handler is run for a signal, and without one it is the container alone that tells
\* threads to stop, once it has waited.
SignalsExplain ==
  /\ handler # "idle" \/ hasty => config.app /\ signals > 0
  /\ signals = 0 /\ main \in BeforeStop => \A i \in Threads : ~told[i]

\* It holds at first.
LEMMA SignalsInit == Init => SignalsExplain
BY DEF Init, SignalsExplain

\* Signals are not forgotten, and a container that stops the component has waited for it.
LEMMA SignalsMove ==
  ASSUME TypeOK, OneStops, [Next]_vars
  PROVE  /\ config' = config
         /\ signals' = signals \/ (signals' = signals + 1 /\ config.app)
         /\ handler' # "idle" => handler # "idle" \/ (signals' = signals + 1 /\ config.app)
         /\ main' \in BeforeStop => main \in BeforeStop
  <1>1. CASE StopMoves
    <2>1. UNCHANGED <<config, signals>>
      BY <1>1, StopLeavesThreads
    <2>2. CASE StopStep \/ \E who \in {"main", "handler"} : StopBegins(who)
      BY <2>1, <2>2 DEF StopStep, SkipThread, TellThread, JoinThread, StopBegins,
                        containerVars
    <2>3. CASE \E who \in {"main", "handler"} : StopEnds(who)
      BY <2>1, <2>3 DEF OneStops, StopEnds, GoesOn, BeforeStop
    <2> QED BY <1>1, <2>2, <2>3 DEF StopMoves
  <1>2. CASE ~StopMoves
    BY <1>2 DEF StopMoves, BeforeStop, GoesOn, Stopping,
         Next, vars, containerVars, iceVars, MainStep, HandlerStep, InfraStep,
         SubReturns, InitComponent, StartReturns, StartFails, WaitReturns, StartSubsystem,
         StopAgain, ContainerReturns, HandlerShutsDown, InfraBegins, ConnectRouter,
         ActivationSucceeds, ActivationEnds, InfraQuits, InfraLoops, InfraLeaves,
         Initialised, Worked, Finalised, Becomes, Throws, RequestShutdown,
         RegistryChanges, Interrupt, DestroyCommunicator
  <1> QED BY <1>1, <1>2

\* Every step can be explained by the signals so far.
LEMMA SignalsPreserved ==
  ASSUME IInv, SignalsExplain, [Next]_vars
  PROVE  SignalsExplain'
  <1>t. TypeOK /\ OneStops /\ signals \in Nat
    BY DEF IInv, TypeOK
  <1>1. hasty' => hasty \/ handler = "stopping"
    <2>1. CASE \E who \in {"main", "handler"} : StopBegins(who)
      BY <2>1 DEF StopBegins, Stopping
    <2>2. CASE StopStep \/ \E who \in {"main", "handler"} : StopEnds(who)
      BY <2>2 DEF StopStep, SkipThread, TellThread, JoinThread, StopEnds
    <2>3. CASE ~StopMoves
      BY <2>3, StopStateMoves DEF stopVars
    <2> QED BY <2>1, <2>2, <2>3 DEF StopMoves
  <1>2. handler' # "idle" \/ hasty' => config'.app /\ signals' > 0
    BY <1>t, <1>1, SignalsMove DEF SignalsExplain
  <1>3. ASSUME signals' = 0, main' \in BeforeStop, NEW i \in Threads
        PROVE  ~told'[i]
    <2>1. signals = 0 /\ main \in BeforeStop
      BY <1>t, <1>3, SignalsMove
    <2>2. ~told[i]
      BY <2>1 DEF SignalsExplain
    <2>3. pos = -1
      BY <1>t, <2>1 DEF SignalsExplain, OneStops, TypeOK, BeforeStop
    <2>4. ~TellThread
      BY <2>3 DEF TellThread, Threads
    <2>5. told' = told
      <3>1. CASE StopMoves
        BY <2>4, <3>1 DEF StopMoves, StopStep, SkipThread, JoinThread, StopBegins, StopEnds
      <3>2. CASE ~StopMoves
        BY <3>2, StopStateMoves DEF stopVars
      <3> QED BY <3>1, <3>2
    <2> QED BY <2>2, <2>5
  <1> QED BY <1>2, <1>3 DEF SignalsExplain

\* The explanation holds in every state of every behaviour.
THEOREM SignalsExplained ==
  ASSUME LifecycleAssumption
  PROVE  Spec => []SignalsExplain
  <1>1. IInv /\ SignalsExplain /\ [Next]_vars => SignalsExplain'
    BY SignalsPreserved
  <1> QED BY <1>1, SignalsInit, Invariance, PTL DEF Spec

\* A Service, and a program that got no signal, leave no thread behind when they return,
\* even if start() threw in the middle of a Service.
THEOREM UnsignalledLeavesNothing ==
  ASSUME LifecycleAssumption
  PROVE  Spec => []LeavesNothing
  <1>1. SignalsExplain /\ NothingLeftBehind => LeavesNothing
    BY DEF SignalsExplain, NothingLeftBehind, LeavesNothing
  <1> QED BY <1>1, SignalsExplained, ContainerLeavesNothing, PTL

\* When start() throws, application.cpp:196 leaves run() without telling any thread to
\* stop, and nobody else has, unless a signal came.
THEOREM NobodyStopsAFailedStart ==
  ASSUME LifecycleAssumption
  PROVE  Spec => []FailedStartStopsNobody
  <1>1. SignalsExplain => FailedStartStopsNobody
    BY DEF SignalsExplain, BeforeStop, FailedStartStopsNobody
  <1> QED BY <1>1, SignalsExplained, PTL
=============================================================================
