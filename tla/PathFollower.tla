----------------------------- MODULE PathFollower -----------------------------
(***************************************************************************)
(* LocalNav as a path follower: dispatch threads take requests in          *)
(* (libs/orcalocalnav/pathfollowerinterface.cpp), the loop of the          *)
(* component's MainThread services them, keeps track of the waypoints      *)
(* (pathmaintainer.cpp), publishes its state and commands the robot        *)
(* (components/localnav/mainthread.cpp).                                   *)
(*                                                                         *)
(* A path is a name with a number of waypoints. Whether a waypoint has     *)
(* been reached is left open, and so is the speed along the path.          *)
(***************************************************************************)
EXTENDS Integers

CONSTANTS
  Paths,       \* the paths there are
  Size,        \* how many waypoints each of them has
  Malformed,   \* those that isSane() refuses
  NoPath,      \* no path, and what a robot follows that has been told to stand
  Other,       \* what a robot does that follows somebody else's commands
  MaxCalls,    \* bound: calls of the interface
  MaxFailures  \* bound: calls of the robot that fail, and readings that are late

ASSUME PathFollowerAssumption ==
  /\ Size \in [Paths -> Nat]
  /\ Malformed \subseteq Paths
  /\ NoPath \notin Paths
  /\ Other \notin Paths \cup {NoPath}
  /\ MaxCalls \in Nat
  /\ MaxFailures \in Nat

Activations == {"NoPathLoaded", "PathLoadedButNotActivated", "FollowingPath", "FinishedPath"}
States == [activation : Activations, enabled : BOOLEAN, index : Nat]
NoState == [activation |-> "none", enabled |-> FALSE, index |-> 0]

\* nothing is to be followed
Standing == [path |-> NoPath, go |-> FALSE]

VARIABLES
  pending,      \* pendingPathRequest_
  haveNewPath,  \* haveNewPath_
  havePendingActivation, \* havePendingActivationRequest_
  state,        \* pathFollower2dState_
  setter,       \* the state that a call of setEnabled() is about to publish
  seen,         \* the state published last
  seenPath,     \* the path published last
  path,         \* PathMaintainer::path_
  activation,   \* PathMaintainer::activationState_
  wpIndex,      \* PathMaintainer::wpIndex_
  changed,      \* PathMaintainer::stateOrWpIndexChanged_
  pc,           \* where MainThread is
  gotPathActivation, \* what it got from the store of requests
  tempState,    \* the state it is about to publish
  prevIsEnabled,
  command,      \* the path to follow with the command of this round
  stopping,     \* MainThread has been told to stop
  robot,        \* what the robot was told last
  calls,        \* number of calls so far
  failures,     \* number of failures so far
  wanted        \* history: what the requests so far ask for, a path that is refused
                \* asking for nothing but to stop

requestVars == <<pending, haveNewPath, havePendingActivation, wanted>>
stateVars == <<state, setter>>
topicVars == <<seen, seenPath>>
pathVars == <<path, activation, wpIndex, changed>>
loopVars == <<gotPathActivation, tempState, prevIsEnabled, command>>
callVars == <<stopping, calls>>
robotVars == <<robot, failures>>
vars == <<requestVars, stateVars, topicVars, pathVars, pc, loopVars, callVars, robotVars>>

Init ==
  /\ pending = NoPath
  /\ haveNewPath = FALSE
  /\ havePendingActivation = FALSE
  /\ state = [activation |-> "NoPathLoaded", enabled |-> TRUE, index |-> 0]
  /\ setter = NoState
  /\ seen = NoState
  /\ seenPath = NoPath
  /\ path = NoPath
  /\ activation = "NoPathLoaded"
  /\ wpIndex = 0
  /\ changed = FALSE
  /\ pc = "starting"
  /\ gotPathActivation = FALSE
  /\ tempState = NoState
  /\ prevIsEnabled = TRUE
  /\ command = NoPath
  /\ stopping = FALSE
  /\ robot = NoPath
  /\ calls = 0
  /\ failures = 0
  /\ wanted = Standing

-----------------------------------------------------------------------------
(* The calls, in dispatch threads                                           *)

Call == calls < MaxCalls /\ calls' = calls + 1

\* a new path has the activation that came with it (mutant: an earlier one stays)
ActivationMutant(go) == havePendingActivation \/ go
Activation(go) == go

\* what setData() asks for: as the comment beside the refusal has it, "something's
\* obviously wrong, so we should stop immediately"
AskedFor(p, activateImmediately) ==
  IF p \in Malformed THEN Standing ELSE [path |-> p, go |-> activateImmediately]

\* a path is refused, but only after it has been added, to be followed at once
SetData(p, activateImmediately) ==
  /\ Call
  /\ pending' = p
  /\ haveNewPath' = TRUE
  /\ havePendingActivation' = Activation(activateImmediately \/ p \in Malformed)
  /\ wanted' = AskedFor(p, activateImmediately)
  /\ UNCHANGED <<stateVars, topicVars, pathVars, pc, loopVars, stopping, robotVars>>

\* throws PathNotLoadedException, and does nothing, without a path to activate; there is
\* none to ask for if the one in the store was refused
ActivateNow ==
  /\ Call
  /\ pending # NoPath
  /\ havePendingActivation' = TRUE
  /\ wanted' = [wanted EXCEPT !.go = (wanted.path # NoPath)]
  /\ UNCHANGED <<pending, haveNewPath, stateVars, topicVars, pathVars, pc, loopVars,
                 stopping, robotVars>>

\* the critical section of setEnabled(), and the push that follows it
SetEnabled(enabled) ==
  /\ Call
  /\ setter = NoState
  /\ state' = [state EXCEPT !.enabled = enabled]
  /\ setter' = state'
  /\ UNCHANGED <<requestVars, topicVars, pathVars, pc, loopVars, stopping, robotVars>>

EnabledIsPublished ==
  /\ setter # NoState
  /\ seen' = setter
  /\ setter' = NoState
  /\ UNCHANGED <<requestVars, state, seenPath, pathVars, pc, loopVars, callVars, robotVars>>

StopThread ==
  /\ ~stopping
  /\ stopping' = TRUE
  /\ UNCHANGED <<requestVars, stateVars, topicVars, pathVars, pc, loopVars, calls, robotVars>>

-----------------------------------------------------------------------------
(* MainThread: requests                                                     *)

Begin ==
  /\ pc = "starting"
  /\ prevIsEnabled' = state.enabled
  /\ pc' = "service"
  /\ UNCHANGED <<requestVars, stateVars, topicVars, pathVars, gotPathActivation, tempState,
                 command, callVars, robotVars>>

\* serviceRequests() takes all there is out of the store
Service ==
  /\ pc = "service" /\ ~stopping
  /\ path' = IF haveNewPath \/ havePendingActivation THEN pending ELSE path
  /\ pending' = IF havePendingActivation THEN NoPath ELSE pending
  /\ haveNewPath' = FALSE
  /\ havePendingActivation' = FALSE
  /\ gotPathActivation' = havePendingActivation
  /\ pc' = IF haveNewPath THEN "sendPath"
           ELSE IF havePendingActivation THEN "activate" ELSE "changes"
  /\ UNCHANGED <<wanted, stateVars, topicVars, activation, wpIndex, changed, tempState,
                 prevIsEnabled, command, callVars, robotVars>>

SendPath ==
  /\ pc = "sendPath"
  /\ seenPath' = path
  /\ pc' = IF gotPathActivation THEN "activate" ELSE "note"
  /\ UNCHANGED <<requestVars, stateVars, seen, pathVars, loopVars, callVars, robotVars>>

\* ... its critical section, and the push that follows
Activate ==
  /\ pc = "activate"
  /\ state' = [state EXCEPT !.activation = "FollowingPath", !.index = 0]
  /\ tempState' = state'
  /\ pc' = "sendActivation"
  /\ UNCHANGED <<requestVars, setter, topicVars, pathVars, gotPathActivation,
                 prevIsEnabled, command, callVars, robotVars>>

SendActivation ==
  /\ pc = "sendActivation"
  /\ seen' = tempState
  /\ pc' = "note"
  /\ UNCHANGED <<requestVars, stateVars, seenPath, pathVars, loopVars, callVars, robotVars>>

\* the waypoint sought on a path that is activated (mutant: the one
\* sought on the old path)
FirstForgotten == wpIndex
First == 0

\* PathMaintainer::checkForNewPath() after serviceRequests()
Note ==
  /\ pc = "note"
  /\ activation' = IF ~gotPathActivation THEN "PathLoadedButNotActivated"
                   ELSE IF Size[path] = 0 THEN "FinishedPath" ELSE "FollowingPath"
  /\ wpIndex' = IF gotPathActivation THEN First ELSE wpIndex
  /\ changed' = TRUE
  /\ pc' = "changes"
  /\ UNCHANGED <<requestVars, stateVars, topicVars, path, loopVars, callVars, robotVars>>

\* publishStateChanges(): the critical section, and the push that follows
PublishChanges ==
  /\ pc = "changes"
  /\ IF changed
     THEN /\ state' = [state EXCEPT !.activation = activation, !.index = wpIndex]
          /\ tempState' = state'
          /\ pc' = "sendState"
     ELSE /\ pc' = "inputs"
          /\ UNCHANGED <<state, tempState>>
  /\ changed' = FALSE
  /\ UNCHANGED <<requestVars, setter, topicVars, path, activation, wpIndex,
                 gotPathActivation, prevIsEnabled, command, callVars, robotVars>>

SendState ==
  /\ pc = "sendState"
  /\ seen' = tempState
  /\ pc' = "inputs"
  /\ UNCHANGED <<requestVars, stateVars, seenPath, pathVars, loopVars, callVars, robotVars>>

-----------------------------------------------------------------------------
(* MainThread: commands                                                     *)

\* the inputs are there: waypoints that have been reached are peeled off, and the
\* driver works out a command, which is to stand if there is no goal
Finishes(reached) == wpIndex + reached = Size[path]

\* whether the state is to be published (mutant: that is done at the end of a path only)
ChangesMutant(reached) == Finishes(reached)
Changes(reached) == reached > 0

GetCommand ==
  /\ pc = "inputs"
  /\ IF activation = "FollowingPath"
     THEN \E reached \in 0 .. (Size[path] - wpIndex) :
            /\ activation' = IF Finishes(reached) THEN "FinishedPath" ELSE activation
            /\ wpIndex' = IF Finishes(reached) THEN 0 ELSE wpIndex + reached
            /\ changed' = (changed \/ Changes(reached))
            /\ command' = IF Finishes(reached) THEN NoPath ELSE path
     ELSE /\ command' = NoPath
          /\ UNCHANGED <<activation, wpIndex, changed>>
  /\ pc' = "decide"
  /\ UNCHANGED <<requestVars, stateVars, topicVars, path, gotPathActivation, tempState,
                 prevIsEnabled, callVars, robotVars>>

\* enabled(), asked once a round (mutant: once disabled, the follower remains so)
IsEnabledMutant == state.enabled /\ prevIsEnabled
IsEnabled == state.enabled

\* prevIsEnabled while the robot is told to stand (mutant: it is noted first that the
\* follower has let go)
BeforeLetGoMutant == FALSE
BeforeLetGo == prevIsEnabled

\* if it has just been disabled, the robot is told to stand before anything else
Decide ==
  /\ pc = "decide"
  /\ IF prevIsEnabled /\ ~IsEnabled
     THEN pc' = "letGo" /\ prevIsEnabled' = BeforeLetGo
     ELSE pc' = (IF IsEnabled THEN "send" ELSE "service") /\ prevIsEnabled' = IsEnabled
  /\ UNCHANGED <<requestVars, stateVars, topicVars, pathVars, gotPathActivation, tempState,
                 command, callVars, robotVars>>

LetGo ==
  /\ pc = "letGo"
  /\ robot' = NoPath
  /\ prevIsEnabled' = FALSE
  /\ pc' = "service"
  /\ UNCHANGED <<requestVars, stateVars, topicVars, pathVars, gotPathActivation, tempState,
                 command, callVars, failures>>

SendCommand ==
  /\ pc = "send"
  /\ robot' = command
  /\ pc' = "service"
  /\ UNCHANGED <<requestVars, stateVars, topicVars, pathVars, loopVars, callVars, failures>>

\* any exception but that of an emergency stop makes the thread stop the vehicle:
\* no data from the range scanner in time, a driver or a call of the robot that fails
Fails ==
  /\ pc \in {"inputs", "decide", "letGo", "send"}
  /\ failures < MaxFailures
  /\ failures' = failures + 1
  /\ pc' \in IF pc \in {"inputs", "decide"} THEN {"stopVehicle"} ELSE {"stopVehicle", "service"}
  /\ UNCHANGED <<requestVars, stateVars, topicVars, pathVars, loopVars, callVars, robot>>

\* stopVehicle() tries until it succeeds, or until the thread is to stop
StopVehicle ==
  /\ pc = "stopVehicle"
  /\ \/ ~stopping /\ robot' = NoPath /\ UNCHANGED failures
     \/ stopping /\ UNCHANGED <<robot, failures>>
  /\ pc' = "service"
  /\ UNCHANGED <<requestVars, stateVars, topicVars, pathVars, loopVars, callVars>>

StopVehicleFails ==
  /\ pc = "stopVehicle" /\ ~stopping
  /\ failures < MaxFailures
  /\ failures' = failures + 1
  /\ UNCHANGED <<requestVars, stateVars, topicVars, pathVars, pc, loopVars, callVars, robot>>

End ==
  /\ pc = "service" /\ stopping
  /\ pc' = "over"
  /\ UNCHANGED <<requestVars, stateVars, topicVars, pathVars, loopVars, callVars, robotVars>>

\* while the follower's hands are off the wheel, somebody else may drive
SomebodyDrives ==
  /\ ~state.enabled /\ ~prevIsEnabled
  /\ robot' = Other
  /\ UNCHANGED <<requestVars, stateVars, topicVars, pathVars, pc, loopVars, callVars, failures>>

-----------------------------------------------------------------------------

MainStep ==
  \/ Begin \/ Service \/ SendPath \/ Activate \/ SendActivation \/ Note
  \/ PublishChanges \/ SendState \/ GetCommand \/ Decide \/ LetGo \/ SendCommand
  \/ StopVehicle \/ End

Next ==
  \/ \E p \in Paths, activateImmediately \in BOOLEAN : SetData(p, activateImmediately)
  \/ ActivateNow
  \/ \E enabled \in BOOLEAN : SetEnabled(enabled)
  \/ EnabledIsPublished
  \/ MainStep
  \/ Fails \/ StopVehicleFails
  \/ SomebodyDrives
  \/ StopThread

\* the threads go on; nobody has to call, to fail or to drive
Spec == Init /\ [][Next]_vars
FairSpec == Spec /\ WF_vars(MainStep) /\ WF_vars(EnabledIsPublished)

-----------------------------------------------------------------------------
(* Properties                                                               *)

TypeOK ==
  /\ pending \in Paths \cup {NoPath}
  /\ haveNewPath \in BOOLEAN
  /\ havePendingActivation \in BOOLEAN
  /\ state \in States
  /\ setter \in States \cup {NoState}
  /\ seen \in States \cup {NoState}
  /\ seenPath \in Paths \cup {NoPath}
  /\ path \in Paths \cup {NoPath}
  /\ activation \in Activations
  /\ wpIndex \in Nat
  /\ changed \in BOOLEAN
  /\ pc \in {"starting", "service", "sendPath", "activate", "sendActivation", "note",
             "changes", "sendState", "inputs", "decide", "letGo", "send",
             "stopVehicle", "over"}
  /\ gotPathActivation \in BOOLEAN
  /\ tempState \in States \cup {NoState}
  /\ prevIsEnabled \in BOOLEAN
  /\ command \in Paths \cup {NoPath}
  /\ stopping \in BOOLEAN
  /\ robot \in Paths \cup {NoPath, Other}
  /\ calls \in 0..MaxCalls
  /\ failures \in 0..MaxFailures
  /\ wanted \in [path : Paths \cup {NoPath}, go : BOOLEAN]

\* a request is being serviced
Servicing == pc \in {"sendPath", "activate", "sendActivation", "note"}

\* The assertion of getActiveGoals(): the waypoint sought is one of the path,
\* although paths are replaced and activated at any time.
WaypointInRange ==
  (pc = "inputs" /\ activation = "FollowingPath") => wpIndex < Size[path]

\* Between servicing requests, the follower has the path that was set last, and
\* follows it exactly if it was asked to, at once or by activateNow() later: no
\* request is lost, and none is applied to the path of another. A path that was refused
\* is taken up all the same (addPathRequest() comes before the exception), but not once
\* another one has been set: it never takes the place of what is asked for.
RequestsAreHonoured ==
  (~haveNewPath /\ ~havePendingActivation /\ ~Servicing) =>
    IF path \in Malformed THEN wanted = Standing
    ELSE /\ path = wanted.path
         /\ wanted.go = (activation \in {"FollowingPath", "FinishedPath"})

\* What getState() answers is what the follower does, as soon as it has looked at
\* its requests and published its changes.
StateIsCurrent ==
  (~Servicing /\ ~changed) =>
    /\ state.activation = activation
    /\ (activation = "FollowingPath") => (state.index = wpIndex)

\* The mapping onto what the interface promises: the request that is followed is the
\* one that has been taken out of the store, and the hands are on the wheel as long as
\* MainThread has not noted that the robot stands for good.
Followed ==
  [path |-> path,
   go |-> IF Servicing THEN gotPathActivation
          ELSE activation \in {"FollowingPath", "FinishedPath"}]

Wheel == IF pc = "starting" \/ ~prevIsEnabled THEN "off"
         ELSE IF pc = "letGo" THEN "leaving" ELSE "on"

Promise == INSTANCE PathFollower2d
             WITH asked <- wanted, followed <- Followed, enabled <- state.enabled,
                  wheel <- Wheel

\* The two places in which the code does what the interface does not allow: serviceRequests()
\* takes up a path that setData() has refused, ...
TakesUpRefused ==
  /\ pending \in Malformed
  /\ Followed' = [path |-> pending, go |-> TRUE]
  /\ UNCHANGED <<wanted, state.enabled, Wheel, robot>>

\* ... and a failure makes MainThread stop the vehicle though it has let go of it.
StopsUnasked ==
  /\ pc = "stopVehicle" /\ Wheel = "off"
  /\ robot' = NoPath
  /\ UNCHANGED <<wanted, Followed, state.enabled, Wheel>>

\* pathfollower2d.ice: store, loop and PathMaintainer together do what the interface says,
\* and depart from it in no other way than these two. A request is taken up as a whole,
\* the robot is sent along the path that is followed at that moment or nowhere, the
\* follower leaves the wheel by making the robot stand, and sends it nothing from then on.
DepartsOnlyAsRecorded ==
  /\ Promise!Init
  /\ [][Promise!Next \/ TakesUpRefused \/ StopsUnasked]_(Promise!promiseVars)

\* pathfollower2d.ice: a disabled follower has its "hands off the wheel". Once MainThread
\* has noted that it is disabled, and until it notes the opposite, the robot does not go
\* along a path, though the command to stand may have failed any number of times before.
HandsOffTheWheel == ~prevIsEnabled => robot \notin Paths

\* The robot is only ever sent along the path that is being followed at that moment, by a
\* follower that is to follow it and has noted that it is enabled: no command outlives the
\* path it was worked out for.
CommandsFollowThePath ==
  [][robot' # robot /\ robot' \in Paths =>
       prevIsEnabled /\ activation = "FollowingPath" /\ robot' = path]_vars

\* Once all requests amount to standing still, or the follower stays disabled, the
\* robot is told to stand, whatever failed before, unless the thread is stopped. It is not
\* if what asks for it is the refusal of a path, which is followed all the same.
StandingIsAsked ==
  \/ ~state.enabled
  \/ path \notin Malformed /\ (wanted.go => Size[wanted.path] = 0)
RobotStands == <>[]StandingIsAsked => <>[](robot \notin Paths \/ stopping)

\* A path that stays wanted, with the follower enabled, is followed or finished, whatever
\* was refused before it. A refused path is never wanted.
PathIsWanted(p) == wanted = [path |-> p, go |-> TRUE] /\ state.enabled
PathIsFollowed ==
  \A p \in Paths :
    <>[]PathIsWanted(p) => []<>(robot = p \/ activation = "FinishedPath" \/ stopping)
=============================================================================
