-------------------------------- MODULE Teleop --------------------------------
(***************************************************************************)
(* Teleoperation (libs/orcateleop): InputThread reads the commands of an   *)
(* operator from a joystick or a keyboard and adds them to an EventQueue,  *)
(* whose optimizer combines a command with the last one that is waiting;   *)
(* NetworkThread takes them from the queue, applies them to the command it *)
(* keeps, and sends that to the robot's VelocityControl2d interface, again *)
(* and again while nothing new comes.                                      *)
(*                                                                         *)
(* A command is a motion along each axis. The transverse axis is left out: *)
(* the drivers ignore it, and an input is absolute in it only if it is     *)
(* absolute in the others.                                                 *)
(***************************************************************************)
EXTENDS Integers, Sequences

CONSTANTS
  MaxSpeed,   \* maxSpeed_ and maxTurnRate_, in increments
  Devices,    \* the input devices that may be used
  MaxQueue,   \* bound: length of the queue
  MaxPending, \* bound: increments combined into one event
  MaxFailures \* bound: calls of the robot that fail

ASSUME TeleopAssumption ==
  /\ MaxSpeed \in Nat \ {0}
  /\ Devices \subseteq {"joystick", "keyboard"}
  /\ MaxQueue \in Nat \ {0}
  /\ MaxPending \in Nat \ {0}
  /\ MaxFailures \in Nat

Axes == {"longitudinal", "angular"}
Motion == [Axes -> -MaxSpeed..MaxSpeed]
Still == [a \in Axes |-> 0]

\* HumanInput2d::Command: in each axis an increment or an absolute value
Input == [Axes -> [inc : BOOLEAN, value : Int]]

VARIABLES
  device,   \* the device in use
  events,   \* NetworkThread::events_, of MixedCommandEvents
  network,  \* where NetworkThread is
  command,  \* VelocityControl2dDriver::command_
  robot,    \* the command the robot has last received
  told,     \* NetworkThread has been told to stop
  failures, \* number of calls that failed
  stopKey,  \* history: the last input was the key that stops the robot
  intended, \* history: what the inputs amount to, taken one by one
  aims      \* history: the same, up to and with each event that waits

vars == <<device, events, network, command, robot, told, failures, stopKey,
          intended, aims>>

-----------------------------------------------------------------------------
(* Inputs                                                                   *)

Unchanged == [a \in Axes |-> [inc |-> TRUE, value |-> 0]]
Stop == [a \in Axes |-> [inc |-> FALSE, value |-> 0]]

\* the joystick sets an axis; the keys of the keyboard increment an axis, stop it
\* or, if StepInputs are enabled, set the speed, and any other key stops the robot
JoystickInputs ==
  {[Unchanged EXCEPT ![a] = [inc |-> FALSE, value |-> v]] : a \in Axes, v \in -MaxSpeed..MaxSpeed}
KeyboardInputs ==
  {[Unchanged EXCEPT ![a] = [inc |-> TRUE, value |-> v]] : a \in Axes, v \in {-1, 1}}
    \cup {[Unchanged EXCEPT ![a] = [inc |-> FALSE, value |-> 0]] : a \in Axes}
    \cup {[Unchanged EXCEPT !["longitudinal"] = [inc |-> FALSE, value |-> v]] : v \in 1..MaxSpeed}
    \cup {Stop}

Inputs == IF device = "joystick" THEN JoystickInputs ELSE KeyboardInputs

\* what a driver keeps within
Limit(v) == IF v > MaxSpeed THEN MaxSpeed ELSE IF v < -MaxSpeed THEN -MaxSpeed ELSE v

\* the drivers' processMixedCommand(), without the call
Apply(input, motion) ==
  [a \in Axes |-> Limit(IF input[a].inc THEN motion[a] + input[a].value
                                        ELSE input[a].value)]

\* an incremental command following a relative one cannot be combined
\* (mutant: but it is)
CombinesMutant(existing, extra) == {existing, extra} \subseteq Input
Combines(existing, extra) ==
  \A a \in Axes : extra[a].inc => existing[a].inc

\* combine(): increments add up, a value that is set replaces any other. Whether
\* the event is an increment stays as it was.
Combine(existing, extra) ==
  [a \in Axes |->
     [existing[a] EXCEPT !.value = IF extra[a].inc THEN @ + extra[a].value
                                                   ELSE extra[a].value]]

Init ==
  /\ device \in Devices
  /\ events = <<>>
  /\ network = "connecting"
  /\ command = Still
  /\ robot = Still
  /\ told = FALSE
  /\ failures = 0
  /\ stopKey = FALSE
  /\ intended = Still
  /\ aims = <<>>

-----------------------------------------------------------------------------

\* optimizedAdd(): the new event becomes part of the last one, or is added
Joins(input) == events # <<>> /\ Combines(events[Len(events)], input)

Added(input) ==
  IF Joins(input) THEN [events EXCEPT ![Len(events)] = Combine(@, input)]
                  ELSE Append(events, input)

\* newMixedCommand(); InputThread has been joined when NetworkThread is told to stop
NewCommand(input) ==
  /\ ~told
  /\ events' = Added(input)
  /\ Len(events') <= MaxQueue
  /\ \A i \in 1..Len(events'), a \in Axes :
       events'[i][a].value \in -MaxPending..MaxPending
  /\ stopKey' = (input = Stop)
  /\ intended' = Apply(input, intended)
  /\ aims' = IF Joins(input) THEN [aims EXCEPT ![Len(aims)] = intended']
                             ELSE Append(aims, intended')
  /\ UNCHANGED <<device, network, command, robot, told, failures>>

\* walk(), to its loop: the robot's interface is found
Connect ==
  /\ network = "connecting"
  /\ network' = IF told THEN "over" ELSE "waiting"
  /\ UNCHANGED <<device, events, command, robot, told, failures, stopKey, intended, aims>>

\* timedGet() returns an event, which is applied
TakeEvent ==
  /\ network = "waiting"
  /\ ~told
  /\ events # <<>>
  /\ command' = Apply(Head(events), command)
  /\ events' = Tail(events)
  /\ aims' = Tail(aims)
  /\ network' = "sending"
  /\ UNCHANGED <<device, robot, told, failures, stopKey, intended>>

\* whether the command is repeated when timedGet() has timed out (mutant: not if
\* the robot is to stand still)
RepeatsMutant == command # Still
Repeats == TRUE

TimeOut ==
  /\ network = "waiting"
  /\ ~told
  /\ events = <<>>
  /\ Repeats
  /\ network' = "sending"
  /\ UNCHANGED <<device, events, command, robot, told, failures, stopKey, intended, aims>>

\* setCommand() returns
Send ==
  /\ network = "sending"
  /\ robot' = command
  /\ network' = "waiting"
  /\ UNCHANGED <<device, events, command, told, failures, stopKey, intended, aims>>

\* setCommand() throws, whether or not the robot has got the command: the command
\* becomes that to stand still
SendFails ==
  /\ network = "sending"
  /\ failures < MaxFailures
  /\ failures' = failures + 1
  /\ command' = Still
  /\ robot' \in {robot, command}
  /\ network' = "waiting"
  /\ UNCHANGED <<device, events, told, stopKey, intended, aims>>

StopNetwork ==
  /\ ~told
  /\ told' = TRUE
  /\ UNCHANGED <<device, events, network, command, robot, failures, stopKey, intended, aims>>

\* the loop ends
NetworkEnds ==
  /\ network = "waiting"
  /\ told
  /\ network' = "over"
  /\ UNCHANGED <<device, events, command, robot, told, failures, stopKey, intended, aims>>

NetworkStep == Connect \/ TakeEvent \/ TimeOut \/ Send \/ NetworkEnds

Next ==
  \/ \E input \in Inputs : NewCommand(input)
  \/ NetworkStep \/ SendFails \/ StopNetwork

\* NetworkThread runs and its calls return; the operator need not do anything
Fairness == WF_vars(NetworkStep)

Spec == Init /\ [][Next]_vars
FairSpec == Spec /\ Fairness

-----------------------------------------------------------------------------
(* Properties                                                               *)

\* The state stays in its domains: the command stays within the limits of the
\* driver, whatever was combined in the queue.
TypeOK ==
  /\ device \in Devices
  /\ events \in Seq(Input)
  /\ network \in {"connecting", "waiting", "sending", "over"}
  /\ command \in Motion
  /\ robot \in Motion
  /\ told \in BOOLEAN
  /\ failures \in 0..MaxFailures
  /\ stopKey \in BOOLEAN
  /\ intended \in Motion
  /\ aims \in Seq(Motion)

\* the motion the event that waits at place i is going to be applied to
Before(i) == IF i = 1 THEN command ELSE aims[i - 1]

\* With a joystick, and until a call fails, each event that waits leads to the very
\* motion that the operator's inputs up to it, each taken for itself, amount to:
\* the optimizer combines them in a way the robot cannot tell.
CombiningIsInvisible ==
  device = "joystick" /\ failures = 0 =>
    /\ \A i \in 1..Len(events) : aims[i] = Apply(events[i], Before(i))
    /\ intended = Before(Len(events) + 1)

\* With a joystick, and until a call fails, the robot does what the operator's inputs amount
\* to as soon as NetworkThread has nothing left to do.
RobotDoesWhatIsIntended ==
  device = "joystick" /\ failures = 0 /\ events = <<>> /\ network = "waiting" =>
    robot = intended

\* The robot gets the command the driver keeps again and again, even when a call
\* fails or its answer is lost, for repeatCommand() makes it good: above all a robot
\* that got its command although the call failed is stopped.
RobotFollowsCommand == []<>(robot = command \/ told)

\* hydrohumaninput2dkbdtermio/driver.cpp:262, "any other key sends 'stop' command",
\* and events.cpp:46, a command that is not an increment "replaces any incremental
\* one": when the operator's last key is one that stops, the robot is stopped.
StopIsObeyed ==
  stopKey ~> (robot = Still \/ ~stopKey \/ told)
=============================================================================
