----------------------------- MODULE SegwayDrive -----------------------------
(***************************************************************************)
(* How a velocity command reaches the wheels of a Segway RMP, and how it   *)
(* is stopped on the way.                                                  *)
(*                                                                         *)
(* components/segwayrmp/mainthread.cpp takes commands (setCommand()) and   *)
(* e-stop data (handleData()) in Ice dispatch threads and hands them to    *)
(* one or more powerbases; orcaestoputil::EStopMonitor decides whether     *)
(* motion is permitted; in each powerbase a hydrormputil::DriverThread     *)
(* enables the hardware, follows its command store at a limited            *)
(* acceleration, times commands out and starts again after a fault.        *)
(*                                                                         *)
(* A tick is the shortest period of a driver loop, which the blocking read *)
(* of the hardware paces. Dispatched calls and the steps of a loop between *)
(* two reads take less than a tick; a read takes at most LoopMax ticks.    *)
(***************************************************************************)
EXTENDS Integers

CONSTANTS
  NBases,          \* number of powerbases
  Dispatchers,     \* Ice threads that dispatch calls to the component
  Commands,        \* commands sent to setCommand(), within the capabilities
  MaxSpeed,        \* capabilities().maxForwardSpeed = maxReverseSpeed
  ForwardAccel,    \* maxForwardAcceleration, in speed units per tick
  ReverseAccel,    \* maxReverseAcceleration, likewise
  CommandTimeout,  \* the 0.2 s a command is followed without a new one
  DtLimit,         \* the 1.0 s between two iterations that evaluateDt() allows
  LoopMax,         \* the longest time between two iterations
  KeepAlive,       \* keepAlivePeriodSec * 1.5
  EStopEnabled,    \* EnableEStopInterface
  MotionEnabled    \* EnableMotion

Bases == 1..NBases
Speeds == -MaxSpeed..MaxSpeed
Command == [v : Speeds, w : Int]
Stop == [v |-> 0, w |-> 0]

ASSUME DriveAssumption ==
  /\ NBases \in Nat \ {0}
  /\ MaxSpeed \in Nat
  /\ Commands \subseteq Command
  /\ {ForwardAccel, ReverseAccel, CommandTimeout, DtLimit, LoopMax, KeepAlive}
       \subseteq Nat \ {0}
  /\ {EStopEnabled, MotionEnabled} \subseteq BOOLEAN

VARIABLES
  main,        \* how far MainThread::initialise() is
  connected,   \* eStopMonitor_ has been made
  activated,   \* EStopMonitor::state_.isEStopActivated
  silence,     \* EStopMonitor::keepAliveTimer_
  task,        \* the command a dispatch thread is handing to the powerbases
  turnOf,      \* the powerbase it is to call next; 0: it is idle
  pc,          \* where each driver thread is
  store,       \* DriverThread::commandStore_
  setPoint,    \* SpeedSetPoint::setPoint_
  speed,       \* SpeedSetPoint::currentCmdSpeed_
  w,           \* command.w in operateHardware()
  lag,         \* SpeedSetPoint::timer_
  dt,          \* SpeedSetPoint::dt_
  timer,       \* newCommandTimer
  sent,        \* the last command written since the hardware was enabled
  quiet,       \* history: ticks since a moving command was last stored
  denied       \* history: ticks since the e-stop was last seen released

estopVars == <<connected, activated, silence>>
callVars == <<task, turnOf>>
loopVars == <<setPoint, speed, w, lag, dt, timer, sent>>
clocks == <<quiet, denied>>
vars == <<main, estopVars, callVars, pc, store, loopVars, clocks>>

\* bound: no command for that long, and a base stands still
StopBound == 5 * LoopMax + CommandTimeout + MaxSpeed

Upto(n, cap) == IF n < cap THEN n + 1 ELSE cap

-----------------------------------------------------------------------------
(* EStopMonitor                                                             *)

\* isEStopTriggered() (mutant: only the last message counts)
IsEStopTriggeredMutant == activated
IsEStopTriggered == activated \/ silence > KeepAlive

\* what setCommand() tests: without a monitor everything is permitted
Permitted == ~connected \/ ~IsEStopTriggered

\* the history of the e-stop, after any step that may change it
EStopOn == connected /\ (activated \/ silence > KeepAlive)
Deny(ticks) == denied' = IF EStopOn' THEN ticks ELSE 0

Init ==
  /\ main = IF EStopEnabled THEN "connecting" ELSE "starting"
  /\ connected = FALSE
  /\ activated = FALSE
  /\ silence = 0
  /\ task = [d \in Dispatchers |-> Stop]
  /\ turnOf = [d \in Dispatchers |-> 0]
  /\ pc = [b \in Bases |-> "unstarted"]
  /\ store = [b \in Bases |-> [cmd |-> Stop, new |-> FALSE]]
  /\ setPoint = [b \in Bases |-> 0]
  /\ speed = [b \in Bases |-> 0]
  /\ w = [b \in Bases |-> 0]
  /\ lag = [b \in Bases |-> 0]
  /\ dt = [b \in Bases |-> 0]
  /\ timer = [b \in Bases |-> 0]
  /\ sent = [b \in Bases |-> Stop]
  /\ quiet = 0
  /\ denied = 0

-----------------------------------------------------------------------------
(* MainThread::initialise(), from where the velocity interface is served    *)

\* a pass of the loop that connects to the e-stop: the monitor is made anew,
\* then the subscription fails or not
ConnectEStop ==
  /\ main = "connecting"
  /\ connected' = TRUE
  /\ activated' = TRUE
  /\ silence' = 0
  /\ main' \in {"connecting", "starting"}
  /\ Deny(denied)
  /\ UNCHANGED <<callVars, pc, store, loopVars, quiet>>

\* startThread() of the powerbases, one after the other
StartThread(b) ==
  /\ main = "starting"
  /\ pc[b] = "unstarted"
  /\ \A c \in 1..(b - 1) : pc[c] # "unstarted"
  /\ pc' = [pc EXCEPT ![b] = "enabling"]
  /\ UNCHANGED <<main, estopVars, callVars, store, loopVars, clocks>>

-----------------------------------------------------------------------------
(* The calls that Ice dispatches                                            *)

Idle(d) == turnOf[d] = 0

HandOut(d, c) ==
  /\ task' = [task EXCEPT ![d] = c]
  /\ turnOf' = [turnOf EXCEPT ![d] = 1]

\* setCommand(), to the loop over the powerbases: a command to move is
\* replaced by one to stand still when the e-stop is triggered
SetCommand(d, c) ==
  /\ Idle(d)
  /\ HandOut(d, IF c # Stop /\ ~Permitted THEN Stop ELSE c)
  /\ UNCHANGED <<main, estopVars, pc, store, loopVars, clocks>>

\* handleData(), to the loop over the powerbases
HandleData(d, isEStopActivated) ==
  /\ Idle(d)
  /\ connected
  /\ activated' = isEStopActivated
  /\ silence' = 0
  /\ IF isEStopActivated THEN HandOut(d, Stop) ELSE UNCHANGED callVars
  /\ UNCHANGED <<main, connected, pc, store, loopVars, quiet>>
  /\ Deny(denied)

\* DriverThread::setDesiredSpeed(), called for each powerbase in turn; it
\* throws out of the loop if motion is disabled
SetDesiredSpeed(d) ==
  LET b == turnOf[d] IN
  /\ b \in Bases
  /\ IF MotionEnabled
     THEN /\ store' = [store EXCEPT ![b] = [cmd |-> task[d], new |-> TRUE]]
          /\ turnOf' = [turnOf EXCEPT ![d] = IF b = NBases THEN 0 ELSE b + 1]
          /\ quiet' = IF task[d] # Stop THEN 0 ELSE quiet
     ELSE /\ turnOf' = [turnOf EXCEPT ![d] = 0]
          /\ UNCHANGED <<store, quiet>>
  /\ UNCHANGED <<main, estopVars, task, pc, loopVars, denied>>

-----------------------------------------------------------------------------
(* DriverThread                                                             *)

\* SpeedSetPoint::currentCmdSpeed(): from speed s towards the set point
\* (mutant: the acceleration limit is forgotten)
CurrentCmdSpeedMutant(s, target, time) == target
CurrentCmdSpeed(s, target, time) ==
  LET up == s + ForwardAccel * time
      down == s - ReverseAccel * time
  IN  IF target > s THEN IF up < target THEN up ELSE target
      ELSE IF down > target THEN down ELSE target

\* enableHardware() succeeds; after a failure the thread tries again
Enable(b) ==
  /\ pc[b] = "enabling"
  /\ pc' = [pc EXCEPT ![b] = "clearing"]
  /\ UNCHANGED <<main, estopVars, callVars, store, loopVars, clocks>>

\* operateHardware(), to its first read: "clear any pending commands", start at
\* rest
Begin(b) ==
  /\ pc[b] = "clearing"
  /\ pc' = [pc EXCEPT ![b] = "running"]
  /\ store' = [store EXCEPT ![b] = [cmd |-> Stop, new |-> TRUE]]
  /\ setPoint' = [setPoint EXCEPT ![b] = 0]
  /\ speed' = [speed EXCEPT ![b] = 0]
  /\ w' = [w EXCEPT ![b] = 0]
  /\ lag' = [lag EXCEPT ![b] = 0]
  /\ dt' = [dt EXCEPT ![b] = 0]
  /\ timer' = [timer EXCEPT ![b] = 0]
  /\ sent' = [sent EXCEPT ![b] = Stop]
  /\ UNCHANGED <<main, estopVars, callVars, clocks>>

\* the read, of a tick at least, succeeds: the loop goes on to the commands
CanWrite(b) == pc[b] = "running" /\ lag[b] >= 1

\* "Write pending commands to the hardware": fetch a new command, move the
\* speed towards the set point and write, unless both are as they were
FetchAndRamp(b) ==
  LET new == store[b].new
      target == IF new THEN store[b].cmd.v ELSE setPoint[b]
      v == CurrentCmdSpeed(speed[b], target, dt[b])
      turn == IF new THEN store[b].cmd.w ELSE w[b]
  IN  /\ store' = [store EXCEPT ![b].new = FALSE]
      /\ setPoint' = [setPoint EXCEPT ![b] = target]
      /\ timer' = [timer EXCEPT ![b] = IF new THEN 0 ELSE @]
      /\ speed' = [speed EXCEPT ![b] = v]
      /\ w' = [w EXCEPT ![b] = turn]
      /\ sent' = [sent EXCEPT ![b] =
                    IF new \/ speed[b] # target THEN [v |-> v, w |-> turn] ELSE @]
      /\ UNCHANGED <<main, estopVars, callVars, lag, dt, clocks>>

Write(b) ==
  /\ CanWrite(b)
  /\ FetchAndRamp(b)
  /\ pc' = [pc EXCEPT ![b] = "checking"]

\* write() throws: the hardware may have got the command all the same
WriteFails(b) ==
  /\ CanWrite(b)
  /\ store[b].new \/ speed[b] # setPoint[b]
  /\ FetchAndRamp(b)
  /\ pc' = [pc EXCEPT ![b] = "faulted"]

\* the read throws or finds the hardware at fault
Fault(b) ==
  /\ pc[b] = "running"
  /\ lag[b] >= 1
  /\ pc' = [pc EXCEPT ![b] = "faulted"]
  /\ UNCHANGED <<main, estopVars, callVars, store, loopVars, clocks>>

\* the test of the time-out (mutant: for forward motion only)
TimedOutMutant(b) == timer[b] > CommandTimeout /\ speed[b] # 0
TimedOut(b) == timer[b] > CommandTimeout /\ (speed[b] # 0 \/ w[b] # 0)

\* "Check for timeouts in receiving commands", and to the top of the loop, where
\* evaluateDt() measures the iteration that ends and throws if it took too long
CheckTimeout(b) ==
  /\ pc[b] = "checking"
  /\ pc' = [pc EXCEPT ![b] = IF lag[b] > DtLimit THEN "faulted" ELSE "running"]
  /\ dt' = [dt EXCEPT ![b] = lag[b]]
  /\ lag' = [lag EXCEPT ![b] = 0]
  /\ IF TimedOut(b)
     THEN /\ store' = [store EXCEPT ![b] = [cmd |-> Stop, new |-> TRUE]]
          /\ w' = [w EXCEPT ![b] = 0]
          /\ timer' = [timer EXCEPT ![b] = 0]
     ELSE UNCHANGED <<store, w, timer>>
  /\ UNCHANGED <<main, estopVars, callVars, setPoint, speed, sent, clocks>>

\* the pause after a fault is over: work() enables the hardware again
Recover(b) ==
  /\ pc[b] = "faulted"
  /\ pc' = [pc EXCEPT ![b] = "enabling"]
  /\ UNCHANGED <<main, estopVars, callVars, store, loopVars, clocks>>

-----------------------------------------------------------------------------

\* time passes while no call is being dispatched and every loop is in its read
Tick ==
  /\ \A d \in Dispatchers : Idle(d)
  /\ \A b \in Bases : /\ pc[b] \notin {"clearing", "checking"}
                      /\ pc[b] = "running" => lag[b] < LoopMax
  /\ silence' = IF connected THEN Upto(silence, KeepAlive + 1) ELSE 0
  /\ lag' = [b \in Bases |-> IF pc[b] = "running" THEN lag[b] + 1 ELSE 0]
  /\ timer' = [b \in Bases |-> IF pc[b] = "running"
                               THEN Upto(timer[b], CommandTimeout + 1) ELSE 0]
  /\ quiet' = Upto(quiet, StopBound + 1)
  /\ UNCHANGED <<main, connected, activated, callVars, pc, store, setPoint,
                 speed, w, dt, sent>>
  /\ Deny(IF EStopOn THEN Upto(denied, StopBound + 1) ELSE 0)

Next ==
  \/ ConnectEStop
  \/ \E d \in Dispatchers, c \in Commands : SetCommand(d, c)
  \/ \E d \in Dispatchers, a \in BOOLEAN : HandleData(d, a)
  \/ \E d \in Dispatchers : SetDesiredSpeed(d)
  \/ \E b \in Bases : \/ StartThread(b) \/ Enable(b) \/ Begin(b) \/ Write(b)
                      \/ WriteFails(b) \/ Fault(b) \/ CheckTimeout(b)
                      \/ Recover(b)
  \/ Tick

Spec == Init /\ [][Next]_vars

-----------------------------------------------------------------------------
(* Properties                                                               *)

Operating(b) == pc[b] \in {"running", "checking"}

TypeOK ==
  /\ main \in {"connecting", "starting"}
  /\ connected \in BOOLEAN
  /\ activated \in BOOLEAN
  /\ silence \in 0..(KeepAlive + 1)
  /\ task \in [Dispatchers -> Command]
  /\ turnOf \in [Dispatchers -> 0..NBases]
  /\ pc \in [Bases -> {"unstarted", "enabling", "clearing", "running",
                       "checking", "faulted"}]
  /\ store \in [Bases -> [cmd : Command, new : BOOLEAN]]
  /\ setPoint \in [Bases -> Speeds]
  /\ speed \in [Bases -> Speeds]
  /\ w \in [Bases -> Int]
  /\ lag \in [Bases -> 0..LoopMax]
  /\ dt \in [Bases -> 0..LoopMax]
  /\ timer \in [Bases -> 0..(CommandTimeout + 1)]
  /\ sent \in [Bases -> Command]
  /\ quiet \in 0..(StopBound + 1)
  /\ denied \in 0..(StopBound + 1)

\* However commands, faults, restarts and the loop's own time-out interleave,
\* a base that is being operated stands still once no command to move has been
\* stored for the time-out, the ramp and a few iterations: a client that dies,
\* or a network that does, does not leave the robot driving.
StopsWithoutCommands ==
  \A b \in Bases : Operating(b) /\ quiet > StopBound => sent[b] = Stop

\* Once the e-stop is triggered, by a message or by silence, calls that were
\* let through before cannot keep the robot moving: every operated base stands
\* still a bounded time later, whatever clients go on commanding.
EStopStops ==
  \A b \in Bases : Operating(b) /\ denied > StopBound => sent[b] = Stop

\* No base is operated before the e-stop has been connected to, if there is one: a command
\* permitted for want of a monitor is never executed.
EStopComesFirst ==
  EStopEnabled => \A b \in Bases : Operating(b) => connected

\* With motion disabled nothing moves, whatever is commanded.
DisabledMotionNeverMoves ==
  ~MotionEnabled => \A b \in Bases : Operating(b) => sent[b] = Stop

\* From one written command to the next the speed changes by no more than the
\* acceleration limits allow for an iteration as long as the last one, through
\* new commands, time-outs and e-stops; only enabling the hardware starts anew.
AccelerationLimited ==
  [][\A b \in Bases : pc[b] # "clearing" =>
       /\ sent'[b].v - sent[b].v <= ForwardAccel * dt[b]
       /\ sent[b].v - sent'[b].v <= ReverseAccel * dt[b]]_vars
=============================================================================
