----------------------------- MODULE TeleopProofs -----------------------------
(***************************************************************************)
(* Proofs about Teleop: the command stays within the limits, and with a    *)
(* joystick the combining of commands in the queue is invisible, so that   *)
(* the robot does what the operator means.                                 *)
(***************************************************************************)
EXTENDS Teleop, SequenceTheorems, TLAPS

USE TeleopAssumption

(* The inductive invariant: a joystick's events each set one axis, also after they
   were combined, which is why they can be.                                     *)
OneAxisEach == device = "joystick" => events \in Seq(JoystickInputs)

IInv == TypeOK /\ Len(aims) = Len(events) /\ OneAxisEach /\ CombiningIsInvisible

\* What NetworkThread keeps is what the robot has, except while it is being sent and
\* once a call has failed, when it keeps the command to stand still.
RobotIsCurrent == failures = 0 /\ network # "sending" => robot = command

-----------------------------------------------------------------------------
(* The operators                                                            *)

\* Whatever the input, the drivers keep the motion within their limits.
LEMMA ApplyTyped ==
  ASSUME NEW input \in Input, NEW motion \in Motion
  PROVE  Apply(input, motion) \in Motion
  <1>1. \A v \in Int : Limit(v) \in -MaxSpeed..MaxSpeed
    BY DEF Limit
  <1>2. \A a \in Axes :
          (IF input[a].inc THEN motion[a] + input[a].value ELSE input[a].value) \in Int
    BY DEF Input, Motion
  <1> QED BY <1>1, <1>2 DEF Apply, Motion

\* Combined inputs are inputs.
LEMMA CombineTyped ==
  ASSUME NEW existing \in Input, NEW extra \in Input
  PROVE  Combine(existing, extra) \in Input
  BY DEF Combine, Input

\* What the devices produce are inputs.
LEMMA DevicesTyped ==
  /\ JoystickInputs \subseteq Input
  /\ KeyboardInputs \subseteq Input
  <1>1. \A a \in Axes, r \in [inc : BOOLEAN, value : Int] : [Unchanged EXCEPT ![a] = r] \in Input
    <2> SUFFICES ASSUME NEW a \in Axes, NEW r \in [inc : BOOLEAN, value : Int]
                 PROVE  [Unchanged EXCEPT ![a] = r] \in Input
      OBVIOUS
    <2>1. [inc |-> TRUE, value |-> 0] \in [inc : BOOLEAN, value : Int]
      OBVIOUS
    <2>2. Unchanged \in [Axes -> [inc : BOOLEAN, value : Int]]
      BY <2>1 DEF Unchanged
    <2> QED BY <2>2 DEF Input
  <1>2. Stop \in Input
    BY DEF Stop, Input
  <1>3. "longitudinal" \in Axes
    BY DEF Axes
  <1>4. JoystickInputs \subseteq Input
    <2>1. \A v \in -MaxSpeed..MaxSpeed : [inc |-> FALSE, value |-> v] \in [inc : BOOLEAN, value : Int]
      OBVIOUS
    <2> SUFFICES ASSUME NEW a \in Axes, NEW v \in -MaxSpeed..MaxSpeed
                 PROVE  [Unchanged EXCEPT ![a] = [inc |-> FALSE, value |-> v]] \in Input
      BY DEF JoystickInputs
    <2> QED BY <1>1, <2>1
  <1>5. KeyboardInputs \subseteq Input
    <2>1. ASSUME NEW a \in Axes, NEW v \in {-1, 1}
          PROVE  [Unchanged EXCEPT ![a] = [inc |-> TRUE, value |-> v]] \in Input
      <3>1. [inc |-> TRUE, value |-> v] \in [inc : BOOLEAN, value : Int]
        OBVIOUS
      <3> QED BY <1>1, <3>1
    <2>2. ASSUME NEW a \in Axes, NEW v \in 0..MaxSpeed
          PROVE  [Unchanged EXCEPT ![a] = [inc |-> FALSE, value |-> v]] \in Input
      <3>1. [inc |-> FALSE, value |-> v] \in [inc : BOOLEAN, value : Int]
        OBVIOUS
      <3> QED BY <1>1, <3>1
    <2>3. ASSUME NEW a \in Axes
          PROVE  [Unchanged EXCEPT ![a] = [inc |-> FALSE, value |-> 0]] \in Input
      BY <2>2
    <2>4. ASSUME NEW v \in 1..MaxSpeed
          PROVE  [Unchanged EXCEPT !["longitudinal"] = [inc |-> FALSE, value |-> v]] \in Input
      BY <1>3, <2>2
    <2>5. SUFFICES ASSUME NEW i \in KeyboardInputs PROVE i \in Input
      OBVIOUS
    <2>6. CASE \E a \in Axes, v \in {-1, 1} : i = [Unchanged EXCEPT ![a] = [inc |-> TRUE, value |-> v]]
      BY <2>6, <2>1
    <2>7. CASE \E a \in Axes : i = [Unchanged EXCEPT ![a] = [inc |-> FALSE, value |-> 0]]
      BY <2>7, <2>3
    <2>8. CASE \E v \in 1..MaxSpeed : i = [Unchanged EXCEPT !["longitudinal"] = [inc |-> FALSE, value |-> v]]
      BY <2>8, <2>4
    <2> QED BY <1>2, <2>6, <2>7, <2>8 DEF KeyboardInputs
  <1> QED BY <1>4, <1>5

\* Two inputs of a joystick combine only if they set the same axis; then the newer
\* replaces the older one, and the robot cannot tell.
LEMMA JoystickInputsCombine ==
  ASSUME NEW existing \in JoystickInputs, NEW extra \in JoystickInputs,
         Combines(existing, extra), NEW motion \in Motion
  PROVE  /\ Combine(existing, extra) \in JoystickInputs
         /\ Apply(Combine(existing, extra), motion) = Apply(extra, Apply(existing, motion))
  <1>1. PICK a \in Axes, v \in -MaxSpeed..MaxSpeed :
          existing = [Unchanged EXCEPT ![a] = [inc |-> FALSE, value |-> v]]
    BY DEF JoystickInputs
  <1>2. PICK b \in Axes, w \in -MaxSpeed..MaxSpeed :
          extra = [Unchanged EXCEPT ![b] = [inc |-> FALSE, value |-> w]]
    BY DEF JoystickInputs
  <1>3. a = b
    BY <1>1, <1>2 DEF Combines, Unchanged
  <1>4. Combine(existing, extra) = extra
    <2>1. ASSUME NEW x \in Axes
          PROVE  Combine(existing, extra)[x] = extra[x]
      <3>1. CASE x = b
        <4>1. /\ existing[x] = [inc |-> FALSE, value |-> v]
              /\ extra[x] = [inc |-> FALSE, value |-> w]
          BY <3>1, <1>1, <1>2, <1>3 DEF Unchanged
        <4>2. v \in Int /\ w \in Int
          OBVIOUS
        <4>3. [existing[x] EXCEPT !.value = w] = [inc |-> FALSE, value |-> w]
          <5>1. \A r \in [inc : BOOLEAN, value : Int], u \in Int :
                  [r EXCEPT !.value = u] = [inc |-> r.inc, value |-> u]
            OBVIOUS
          <5>2. existing[x] \in [inc : BOOLEAN, value : Int]
            BY DevicesTyped DEF Input
          <5>3. existing[x].inc = FALSE
            BY <4>1
          <5> QED BY <4>2, <5>1, <5>2, <5>3
        <4>4. ~extra[x].inc /\ extra[x].value = w
          BY <4>1, <4>2
        <4>5. Combine(existing, extra)[x] = [existing[x] EXCEPT !.value = w]
          BY <4>4 DEF Combine
        <4> QED BY <4>1, <4>3, <4>5
      <3>2. CASE x # b
        <4>1. /\ existing[x] = [inc |-> TRUE, value |-> 0]
              /\ extra[x] = [inc |-> TRUE, value |-> 0]
          BY <3>2, <1>1, <1>2, <1>3 DEF Unchanged
        <4>2. [existing[x] EXCEPT !.value = 0 + 0] = [inc |-> TRUE, value |-> 0]
          BY <4>1
        <4>3. Combine(existing, extra)[x] = [existing[x] EXCEPT !.value = 0 + 0]
          BY <4>1 DEF Combine
        <4> QED BY <4>1, <4>2, <4>3
      <3> QED BY <3>1, <3>2
    <2> QED BY <2>1, <1>2 DEF Combine, Unchanged
  <1>5. Apply(extra, motion) = Apply(extra, Apply(existing, motion))
    <2>1. \A u \in -MaxSpeed..MaxSpeed : Limit(u) = u /\ u + 0 = u
      BY DEF Limit
    <2>2. ASSUME NEW x \in Axes
          PROVE  Apply(extra, motion)[x] = Apply(extra, Apply(existing, motion))[x]
      <3>1. CASE x = b
        BY <3>1, <1>2 DEF Apply, Unchanged
      <3>2. CASE x # b
        <4>1. existing[x].inc = TRUE /\ existing[x].value = 0 /\ extra[x].inc = TRUE /\ extra[x].value = 0
          BY <3>2, <1>1, <1>2, <1>3 DEF Unchanged
        <4>2. motion[x] \in -MaxSpeed..MaxSpeed
          BY DEF Motion
        <4>3. Apply(existing, motion)[x] = motion[x]
          BY <4>1, <4>2, <2>1 DEF Apply
        <4> QED BY <4>1, <4>2, <4>3, <2>1 DEF Apply
      <3> QED BY <3>1, <3>2
    <2> QED BY <2>2 DEF Apply
  <1> QED BY <1>4, <1>5

-----------------------------------------------------------------------------
(* Type correctness                                                         *)

LEMMA InitTyped == Init => IInv
  <1> SUFFICES ASSUME Init PROVE IInv
    OBVIOUS
  <1>1. Still \in Motion
    BY DEF Still, Motion
  <1>2. <<>> \in Seq(Input) /\ <<>> \in Seq(Motion) /\ <<>> \in Seq(JoystickInputs) /\ Len(<<>>) = 0
    OBVIOUS
  <1>3. TypeOK
    <2>1. 0 \in 0..MaxFailures
      OBVIOUS
    <2> QED BY <1>1, <1>2, <2>1 DEF Init, TypeOK
  <1>4. OneAxisEach
    BY <1>2 DEF Init, OneAxisEach
  <1>5. CombiningIsInvisible
    BY <1>2 DEF Init, CombiningIsInvisible, Before
  <1> QED BY <1>2, <1>3, <1>4, <1>5 DEF IInv, Init

\* The input may be that of any device that is used.
LEMMA InputTyped ==
  ASSUME NEW input \in Inputs
  PROVE  /\ input \in Input
         /\ device = "joystick" => input \in JoystickInputs
  BY DevicesTyped DEF Inputs

\* A new input keeps the types.
LEMMA NewCommandTyped ==
  ASSUME TypeOK, Len(aims) = Len(events), NEW input \in Inputs, NewCommand(input)
  PROVE  TypeOK' /\ Len(aims') = Len(events')
  <1>1. input \in Input
    BY InputTyped
  <1>2. intended' \in Motion
    BY <1>1, ApplyTyped DEF TypeOK, NewCommand
  <1>3. events \in Seq(Input) /\ aims \in Seq(Motion)
    BY DEF TypeOK
  <1>4. CASE Joins(input)
    <2>1. Len(events) \in 1..Len(events) /\ Len(aims) \in 1..Len(aims)
      BY <1>3, <1>4 DEF Joins
    <2>2. Combine(events[Len(events)], input) \in Input
      BY <1>1, <1>3, <2>1, CombineTyped
    <2>3. events' \in Seq(Input) /\ Len(events') = Len(events)
      BY <1>3, <1>4, <2>1, <2>2 DEF NewCommand, Added
    <2>4. aims' \in Seq(Motion) /\ Len(aims') = Len(aims)
      BY <1>2, <1>3, <1>4, <2>1 DEF NewCommand
    <2> QED BY <1>2, <2>3, <2>4 DEF TypeOK, NewCommand
  <1>5. CASE ~Joins(input)
    <2>1. events' \in Seq(Input) /\ Len(events') = Len(events) + 1
      BY <1>1, <1>3, <1>5 DEF NewCommand, Added
    <2>2. aims' \in Seq(Motion) /\ Len(aims') = Len(aims) + 1
      BY <1>2, <1>3, <1>5 DEF NewCommand
    <2> QED BY <1>2, <2>1, <2>2 DEF TypeOK, NewCommand
  <1> QED BY <1>4, <1>5

\* So does the driver that takes an event.
LEMMA TakeEventTyped ==
  ASSUME TypeOK, Len(aims) = Len(events), TakeEvent
  PROVE  TypeOK' /\ Len(aims') = Len(events')
  <1>1. events \in Seq(Input) /\ aims \in Seq(Motion) /\ events # <<>> /\ aims # <<>>
    BY DEF TypeOK, TakeEvent
  <1>2. Head(events) \in Input
    BY <1>1
  <1>3. command' \in Motion
    BY <1>2, ApplyTyped DEF TypeOK, TakeEvent
  <1>4. events' \in Seq(Input) /\ aims' \in Seq(Motion) /\ Len(aims') = Len(events')
    BY <1>1 DEF TakeEvent
  <1> QED BY <1>3, <1>4 DEF TypeOK, TakeEvent

-----------------------------------------------------------------------------
(* What the events lead to                                                  *)

\* Where an event starts from is a motion.
LEMMA BeforeTyped ==
  ASSUME TypeOK, Len(aims) = Len(events), NEW i \in 1..(Len(events) + 1)
  PROVE  Before(i) \in Motion
  <1>1. CASE i = 1
    BY <1>1 DEF Before, TypeOK
  <1>2. CASE i # 1
    <2>1. i - 1 \in 1..Len(aims) /\ aims \in Seq(Motion)
      BY <1>2 DEF TypeOK
    <2> QED BY <1>2, <2>1 DEF Before
  <1> QED BY <1>1, <1>2

\* A new input keeps a joystick's events to one axis each, and what they lead to.
LEMMA NewCommandInvisible ==
  ASSUME IInv, NEW input \in Inputs, NewCommand(input)
  PROVE  OneAxisEach' /\ CombiningIsInvisible'
  <1> USE DEF IInv
  <1>1. device' = device /\ failures' = failures /\ command' = command
    BY DEF NewCommand
  <1>2. CASE device # "joystick"
    BY <1>1, <1>2 DEF OneAxisEach, CombiningIsInvisible
  <1>3. CASE device = "joystick"
    <2>1. input \in JoystickInputs /\ input \in Input
      BY <1>3, InputTyped
    <2>2. events \in Seq(JoystickInputs) /\ aims \in Seq(Motion)
      BY <1>3 DEF OneAxisEach, TypeOK
    <2>n. PICK n \in Nat : Len(events) = n /\ Len(aims) = n
      BY <2>2
    <2>3. intended' = Apply(input, intended)
      BY DEF NewCommand
    <2>4. CASE Joins(input)
      <3>1. n \in 1..n
        BY <2>2, <2>4, <2>n DEF Joins
      <3>2. /\ events' = [events EXCEPT ![n] = Combine(events[n], input)]
            /\ aims' = [aims EXCEPT ![n] = intended']
        BY <2>4, <2>n DEF NewCommand, Added
      <3>3. events[n] \in JoystickInputs /\ Combines(events[n], input) /\ Before(n) \in Motion
        BY <2>2, <2>4, <3>1, <2>n, BeforeTyped DEF Joins
      <3>4. /\ Combine(events[n], input) \in JoystickInputs
            /\ Apply(Combine(events[n], input), Before(n)) = Apply(input, Apply(events[n], Before(n)))
        BY <2>1, <3>3, JoystickInputsCombine
      <3>5. events' \in Seq(JoystickInputs) /\ Len(events') = n
        BY <2>2, <3>1, <3>2, <3>4, <2>n
      <3>6. ASSUME failures = 0
            PROVE  /\ \A i \in 1..n : aims'[i] = Apply(events'[i], Before(i)')
                   /\ intended' = Before(n + 1)'
        <4>1. /\ \A i \in 1..n : aims[i] = Apply(events[i], Before(i))
              /\ intended = Before(n + 1)
          BY <1>3, <3>6, <2>n DEF CombiningIsInvisible
        <4>2. intended = aims[n]
          BY <4>1, <3>1 DEF Before
        <4>3. \A i \in 1..n : Before(i)' = Before(i)
          BY <1>1, <2>2, <2>n, <3>1, <3>2 DEF Before
        <4>4. aims'[n] = intended' /\ Before(n + 1)' = aims'[n]
          BY <2>2, <2>n, <3>1, <3>2 DEF Before
        <4>5. ASSUME NEW i \in 1..n
              PROVE  aims'[i] = Apply(events'[i], Before(i)')
          <5>1. CASE i = n
            <6>1. events'[n] = Combine(events[n], input)
              BY <2>2, <3>1, <3>2, <2>n
            <6> QED BY <5>1, <6>1, <2>3, <3>1, <3>4, <4>1, <4>2, <4>3, <4>4
          <5>2. CASE i # n
            <6>1. events'[i] = events[i] /\ aims'[i] = aims[i]
              BY <5>2, <2>2, <2>n, <3>2
            <6> QED BY <6>1, <4>1, <4>3
          <5> QED BY <5>1, <5>2
        <4> QED BY <4>4, <4>5
      <3> QED BY <1>1, <3>5, <3>6 DEF OneAxisEach, CombiningIsInvisible
    <2>5. CASE ~Joins(input)
      <3>1. events' = Append(events, input) /\ aims' = Append(aims, intended')
        BY <2>5 DEF NewCommand, Added
      <3>2. intended' \in Motion
        BY NewCommandTyped DEF TypeOK
      <3>3. events' \in Seq(JoystickInputs) /\ Len(events') = n + 1
        BY <2>1, <2>2, <3>1, <2>n
      <3>4. ASSUME failures = 0
            PROVE  /\ \A i \in 1..(n + 1) : aims'[i] = Apply(events'[i], Before(i)')
                   /\ intended' = Before(n + 2)'
        <4>1. /\ \A i \in 1..n : aims[i] = Apply(events[i], Before(i))
              /\ intended = Before(n + 1)
          BY <1>3, <3>4, <2>n DEF CombiningIsInvisible
        <4>2. /\ \A i \in 1..n : events'[i] = events[i] /\ aims'[i] = aims[i]
              /\ events'[n + 1] = input
              /\ aims'[n + 1] = intended'
          BY <2>1, <2>2, <2>n, <3>1, <3>2
        <4>3. \A i \in 1..(n + 1) : Before(i)' = Before(i)
          BY <1>1, <4>2, <2>n DEF Before
        <4>4. Before(n + 2)' = intended'
          <5>1. n + 2 # 1 /\ (n + 2) - 1 = n + 1
            BY <2>n
          <5> QED BY <4>2, <5>1 DEF Before
        <4> QED BY <4>1, <4>2, <4>3, <4>4, <2>3, <2>n
      <3> QED BY <1>1, <2>n, <3>3, <3>4 DEF OneAxisEach, CombiningIsInvisible
    <2> QED BY <2>4, <2>5
  <1> QED BY <1>2, <1>3

\* When the driver takes an event, those behind it lead to the same motions.
LEMMA TakeEventInvisible ==
  ASSUME IInv, TakeEvent
  PROVE  OneAxisEach' /\ CombiningIsInvisible'
  <1> USE DEF IInv
  <1>1. device' = device /\ failures' = failures /\ intended' = intended
    BY DEF TakeEvent
  <1>2. CASE device # "joystick"
    BY <1>1, <1>2 DEF OneAxisEach, CombiningIsInvisible
  <1>3. CASE device = "joystick"
    <2>1. events \in Seq(JoystickInputs) /\ aims \in Seq(Motion) /\ events # <<>> /\ aims # <<>>
      BY <1>3 DEF OneAxisEach, TypeOK, TakeEvent
    <2>2. PICK n \in Nat \ {0} : Len(events) = n /\ Len(aims) = n
      BY <2>1
    <2>3. /\ events' = Tail(events) /\ aims' = Tail(aims)
          /\ command' = Apply(events[1], command)
      BY <2>1 DEF TakeEvent
    <2>4. events' \in Seq(JoystickInputs) /\ Len(events') = n - 1
      BY <2>1, <2>3, <2>2
    <2>5. ASSUME failures = 0
          PROVE  /\ \A i \in 1..(n - 1) : aims'[i] = Apply(events'[i], Before(i)')
                 /\ intended = Before(n)'
      <3>1. /\ \A i \in 1..n : aims[i] = Apply(events[i], Before(i))
            /\ intended = Before(n + 1)
        BY <1>3, <2>5, <2>2 DEF CombiningIsInvisible
      <3>2. \A i \in 1..(n - 1) : events'[i] = events[i + 1] /\ aims'[i] = aims[i + 1]
        BY <2>1, <2>2, <2>3
      <3>3. command' = aims[1]
        BY <2>2, <2>3, <3>1 DEF Before
      <3>4. \A i \in 1..n : Before(i)' = Before(i + 1)
        BY <3>2, <3>3, <2>2 DEF Before
      <3> QED BY <3>1, <3>2, <3>4, <2>2
    <2> QED BY <1>1, <2>2, <2>4, <2>5 DEF OneAxisEach, CombiningIsInvisible
  <1> QED BY <1>2, <1>3

LEMMA NextInductive == IInv /\ [Next]_vars => IInv'
  <1> SUFFICES ASSUME IInv, [Next]_vars PROVE IInv'
    OBVIOUS
  <1> USE DEF IInv
  <1>1. CASE \E input \in Inputs : NewCommand(input)
    BY <1>1, NewCommandTyped, NewCommandInvisible
  <1>2. CASE TakeEvent
    BY <1>2, TakeEventTyped, TakeEventInvisible
  <1>3. CASE SendFails
    <2>1. Still \in Motion
      BY DEF Still, Motion
    <2>2. failures' # 0
      BY <1>3 DEF SendFails, TypeOK
    <2> QED BY <1>3, <2>1, <2>2 DEF SendFails, TypeOK, OneAxisEach, CombiningIsInvisible
  <1>4. CASE \/ Connect \/ TimeOut \/ Send \/ NetworkEnds \/ StopNetwork
             \/ UNCHANGED vars
    <2>1. UNCHANGED <<device, events, command, failures, intended, aims, stopKey>>
      BY <1>4 DEF Connect, TimeOut, Send, NetworkEnds, StopNetwork, vars
    <2>2. TypeOK'
      BY <1>4, <2>1 DEF Connect, TimeOut, Send, NetworkEnds, StopNetwork, vars, TypeOK
    <2>3. OneAxisEach' /\ CombiningIsInvisible'
      BY <2>1 DEF OneAxisEach, CombiningIsInvisible, Before
    <2> QED BY <2>1, <2>2, <2>3
  <1> QED BY <1>1, <1>2, <1>3, <1>4 DEF Next, NetworkStep

-----------------------------------------------------------------------------
(* The theorems                                                             *)

\* The invariant, for any limits and any bounds.
THEOREM Invariance ==
  ASSUME TeleopAssumption
  PROVE  Spec => []IInv
  BY InitTyped, NextInductive, PTL DEF Spec

\* The command that is kept, and so what the robot gets, stays within the limits of
\* the driver, however commands were combined.
THEOREM TypeCorrect ==
  ASSUME TeleopAssumption
  PROVE  Spec => []TypeOK
  BY Invariance, PTL DEF IInv

\* With a joystick the optimizer of the queue cannot be told from a queue without.
THEOREM JoystickIsObeyed ==
  ASSUME TeleopAssumption
  PROVE  Spec => []CombiningIsInvisible
  BY Invariance, PTL DEF IInv

\* With a joystick, and until a call fails, the robot does what the operator's inputs
\* amount to once nothing is left to do: what NetworkThread keeps is what it has sent
\* (networkthread.cpp, walk()), and what it keeps is what the inputs lead to.
THEOREM JoystickDrivesTheRobot ==
  ASSUME TeleopAssumption
  PROVE  Spec => []RobotDoesWhatIsIntended
  <1>1. Init => RobotIsCurrent
    BY DEF Init, RobotIsCurrent
  <1>2. TypeOK /\ RobotIsCurrent /\ [Next]_vars => RobotIsCurrent'
    <2> SUFFICES ASSUME TypeOK, RobotIsCurrent, [Next]_vars PROVE RobotIsCurrent'
      OBVIOUS
    <2>1. CASE TakeEvent \/ TimeOut
      BY <2>1 DEF TakeEvent, TimeOut, RobotIsCurrent
    <2>2. CASE Send
      BY <2>2 DEF Send, RobotIsCurrent
    <2>3. CASE SendFails
      <3>1. failures' # 0
        BY <2>3 DEF SendFails, TypeOK
      <3> QED BY <3>1 DEF RobotIsCurrent
    <2>4. CASE Connect \/ NetworkEnds
      <3>1. /\ network # "sending"
            /\ UNCHANGED <<command, robot, failures>>
        BY <2>4 DEF Connect, NetworkEnds
      <3> QED BY <3>1 DEF RobotIsCurrent
    <2>5. CASE (\E input \in Inputs : NewCommand(input)) \/ StopNetwork \/ UNCHANGED vars
      <3>1. UNCHANGED <<network, command, robot, failures>>
        BY <2>5 DEF NewCommand, StopNetwork, vars
      <3> QED BY <3>1 DEF RobotIsCurrent
    <2> QED BY <2>1, <2>2, <2>3, <2>4, <2>5 DEF Next, NetworkStep
  <1>3. IInv /\ RobotIsCurrent => RobotDoesWhatIsIntended
    <2> SUFFICES ASSUME IInv, RobotIsCurrent, device = "joystick", failures = 0,
                        events = <<>>, network = "waiting"
                 PROVE  robot = intended
      BY DEF RobotDoesWhatIsIntended
    <2>1. Len(events) + 1 = 1
      OBVIOUS
    <2>2. intended = command
      BY <2>1 DEF IInv, CombiningIsInvisible, Before
    <2> QED BY <2>2 DEF RobotIsCurrent
  <1>4. IInv => TypeOK
    BY DEF IInv
  <1> QED BY <1>1, <1>2, <1>3, <1>4, Invariance, PTL DEF Spec
=============================================================================
