-------------------------- MODULE SegwayDriveProofs --------------------------
(***************************************************************************)
(* Proofs about SegwayDrive for any number of powerbases and dispatch      *)
(* threads, any commands and any times: a base that gets no commands, and  *)
(* a base whose e-stop is triggered, comes to rest within StopBound.       *)
(*                                                                         *)
(* The argument follows a command through the base. It waits in the store  *)
(* for one iteration, is followed until the time-out and one iteration     *)
(* later, is replaced by a stop that waits for another iteration, and then *)
(* the speed falls by at least one unit a tick, one iteration late. Each stage bounds quiet,   *)
(* the ticks since the last command to move was stored, and hands a larger *)
(* bound to the next.                                                      *)
(***************************************************************************)
EXTENDS SegwayDrive, TLAPS

-----------------------------------------------------------------------------
(* The ramp                                                                 *)

Abs(x) == IF x < 0 THEN -x ELSE x

\* Any acceleration of at least one covers a distance of at least the time.
LEMMA Product ==
  ASSUME NEW a \in Nat \ {0}, NEW t \in Nat
  PROVE  a * t \in Nat /\ a * t >= t
<1>1. a * t \in Nat
  OBVIOUS
<1>2. (a - 1) * t \in Nat /\ a * t = (a - 1) * t + t
  OBVIOUS
<1> QED
  BY <1>1, <1>2

\* The ramp stays between the speed and the set point, moves unless it is
\* there, and loses at least one unit a tick towards zero.
LEMMA Ramp ==
  ASSUME DriveAssumption, NEW s \in Speeds, NEW target \in Speeds, NEW time \in Nat
  PROVE  LET r == CurrentCmdSpeed(s, target, time) IN
         /\ r \in Speeds
         /\ r - s <= ForwardAccel * time
         /\ s - r <= ReverseAccel * time
         /\ s = target => r = s
         /\ time > 0 /\ target # s => r # s
         /\ target = 0 /\ r # 0 => Abs(r) <= Abs(s) - time
<1>1. /\ ForwardAccel * time \in Nat /\ ForwardAccel * time >= time
      /\ ReverseAccel * time \in Nat /\ ReverseAccel * time >= time
  BY Product DEF DriveAssumption
<1> DEFINE r == CurrentCmdSpeed(s, target, time)
           F == ForwardAccel * time
           R == ReverseAccel * time
<1>2. r = IF target > s THEN IF s + F < target THEN s + F ELSE target
          ELSE IF s - R > target THEN s - R ELSE target
  BY DEF CurrentCmdSpeed
<1>3. /\ F \in Nat /\ F >= time /\ R \in Nat /\ R >= time
      /\ s \in Int /\ target \in Int /\ MaxSpeed \in Nat
      /\ -MaxSpeed <= s /\ s <= MaxSpeed /\ -MaxSpeed <= target /\ target <= MaxSpeed
  BY <1>1 DEF DriveAssumption, Speeds
<1> HIDE DEF r, F, R
<1>4. /\ r \in Int /\ -MaxSpeed <= r /\ r <= MaxSpeed
      /\ r - s <= F /\ s - r <= R
      /\ s = target => r = s
      /\ time > 0 /\ target # s => r # s
  BY <1>2, <1>3
<1>5. target = 0 /\ r # 0 => Abs(r) <= Abs(s) - time
  BY <1>2, <1>3 DEF Abs
<1> QED
  BY <1>3, <1>4, <1>5 DEF r, F, R, Speeds

-----------------------------------------------------------------------------
(* The inductive invariant                                                  *)

\* a stop waits in the store
StopPending(b) == store[b].new /\ store[b].cmd = Stop
Driving(b) == setPoint[b] # 0 \/ w[b] # 0
AtRest(b) == speed[b] = 0 /\ w[b] = 0

\* what the loop's variables say of what the hardware was told
LoopFacts(b) ==
  /\ Operating(b) => sent[b].v = speed[b]
  /\ Operating(b) => sent[b].w = w[b] \/ store[b].new
  /\ pc[b] = "running" /\ dt[b] = 0 => ~Driving(b)
  /\ pc[b] = "checking" => lag[b] >= 1

\* the time since the top of the loop, or 0 where the loop goes there at once
Wait(b) == IF pc[b] = "checking" THEN 0 ELSE lag[b]

\* a command to move waits for an iteration
Waiting(b) ==
  store[b].new /\ store[b].cmd # Stop => quiet <= Wait(b)

\* it is followed until it times out, and until the test is made; at the moment
\* the speed passes through zero the test is not made
Followed(b) ==
  Driving(b) /\ ~StopPending(b) =>
    IF timer[b] <= CommandTimeout THEN quiet <= LoopMax + timer[b]
    ELSE IF pc[b] = "checking"
    THEN quiet <= CommandTimeout + (IF AtRest(b) THEN 2 * LoopMax ELSE 3 * LoopMax)
    ELSE quiet <= LoopMax + CommandTimeout + lag[b] + (IF AtRest(b) THEN LoopMax ELSE 0)

\* the stop waits for an iteration
Stopping(b) ==
  StopPending(b) /\ (Driving(b) \/ sent[b].w # 0) =>
    quiet <= 3 * LoopMax + CommandTimeout + Wait(b)

\* the speed falls, by the time that dt has measured or lag is measuring
Slowing(b) ==
  ~Driving(b) /\ speed[b] # 0 =>
    quiet <= 3 * LoopMax + CommandTimeout + MaxSpeed - Abs(speed[b]) + lag[b]
               + (IF pc[b] = "running" THEN dt[b] ELSE 0)

QuietFacts(b) ==
  Operating(b) => Waiting(b) /\ Followed(b) /\ Stopping(b) /\ Slowing(b)

\* a command to move is handed out only in the tick in which it was permitted
Permission ==
  /\ ~EStopOn => denied = 0
  /\ \A d \in Dispatchers : turnOf[d] # 0 /\ task[d] # Stop => denied = 0
  /\ denied <= quiet

IInv ==
  /\ TypeOK
  /\ \A b \in Bases : LoopFacts(b)
  /\ \A b \in Bases : QuietFacts(b)
  /\ Permission

\* nothing is started before the e-stop has been connected to
EStopFirst ==
  /\ EStopEnabled /\ ~connected => main = "connecting"
  /\ main = "connecting" => \A b \in Bases : pc[b] = "unstarted"

\* a base that no command reaches keeps the one to stand still
Standing(b) ==
  /\ store[b].cmd = Stop
  /\ setPoint[b] = 0 /\ speed[b] = 0 /\ w[b] = 0
  /\ sent[b] = Stop

-----------------------------------------------------------------------------
(* Types                                                                    *)

\* The numbers that the arguments about times are about.
LEMMA Numbers ==
  ASSUME DriveAssumption, TypeOK, NEW b \in Bases
  PROVE  /\ LoopMax \in Nat \ {0} /\ CommandTimeout \in Nat \ {0} /\ MaxSpeed \in Nat
         /\ StopBound \in Nat /\ StopBound = 5 * LoopMax + CommandTimeout + MaxSpeed
         /\ KeepAlive \in Nat \ {0} /\ NBases \in Nat \ {0} /\ DtLimit \in Nat \ {0}
         /\ quiet \in Nat /\ denied \in Nat
         /\ quiet <= StopBound + 1 /\ denied <= StopBound + 1
         /\ lag[b] \in Nat /\ lag[b] <= LoopMax /\ dt[b] \in Nat /\ dt[b] <= LoopMax
         /\ timer[b] \in Nat /\ timer[b] <= CommandTimeout + 1
         /\ speed[b] \in Int /\ speed[b] <= MaxSpeed /\ -MaxSpeed <= speed[b]
         /\ setPoint[b] \in Int /\ w[b] \in Int
         /\ sent[b] \in Command /\ sent[b].v \in Int /\ sent[b].w \in Int
         /\ store[b] \in [cmd : Command, new : BOOLEAN]
         /\ store[b].cmd \in Command /\ store[b].new \in BOOLEAN
         /\ store[b].cmd.v \in Speeds /\ store[b].cmd.w \in Int
<1>1. /\ LoopMax \in Nat \ {0} /\ CommandTimeout \in Nat \ {0} /\ MaxSpeed \in Nat
      /\ KeepAlive \in Nat \ {0} /\ NBases \in Nat \ {0} /\ DtLimit \in Nat \ {0}
  BY DEF DriveAssumption
<1>2. StopBound \in Nat /\ StopBound = 5 * LoopMax + CommandTimeout + MaxSpeed
  BY <1>1 DEF StopBound
<1>3. /\ quiet \in 0..(StopBound + 1) /\ denied \in 0..(StopBound + 1)
      /\ lag[b] \in 0..LoopMax /\ dt[b] \in 0..LoopMax /\ timer[b] \in 0..(CommandTimeout + 1)
      /\ speed[b] \in Speeds /\ setPoint[b] \in Speeds /\ w[b] \in Int
      /\ sent[b] \in Command /\ store[b] \in [cmd : Command, new : BOOLEAN]
  BY DEF TypeOK
<1>4. /\ sent[b].v \in Speeds /\ sent[b].w \in Int /\ store[b].cmd \in Command
      /\ store[b].new \in BOOLEAN /\ store[b].cmd.v \in Speeds /\ store[b].cmd.w \in Int
  BY <1>3 DEF Command
<1> QED
  BY <1>1, <1>2, <1>3, <1>4 DEF Speeds

LEMMA StopIsCommand == DriveAssumption => Stop \in Command
  BY DEF DriveAssumption, Stop, Command, Speeds

LEMMA TypeInit == DriveAssumption /\ Init => TypeOK
<1> SUFFICES ASSUME DriveAssumption, Init PROVE TypeOK
  OBVIOUS
<1>1. Stop \in Command /\ 0 \in Speeds /\ StopBound \in Nat /\ KeepAlive \in Nat
  BY StopIsCommand DEF DriveAssumption, Speeds, StopBound
<1>2. /\ task \in [Dispatchers -> Command] /\ turnOf \in [Dispatchers -> 0..NBases]
      /\ sent \in [Bases -> Command]
  BY <1>1 DEF Init, DriveAssumption
<1>3. store \in [Bases -> [cmd : Command, new : BOOLEAN]]
  BY <1>1 DEF Init
<1>4. /\ setPoint \in [Bases -> Speeds] /\ speed \in [Bases -> Speeds]
      /\ w \in [Bases -> Int] /\ lag \in [Bases -> 0..LoopMax]
      /\ dt \in [Bases -> 0..LoopMax] /\ timer \in [Bases -> 0..(CommandTimeout + 1)]
  BY <1>1 DEF Init, DriveAssumption
<1>5. pc \in [Bases -> {"unstarted", "enabling", "clearing", "running",
                       "checking", "faulted"}]
  BY DEF Init
<1>6. main \in {"connecting", "starting"} /\ connected \in BOOLEAN /\ activated \in BOOLEAN
  BY DEF Init
<1>z. silence = 0 /\ quiet = 0 /\ denied = 0
  BY DEF Init
<1>7. /\ quiet \in 0..(StopBound + 1) /\ denied \in 0..(StopBound + 1)
      /\ silence \in 0..(KeepAlive + 1)
  BY <1>z, <1>1
<1> QED
  BY <1>2, <1>3, <1>4, <1>5, <1>6, <1>7 DEF TypeOK

LEMMA TypeStep == DriveAssumption /\ TypeOK /\ [Next]_vars => TypeOK'
<1> SUFFICES ASSUME DriveAssumption, TypeOK, [Next]_vars PROVE TypeOK'
  OBVIOUS
<1>n. /\ LoopMax \in Nat \ {0} /\ CommandTimeout \in Nat \ {0} /\ MaxSpeed \in Nat
      /\ StopBound \in Nat /\ KeepAlive \in Nat \ {0} /\ NBases \in Nat \ {0}
      /\ Stop \in Command /\ Commands \subseteq Command
  BY StopIsCommand DEF DriveAssumption, StopBound
<1>1. CASE ConnectEStop
  BY <1>n, <1>1 DEF TypeOK, ConnectEStop, Deny, callVars, loopVars
<1>2. ASSUME NEW d \in Dispatchers, NEW c \in Commands, SetCommand(d, c)
      PROVE  TypeOK'
  BY <1>n, <1>2 DEF TypeOK, SetCommand, HandOut, estopVars, loopVars, clocks
<1>3. ASSUME NEW d \in Dispatchers, NEW a \in BOOLEAN, HandleData(d, a)
      PROVE  TypeOK'
  BY <1>n, <1>3 DEF TypeOK, HandleData, HandOut, Deny, callVars, loopVars
<1>4. ASSUME NEW d \in Dispatchers, SetDesiredSpeed(d)
      PROVE  TypeOK'
  <2>1. task[d] \in Command /\ turnOf[d] \in Bases /\ turnOf[d] \in 1..NBases
    BY <1>4 DEF TypeOK, SetDesiredSpeed, Bases
  <2>2. store' \in [Bases -> [cmd : Command, new : BOOLEAN]]
    <3>1. [cmd |-> task[d], new |-> TRUE] \in [cmd : Command, new : BOOLEAN]
      BY <2>1
    <3>2. store \in [Bases -> [cmd : Command, new : BOOLEAN]]
      BY DEF TypeOK
    <3>3. store' = store
          \/ store' = [store EXCEPT ![turnOf[d]] = [cmd |-> task[d], new |-> TRUE]]
      BY <1>4 DEF SetDesiredSpeed
    <3> QED
      BY <2>1, <3>1, <3>2, <3>3
  <2>3. turnOf' \in [Dispatchers -> 0..NBases]
    <3>1. turnOf \in [Dispatchers -> 0..NBases]
      BY DEF TypeOK
    <3>2. \/ turnOf' = [turnOf EXCEPT ![d] = 0]
          \/ turnOf[d] # NBases /\ turnOf' = [turnOf EXCEPT ![d] = turnOf[d] + 1]
      BY <1>4 DEF SetDesiredSpeed
    <3>3. 0 \in 0..NBases /\ (turnOf[d] # NBases => turnOf[d] + 1 \in 0..NBases)
      BY <1>n, <2>1
    <3> QED
      BY <3>1, <3>2, <3>3
  <2>4. quiet' \in 0..(StopBound + 1)
    BY <1>n, <1>4 DEF TypeOK, SetDesiredSpeed
  <2> QED
    BY <1>4, <2>2, <2>3, <2>4 DEF TypeOK, SetDesiredSpeed, estopVars, loopVars
<1>5. ASSUME NEW b \in Bases, StartThread(b) \/ Enable(b) \/ Fault(b) \/ Recover(b)
      PROVE  TypeOK'
  BY <1>5 DEF TypeOK, StartThread, Enable, Fault, Recover, estopVars, callVars,
     loopVars, clocks
<1>6. ASSUME NEW b \in Bases, Begin(b)
      PROVE  TypeOK'
  <2>1. 0 \in Speeds /\ 0 \in 0..LoopMax /\ 0 \in 0..(CommandTimeout + 1)
    BY <1>n DEF Speeds
  <2> QED
    BY <1>n, <1>6, <2>1 DEF TypeOK, Begin, estopVars, callVars, clocks
<1>7. ASSUME NEW b \in Bases, Write(b) \/ WriteFails(b)
      PROVE  TypeOK'
  <2> DEFINE target == IF store[b].new THEN store[b].cmd.v ELSE setPoint[b]
             turn == IF store[b].new THEN store[b].cmd.w ELSE w[b]
             r == CurrentCmdSpeed(speed[b], target, dt[b])
  <2>1. target \in Speeds /\ turn \in Int /\ speed[b] \in Speeds /\ dt[b] \in Nat
    BY Numbers DEF TypeOK
  <2> HIDE DEF target, turn
  <2>2. r \in Speeds
    BY <2>1, Ramp
  <2> HIDE DEF r
  <2>3. [v |-> r, w |-> turn] \in Command
    BY <2>1, <2>2 DEF Command
  <2>4. /\ store' = [store EXCEPT ![b].new = FALSE]
        /\ setPoint' = [setPoint EXCEPT ![b] = target]
        /\ timer' = [timer EXCEPT ![b] = IF store[b].new THEN 0 ELSE @]
        /\ speed' = [speed EXCEPT ![b] = r]
        /\ w' = [w EXCEPT ![b] = turn]
        /\ sent' = [sent EXCEPT ![b] =
              IF store[b].new \/ speed[b] # target THEN [v |-> r, w |-> turn] ELSE @]
        /\ UNCHANGED <<main, estopVars, callVars, lag, dt, clocks>>
        /\ pc' \in {[pc EXCEPT ![b] = "checking"], [pc EXCEPT ![b] = "faulted"]}
    BY <1>7 DEF Write, WriteFails, FetchAndRamp, target, turn, r
  <2>5. /\ setPoint' \in [Bases -> Speeds] /\ speed' \in [Bases -> Speeds]
        /\ w' \in [Bases -> Int] /\ sent' \in [Bases -> Command]
    BY <2>1, <2>2, <2>3, <2>4 DEF TypeOK
  <2>z. 0 \in 0..(CommandTimeout + 1)
    BY <1>n
  <2>s. store' \in [Bases -> [cmd : Command, new : BOOLEAN]]
    <3>1. store \in [Bases -> [cmd : Command, new : BOOLEAN]]
      BY DEF TypeOK
    <3>2. [store[b] EXCEPT !.new = FALSE] \in [cmd : Command, new : BOOLEAN]
      BY <3>1
    <3> QED
      BY <2>4, <3>1, <3>2
  <2>t. timer' \in [Bases -> 0..(CommandTimeout + 1)]
    BY <2>z, <2>4 DEF TypeOK
  <2>6. pc' \in [Bases -> {"unstarted", "enabling", "clearing", "running",
                              "checking", "faulted"}]
    BY <2>4 DEF TypeOK
  <2> QED
    BY <2>4, <2>5, <2>s, <2>t, <2>6 DEF TypeOK, estopVars, callVars, clocks
<1>8. ASSUME NEW b \in Bases, CheckTimeout(b)
      PROVE  TypeOK'
  <2>1. store' \in [Bases -> [cmd : Command, new : BOOLEAN]]
    <3>1. [cmd |-> Stop, new |-> TRUE] \in [cmd : Command, new : BOOLEAN]
      BY <1>n
    <3>2. store \in [Bases -> [cmd : Command, new : BOOLEAN]]
      BY DEF TypeOK
    <3> QED
      BY <1>8, <3>1, <3>2 DEF CheckTimeout
  <2>2. 0 \in 0..(CommandTimeout + 1)
    BY <1>n
  <2>3. timer' \in [Bases -> 0..(CommandTimeout + 1)]
    BY <2>2, <1>8 DEF TypeOK, CheckTimeout
  <2>4. /\ w' \in [Bases -> Int]
        /\ pc' \in [Bases -> {"unstarted", "enabling", "clearing", "running",
                              "checking", "faulted"}]
    BY <1>8 DEF TypeOK, CheckTimeout
  <2>5. 0 \in 0..LoopMax /\ lag[b] \in 0..LoopMax
    BY <1>n DEF TypeOK
  <2>6. lag' \in [Bases -> 0..LoopMax] /\ dt' \in [Bases -> 0..LoopMax]
    BY <2>5, <1>8 DEF TypeOK, CheckTimeout
  <2> QED
    BY <1>8, <2>1, <2>3, <2>4, <2>6 DEF TypeOK, CheckTimeout, estopVars, callVars, clocks
<1>9. CASE Tick
  <2>1. lag' \in [Bases -> 0..LoopMax]
    BY <1>n, <1>9 DEF TypeOK, Tick
  <2>2. timer' \in [Bases -> 0..(CommandTimeout + 1)]
    BY <1>n, <1>9 DEF TypeOK, Tick, Upto
  <2>3. quiet' \in 0..(StopBound + 1) /\ denied' \in 0..(StopBound + 1)
    BY <1>n, <1>9 DEF TypeOK, Tick, Upto, Deny
  <2>4. silence' \in 0..(KeepAlive + 1)
    BY <1>n, <1>9 DEF TypeOK, Tick, Upto
  <2> QED
    BY <1>9, <2>1, <2>2, <2>3, <2>4 DEF TypeOK, Tick, callVars
<1>10. CASE UNCHANGED vars
  BY <1>10 DEF TypeOK, vars, estopVars, callVars, loopVars, clocks
<1> QED
  BY <1>1, <1>2, <1>3, <1>4, <1>5, <1>6, <1>7, <1>8, <1>9, <1>10 DEF Next

-----------------------------------------------------------------------------
(* What the hardware was told                                               *)

LEMMA LoopStep ==
  ASSUME DriveAssumption, TypeOK, [Next]_vars, NEW b \in Bases, LoopFacts(b)
  PROVE  LoopFacts(b)'
<1> USE DEF LoopFacts, Operating, Driving
<1>1. CASE ConnectEStop \/ Tick
  BY <1>1, Numbers DEF TypeOK, ConnectEStop, Tick, callVars, loopVars
<1>2. ASSUME NEW d \in Dispatchers,
             \/ \E c \in Commands : SetCommand(d, c)
             \/ \E a \in BOOLEAN : HandleData(d, a)
      PROVE  LoopFacts(b)'
  BY <1>2 DEF SetCommand, HandleData, loopVars
<1>3. ASSUME NEW d \in Dispatchers, SetDesiredSpeed(d)
      PROVE  LoopFacts(b)'
  <2>1. UNCHANGED <<pc, setPoint, speed, w, lag, dt, sent>>
    BY <1>3 DEF SetDesiredSpeed, loopVars
  <2>2. store[b].new => store'[b].new
    <3>1. CASE UNCHANGED store
      BY <3>1
    <3>2. CASE store' = [store EXCEPT ![turnOf[d]] = [cmd |-> task[d], new |-> TRUE]]
      <4>1. b \in DOMAIN store
        BY DEF TypeOK
      <4> QED
        BY <3>2, <4>1
    <3> QED
      BY <1>3, <3>1, <3>2 DEF SetDesiredSpeed
  <2> QED
    BY <2>1, <2>2
<1>4. ASSUME NEW e \in Bases, StartThread(e) \/ Enable(e) \/ Fault(e) \/ Recover(e)
      PROVE  LoopFacts(b)'
  BY <1>4 DEF TypeOK, StartThread, Enable, Fault, Recover, loopVars
<1>5. ASSUME NEW e \in Bases, Begin(e)
      PROVE  LoopFacts(b)'
  BY <1>5 DEF TypeOK, Begin, Stop
<1>6. ASSUME NEW e \in Bases, Write(e) \/ WriteFails(e)
      PROVE  LoopFacts(b)'
  <2>1. CASE e # b
    BY <2>1, <1>6 DEF TypeOK, Write, WriteFails, FetchAndRamp
  <2>2. CASE e = b
    <3> DEFINE target == IF store[b].new THEN store[b].cmd.v ELSE setPoint[b]
               v == CurrentCmdSpeed(speed[b], target, dt[b])
               turn == IF store[b].new THEN store[b].cmd.w ELSE w[b]
    <3>1. pc[b] = "running" /\ pc'[b] \in {"checking", "faulted"} /\ lag'[b] = lag[b] /\ lag[b] >= 1
      BY <2>2, <1>6 DEF Write, WriteFails, FetchAndRamp, CanWrite, TypeOK
    <3>2. speed'[b] = v /\ w'[b] = turn
      BY <2>2, <1>6 DEF Write, WriteFails, FetchAndRamp, TypeOK
    <3>3. sent'[b] = IF store[b].new \/ speed[b] # target THEN [v |-> v, w |-> turn] ELSE sent[b]
      BY <2>2, <1>6 DEF Write, WriteFails, FetchAndRamp, TypeOK
    <3>4. target \in Speeds /\ speed[b] \in Speeds /\ dt[b] \in Nat
      BY Numbers DEF TypeOK
    <3> HIDE DEF target
    <3>5. speed[b] = target => v = speed[b]
      BY <3>4, Ramp
    <3> HIDE DEF v
    <3> QED
      BY <3>1, <3>2, <3>3, <3>5
  <2> QED
    BY <2>1, <2>2
<1>7. ASSUME NEW e \in Bases, CheckTimeout(e)
      PROVE  LoopFacts(b)'
  BY <1>7 DEF TypeOK, CheckTimeout
<1>8. CASE UNCHANGED vars
  BY <1>8 DEF vars, loopVars
<1> QED
  BY <1>1, <1>2, <1>3, <1>4, <1>5, <1>6, <1>7, <1>8 DEF Next

-----------------------------------------------------------------------------
(* The e-stop                                                               *)

LEMMA PermissionStep ==
  DriveAssumption /\ TypeOK /\ TypeOK' /\ Permission /\ [Next]_vars => Permission'
<1> SUFFICES ASSUME DriveAssumption, TypeOK, TypeOK', Permission, [Next]_vars
             PROVE  Permission'
  OBVIOUS
<1>n. quiet \in Nat /\ denied \in Nat /\ StopBound \in Nat /\ quiet <= StopBound + 1
  BY DEF TypeOK, DriveAssumption, StopBound
<1>1. CASE ConnectEStop
  BY <1>1, <1>n DEF Permission, ConnectEStop, Deny, EStopOn, callVars
<1>2. ASSUME NEW d \in Dispatchers, NEW c \in Commands, SetCommand(d, c)
      PROVE  Permission'
  BY <1>2, <1>n DEF Permission, SetCommand, HandOut, EStopOn, Permitted, IsEStopTriggered,
     TypeOK, estopVars, clocks
<1>3. ASSUME NEW d \in Dispatchers, NEW a \in BOOLEAN, HandleData(d, a)
      PROVE  Permission'
  BY <1>3, <1>n DEF Permission, HandleData, HandOut, EStopOn, Deny, TypeOK, callVars
<1>4. ASSUME NEW d \in Dispatchers, SetDesiredSpeed(d)
      PROVE  Permission'
  <2>1. turnOf[d] # 0 /\ denied' = denied /\ task' = task /\ EStopOn' = EStopOn
    BY <1>4, <1>n DEF SetDesiredSpeed, EStopOn, estopVars, Bases, DriveAssumption
  <2>2. \A e \in Dispatchers : turnOf'[e] # 0 => turnOf[e] # 0
    BY <1>4, <2>1 DEF SetDesiredSpeed, TypeOK
  <2>3. quiet' = quiet \/ (quiet' = 0 /\ task[d] # Stop)
    BY <1>4 DEF SetDesiredSpeed
  <2> QED
    BY <1>n, <2>1, <2>2, <2>3 DEF Permission
<1>5. ASSUME NEW b \in Bases,
             \/ StartThread(b) \/ Enable(b) \/ Begin(b) \/ Write(b) \/ WriteFails(b)
             \/ Fault(b) \/ CheckTimeout(b) \/ Recover(b)
      PROVE  Permission'
  BY <1>5 DEF Permission, StartThread, Enable, Begin, Write, WriteFails, FetchAndRamp,
     Fault, CheckTimeout, Recover, EStopOn, estopVars, callVars, clocks
<1>6. CASE Tick
  BY <1>6, <1>n DEF Permission, Tick, Deny, Upto, Idle, EStopOn, callVars, TypeOK
<1>7. CASE UNCHANGED vars
  BY <1>7 DEF Permission, EStopOn, vars, estopVars, callVars, clocks
<1> QED
  BY <1>1, <1>2, <1>3, <1>4, <1>5, <1>6, <1>7 DEF Next

-----------------------------------------------------------------------------
(* The stages of a command                                                  *)

\* A step that leaves a base alone leaves its facts alone.
LEMMA Elsewhere ==
  ASSUME NEW b \in Bases, QuietFacts(b), quiet' = quiet, pc'[b] = pc[b],
         store'[b] = store[b], setPoint'[b] = setPoint[b], speed'[b] = speed[b],
         w'[b] = w[b], lag'[b] = lag[b], dt'[b] = dt[b], timer'[b] = timer[b], sent'[b] = sent[b]
  PROVE  QuietFacts(b)'
BY DEF QuietFacts, Operating, Waiting, Followed, Stopping, Slowing, StopPending, Driving,
   AtRest, Wait

\* A command arrives in the store: it waits there, or it starts to stop the base.
LEMMA Arrival ==
  ASSUME DriveAssumption, TypeOK, NEW b \in Bases, LoopFacts(b), QuietFacts(b),
         NEW d \in Dispatchers, SetDesiredSpeed(d)
  PROVE  QuietFacts(b)'
<1>1. /\ UNCHANGED <<pc, loopVars>>
      /\ \/ UNCHANGED <<store, quiet>>
         \/ /\ quiet' = IF task[d] # Stop THEN 0 ELSE quiet
            /\ store'[b] = store[b] \/ store'[b] = [cmd |-> task[d], new |-> TRUE]
  BY DEF SetDesiredSpeed, TypeOK
<1>2. CASE store'[b] = store[b] /\ quiet' = quiet
  BY <1>1, <1>2, Elsewhere DEF loopVars
<1>3. CASE quiet' = 0
  <2> SUFFICES ASSUME Operating(b)'
               PROVE  (Waiting(b) /\ Followed(b) /\ Stopping(b) /\ Slowing(b))'
    BY DEF QuietFacts
  <2>1. /\ LoopMax \in Nat /\ CommandTimeout \in Nat /\ MaxSpeed \in Nat
        /\ lag'[b] \in Nat /\ dt'[b] \in Nat /\ timer'[b] \in Nat
        /\ speed'[b] \in Int /\ speed'[b] <= MaxSpeed /\ -MaxSpeed <= speed'[b]
    BY <1>1, Numbers DEF loopVars
  <2>2. Waiting(b)' /\ Stopping(b)' /\ Slowing(b)'
    BY <1>3, <2>1 DEF Waiting, Stopping, Slowing, Abs, Wait
  <2>3. Followed(b)'
    BY <1>3, <2>1 DEF Followed
  <2> QED
    BY <2>2, <2>3
<1>4. CASE quiet' = quiet /\ store'[b] = [cmd |-> Stop, new |-> TRUE]
  <2> SUFFICES ASSUME Operating(b)'
               PROVE  (Waiting(b) /\ Followed(b) /\ Stopping(b) /\ Slowing(b))'
    BY DEF QuietFacts
  <2>1. Operating(b)
    BY <1>1 DEF Operating
  <2>2. Waiting(b)' /\ Followed(b)'
    BY <1>4 DEF Waiting, Followed, StopPending
  <2>3. Slowing(b)'
    BY <1>1, <1>4, <2>1 DEF QuietFacts, Slowing, Driving, loopVars
  <2>4. ASSUME Driving(b) \/ sent[b].w # 0
        PROVE  quiet <= 3 * LoopMax + CommandTimeout + Wait(b)
    <3>1. CASE StopPending(b)
      BY <2>1, <2>4, <3>1 DEF QuietFacts, Stopping
    <3>2. CASE ~StopPending(b) /\ Driving(b)
      BY <2>1, <3>2, Numbers DEF QuietFacts, Followed, Operating, Wait
    <3>3. CASE ~StopPending(b) /\ ~Driving(b)
      BY <2>1, <2>4, <3>3, Numbers DEF QuietFacts, Waiting, LoopFacts, StopPending, Driving,
         Wait
    <3> QED
      BY <3>1, <3>2, <3>3
  <2>5. Stopping(b)'
    BY <1>1, <1>4, <2>4 DEF Stopping, Driving, Wait, loopVars
  <2> QED
    BY <2>2, <2>3, <2>5
<1> QED
  BY <1>1, <1>2, <1>3, <1>4

\* An iteration: the command is followed from now on, or the speed falls.
LEMMA Iteration ==
  ASSUME DriveAssumption, TypeOK, NEW b \in Bases, LoopFacts(b), QuietFacts(b), Write(b)
  PROVE  QuietFacts(b)'
<1> DEFINE target == IF store[b].new THEN store[b].cmd.v ELSE setPoint[b]
           turn == IF store[b].new THEN store[b].cmd.w ELSE w[b]
           r == CurrentCmdSpeed(speed[b], target, dt[b])
<1>1. /\ pc[b] = "running" /\ pc'[b] = "checking" /\ quiet' = quiet
      /\ lag[b] \in Nat /\ lag[b] >= 1 /\ lag[b] <= LoopMax /\ lag'[b] = lag[b]
      /\ dt[b] \in Nat /\ dt[b] <= LoopMax
      /\ timer'[b] = IF store[b].new THEN 0 ELSE timer[b]
  BY Numbers DEF Write, FetchAndRamp, CanWrite, TypeOK, clocks
<1>2. /\ setPoint'[b] = target /\ w'[b] = turn /\ speed'[b] = r /\ store'[b].new = FALSE
  BY DEF Write, FetchAndRamp, TypeOK
<1>3. target \in Speeds /\ speed[b] \in Speeds
  BY Numbers DEF TypeOK
<1>4. /\ ~store[b].new => target = setPoint[b] /\ turn = w[b]
      /\ store[b].new /\ store[b].cmd = Stop => target = 0 /\ turn = 0
      /\ store[b].new /\ target = 0 /\ turn = 0 => store[b].cmd = Stop
  BY Numbers DEF Stop, Command
<1> HIDE DEF target, turn
<1>5. /\ r \in Speeds
      /\ dt[b] > 0 /\ target # speed[b] => r # speed[b]
      /\ speed[b] = target => r = speed[b]
      /\ target = 0 /\ r # 0 => Abs(r) <= Abs(speed[b]) - dt[b]
  <2>1. dt[b] \in Nat
    BY <1>1
  <2> QED
    BY <2>1, <1>3, Ramp
<1> HIDE DEF r
<1>6. Waiting(b) /\ Followed(b) /\ Stopping(b) /\ Slowing(b)
  BY <1>1 DEF QuietFacts, Operating
<1>7. Waiting(b)' /\ Stopping(b)'
  BY <1>2 DEF Waiting, Stopping, StopPending
<1>8. ASSUME Driving(b)'
      PROVE  Followed(b)'
  <2>1. CASE store[b].new
    BY <1>1, <1>2, <1>4, <1>6, <1>8, <2>1, Numbers DEF Waiting, Followed, Driving, Wait
  <2>2. CASE ~store[b].new
    <3>1. Driving(b) /\ ~StopPending(b)
      BY <1>2, <1>4, <1>8, <2>2 DEF Driving, StopPending
    <3>0. dt[b] > 0
      BY <1>1, <3>1 DEF LoopFacts
    <3>2. AtRest(b) => ~AtRest(b)'
      BY <1>2, <1>4, <1>5, <2>2, <3>0, <3>1 DEF AtRest, Driving
    <3> QED
      BY <1>1, <1>6, <2>2, <3>1, <3>2, Numbers DEF Followed
  <2> QED
    BY <2>1, <2>2
<1>9. ASSUME ~Driving(b)', speed'[b] # 0
      PROVE  quiet <= 3 * LoopMax + CommandTimeout + MaxSpeed - Abs(r) + lag[b]
  <2>1. /\ target = 0 /\ turn = 0 /\ r # 0 /\ speed[b] # 0
    BY <1>2, <1>5, <1>9 DEF Driving
  <2>2. /\ Abs(r) \in Int /\ Abs(speed[b]) \in Int /\ Abs(speed[b]) <= MaxSpeed
        /\ Abs(r) <= Abs(speed[b]) - dt[b]
    BY <1>3, <1>5, <2>1, Numbers DEF Speeds, Abs
  <2>3. \/ quiet <= 3 * LoopMax + CommandTimeout + lag[b]
        \/ quiet <= 3 * LoopMax + CommandTimeout + MaxSpeed - Abs(speed[b]) + lag[b] + dt[b]
    BY <1>1, <1>4, <1>6, <2>1 DEF Stopping, Slowing, StopPending, Driving, Wait
  <2> QED
    BY <2>2, <2>3, <1>1, Numbers
<1>10. Slowing(b)'
  BY <1>1, <1>2, <1>5, <1>9, Numbers DEF Slowing, Speeds, Abs
<1> QED
  BY <1>7, <1>8, <1>10 DEF QuietFacts, Followed

\* The test of the time-out: the base starts to stop, or there is nothing to stop.
LEMMA Test ==
  ASSUME DriveAssumption, TypeOK, NEW b \in Bases, LoopFacts(b), QuietFacts(b),
         CheckTimeout(b)
  PROVE  QuietFacts(b)'
<1> SUFFICES ASSUME Operating(b)' PROVE QuietFacts(b)'
  BY DEF QuietFacts
<1>1. /\ pc[b] = "checking" /\ pc'[b] = "running" /\ quiet' = quiet
      /\ lag'[b] = 0 /\ dt'[b] = lag[b] /\ lag[b] \in Nat /\ speed'[b] = speed[b] /\ setPoint'[b] = setPoint[b]
      /\ sent'[b] = sent[b]
  BY Numbers DEF CheckTimeout, TypeOK, Operating, clocks
<1>2. Waiting(b) /\ Followed(b) /\ Stopping(b) /\ Slowing(b)
  BY <1>1 DEF QuietFacts, Operating
<1>3. CASE TimedOut(b)
  <2>1. /\ timer[b] > CommandTimeout
        /\ store'[b] = [cmd |-> Stop, new |-> TRUE] /\ w'[b] = 0
    BY <1>3 DEF CheckTimeout, TimedOut, TypeOK
  <2>2. Waiting(b)' /\ Followed(b)'
    BY <2>1 DEF Waiting, Followed, StopPending
  <2>3. Driving(b) \/ sent[b].w # 0 => quiet <= 3 * LoopMax + CommandTimeout
    BY <1>1, <1>2, <2>1, Numbers DEF Waiting, Followed, Stopping, StopPending, LoopFacts,
       Operating, Driving, Wait
  <2>4. Stopping(b)'
    BY <1>1, <2>1, <2>3, Numbers DEF Stopping, Driving, Wait
  <2>5. Slowing(b)'
    BY <1>1, <1>2, <2>1, <2>3, Numbers DEF Slowing, Driving, Abs
  <2> QED
    BY <2>2, <2>4, <2>5 DEF QuietFacts
<1>4. CASE ~TimedOut(b)
  <2>1. w'[b] = w[b] /\ store'[b] = store[b] /\ timer'[b] = timer[b]
    BY <1>4 DEF CheckTimeout
  <2>2. Waiting(b)' /\ Stopping(b)' /\ Slowing(b)'
    BY <1>1, <1>2, <2>1, Numbers DEF Waiting, Stopping, Slowing, StopPending, Driving, Wait,
       Abs
  <2>3. timer[b] > CommandTimeout => AtRest(b) /\ AtRest(b)'
    BY <1>1, <1>4, <2>1 DEF TimedOut, AtRest
  <2>4. Followed(b)'
    BY <1>1, <1>2, <2>1, <2>3, Numbers DEF Followed, Driving, StopPending
  <2> QED
    BY <2>2, <2>4 DEF QuietFacts
<1> QED
  BY <1>3, <1>4

\* Time passes: every bound moves with the clocks.
LEMMA Time ==
  ASSUME DriveAssumption, TypeOK, NEW b \in Bases, QuietFacts(b), Tick
  PROVE  QuietFacts(b)'
<1> SUFFICES ASSUME Operating(b)'
             PROVE  (Waiting(b) /\ Followed(b) /\ Stopping(b) /\ Slowing(b))'
  BY DEF QuietFacts
<1>1. /\ pc[b] = "running" /\ pc'[b] = "running" /\ lag'[b] = lag[b] + 1 /\ dt' = dt
      /\ timer'[b] = IF timer[b] < CommandTimeout + 1 THEN timer[b] + 1 ELSE CommandTimeout + 1
  BY DEF Tick, Operating, TypeOK, Upto
<1>2. /\ store' = store /\ setPoint' = setPoint /\ speed' = speed /\ w' = w /\ sent' = sent
      /\ quiet' <= quiet + 1 /\ quiet' \in Nat
  BY Numbers DEF Tick, Upto
<1>3. Waiting(b) /\ Followed(b) /\ Stopping(b) /\ Slowing(b)
  BY <1>1 DEF QuietFacts, Operating
<1>4. Waiting(b)' /\ Stopping(b)'
  BY <1>1, <1>2, <1>3, Numbers DEF Waiting, Stopping, StopPending, Driving, Wait
<1>5. Slowing(b)'
  BY <1>1, <1>2, <1>3, Numbers DEF Slowing, Driving, Abs
<1>6. Followed(b)'
  BY <1>1, <1>2, <1>3, Numbers DEF Followed, Driving, StopPending, AtRest
<1> QED
  BY <1>4, <1>5, <1>6

LEMMA QuietStep ==
  ASSUME DriveAssumption, TypeOK, [Next]_vars, NEW b \in Bases, LoopFacts(b), QuietFacts(b)
  PROVE  QuietFacts(b)'
<1>1. CASE ConnectEStop \/ UNCHANGED vars
  BY <1>1, Elsewhere DEF ConnectEStop, vars, loopVars, clocks
<1>2. ASSUME NEW d \in Dispatchers,
             \/ \E c \in Commands : SetCommand(d, c)
             \/ \E a \in BOOLEAN : HandleData(d, a)
      PROVE  QuietFacts(b)'
  BY <1>2, Elsewhere DEF SetCommand, HandleData, loopVars, clocks
<1>3. ASSUME NEW d \in Dispatchers, SetDesiredSpeed(d)
      PROVE  QuietFacts(b)'
  BY <1>3, Arrival
<1>4. ASSUME NEW e \in Bases, e # b,
             \/ StartThread(e) \/ Enable(e) \/ Begin(e) \/ Write(e) \/ WriteFails(e)
             \/ Fault(e) \/ CheckTimeout(e) \/ Recover(e)
      PROVE  QuietFacts(b)'
  <2>1. /\ quiet' = quiet /\ pc'[b] = pc[b] /\ store'[b] = store[b]
        /\ setPoint'[b] = setPoint[b] /\ speed'[b] = speed[b] /\ w'[b] = w[b]
        /\ lag'[b] = lag[b] /\ dt'[b] = dt[b] /\ timer'[b] = timer[b] /\ sent'[b] = sent[b]
    BY <1>4 DEF StartThread, Enable, Begin, Write, WriteFails, FetchAndRamp, Fault,
       CheckTimeout, Recover, TypeOK, loopVars, clocks
  <2> QED
    BY <2>1, Elsewhere
<1>5. CASE StartThread(b) \/ Enable(b) \/ WriteFails(b) \/ Fault(b) \/ Recover(b)
  <2>1. ~Operating(b)'
    BY <1>5 DEF StartThread, Enable, WriteFails, Fault, Recover, Operating, TypeOK
  <2> QED
    BY <2>1 DEF QuietFacts
<1>6. CASE Begin(b)
  <2>1. /\ store'[b] = [cmd |-> Stop, new |-> TRUE] /\ setPoint'[b] = 0 /\ speed'[b] = 0
        /\ w'[b] = 0 /\ sent'[b] = Stop
    BY <1>6 DEF Begin, TypeOK
  <2> QED
    BY <2>1 DEF QuietFacts, Waiting, Followed, Stopping, Slowing, StopPending, Driving, Stop
<1>7. CASE Write(b)
  BY <1>7, Iteration
<1>8. CASE CheckTimeout(b)
  BY <1>8, Test
<1>9. CASE Tick
  BY <1>9, Time
<1> QED
  BY <1>1, <1>2, <1>3, <1>4, <1>5, <1>6, <1>7, <1>8, <1>9 DEF Next

-----------------------------------------------------------------------------
(* The theorems                                                             *)

\* The invariant holds in every state of every behaviour.
THEOREM Invariance == DriveAssumption => (Spec => []IInv)
<1> SUFFICES ASSUME DriveAssumption PROVE Spec => []IInv
  OBVIOUS
<1>1. Init => IInv
  <2> SUFFICES ASSUME Init PROVE IInv
    OBVIOUS
  <2>1. \A b \in Bases : pc[b] = "unstarted"
    BY DEF Init
  <2>2. \A b \in Bases : LoopFacts(b) /\ QuietFacts(b)
    BY <2>1 DEF LoopFacts, QuietFacts, Operating
  <2>3. Permission
    BY DEF Init, Permission
  <2> QED
    BY <2>2, <2>3, TypeInit DEF IInv
<1>2. IInv /\ [Next]_vars => IInv'
  <2> SUFFICES ASSUME IInv, [Next]_vars PROVE IInv'
    OBVIOUS
  <2>1. TypeOK'
    BY TypeStep DEF IInv
  <2>2. \A b \in Bases : LoopFacts(b)'
    BY LoopStep DEF IInv
  <2>3. \A b \in Bases : QuietFacts(b)'
    BY QuietStep DEF IInv
  <2>4. Permission'
    BY <2>1, PermissionStep DEF IInv
  <2> QED
    BY <2>1, <2>2, <2>3, <2>4 DEF IInv, Bases
<1> QED
  BY <1>1, <1>2, PTL DEF Spec

\* Every variable keeps its type: no speed leaves the capabilities.
THEOREM TypeCorrect == DriveAssumption => (Spec => []TypeOK)
<1>1. IInv => TypeOK
  BY DEF IInv
<1> QED
  BY <1>1, Invariance, PTL

\* A base that is operated stands still once no command to move has been stored
\* for StopBound ticks (driverthread.cpp, the command time-out and the ramp).
THEOREM CommandsTimeOut == DriveAssumption => (Spec => []StopsWithoutCommands)
<1> SUFFICES ASSUME DriveAssumption PROVE Spec => []StopsWithoutCommands
  OBVIOUS
<1>1. IInv => StopsWithoutCommands
  <2> SUFFICES ASSUME IInv, NEW b \in Bases, Operating(b),
                      quiet > StopBound, sent[b] # Stop
               PROVE  FALSE
    BY DEF StopsWithoutCommands
  <2>1. TypeOK /\ LoopFacts(b) /\ Waiting(b) /\ Followed(b) /\ Stopping(b) /\ Slowing(b)
    BY DEF IInv, QuietFacts
  <2>2. ~(store[b].new /\ store[b].cmd # Stop)
    BY <2>1, Numbers DEF Waiting, Wait
  <2>3. ~(StopPending(b) /\ (Driving(b) \/ sent[b].w # 0))
    BY <2>1, Numbers DEF Stopping, Wait
  <2>4. ~(Driving(b) /\ ~StopPending(b))
    BY <2>1, Numbers DEF Followed
  <2>5. speed[b] = 0
    BY <2>1, <2>3, <2>4, Numbers DEF Slowing, Abs
  <2>6. sent[b].v = 0 /\ sent[b].w = 0
    BY <2>1, <2>2, <2>3, <2>4, <2>5 DEF LoopFacts, StopPending, Driving
  <2> QED
    BY <2>1, <2>6, Numbers DEF Stop, Command
<1> QED
  BY <1>1, Invariance, PTL

\* A base that is operated stands still once the e-stop has been triggered for
\* StopBound ticks, whatever clients command (mainthread.cpp, estopmonitor.cpp).
THEOREM EStopTakesHold == DriveAssumption => (Spec => []EStopStops)
<1> SUFFICES ASSUME DriveAssumption PROVE Spec => []EStopStops
  OBVIOUS
<1>1. IInv /\ StopsWithoutCommands => EStopStops
  <2> SUFFICES ASSUME IInv, StopsWithoutCommands,
                      NEW b \in Bases, Operating(b), denied > StopBound
               PROVE  sent[b] = Stop
    BY DEF EStopStops
  <2>1. quiet > StopBound
    BY Numbers DEF IInv, Permission
  <2> QED
    BY <2>1 DEF StopsWithoutCommands
<1> QED
  BY <1>1, Invariance, CommandsTimeOut, PTL

\* No step writes a speed further from the last one than the acceleration limits
\* allow for the time between the two iterations (speedsetpoint.cpp).
THEOREM AccelerationHolds == DriveAssumption => (Spec => AccelerationLimited)
<1> SUFFICES ASSUME DriveAssumption PROVE Spec => AccelerationLimited
  OBVIOUS
<1> DEFINE Limited ==
      \A b \in Bases : pc[b] # "clearing" =>
         /\ sent'[b].v - sent[b].v <= ForwardAccel * dt[b]
         /\ sent[b].v - sent'[b].v <= ReverseAccel * dt[b]
<1>1. IInv /\ [Next]_vars => Limited
  <2> SUFFICES ASSUME IInv, [Next]_vars, NEW b \in Bases, pc[b] # "clearing"
               PROVE  /\ sent'[b].v - sent[b].v <= ForwardAccel * dt[b]
                      /\ sent[b].v - sent'[b].v <= ReverseAccel * dt[b]
    OBVIOUS
  <2>n. /\ ForwardAccel * dt[b] \in Nat /\ ReverseAccel * dt[b] \in Nat
        /\ TypeOK /\ sent[b].v \in Int /\ dt[b] \in Nat
    BY Numbers, Product DEF IInv, DriveAssumption
  <2>1. sent'[b] = sent[b] \/ Write(b) \/ WriteFails(b)
    <3>1. ASSUME NEW e \in Bases, e # b, Begin(e) \/ Write(e) \/ WriteFails(e)
          PROVE  sent'[b] = sent[b]
      BY <3>1, <2>n DEF Begin, Write, WriteFails, FetchAndRamp, TypeOK
    <3>2. ~Begin(b)
      BY DEF Begin
    <3> QED
      BY <3>1, <3>2 DEF Next, ConnectEStop, SetCommand, HandleData, SetDesiredSpeed,
         StartThread, Enable, Fault, CheckTimeout, Recover, Tick, vars, loopVars
  <2>2. CASE sent'[b] = sent[b]
    <3> HIDE DEF Limited
    <3> QED
      BY <2>2, <2>n
  <2>3. CASE sent'[b] # sent[b] /\ (Write(b) \/ WriteFails(b))
    <3> DEFINE target == IF store[b].new THEN store[b].cmd.v ELSE setPoint[b]
               r == CurrentCmdSpeed(speed[b], target, dt[b])
    <3>1. sent'[b].v = r /\ pc[b] = "running"
      BY <2>3, <2>n DEF Write, WriteFails, FetchAndRamp, CanWrite, TypeOK
    <3>2. sent[b].v = speed[b]
      BY <3>1 DEF IInv, LoopFacts, Operating
    <3>3. target \in Speeds /\ speed[b] \in Speeds
      BY <2>n, Numbers DEF TypeOK
    <3> HIDE DEF target
    <3>4. r - speed[b] <= ForwardAccel * dt[b] /\ speed[b] - r <= ReverseAccel * dt[b]
      BY <2>n, <3>3, Ramp
    <3> HIDE DEF r
    <3> QED
      BY <3>1, <3>2, <3>4
  <2> QED
    BY <2>1, <2>2, <2>3
<1> QED
  BY <1>1, Invariance, PTL DEF Spec, AccelerationLimited

\* No base is operated before the e-stop has been connected to (mainthread.cpp,
\* initialise()): what is let through for want of a monitor moves nothing.
THEOREM EStopIsConnectedFirst == DriveAssumption => (Spec => []EStopComesFirst)
<1> SUFFICES ASSUME DriveAssumption PROVE Spec => []EStopComesFirst
  OBVIOUS
<1>1. Init => EStopFirst
  BY DEF Init, EStopFirst
<1>2. TypeOK /\ EStopFirst /\ [Next]_vars => EStopFirst'
  <2> SUFFICES ASSUME TypeOK, EStopFirst, [Next]_vars PROVE EStopFirst'
    OBVIOUS
  <2>1. CASE ConnectEStop
    BY <2>1 DEF ConnectEStop, EStopFirst
  <2>2. CASE \E b \in Bases : StartThread(b)
    BY <2>2 DEF StartThread, EStopFirst, estopVars
  <2>3. CASE \E b \in Bases : \/ Enable(b) \/ Begin(b) \/ Write(b) \/ WriteFails(b)
                              \/ Fault(b) \/ CheckTimeout(b) \/ Recover(b)
    <3>1. PICK b \in Bases : \/ Enable(b) \/ Begin(b) \/ Write(b) \/ WriteFails(b)
                             \/ Fault(b) \/ CheckTimeout(b) \/ Recover(b)
      BY <2>3
    <3>2. pc[b] # "unstarted" /\ main' = main /\ connected' = connected
      BY <3>1 DEF Enable, Begin, Write, WriteFails, CanWrite, FetchAndRamp, Fault,
         CheckTimeout, Recover, estopVars
    <3>3. main # "connecting"
      BY <3>2 DEF EStopFirst
    <3> QED
      BY <3>2, <3>3 DEF EStopFirst
  <2>4. CASE \/ \E d \in Dispatchers, c \in Commands : SetCommand(d, c)
             \/ \E d \in Dispatchers, a \in BOOLEAN : HandleData(d, a)
             \/ \E d \in Dispatchers : SetDesiredSpeed(d)
             \/ Tick \/ UNCHANGED vars
    <3>1. UNCHANGED <<main, connected, pc>>
      BY <2>4 DEF SetCommand, HandleData, SetDesiredSpeed, Tick, vars, estopVars
    <3> QED
      BY <3>1 DEF EStopFirst
  <2> QED
    BY <2>1, <2>2, <2>3, <2>4 DEF Next
<1>3. EStopFirst => EStopComesFirst
  BY DEF EStopFirst, EStopComesFirst, Operating
<1> QED
  BY <1>1, <1>2, <1>3, TypeCorrect, PTL DEF Spec

\* With EnableMotion off, what setDesiredSpeed() throws never gets further: nothing
\* moves, through faults and time-outs too (driverthread.cpp).
THEOREM DisabledStandsStill == DriveAssumption => (Spec => []DisabledMotionNeverMoves)
<1> SUFFICES ASSUME DriveAssumption PROVE Spec => []DisabledMotionNeverMoves
  OBVIOUS
<1> DEFINE Nothing == ~MotionEnabled => \A b \in Bases : Standing(b)
<1>1. Init => Nothing
  BY DEF Init, Standing
<1>2. TypeOK /\ Nothing /\ [Next]_vars => Nothing'
  <2> SUFFICES ASSUME TypeOK, [Next]_vars, ~MotionEnabled, NEW b \in Bases, Standing(b)
               PROVE  Standing(b)'
    OBVIOUS
  <2> HIDE DEF Nothing
  <2>1. CASE Begin(b)
    <3>1. /\ store'[b] = [cmd |-> Stop, new |-> TRUE] /\ setPoint'[b] = 0
          /\ speed'[b] = 0 /\ w'[b] = 0 /\ sent'[b] = Stop
      BY <2>1 DEF Begin, TypeOK
    <3> QED
      BY <3>1 DEF Standing
  <2>2. CASE Write(b) \/ WriteFails(b)
    <3>1. store[b].cmd.v = 0 /\ store[b].cmd.w = 0
      BY DEF Standing, Stop
    <3>2. FetchAndRamp(b)
      BY <2>2 DEF Write, WriteFails
    <3>3. CurrentCmdSpeed(0, 0, dt[b]) = 0
      <4>1. dt[b] \in Nat /\ 0 \in Speeds
        BY Numbers DEF Speeds
      <4> QED
        BY <4>1, Ramp
    <3>4. setPoint'[b] = 0 /\ speed'[b] = 0 /\ w'[b] = 0
      BY <3>1, <3>2, <3>3 DEF FetchAndRamp, Standing, TypeOK
    <3>5. store'[b].cmd = store[b].cmd
      BY <3>2 DEF FetchAndRamp, TypeOK
    <3>6. sent'[b] = sent[b] \/ sent'[b] = [v |-> 0, w |-> 0]
      BY <3>1, <3>2, <3>3 DEF FetchAndRamp, Standing, TypeOK
    <3> QED
      BY <3>4, <3>5, <3>6 DEF Standing, Stop
  <2>3. CASE CheckTimeout(b)
    <3>1. /\ store'[b] = store[b] \/ store'[b] = [cmd |-> Stop, new |-> TRUE]
          /\ w'[b] = w[b] \/ w'[b] = 0
      BY <2>3 DEF CheckTimeout, TypeOK
    <3>2. UNCHANGED <<setPoint, speed, sent>>
      BY <2>3 DEF CheckTimeout
    <3> QED
      BY <3>1, <3>2 DEF Standing
  <2>4. ASSUME NEW e \in Bases, e # b,
               \/ Begin(e) \/ Write(e) \/ WriteFails(e) \/ CheckTimeout(e)
        PROVE  Standing(b)'
    <3>1. /\ store'[b] = store[b] /\ setPoint'[b] = setPoint[b] /\ speed'[b] = speed[b]
          /\ w'[b] = w[b] /\ sent'[b] = sent[b]
      BY <2>4 DEF Begin, Write, WriteFails, FetchAndRamp, CheckTimeout, TypeOK
    <3> QED
      BY <3>1 DEF Standing
  <2>5. CASE \/ ConnectEStop \/ Tick \/ UNCHANGED vars
             \/ \E d \in Dispatchers, c \in Commands : SetCommand(d, c)
             \/ \E d \in Dispatchers, a \in BOOLEAN : HandleData(d, a)
             \/ \E d \in Dispatchers : SetDesiredSpeed(d)
             \/ \E e \in Bases : StartThread(e) \/ Enable(e) \/ Fault(e) \/ Recover(e)
    <3>1. UNCHANGED <<store, setPoint, speed, w, sent>>
      BY <2>5 DEF ConnectEStop, Tick, SetCommand, HandleData, SetDesiredSpeed,
         StartThread, Enable, Fault, Recover, vars, loopVars
    <3> QED
      BY <3>1 DEF Standing
  <2> QED
    BY <2>1, <2>2, <2>3, <2>4, <2>5 DEF Next
<1>3. Nothing => DisabledMotionNeverMoves
  BY DEF Standing, DisabledMotionNeverMoves
<1> QED
  BY <1>1, <1>2, <1>3, TypeCorrect, PTL DEF Spec
=============================================================================
