------------------------ MODULE BicycleDriverProofs ------------------------
(***************************************************************************)
(* What BicycleDriver promises, for any commands, any number of dispatch   *)
(* threads and any number of outages. The argument: a pass of HwThread's   *)
(* loop either reads data or enters a fault, and everything that it does   *)
(* afterwards in the same pass tests for the fault.                        *)
(***************************************************************************)
EXTENDS BicycleDriver, TLAPS

\* What a pass of the loop knows after its read().
PassKnows ==
  /\ hw = "writing" => readOk
  /\ hw \in {"commanding", "reporting"} /\ state = "ok" => readOk

\* The inductive invariant.
IInv ==
  /\ TypeOK
  /\ PassKnows
  /\ readOk => enabled
  /\ HealthIsHonest

\* The initial states satisfy the invariant.
LEMMA InitHolds == BicycleAssumption /\ Init => IInv
<1> SUFFICES ASSUME BicycleAssumption, Init PROVE IInv
  OBVIOUS
<1>1. caller \in [Callers -> Commands \cup {NoCommand}]
  BY DEF Init
<1>2. outages \in 0..MaxOutages
  BY DEF Init, BicycleAssumption
<1>3. TypeOK
  BY <1>1, <1>2 DEF Init, DefaultState, TypeOK
<1> QED
  BY <1>3 DEF Init, IInv, PassKnows, HealthIsHonest

\* A step of HwThread keeps the types.
LEMMA HwTypes == TypeOK /\ HwStep => TypeOK'
<1> SUFFICES ASSUME TypeOK, HwStep PROVE TypeOK'
  OBVIOUS
<1>1. CASE Check
  BY <1>1 DEF TypeOK, Check, netVars, cmdVars, toldVars, serverVars
<1>2. CASE EnableReturns
  <2>1. hw' = "enabled"
        /\ UNCHANGED <<state, health, hold, netVars, cmdVars, toldVars, serverVars,
                       written, readOk>>
    BY <1>2 DEF EnableReturns
  <2>2. enabled' \in BOOLEAN /\ link' \in {"none", "open", "lost"}
    <3>1. CASE Tries /\ Connects
      BY <1>2, <3>1 DEF EnableReturns
    <3>2. CASE ~(Tries /\ Connects)
      BY <1>2, <3>2 DEF EnableReturns, TypeOK
    <3> QED
      BY <3>1, <3>2
  <2> QED
    BY <2>1, <2>2 DEF TypeOK, netVars, cmdVars, toldVars, serverVars
<1>3. CASE EnableFails
  BY <1>3 DEF TypeOK, EnableFails, Fault, netVars, cmdVars, toldVars, serverVars
<1>4. CASE Presume
  BY <1>4 DEF TypeOK, Presume, netVars, cmdVars, toldVars, serverVars
<1>5. CASE Read
  <2>1. fresh' \in BOOLEAN
    BY <1>5 DEF Read
  <2> QED
    BY <1>5, <2>1 DEF TypeOK, Read, cmdVars, toldVars, serverVars
<1>6. CASE ReadFails
  <2>1. /\ hw' = "commanding" /\ health' = "fault" /\ state' = "fault"
        /\ UNCHANGED <<hold, netVars, cmdVars, toldVars, enabled, link, serverVars,
                       written>>
    BY <1>6 DEF ReadFails, Fault
  <2>2. readOk' \in BOOLEAN
    BY <1>6 DEF ReadFails
  <2> QED
    BY <2>1, <2>2 DEF TypeOK, netVars, cmdVars, toldVars, serverVars
<1>7. CASE Take
  BY <1>7 DEF TypeOK, Take, Taken, netVars, toldVars, serverVars
<1>8. CASE Write
  BY <1>8 DEF TypeOK, Write, Fault, netVars, cmdVars, toldVars, serverVars
<1>9. CASE Report
  BY <1>9 DEF TypeOK, Report, netVars, cmdVars, toldVars, serverVars
<1> QED
  BY <1>1, <1>2, <1>3, <1>4, <1>5, <1>6, <1>7, <1>8, <1>9 DEF HwStep

\* So does every other step, which leaves alone what HwThread knows.
LEMMA OthersHold ==
  ASSUME BicycleAssumption, IInv,
         \/ NetStep
         \/ \E t \in Callers : Store(t) \/ \E c \in Commands : Receive(t, c)
         \/ StopNet \/ StopHw \/ ServerStops \/ ServerStarts
         \/ UNCHANGED vars
  PROVE  IInv'
<1>1. TypeOK
  BY DEF IInv
<1>2. UNCHANGED <<hwVars, enabled, readOk>>
  BY DEF NetStep, NetInitialised, NetAwakes, Publish, Store, Receive, StopNet,
         StopHw, ServerStops, ServerStarts, vars
<1>3. TypeOK'
  <2>1. CASE NetStep
    <3>1. CASE NetInitialised
      BY <1>1, <3>1 DEF TypeOK, NetInitialised, hwVars, cmdVars, toldVars, serverVars
    <3>2. CASE NetAwakes
      <4>1. /\ net' \in {"over", "publishing"}
            /\ UNCHANGED <<reference, hwVars, cmdVars, toldVars, enabled, link,
                           serverVars, written, readOk>>
        BY <3>2 DEF NetAwakes
      <4>2. fresh' \in BOOLEAN
        BY <3>2 DEF NetAwakes
      <4> QED
        BY <1>1, <4>1, <4>2 DEF TypeOK, hwVars, cmdVars, toldVars, serverVars
    <3>3. CASE Publish
      BY <1>1, <3>3 DEF TypeOK, Publish, hwVars, cmdVars, toldVars, serverVars
    <3> QED
      BY <2>1, <3>1, <3>2, <3>3 DEF NetStep
  <2>2. ASSUME NEW t \in Callers, Store(t) PROVE TypeOK'
    <3>1. caller' \in [Callers -> Commands \cup {NoCommand}]
      BY <1>1, <2>2 DEF TypeOK, Store
    <3>2. command' \in Commands \cup {NoCommand}
      BY <1>1, <2>2 DEF TypeOK, Store
    <3> QED
      BY <1>1, <2>2, <3>1, <3>2 DEF TypeOK, Store, hwVars, netVars, toldVars,
                                    serverVars
  <2>3. ASSUME NEW t \in Callers, NEW c \in Commands, Receive(t, c) PROVE TypeOK'
    <3>1. caller' \in [Callers -> Commands \cup {NoCommand}]
      BY <1>1, <2>3 DEF TypeOK, Receive
    <3> QED
      BY <1>1, <2>3, <3>1 DEF TypeOK, Receive, hwVars, netVars, toldVars, serverVars
  <2>4. CASE StopNet
    BY <1>1, <2>4 DEF TypeOK, StopNet, hwVars, netVars, cmdVars, serverVars
  <2>5. CASE StopHw
    BY <1>1, <2>5 DEF TypeOK, StopHw, hwVars, netVars, cmdVars, serverVars
  <2>6. CASE ServerStops
    BY <1>1, <2>6 DEF TypeOK, ServerStops, BicycleAssumption, hwVars, netVars,
                      cmdVars, toldVars
  <2>7. CASE ServerStarts
    BY <1>1, <2>7 DEF TypeOK, ServerStarts, hwVars, netVars, cmdVars, toldVars
  <2>8. CASE UNCHANGED vars
    BY <1>1, <2>8 DEF TypeOK, vars, hwVars, netVars, cmdVars, toldVars, serverVars
  <2> QED
    BY <2>1, <2>2, <2>3, <2>4, <2>5, <2>6, <2>7, <2>8
<1> QED
  BY <1>2, <1>3 DEF IInv, PassKnows, HealthIsHonest, hwVars

\* The heart of the argument: what a pass knows is kept by each of its steps.
LEMMA PassHolds == ASSUME IInv, HwStep PROVE IInv'
<1>1. TypeOK'
  BY HwTypes DEF IInv
<1>2. state \in {"fault", "ok"}
  BY DEF IInv, TypeOK
<1>3. (readOk => enabled)'
  BY DEF IInv, HwStep, Check, EnableReturns, EnableFails, Presume, Read, ReadFails,
         Take, Write, Report
<1>4. PassKnows'
  <2>1. CASE Check \/ EnableReturns \/ EnableFails \/ Presume
    BY <2>1 DEF IInv, PassKnows, Check, EnableReturns, EnableFails, Presume
  <2>2. CASE Read \/ ReadFails
    BY <2>2 DEF PassKnows, Read, ReadFails, Fault
  <2>3. CASE Take
    BY <1>2, <2>3 DEF IInv, PassKnows, Take
  <2>4. CASE Write \/ Report
    BY <2>4 DEF IInv, PassKnows, Write, Report, Fault
  <2> QED
    BY <2>1, <2>2, <2>3, <2>4 DEF HwStep
<1>5. HealthIsHonest'
  <2>1. CASE Report
    BY <2>1 DEF IInv, PassKnows, HealthIsHonest, Report
  <2>2. CASE ReadFails \/ EnableFails
    BY <2>2 DEF IInv, HealthIsHonest, ReadFails, EnableFails, Fault
  <2>3. CASE Check \/ EnableReturns \/ Presume \/ Read \/ Take \/ Write
    BY <2>3 DEF IInv, HealthIsHonest, Check, EnableReturns, Presume, Read, Take,
                Write, Fault
  <2> QED
    BY <2>1, <2>2, <2>3 DEF HwStep
<1> QED
  BY <1>1, <1>3, <1>4, <1>5 DEF IInv

\* The invariant holds in every state of every behaviour.
THEOREM Invariance == ASSUME BicycleAssumption PROVE Spec => []IInv
<1>1. Init => IInv
  BY InitHolds
<1>2. ASSUME IInv, [Next]_vars PROVE IInv'
  BY <1>2, OthersHold, PassHolds DEF Next
<1> QED
  BY <1>1, <1>2, PTL DEF Spec

\* The threads, the driver and the stores keep their types.
THEOREM TypeCorrect == ASSUME BicycleAssumption PROVE Spec => []TypeOK
<1>1. IInv => TypeOK
  BY DEF IInv
<1> QED
  BY <1>1, Invariance, PTL

\* No command reaches a driver without a connection of its own making, or one
\* that has just failed, however the commands and the outages interleave.
THEOREM OnlyReadersWrite ==
  ASSUME BicycleAssumption PROVE Spec => []WritesFollowReads
<1>1. IInv => WritesFollowReads
  BY DEF IInv, PassKnows, WritesFollowReads
<1> QED
  BY <1>1, Invariance, PTL

\* The status never shows HwThread as well on the strength of a presumption.
THEOREM HealthIsEarned == ASSUME BicycleAssumption PROVE Spec => []HealthIsHonest
<1>1. IInv => HealthIsHonest
  BY DEF IInv
<1> QED
  BY <1>1, Invariance, PTL

\* HwThread ends because it has been told to, which happens when NetThread has ended.
ToldInOrder ==
  /\ hw = "over" => hwTold
  /\ hwTold => net = "over"

\* Every step keeps that order.
LEMMA OrderStep ==
  ASSUME TypeOK, ToldInOrder, [Next]_vars
  PROVE  ToldInOrder'
<1>1. CASE HwStep
  <2>1. UNCHANGED <<net, hwTold>>
    BY <1>1 DEF HwStep, Check, EnableReturns, EnableFails, Presume, Read, ReadFails,
                Take, Write, Report, netVars, toldVars
  <2>2. hw' = "over" => hwTold
    BY <1>1 DEF HwStep, Check, EnableReturns, EnableFails, Presume, Read, ReadFails,
                Take, Write, Report
  <2> QED
    BY <2>1, <2>2 DEF ToldInOrder
<1>2. CASE NetStep
  <2>1. UNCHANGED <<hw, hwTold>> /\ net # "over"
    BY <1>2 DEF NetStep, NetInitialised, NetAwakes, Publish, hwVars, toldVars
  <2> QED
    BY <2>1 DEF ToldInOrder
<1>3. CASE StopHw
  BY <1>3 DEF ToldInOrder, StopHw, hwVars, netVars
<1>4. CASE \/ \E t \in Callers : Store(t) \/ \E c \in Commands : Receive(t, c)
           \/ StopNet \/ ServerStops \/ ServerStarts \/ UNCHANGED vars
  <2>1. UNCHANGED <<hw, net, hwTold>>
    BY <1>4 DEF Store, Receive, StopNet, ServerStops, ServerStarts, vars, hwVars,
                netVars, toldVars
  <2> QED
    BY <2>1 DEF ToldInOrder
<1> QED
  BY <1>1, <1>2, <1>3, <1>4 DEF Next

\* NetThread, which refers to HwThread, ends before HwThread does.
THEOREM NetEndsBeforeHw ==
  ASSUME BicycleAssumption PROVE Spec => []NetEndsFirst
<1>1. Init => ToldInOrder
  BY DEF Init, ToldInOrder
<1>2. TypeOK /\ ToldInOrder /\ [Next]_vars => ToldInOrder'
  BY OrderStep
<1>3. ToldInOrder => NetEndsFirst
  BY DEF ToldInOrder, NetEndsFirst
<1> QED
  BY <1>1, <1>2, <1>3, TypeCorrect, PTL DEF Spec

\* A driver is enabled once and for all: it has had a connection exactly if it is enabled.
LinkIsMade == link # "none" <=> enabled

\* Only enable() makes a connection, of a driver that is not enabled; the server can only
\* take it away.
LEMMA LinkStep ==
  ASSUME LinkIsMade, [Next]_vars
  PROVE  LinkIsMade' /\ (link = "lost" => link' = "lost" /\ written' = written)
<1>1. CASE EnableReturns
  <2>1. CASE Tries /\ Connects
    <3>1. ~enabled /\ enabled' /\ link' = "open"
      BY <1>1, <2>1 DEF EnableReturns, Connects
    <3> QED
      BY <3>1 DEF LinkIsMade
  <2>2. CASE ~(Tries /\ Connects)
    BY <1>1, <2>2 DEF EnableReturns, LinkIsMade
  <2> QED
    BY <2>1, <2>2
<1>2. CASE Write
  BY <1>2 DEF Write, LinkIsMade
<1>3. CASE ServerStops
  BY <1>3 DEF ServerStops, LinkIsMade
<1>4. CASE \/ Check \/ EnableFails \/ Presume \/ Read \/ ReadFails \/ Take \/ Report
           \/ NetStep
           \/ \E t \in Callers : Store(t) \/ \E c \in Commands : Receive(t, c)
           \/ StopNet \/ StopHw \/ ServerStarts \/ UNCHANGED vars
  <2>1. UNCHANGED <<enabled, link, written>>
    BY <1>4 DEF Check, EnableFails, Presume, Read, ReadFails, Take, Report, NetStep,
                NetInitialised, NetAwakes, Publish, Store, Receive, StopNet, StopHw,
                ServerStarts, vars
  <2> QED
    BY <2>1 DEF LinkIsMade
<1> QED
  BY <1>1, <1>2, <1>3, <1>4 DEF Next, HwStep

\* The statement of driver.cpp:177 has no effect: a driver that has lost its connection
\* never gets another, and writes nothing any more.
THEOREM LossIsForGood ==
  ASSUME BicycleAssumption PROVE Spec => LossIsForever
<1>1. Init => LinkIsMade
  BY DEF Init, LinkIsMade
<1>2. LinkIsMade /\ [Next]_vars
      => LinkIsMade' /\ [link = "lost" => link' = "lost" /\ written' = written]_vars
  BY LinkStep
<1> QED
  BY <1>1, <1>2, PTL DEF Spec, LossIsForever
=============================================================================
