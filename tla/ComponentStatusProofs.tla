------------------------ MODULE ComponentStatusProofs ------------------------
(***************************************************************************)
(* Proofs about ComponentStatus. One inductive invariant, IInv, carries    *)
(* the safety properties of the runs; each of its parts has a lemma, by    *)
(* cases on the step, and Invariance puts them together.                   *)
(***************************************************************************)
EXTENDS ComponentStatus, TLAPS

USE DEF States, Healths, Types, CompStates

-----------------------------------------------------------------------------
(* The aggregator                                                           *)

\* A component's state and health, whatever its subsystems, are of the
\* enumerations of status.ice.
LEMMA AggregateType ==
  ASSUME NEW infra \in States, NEW subs
  PROVE  LET a == Aggregate(infra, subs)
         IN  a.state \in CompStates /\ a.health \in Healths /\ a.isStalled \in BOOLEAN
<1>1. CombinedState(infra, subs) \in CompStates
  BY DEF CombinedState, ToComponentState, SubsystemsState
<1>2. WorstHealth(subs) \in Healths
  BY DEF WorstHealth
<1>3. AnyStalled(subs) \in BOOLEAN
  BY DEF AnyStalled
<1> QED
  BY <1>1, <1>2, <1>3 DEF Aggregate

\* The component counts as working exactly if every subsystem works or has made
\* use of its permission to exit early.
LEMMA WorkingState ==
  ASSUME NEW infra \in States, NEW subs, DOMAIN subs # {},
         \A n \in DOMAIN subs : subs[n].state \in States
  PROVE  CombinedState(infra, subs) = "CompWorking" <=>
           /\ infra = "Working"
           /\ \A n \in DOMAIN subs :
                \/ subs[n].state = "Working"
                \/ subs[n].type = "EarlyExit" /\ subs[n].state \in {"Finalising", "Shutdown"}
<1>1. CASE infra # "Working"
  BY <1>1 DEF CombinedState, ToComponentState
<1>2. CASE infra = "Working"
  <2>1. CombinedState(infra, subs) = SubsystemsState(subs)
    BY <1>2 DEF CombinedState
  <2>2. SubsystemsState(subs) = "CompWorking" <=>
          \A n \in DOMAIN subs : ~Leaving(subs[n]) /\ ~Starting(subs[n])
    BY DEF SubsystemsState
  <2>3. ASSUME NEW n \in DOMAIN subs
        PROVE  ~Leaving(subs[n]) /\ ~Starting(subs[n]) <=>
                 \/ subs[n].state = "Working"
                 \/ subs[n].type = "EarlyExit" /\ subs[n].state \in {"Finalising", "Shutdown"}
    BY DEF Leaving, Starting
  <2> QED
    BY <1>2, <2>1, <2>2, <2>3
<1> QED
  BY <1>1, <1>2

-----------------------------------------------------------------------------
(* Steps                                                                    *)

\* internalSetStatus() leaves a well-formed, not stalled subsystem.
LEMMA UpdatedType ==
  ASSUME NEW old \in SubsystemRecord,
         NEW state \in States \cup {Keep}, NEW health \in Healths \cup {Keep},
         NEW msg \in Texts
  PROVE  LET new == Updated(old, state, health, msg)
         IN  /\ new \in SubsystemRecord
             /\ ~new.isStalled
             /\ new.interval = old.interval
<1>1. old.isStalled \in BOOLEAN
  BY DEF SubsystemRecord
<1>2. CASE state = Keep /\ health = Keep /\ ~old.isStalled
  BY <1>2 DEF Updated
<1>3. CASE ~(state = Keep /\ health = Keep /\ ~old.isStalled)
  BY <1>3 DEF Updated, SubsystemRecord, Texts
<1> QED
  BY <1>2, <1>3

\* A thread's report is an internalSetStatus() with arguments of these types.
LEMMA ReportCases ==
  ASSUME NEW n \in Names, Report(n) \/ Heartbeat(n)
  PROVE  \/ \E i \in Intervals, t \in Types : AddSubsystem(n, i, t)
         \/ RemoveSubsystem(n)
         \/ \E i \in Intervals : SetMaxHeartbeatInterval(n, i)
         \/ \E t \in Types : SetSubsystemType(n, t)
         \/ \E s \in States \cup {Keep}, h \in Healths \cup {Keep}, m \in Texts :
              SetStatus(n, s, h, m)
BY DEF Report, Heartbeat, ReportState, ReportHealth, ReportShutdown, Message, Texts, Keep

\* The infrastructure thread's three notices.
Notice ==
  \/ InfrastructureInitialising
  \/ InfrastructureWorking
  \/ InfrastructureFinalising

\* Every step is one of these.
LEMMA StepCases ==
  ASSUME [Next]_vars
  PROVE  \/ \E n \in Names, i \in Intervals, t \in Types : AddSubsystem(n, i, t)
         \/ \E n \in Names : RemoveSubsystem(n)
         \/ \E n \in Names, i \in Intervals : SetMaxHeartbeatInterval(n, i)
         \/ \E n \in Names, t \in Types : SetSubsystemType(n, t)
         \/ \E n \in Names, s \in States \cup {Keep}, h \in Healths \cup {Keep}, m \in Texts :
              SetStatus(n, s, h, m)
         \/ Notice
         \/ Process
         \/ Tick
         \/ UNCHANGED vars
<1>1. CASE \E n \in Names : Report(n) \/ Heartbeat(n)
  BY <1>1, ReportCases
<1> QED
  BY <1>1 DEF Next, Notice

\* A step that publishes makes the store current.
LEMMA PublishIsCurrent ==
  ASSUME Publish
  PROVE  StoreIsCurrent' /\ published'
BY DEF Publish, StoreIsCurrent, Aggregate

\* What a subsystem looks like after a step, for the steps that change one.
LEMMA SubsystemsAfter ==
  ASSUME TypeOK, NEW n \in Names
  PROVE  /\ \A i \in Intervals, t \in Types : AddSubsystem(n, i, t) =>
              /\ DOMAIN subsystems' = DOMAIN subsystems \cup {n}
              /\ \A m \in DOMAIN subsystems : subsystems'[m] = subsystems[m]
              /\ subsystems'[n] \in SubsystemRecord
              /\ subsystems'[n].state = "Idle" /\ ~subsystems'[n].isStalled
         /\ RemoveSubsystem(n) =>
              /\ DOMAIN subsystems' = DOMAIN subsystems \ {n}
              /\ \A m \in DOMAIN subsystems' : subsystems'[m] = subsystems[m]
         /\ \A i \in Intervals : SetMaxHeartbeatInterval(n, i) =>
              /\ DOMAIN subsystems' = DOMAIN subsystems
              /\ \A m \in DOMAIN subsystems \ {n} : subsystems'[m] = subsystems[m]
              /\ subsystems'[n] = [subsystems[n] EXCEPT !.interval = i]
         /\ \A t \in Types : SetSubsystemType(n, t) =>
              /\ DOMAIN subsystems' = DOMAIN subsystems
              /\ \A m \in DOMAIN subsystems \ {n} : subsystems'[m] = subsystems[m]
              /\ subsystems'[n] = [subsystems[n] EXCEPT !.type = t]
         /\ \A s \in States \cup {Keep}, h \in Healths \cup {Keep}, msg \in Texts :
              SetStatus(n, s, h, msg) =>
                /\ DOMAIN subsystems' = DOMAIN subsystems
                /\ \A m \in DOMAIN subsystems \ {n} : subsystems'[m] = subsystems[m]
                /\ subsystems'[n] = Updated(subsystems[n], s, h, msg)
<1>1. ASSUME NEW i \in Intervals, NEW t \in Types, AddSubsystem(n, i, t)
      PROVE  /\ DOMAIN subsystems' = DOMAIN subsystems \cup {n}
             /\ \A m \in DOMAIN subsystems : subsystems'[m] = subsystems[m]
             /\ subsystems'[n] \in SubsystemRecord
             /\ subsystems'[n].state = "Idle" /\ ~subsystems'[n].isStalled
  BY <1>1 DEF AddSubsystem, SubsystemRecord
<1>2. ASSUME RemoveSubsystem(n)
      PROVE  /\ DOMAIN subsystems' = DOMAIN subsystems \ {n}
             /\ \A m \in DOMAIN subsystems' : subsystems'[m] = subsystems[m]
  BY <1>2 DEF RemoveSubsystem
<1>3. ASSUME NEW i \in Intervals, SetMaxHeartbeatInterval(n, i)
      PROVE  /\ DOMAIN subsystems' = DOMAIN subsystems
             /\ \A m \in DOMAIN subsystems \ {n} : subsystems'[m] = subsystems[m]
             /\ subsystems'[n] = [subsystems[n] EXCEPT !.interval = i]
  BY <1>3 DEF SetMaxHeartbeatInterval, TypeOK
<1>4. ASSUME NEW t \in Types, SetSubsystemType(n, t)
      PROVE  /\ DOMAIN subsystems' = DOMAIN subsystems
             /\ \A m \in DOMAIN subsystems \ {n} : subsystems'[m] = subsystems[m]
             /\ subsystems'[n] = [subsystems[n] EXCEPT !.type = t]
  BY <1>4 DEF SetSubsystemType, TypeOK
<1>5. ASSUME NEW s \in States \cup {Keep}, NEW h \in Healths \cup {Keep}, NEW msg \in Texts,
             SetStatus(n, s, h, msg)
      PROVE  /\ DOMAIN subsystems' = DOMAIN subsystems
             /\ \A m \in DOMAIN subsystems \ {n} : subsystems'[m] = subsystems[m]
             /\ subsystems'[n] = Updated(subsystems[n], s, h, msg)
  BY <1>5 DEF SetStatus, TypeOK
<1> QED
  BY <1>1, <1>2, <1>3, <1>4, <1>5

\* process() touches nothing but isStalled, and that only where it is just set.
LEMMA ProcessAfter ==
  ASSUME TypeOK, Process
  PROVE  /\ DOMAIN subsystems' = DOMAIN subsystems
         /\ \A m \in DOMAIN subsystems :
              /\ subsystems'[m] = [subsystems[m] EXCEPT !.isStalled = @ \/ m \in JustStalled]
              /\ m \notin JustStalled => subsystems'[m] = subsystems[m]
<1>1. /\ DOMAIN subsystems' = DOMAIN subsystems
      /\ \A m \in DOMAIN subsystems :
           subsystems'[m] = [subsystems[m] EXCEPT !.isStalled = @ \/ m \in JustStalled]
  BY DEF Process
<1>2. ASSUME NEW m \in DOMAIN subsystems, m \notin JustStalled
      PROVE  subsystems'[m] = subsystems[m]
  <2>1. subsystems[m] \in SubsystemRecord
    BY DEF TypeOK
  <2>2. (subsystems[m].isStalled \/ m \in JustStalled) = subsystems[m].isStalled
    BY <1>2, <2>1 DEF SubsystemRecord
  <2> QED
    BY <1>1, <2>1, <2>2 DEF SubsystemRecord
<1> QED
  BY <1>1, <1>2

\* Two maps that agree on what goes out are shown alike.
LEMMA ShownAlike ==
  ASSUME NEW a, NEW b, DOMAIN a = DOMAIN b,
         \A n \in DOMAIN a : /\ a[n].state = b[n].state
                             /\ a[n].health = b[n].health
                             /\ a[n].message = b[n].message
                             /\ a[n].isStalled = b[n].isStalled
  PROVE  /\ Shown(a) = Shown(b)
         /\ WorstHealth(a) = WorstHealth(b)
         /\ AnyStalled(a) = AnyStalled(b)
         /\ (\A n \in DOMAIN a : a[n].type = b[n].type) =>
              \A infra : CombinedState(infra, a) = CombinedState(infra, b)
<1>1. Shown(a) = Shown(b)
  BY DEF Shown
<1>2. WorstHealth(a) = WorstHealth(b)
  BY DEF WorstHealth
<1>3. AnyStalled(a) = AnyStalled(b)
  BY DEF AnyStalled
<1>4. ASSUME \A n \in DOMAIN a : a[n].type = b[n].type, NEW infra
      PROVE  CombinedState(infra, a) = CombinedState(infra, b)
  <2>1. SubsystemsState(a) = SubsystemsState(b)
    BY <1>4 DEF SubsystemsState, Leaving, Starting
  <2> QED
    BY <2>1 DEF CombinedState
<1> QED
  BY <1>1, <1>2, <1>3, <1>4

-----------------------------------------------------------------------------
(* The inductive invariant                                                  *)

\* The invariant holds before the infrastructure thread has done anything.
LEMMA InitIInv == Init => IInv
<1> SUFFICES ASSUME Init PROVE IInv
  OBVIOUS
<1> USE StatusAssumption
<1>1. DOMAIN subsystems = {}
  BY DEF Init
<1>2. TypeOK
  <2>1. /\ DOMAIN subsystems \subseteq Names
        /\ subsystems \in [DOMAIN subsystems -> SubsystemRecord]
    BY <1>1 DEF Init
  <2>2. /\ infrastructure \in States
        /\ elapsed \in [Names -> Nat]
        /\ sincePublish \in Nat
        /\ walk \in {"created", "initialising", "activating", "looping", "done"}
    BY DEF Init
  <2>5. sinceProcess \in 0..ProcessPeriod /\ calls \in 0..MaxCalls
    BY DEF Init
  <2>3. store.state \in CompStates /\ store.health \in Healths /\ store.isStalled \in BOOLEAN
    BY DEF Init
  <2>4. published \in BOOLEAN /\ retyped \in BOOLEAN
    BY DEF Init
  <2> QED
    BY <2>1, <2>2, <2>3, <2>4, <2>5 DEF TypeOK
<1>3. StoreIsCurrent /\ PublishedFirst /\ SilenceBounded
  BY DEF Init, StoreIsCurrent, PublishedFirst, SilenceBounded
<1>4. PunctualInTime /\ PunctualNeverStalled
  BY <1>1 DEF PunctualInTime, PunctualNeverStalled
<1> QED
  BY <1>2, <1>3, <1>4 DEF IInv

\* The map of subsystems stays a partial map of names to well-formed records.
LEMMA SubsystemsType ==
  ASSUME TypeOK, [Next]_vars
  PROVE  /\ DOMAIN subsystems' \subseteq Names
         /\ subsystems' \in [DOMAIN subsystems' -> SubsystemRecord]
<1>1. ASSUME NEW n \in Names, NEW i \in Intervals, NEW t \in Types, AddSubsystem(n, i, t)
      PROVE  /\ DOMAIN subsystems' \subseteq Names
             /\ subsystems' \in [DOMAIN subsystems' -> SubsystemRecord]
  <2>1. /\ DOMAIN subsystems' = DOMAIN subsystems \cup {n}
        /\ \A m \in DOMAIN subsystems : subsystems'[m] = subsystems[m]
        /\ subsystems'[n] \in SubsystemRecord
    BY <1>1 DEF AddSubsystem, SubsystemRecord
  <2>2. \A m \in DOMAIN subsystems : subsystems[m] \in SubsystemRecord
    BY DEF TypeOK
  <2>3. \A m \in DOMAIN subsystems' : subsystems'[m] \in SubsystemRecord
    BY <2>1, <2>2
  <2>4. subsystems' = [m \in DOMAIN subsystems' |-> subsystems'[m]]
    BY <1>1 DEF AddSubsystem
  <2> QED
    BY <2>1, <2>3, <2>4 DEF TypeOK
<1>2. ASSUME NEW n \in Names, RemoveSubsystem(n)
      PROVE  /\ DOMAIN subsystems' \subseteq Names
             /\ subsystems' \in [DOMAIN subsystems' -> SubsystemRecord]
  BY <1>2 DEF RemoveSubsystem, TypeOK
<1>3. ASSUME NEW n \in Names, NEW i \in Intervals, SetMaxHeartbeatInterval(n, i)
      PROVE  /\ DOMAIN subsystems' \subseteq Names
             /\ subsystems' \in [DOMAIN subsystems' -> SubsystemRecord]
  <2>1. [subsystems[n] EXCEPT !.interval = i] \in SubsystemRecord
    BY <1>3 DEF SetMaxHeartbeatInterval, TypeOK, SubsystemRecord
  <2> QED
    BY <1>3, <2>1 DEF SetMaxHeartbeatInterval, TypeOK
<1>4. ASSUME NEW n \in Names, NEW t \in Types, SetSubsystemType(n, t)
      PROVE  /\ DOMAIN subsystems' \subseteq Names
             /\ subsystems' \in [DOMAIN subsystems' -> SubsystemRecord]
  <2>1. [subsystems[n] EXCEPT !.type = t] \in SubsystemRecord
    BY <1>4 DEF SetSubsystemType, TypeOK, SubsystemRecord
  <2> QED
    BY <1>4, <2>1 DEF SetSubsystemType, TypeOK
<1>5. ASSUME NEW n \in Names, NEW s \in States \cup {Keep}, NEW h \in Healths \cup {Keep},
             NEW m \in Texts, SetStatus(n, s, h, m)
      PROVE  /\ DOMAIN subsystems' \subseteq Names
             /\ subsystems' \in [DOMAIN subsystems' -> SubsystemRecord]
  <2>1. Updated(subsystems[n], s, h, m) \in SubsystemRecord
    BY <1>5, UpdatedType DEF SetStatus, TypeOK
  <2> QED
    BY <1>5, <2>1 DEF SetStatus, TypeOK
<1>6. ASSUME Process
      PROVE  /\ DOMAIN subsystems' \subseteq Names
             /\ subsystems' \in [DOMAIN subsystems' -> SubsystemRecord]
  <2>1. ASSUME NEW m \in DOMAIN subsystems
        PROVE  [subsystems[m] EXCEPT !.isStalled = @ \/ m \in JustStalled] \in SubsystemRecord
    <3>1. subsystems[m] \in SubsystemRecord
      BY DEF TypeOK
    <3>2. (subsystems[m].isStalled \/ m \in JustStalled) \in BOOLEAN
      OBVIOUS
    <3> QED
      BY <3>1, <3>2 DEF SubsystemRecord
  <2> QED
    BY <1>6, <2>1 DEF Process, TypeOK
<1>7. CASE Notice \/ Tick \/ UNCHANGED vars
  BY <1>7 DEF Notice, InfrastructureInitialising, InfrastructureWorking,
     InfrastructureFinalising, SetInfrastructure, Tick, vars, timers, TypeOK
<1> QED
  BY <1>1, <1>2, <1>3, <1>4, <1>5, <1>6, <1>7, StepCases

\* Either a step publishes, or it leaves what was published alone.
LEMMA PublishOrKeep ==
  ASSUME [Next]_vars
  PROVE  \/ Publish
         \/ UNCHANGED <<store, published>> /\ retyped' \in {retyped, TRUE}
<1> USE DEF KeepPublished
<1>1. CASE \E n \in Names, i \in Intervals, t \in Types : AddSubsystem(n, i, t)
  BY <1>1 DEF AddSubsystem
<1>2. CASE \E n \in Names : RemoveSubsystem(n)
  BY <1>2 DEF RemoveSubsystem
<1>3. CASE \E n \in Names, i \in Intervals : SetMaxHeartbeatInterval(n, i)
  BY <1>3 DEF SetMaxHeartbeatInterval
<1>4. CASE \E n \in Names, t \in Types : SetSubsystemType(n, t)
  BY <1>4 DEF SetSubsystemType
<1>5. CASE \E n \in Names, s \in States \cup {Keep}, h \in Healths \cup {Keep}, m \in Texts :
             SetStatus(n, s, h, m)
  BY <1>5 DEF SetStatus
<1>6. CASE Notice
  BY <1>6 DEF Notice, InfrastructureInitialising, InfrastructureWorking,
     InfrastructureFinalising, SetInfrastructure
<1>7. CASE Process
  BY <1>7 DEF Process
<1>8. CASE Tick \/ UNCHANGED vars
  BY <1>8 DEF Tick, vars, timers
<1> QED
  BY <1>1, <1>2, <1>3, <1>4, <1>5, <1>6, <1>7, <1>8, StepCases

\* The infrastructure keeps a state of its enumeration.
LEMMA InfrastructureType ==
  ASSUME TypeOK, [Next]_vars
  PROVE  infrastructure' \in States
BY StepCases DEF TypeOK, AddSubsystem, RemoveSubsystem, SetMaxHeartbeatInterval, SetSubsystemType,
   SetStatus, Notice, InfrastructureInitialising, InfrastructureWorking,
   InfrastructureFinalising, SetInfrastructure, Process, Tick, vars, timers

\* Every operation and every stage of the thread keeps the types.
LEMMA TypeStep ==
  ASSUME TypeOK, [Next]_vars
  PROVE  TypeOK'
<1> USE StatusAssumption
<1>1. /\ DOMAIN subsystems' \subseteq Names
      /\ subsystems' \in [DOMAIN subsystems' -> SubsystemRecord]
  BY SubsystemsType
<1>2. infrastructure' \in States
  BY InfrastructureType
<1>3. elapsed' \in [Names -> Nat]
  <2>1. CASE \E n \in Names : elapsed' = [elapsed EXCEPT ![n] = 0]
    BY <2>1 DEF TypeOK
  <2>2. CASE UNCHANGED elapsed
    BY <2>2 DEF TypeOK
  <2>3. CASE Tick
    BY <2>3 DEF Tick, TypeOK
  <2> QED
    BY <2>1, <2>2, <2>3, StepCases DEF AddSubsystem, RemoveSubsystem, SetMaxHeartbeatInterval,
       SetSubsystemType, SetStatus, Notice, InfrastructureInitialising, InfrastructureWorking,
       InfrastructureFinalising, SetInfrastructure, Process, vars, timers, RestartTimer
<1>4. sincePublish' \in Nat
  <2>1. CASE Publish \/ UNCHANGED sincePublish
    BY <2>1 DEF TypeOK, Publish
  <2>2. CASE Tick
    BY <2>2 DEF Tick, TypeOK
  <2> QED
    BY <2>1, <2>2, StepCases DEF AddSubsystem, RemoveSubsystem, SetMaxHeartbeatInterval,
       SetSubsystemType, SetStatus, Notice, InfrastructureInitialising, InfrastructureWorking,
       InfrastructureFinalising, SetInfrastructure, Process, vars, timers, KeepPublished
<1>8. /\ walk' \in {"created", "initialising", "activating", "looping", "done"}
      /\ sinceProcess' \in 0..ProcessPeriod
  <2>1. CASE UNCHANGED <<walk, sinceProcess>>
    BY <2>1 DEF TypeOK
  <2>2. CASE Notice
    BY <2>2 DEF Notice, InfrastructureInitialising, InfrastructureWorking,
       InfrastructureFinalising, SetInfrastructure, TypeOK
  <2>3. CASE Process
    BY <2>3 DEF Process
  <2>4. CASE Tick
    BY <2>4 DEF Tick, TypeOK
  <2> QED
    BY <2>1, <2>2, <2>3, <2>4, StepCases DEF AddSubsystem, RemoveSubsystem,
       SetMaxHeartbeatInterval, SetSubsystemType, SetStatus, vars, timers
<1>5. store'.state \in CompStates /\ store'.health \in Healths /\ store'.isStalled \in BOOLEAN
  <2>1. CASE Publish
    BY <1>2, <2>1, AggregateType DEF Publish
  <2>2. CASE UNCHANGED store
    BY <2>2 DEF TypeOK
  <2> QED
    BY <2>1, <2>2, PublishOrKeep
<1>6. published' \in BOOLEAN /\ retyped' \in BOOLEAN
  <2>1. CASE Publish
    BY <2>1 DEF Publish
  <2>2. CASE UNCHANGED <<store, published>> /\ retyped' \in {retyped, TRUE}
    BY <2>2 DEF TypeOK
  <2> QED
    BY <2>1, <2>2, PublishOrKeep
<1>7. calls' \in 0..MaxCalls
  <2>1. CASE \E n \in Names : Report(n)
    BY <2>1 DEF Report, TypeOK
  <2>2. CASE UNCHANGED calls
    BY <2>2 DEF TypeOK
  <2> QED
    BY <2>1, <2>2 DEF Next, vars, timers
<1> QED
  BY <1>1, <1>2, <1>3, <1>4, <1>5, <1>6, <1>7, <1>8 DEF TypeOK

\* A step that does not publish leaves what is shown of the subsystems alone,
\* and what counts towards the component's state unless it sets a type.
LEMMA NothingNewToShow ==
  ASSUME TypeOK, [Next]_vars, ~Publish
  PROVE  /\ Shown(subsystems') = Shown(subsystems)
         /\ WorstHealth(subsystems') = WorstHealth(subsystems)
         /\ AnyStalled(subsystems') = AnyStalled(subsystems)
         /\ \/ retyped'
            \/ /\ UNCHANGED <<infrastructure, retyped>>
               /\ \A infra :
                    CombinedState(infra, subsystems') = CombinedState(infra, subsystems)
<1>a. \A n \in DOMAIN subsystems : subsystems[n] \in SubsystemRecord
  BY DEF TypeOK
<1>1. ASSUME NEW n \in Names, NEW i \in Intervals, SetMaxHeartbeatInterval(n, i)
      PROVE  /\ DOMAIN subsystems' = DOMAIN subsystems
             /\ \A m \in DOMAIN subsystems :
                  /\ subsystems'[m].state = subsystems[m].state
                  /\ subsystems'[m].health = subsystems[m].health
                  /\ subsystems'[m].message = subsystems[m].message
                  /\ subsystems'[m].isStalled = subsystems[m].isStalled
                  /\ subsystems'[m].type = subsystems[m].type
             /\ UNCHANGED <<infrastructure, retyped>>
  BY <1>1, <1>a DEF SetMaxHeartbeatInterval, TypeOK, SubsystemRecord
<1>2. ASSUME NEW n \in Names, NEW t \in Types, SetSubsystemType(n, t)
      PROVE  /\ DOMAIN subsystems' = DOMAIN subsystems
             /\ \A m \in DOMAIN subsystems :
                  /\ subsystems'[m].state = subsystems[m].state
                  /\ subsystems'[m].health = subsystems[m].health
                  /\ subsystems'[m].message = subsystems[m].message
                  /\ subsystems'[m].isStalled = subsystems[m].isStalled
             /\ retyped'
  BY <1>2, <1>a DEF SetSubsystemType, TypeOK, SubsystemRecord
<1>3. ASSUME NEW n \in Names, NEW s \in States \cup {Keep}, NEW h \in Healths \cup {Keep},
             NEW m \in Texts, SetStatus(n, s, h, m)
      PROVE  UNCHANGED <<subsystems, infrastructure, retyped>>
  <2>1. Updated(subsystems[n], s, h, m) = subsystems[n] /\ UNCHANGED <<infrastructure, retyped>>
    BY <1>3 DEF SetStatus, Changes
  <2> QED
    BY <1>3, <2>1 DEF SetStatus, TypeOK
<1>4. ASSUME Process
      PROVE  UNCHANGED <<subsystems, infrastructure, retyped>>
  <2>1. UNCHANGED <<infrastructure, retyped>> /\ (DOMAIN subsystems = {} \/ JustStalled = {})
    BY <1>4 DEF Process, MustPublish
  <2>2. JustStalled = {}
    BY <2>1 DEF JustStalled
  <2>3. DOMAIN subsystems' = DOMAIN subsystems
    BY <1>4 DEF Process
  <2>4. \A m \in DOMAIN subsystems : subsystems'[m] = subsystems[m]
    BY <1>4, <2>2, ProcessAfter
  <2>5. subsystems' = [m \in DOMAIN subsystems' |-> subsystems'[m]]
    BY <1>4 DEF Process
  <2> QED
    BY <2>1, <2>3, <2>4, <2>5 DEF TypeOK
<1>5. CASE Tick \/ UNCHANGED vars
  BY <1>5 DEF Tick, vars, timers
<1>6. CASE UNCHANGED <<subsystems, infrastructure, retyped>>
  BY <1>6
<1>7. CASE \E n \in Names, i \in Intervals : SetMaxHeartbeatInterval(n, i)
  <2>1. /\ DOMAIN subsystems' = DOMAIN subsystems
        /\ \A m \in DOMAIN subsystems' :
             /\ subsystems'[m].state = subsystems[m].state
             /\ subsystems'[m].health = subsystems[m].health
             /\ subsystems'[m].message = subsystems[m].message
             /\ subsystems'[m].isStalled = subsystems[m].isStalled
             /\ subsystems'[m].type = subsystems[m].type
        /\ UNCHANGED <<infrastructure, retyped>>
    BY <1>1, <1>7
  <2> QED
    BY <2>1, ShownAlike
<1>8. CASE \E n \in Names, t \in Types : SetSubsystemType(n, t)
  <2>1. /\ DOMAIN subsystems' = DOMAIN subsystems
        /\ \A m \in DOMAIN subsystems' :
             /\ subsystems'[m].state = subsystems[m].state
             /\ subsystems'[m].health = subsystems[m].health
             /\ subsystems'[m].message = subsystems[m].message
             /\ subsystems'[m].isStalled = subsystems[m].isStalled
        /\ retyped'
    BY <1>2, <1>8
  <2> QED
    BY <2>1, ShownAlike
<1>9. CASE \/ \E n \in Names, i \in Intervals, t \in Types : AddSubsystem(n, i, t)
           \/ \E n \in Names : RemoveSubsystem(n)
           \/ Notice
  BY <1>9 DEF AddSubsystem, RemoveSubsystem, Notice, InfrastructureInitialising,
     InfrastructureWorking, InfrastructureFinalising, SetInfrastructure
<1> QED
  BY <1>3, <1>4, <1>5, <1>6, <1>7, <1>8, <1>9, StepCases

\* Every step leaves the store current, and the first notice publishes.
LEMMA StoreStep ==
  ASSUME TypeOK, StoreIsCurrent, PublishedFirst, [Next]_vars
  PROVE  StoreIsCurrent' /\ PublishedFirst'
<1>1. CASE Publish
  BY <1>1, PublishIsCurrent DEF PublishedFirst
<1>2. CASE ~Publish
  <2>1. UNCHANGED <<store, published>>
    BY <1>2, PublishOrKeep
  <2>2. StoreIsCurrent'
    BY <1>2, <2>1, NothingNewToShow DEF StoreIsCurrent
  <2>3. walk' # "created" => walk # "created"
    BY <1>2, StepCases DEF AddSubsystem, RemoveSubsystem, SetMaxHeartbeatInterval,
       SetSubsystemType, SetStatus, Notice, InfrastructureInitialising, InfrastructureWorking,
       InfrastructureFinalising, SetInfrastructure, Process, Tick, vars, timers
  <2> QED
    BY <2>1, <2>2, <2>3 DEF PublishedFirst
<1> QED
  BY <1>1, <1>2

\* A tolerated delay is a number, and no shorter than the promised interval.
LEMMA ToleratedBound ==
  ASSUME NEW i \in Intervals
  PROVE  Tolerated(i) \in Nat /\ i \in Nat /\ i <= Tolerated(i)
<1> USE StatusAssumption
<1>1. i \in Nat /\ Mult \in Nat /\ Mult >= 1 /\ Add \in Nat
  OBVIOUS
<1>2. i * Mult \in Nat
  BY <1>1
<1>3. i * Mult >= i
  <2>1. PICK k \in Nat : Mult = k + 1
    <3>1. Mult - 1 \in Nat /\ Mult = (Mult - 1) + 1
      BY <1>1
    <3> QED
      BY <3>1
  <2>2. i * Mult = i * k + i /\ i * k \in Nat
    BY <1>1, <2>1
  <2> QED
    BY <1>1, <2>2
<1> QED
  BY <1>1, <1>2, <1>3 DEF Tolerated

\* A subsystem's interval is one of the intervals, before and after a step.
LEMMA IntervalType ==
  ASSUME TypeOK, NEW n \in DOMAIN subsystems
  PROVE  /\ n \in Names
         /\ subsystems[n] \in SubsystemRecord
         /\ subsystems[n].interval \in Intervals
         /\ subsystems[n].isStalled \in BOOLEAN
         /\ elapsed[n] \in Nat
         /\ Tolerated(subsystems[n].interval) \in Nat
         /\ subsystems[n].interval <= Tolerated(subsystems[n].interval)
         /\ subsystems[n].interval \in Nat
BY ToleratedBound DEF TypeOK, SubsystemRecord

\* A subsystem that has just reported keeps its interval and is not stalled.
LEMMA ReportedSubsystem ==
  ASSUME TypeOK, NEW n \in Names,
         NEW s \in States \cup {Keep}, NEW h \in Healths \cup {Keep}, NEW msg \in Texts,
         SetStatus(n, s, h, msg)
  PROVE  subsystems'[n].interval = subsystems[n].interval /\ ~subsystems'[n].isStalled
<1>1. subsystems'[n] = Updated(subsystems[n], s, h, msg)
  BY DEF SetStatus, TypeOK
<1>2. subsystems[n] \in SubsystemRecord
  BY DEF SetStatus, TypeOK
<1>3. LET new == Updated(subsystems[n], s, h, msg)
      IN  /\ new \in SubsystemRecord
          /\ ~new.isStalled
          /\ new.interval = subsystems[n].interval
  BY <1>2, UpdatedType
<1> QED
  BY <1>1, <1>3

\* Neither a subsystem nor the component is silent for longer than tolerated and
\* process() cannot have seen yet.
LEMMA SilenceStep ==
  ASSUME TypeOK, SilenceBounded, [Next]_vars
  PROVE  SilenceBounded'
<1> USE StatusAssumption, IntervalType
<1>1. CASE \E n \in Names, i \in Intervals, t \in Types : AddSubsystem(n, i, t)
  <2>1. PICK n \in Names, i \in Intervals, t \in Types : AddSubsystem(n, i, t)
    BY <1>1
  <2>2. \A m \in DOMAIN subsystems' : m # n =>
          m \in DOMAIN subsystems /\ subsystems'[m] = subsystems[m] /\ elapsed'[m] = elapsed[m]
    BY <2>1, SubsystemsAfter DEF AddSubsystem, TypeOK
  <2>3. ~Watched(subsystems'[n])
    <3>1. subsystems'[n].state = "Idle"
      BY <2>1 DEF AddSubsystem
    <3> QED
      BY <3>1 DEF Watched
  <2>4. UNCHANGED <<walk, sinceProcess>> /\ sincePublish' = 0
    BY <2>1 DEF AddSubsystem, Publish
  <2> QED
    BY <2>2, <2>3, <2>4 DEF SilenceBounded, TypeOK
<1>2. CASE \E n \in Names : RemoveSubsystem(n)
  <2>1. PICK n \in Names : RemoveSubsystem(n)
    BY <1>2
  <2>2. \A m \in DOMAIN subsystems' :
          m \in DOMAIN subsystems /\ subsystems'[m] = subsystems[m]
    BY <2>1, SubsystemsAfter
  <2>3. UNCHANGED <<walk, sinceProcess, elapsed>> /\ sincePublish' = 0
    BY <2>1 DEF RemoveSubsystem, Publish
  <2> QED
    BY <2>2, <2>3 DEF SilenceBounded, TypeOK
<1>3. CASE \E n \in Names, i \in Intervals : SetMaxHeartbeatInterval(n, i)
  <2>1. PICK n \in Names, i \in Intervals : SetMaxHeartbeatInterval(n, i)
    BY <1>3
  <2>2. /\ DOMAIN subsystems' = DOMAIN subsystems
        /\ \A m \in DOMAIN subsystems \ {n} :
             subsystems'[m] = subsystems[m] /\ elapsed'[m] = elapsed[m]
        /\ n \in DOMAIN subsystems
        /\ elapsed'[n] = 0
        /\ subsystems'[n].interval = i
        /\ UNCHANGED <<walk, sinceProcess, sincePublish>>
    BY <2>1, SubsystemsAfter
    DEF SetMaxHeartbeatInterval, RestartTimer, KeepPublished, TypeOK, SubsystemRecord
  <2>3. Tolerated(i) \in Nat
    BY ToleratedBound
  <2> QED
    BY <2>2, <2>3 DEF SilenceBounded, TypeOK
<1>4. CASE \E n \in Names, t \in Types : SetSubsystemType(n, t)
  <2>1. PICK n \in Names, t \in Types : SetSubsystemType(n, t)
    BY <1>4
  <2>2. /\ DOMAIN subsystems' = DOMAIN subsystems
        /\ \A m \in DOMAIN subsystems :
             /\ subsystems'[m].state = subsystems[m].state
             /\ subsystems'[m].interval = subsystems[m].interval
             /\ subsystems'[m].isStalled = subsystems[m].isStalled
        /\ UNCHANGED <<walk, sinceProcess, sincePublish, elapsed>>
    BY <2>1, SubsystemsAfter DEF SetSubsystemType, KeepPublished, SubsystemRecord
  <2> QED
    BY <2>2 DEF SilenceBounded, TypeOK, Watched
<1>5. CASE \E n \in Names, s \in States \cup {Keep}, h \in Healths \cup {Keep}, m \in Texts :
             SetStatus(n, s, h, m)
  <2>1. PICK n \in Names, s \in States \cup {Keep}, h \in Healths \cup {Keep}, msg \in Texts :
          SetStatus(n, s, h, msg)
    BY <1>5
  <2>2. /\ DOMAIN subsystems' = DOMAIN subsystems
        /\ \A m \in DOMAIN subsystems \ {n} :
             subsystems'[m] = subsystems[m] /\ elapsed'[m] = elapsed[m]
        /\ n \in DOMAIN subsystems
        /\ elapsed'[n] = 0
        /\ UNCHANGED <<walk, sinceProcess>>
        /\ sincePublish' \in {0, sincePublish}
    BY <2>1, SubsystemsAfter DEF SetStatus, RestartTimer, KeepPublished, Publish, TypeOK
  <2>3. subsystems'[n].interval = subsystems[n].interval
    BY <2>1, ReportedSubsystem
  <2> QED
    BY <2>2, <2>3 DEF SilenceBounded, TypeOK
<1>6. CASE Notice
  BY <1>6 DEF Notice, InfrastructureInitialising, InfrastructureWorking,
     InfrastructureFinalising, SilenceBounded
<1>7. CASE Process
  <2>1. sinceProcess' = 0 /\ UNCHANGED elapsed /\ DOMAIN subsystems' = DOMAIN subsystems
    BY <1>7 DEF Process
  <2>2. ASSUME NEW m \in DOMAIN subsystems', Watched(subsystems'[m]), ~subsystems'[m].isStalled
        PROVE  elapsed'[m] <= Tolerated(subsystems'[m].interval) + sinceProcess'
    <3>1. m \notin JustStalled /\ subsystems'[m] = subsystems[m]
      BY <1>7, <2>1, <2>2, ProcessAfter DEF SubsystemRecord
    <3>2. ~Overdue(subsystems[m], elapsed[m])
      BY <2>1, <2>2, <3>1 DEF JustStalled
    <3> QED
      BY <2>1, <3>1, <3>2 DEF Overdue
  <2>3. DOMAIN subsystems' # {} => sincePublish' <= PublishInterval + sinceProcess'
    BY <1>7, <2>1 DEF Process, Publish, KeepPublished, MustPublish, PublishTime, TypeOK
  <2> QED
    BY <2>2, <2>3 DEF SilenceBounded
<1>8. CASE Tick
  <2>1. /\ \A m \in DOMAIN subsystems : elapsed'[m] <= elapsed[m] + 1 /\ elapsed'[m] \in Nat
        /\ sincePublish' <= sincePublish + 1 /\ sincePublish' \in Nat
        /\ UNCHANGED <<subsystems, walk>>
        /\ walk = "looping" => sinceProcess' = sinceProcess + 1
    BY <1>8 DEF Tick, TypeOK
  <2> QED
    BY <2>1 DEF SilenceBounded, TypeOK
<1>9. CASE UNCHANGED vars
  BY <1>9 DEF SilenceBounded, Watched, Tolerated, vars, timers
<1> QED
  BY <1>1, <1>2, <1>3, <1>4, <1>5, <1>6, <1>7, <1>8, <1>9, StepCases

\* A punctual subsystem stays within its promise and is not declared stalled.
LEMMA PunctualStep ==
  ASSUME TypeOK, PunctualInTime, PunctualNeverStalled, [Next]_vars
  PROVE  PunctualInTime' /\ PunctualNeverStalled'
<1> USE StatusAssumption, IntervalType
<1>1. CASE \E n \in Names, i \in Intervals, t \in Types : AddSubsystem(n, i, t)
  <2>1. PICK n \in Names, i \in Intervals, t \in Types : AddSubsystem(n, i, t)
    BY <1>1
  <2>2. \A m \in DOMAIN subsystems' : m # n =>
          m \in DOMAIN subsystems /\ subsystems'[m] = subsystems[m] /\ elapsed'[m] = elapsed[m]
    BY <2>1, SubsystemsAfter DEF AddSubsystem, TypeOK
  <2>3. ~subsystems'[n].isStalled /\ elapsed'[n] = 0 /\ subsystems'[n].interval \in Nat
    <3>1. subsystems'[n].isStalled = FALSE /\ subsystems'[n].interval = i
      BY <2>1 DEF AddSubsystem
    <3>2. i \in Nat
      BY ToleratedBound
    <3>3. elapsed'[n] = 0
      BY <2>1 DEF AddSubsystem, TypeOK
    <3> QED
      BY <3>1, <3>2, <3>3
  <2> QED
    BY <2>2, <2>3 DEF PunctualInTime, PunctualNeverStalled
<1>2. CASE \E n \in Names : RemoveSubsystem(n)
  <2>1. PICK n \in Names : RemoveSubsystem(n)
    BY <1>2
  <2>2. \A m \in DOMAIN subsystems' :
          m \in DOMAIN subsystems /\ subsystems'[m] = subsystems[m] /\ elapsed'[m] = elapsed[m]
    BY <2>1, SubsystemsAfter DEF RemoveSubsystem
  <2> QED
    BY <2>2 DEF PunctualInTime, PunctualNeverStalled
<1>3. CASE \E n \in Names, i \in Intervals : SetMaxHeartbeatInterval(n, i)
  <2>1. PICK n \in Names, i \in Intervals : SetMaxHeartbeatInterval(n, i)
    BY <1>3
  <2>2. /\ DOMAIN subsystems' = DOMAIN subsystems
        /\ \A m \in DOMAIN subsystems \ {n} :
             subsystems'[m] = subsystems[m] /\ elapsed'[m] = elapsed[m]
        /\ n \in DOMAIN subsystems
        /\ elapsed'[n] = 0
        /\ subsystems'[n].interval = i
        /\ subsystems'[n].isStalled = subsystems[n].isStalled
    BY <2>1, SubsystemsAfter DEF SetMaxHeartbeatInterval, RestartTimer, TypeOK, SubsystemRecord
  <2>3. i \in Nat
    BY ToleratedBound
  <2> QED
    BY <2>2, <2>3 DEF PunctualInTime, PunctualNeverStalled
<1>4. CASE \E n \in Names, t \in Types : SetSubsystemType(n, t)
  <2>1. PICK n \in Names, t \in Types : SetSubsystemType(n, t)
    BY <1>4
  <2>2. /\ DOMAIN subsystems' = DOMAIN subsystems
        /\ \A m \in DOMAIN subsystems :
             /\ subsystems'[m].interval = subsystems[m].interval
             /\ subsystems'[m].isStalled = subsystems[m].isStalled
        /\ UNCHANGED elapsed
    BY <2>1, SubsystemsAfter DEF SetSubsystemType, SubsystemRecord
  <2> QED
    BY <2>2 DEF PunctualInTime, PunctualNeverStalled
<1>5. CASE \E n \in Names, s \in States \cup {Keep}, h \in Healths \cup {Keep}, m \in Texts :
             SetStatus(n, s, h, m)
  <2>1. PICK n \in Names, s \in States \cup {Keep}, h \in Healths \cup {Keep}, msg \in Texts :
          SetStatus(n, s, h, msg)
    BY <1>5
  <2>2. /\ DOMAIN subsystems' = DOMAIN subsystems
        /\ \A m \in DOMAIN subsystems \ {n} :
             subsystems'[m] = subsystems[m] /\ elapsed'[m] = elapsed[m]
        /\ n \in DOMAIN subsystems
        /\ elapsed'[n] = 0
    BY <2>1, SubsystemsAfter DEF SetStatus, RestartTimer, TypeOK
  <2>3. subsystems'[n].interval = subsystems[n].interval /\ ~subsystems'[n].isStalled
    BY <2>1, ReportedSubsystem
  <2> QED
    BY <2>2, <2>3 DEF PunctualInTime, PunctualNeverStalled
<1>6. CASE Notice \/ UNCHANGED vars
  BY <1>6 DEF Notice, InfrastructureInitialising, InfrastructureWorking, InfrastructureFinalising,
     SetInfrastructure, PunctualInTime, PunctualNeverStalled, vars, timers
<1>7. CASE Process
  <2>1. ASSUME NEW m \in Punctual \cap DOMAIN subsystems
        PROVE  m \notin JustStalled
    BY <2>1 DEF JustStalled, Watched, Overdue, PunctualInTime
  <2>2. /\ DOMAIN subsystems' = DOMAIN subsystems
        /\ \A m \in Punctual \cap DOMAIN subsystems : subsystems'[m] = subsystems[m]
        /\ UNCHANGED elapsed
    BY <1>7, <2>1, ProcessAfter DEF Process
  <2> QED
    BY <2>2 DEF PunctualInTime, PunctualNeverStalled
<1>8. CASE Tick
  <2>1. UNCHANGED subsystems
    BY <1>8 DEF Tick
  <2>2. ASSUME NEW m \in Punctual \cap DOMAIN subsystems, subsystems[m].interval > 0
        PROVE  elapsed'[m] <= subsystems[m].interval
    <3>1. elapsed[m] < subsystems[m].interval
      BY <1>8, <2>2 DEF Tick, InTime
    <3>2. elapsed'[m] <= elapsed[m] + 1 /\ elapsed'[m] \in Nat
      BY <1>8 DEF Tick, TypeOK
    <3> QED
      BY <3>1, <3>2
  <2> QED
    BY <2>1, <2>2 DEF PunctualInTime, PunctualNeverStalled
<1> QED
  BY <1>1, <1>2, <1>3, <1>4, <1>5, <1>6, <1>7, <1>8, StepCases

-----------------------------------------------------------------------------
(* Theorems                                                                 *)

\* The inductive invariant holds in every reachable state.
THEOREM Invariance == Spec => []IInv
<1>1. Init => IInv
  BY InitIInv
<1>2. IInv /\ [Next]_vars => IInv'
  BY TypeStep, StoreStep, SilenceStep, PunctualStep DEF IInv
<1> QED
  BY <1>1, <1>2, PTL DEF Spec

\* The variables keep their types.
THEOREM TypeCorrect == Spec => []TypeOK
BY Invariance, PTL DEF IInv

\* What readers get from StatusImpl is what LocalStatus knows.
THEOREM ReadersAreCurrent == Spec => []StoreIsCurrent
BY Invariance, PTL DEF IInv

\* process() never declares stalled a subsystem that keeps its promise, whatever
\* the tolerance of the build.
THEOREM NoFalseStall == Spec => []PunctualNeverStalled
BY Invariance, PTL DEF IInv

\* process() finds out a silent subsystem within one round of the thread.
THEOREM StallsAreShown == Spec => []StallShownInTime
<1>1. IInv => StallShownInTime
  <2> SUFFICES ASSUME IInv, walk = "looping", NEW n \in DOMAIN subsystems,
                      Watched(subsystems[n]),
                      elapsed[n] > Tolerated(subsystems[n].interval) + ProcessPeriod
               PROVE  store.isStalled /\ store.subsystems[n].isStalled
    BY DEF StallShownInTime
  <2>1. TypeOK /\ StoreIsCurrent /\ PublishedFirst /\ SilenceBounded
    BY DEF IInv
  <2>2. sinceProcess \in Nat /\ ProcessPeriod \in Nat /\ sinceProcess <= ProcessPeriod
    BY <2>1, StatusAssumption DEF TypeOK
  <2>3. elapsed[n] \in Nat /\ Tolerated(subsystems[n].interval) \in Nat
    BY <2>1, IntervalType
  <2>4. subsystems[n].isStalled
    BY <2>1, <2>2, <2>3 DEF SilenceBounded
  <2>5. store.isStalled = AnyStalled(subsystems) /\ store.subsystems = Shown(subsystems)
    BY <2>1 DEF PublishedFirst, StoreIsCurrent
  <2> QED
    BY <2>4, <2>5 DEF AnyStalled, Shown
<1> QED
  BY <1>1, Invariance, PTL

\* A component with subsystems is never silent for longer than it promises and
\* one round of the thread.
THEOREM UpdatesAreTimely == Spec => []UpdatesKeepComing
<1>1. IInv => UpdatesKeepComing
  BY StatusAssumption DEF IInv, UpdatesKeepComing, SilenceBounded, TypeOK
<1> QED
  BY <1>1, Invariance, PTL

\* A component reports that it works exactly if all that it consists of does.
THEOREM WorkingIsHonest == Spec => []WorkingMeansWorking
<1>1. IInv => WorkingMeansWorking
  <2> SUFFICES ASSUME IInv, published, ~retyped, DOMAIN subsystems # {}
               PROVE  store.state = "CompWorking" <=>
                        /\ infrastructure = "Working"
                        /\ \A n \in DOMAIN subsystems :
                             \/ subsystems[n].state = "Working"
                             \/ /\ subsystems[n].type = "EarlyExit"
                                /\ subsystems[n].state \in {"Finalising", "Shutdown"}
    BY DEF WorkingMeansWorking
  <2>1. store.state = CombinedState(infrastructure, subsystems)
    BY DEF IInv, StoreIsCurrent
  <2>2. \A n \in DOMAIN subsystems : subsystems[n].state \in States
    BY DEF IInv, TypeOK, SubsystemRecord
  <2>3. infrastructure \in States
    BY DEF IInv, TypeOK
  <2> QED
    BY <2>1, <2>2, <2>3, WorkingState
<1> QED
  BY <1>1, Invariance, PTL

-----------------------------------------------------------------------------
(* Beginning and end                                                         *)

\* The infrastructure is what the stage of its thread says, and readers have been told.
EndIsKnown ==
  /\ walk = "done" => infrastructure = "Finalising" /\ store.state = "CompFinalising"
  /\ walk \in {"created", "initialising"} =>
       infrastructure \in {"Idle", "Initialising"} /\ store.state = "CompInitialising"

\* While the infrastructure does not work, its state is the component's.
LEMMA InfrastructureFirst ==
  ASSUME NEW infra \in {"Idle", "Initialising", "Finalising"}, NEW subs
  PROVE  Aggregate(infra, subs).state =
           IF infra = "Finalising" THEN "CompFinalising" ELSE "CompInitialising"
BY DEF Aggregate, CombinedState, ToComponentState

\* Only the thread's own notices change what it is doing and what it says of itself.
LEMMA OnlyNoticesMove ==
  ASSUME [Next]_vars, ~Notice
  PROVE  /\ infrastructure' = infrastructure
         /\ walk' = walk \/ (walk \in {"activating", "looping"} /\ walk' = "looping")
<1>1. CASE \E n \in Names, i \in Intervals, t \in Types : AddSubsystem(n, i, t)
  BY <1>1 DEF AddSubsystem
<1>2. CASE \E n \in Names : RemoveSubsystem(n)
  BY <1>2 DEF RemoveSubsystem
<1>3. CASE \E n \in Names, i \in Intervals : SetMaxHeartbeatInterval(n, i)
  BY <1>3 DEF SetMaxHeartbeatInterval
<1>4. CASE \E n \in Names, t \in Types : SetSubsystemType(n, t)
  BY <1>4 DEF SetSubsystemType
<1>5. CASE \E n \in Names, s \in States \cup {Keep}, h \in Healths \cup {Keep}, m \in Texts :
             SetStatus(n, s, h, m)
  BY <1>5 DEF SetStatus
<1>6. CASE Process
  BY <1>6 DEF Process
<1>7. CASE Tick \/ UNCHANGED vars
  BY <1>7 DEF Tick, vars, timers
<1> QED
  BY <1>1, <1>2, <1>3, <1>4, <1>5, <1>6, <1>7, StepCases

\* Whatever a step publishes, it says the same of beginning and end.
LEMMA EndStep ==
  ASSUME EndIsKnown, [Next]_vars
  PROVE  EndIsKnown'
<1> USE DEF EndIsKnown
<1>1. CASE Notice
  <2>1. /\ walk' = "done" => infrastructure' = "Finalising"
        /\ walk' \in {"created", "initialising"} => infrastructure' = "Initialising"
    BY <1>1 DEF Notice, InfrastructureInitialising, InfrastructureWorking,
                InfrastructureFinalising, SetInfrastructure
  <2>2. store' = Aggregate(infrastructure', subsystems')
    BY <1>1 DEF Notice, InfrastructureInitialising, InfrastructureWorking,
                InfrastructureFinalising, SetInfrastructure, Publish
  <2> QED
    BY <2>1, <2>2, InfrastructureFirst
<1>2. CASE ~Notice
  <2>1. /\ walk' = "done" => walk = "done"
        /\ walk' \in {"created", "initialising"} => walk \in {"created", "initialising"}
        /\ infrastructure' = infrastructure
    BY <1>2, OnlyNoticesMove
  <2>2. CASE UNCHANGED store
    BY <2>1, <2>2
  <2>3. CASE store' = Aggregate(infrastructure', subsystems')
    <3>1. infrastructure' \in {"Idle", "Initialising", "Finalising"}
          => store'.state = IF infrastructure' = "Finalising" THEN "CompFinalising"
                            ELSE "CompInitialising"
      BY <2>3, InfrastructureFirst
    <3> QED
      BY <2>1, <3>1
  <2> QED
    BY <2>2, <2>3, PublishOrKeep DEF Publish
<1> QED
  BY <1>1, <1>2

\* Readers see the end of a component whatever its subsystems go on reporting, and never
\* see it working before its infrastructure is.
THEOREM ReadersSeeTheEnd == Spec => []EndIsShown
<1>1. Init => EndIsKnown
  BY DEF Init, EndIsKnown
<1>2. EndIsKnown /\ [Next]_vars => EndIsKnown'
  BY EndStep
<1>3. EndIsKnown => EndIsShown
  BY DEF EndIsKnown, EndIsShown
<1> QED
  BY <1>1, <1>2, <1>3, PTL DEF Spec
=============================================================================
