--------------------------- MODULE ComponentStatus ---------------------------
(***************************************************************************)
(* hydroiceutil::LocalStatus (hydrolibs/hydroiceutil/localstatus.cpp) with *)
(* the publication of orcaice::detail::StatusImpl, which turns the status  *)
(* of the subsystems into the component's and keeps it for readers.        *)
(*                                                                         *)
(* Any thread of the component may report the status of a subsystem; every *)
(* public operation holds localStatusMutex_ from end to end, so each is    *)
(* one action. process(), which detects stalls and republishes, is driven  *)
(* by the component's infrastructure thread                                *)
(* (libs/orcaice/detail/componentthread.cpp), modelled here by the stages  *)
(* of its walk(). Time passes in ticks.                                    *)
(***************************************************************************)
EXTENDS StatusAggregator

CONSTANTS
  Names,            \* names of subsystems
  Intervals,        \* heartbeat intervals that may be promised; 0: none is
  Messages,         \* texts a report may carry, besides the empty one
  NoMessage,        \* the empty text
  Mult, Add,        \* StallTolerance.Multiplicative and .Additive
  PublishInterval,  \* PublishPeriod
  ProcessPeriod,    \* the infrastructure thread is back in process() by then
  Punctual,         \* subsystems that are heard from as often as they promise
  MaxElapsed,       \* bound: the heartbeat timers stop counting here
  MaxCalls          \* bound: calls by the component's threads, heartbeats apart

ASSUME StatusAssumption ==
  /\ Intervals \subseteq Nat
  /\ NoMessage \notin Messages
  /\ Mult \in Nat \ {0}
  /\ Add \in Nat
  /\ PublishInterval \in Nat \ {0}
  /\ ProcessPeriod \in Nat \ {0}
  /\ Punctual \subseteq Names
  /\ MaxElapsed \in Nat
  /\ MaxCalls \in Nat

VARIABLES
  subsystems,       \* LocalComponentStatus::subsystems, without the timers
  infrastructure,   \* LocalComponentStatus::infrastructure
  elapsed,          \* elapsedSec() of each subsystem's heartbeatTimer
  sincePublish,     \* elapsedSec() of publishTimer_
  walk,             \* where the infrastructure thread is in walk()
  sinceProcess,     \* ticks since its last process()
  store,            \* StatusImpl::dataStore_: what readers of the status get
  published,        \* history: publishEvent() has been called
  retyped,          \* history: a type was set since the last publication
  calls             \* calls so far, heartbeats apart

timers == <<elapsed, sincePublish, sinceProcess>>
vars == <<subsystems, infrastructure, walk, store, published, retyped, calls,
          timers>>

SubsystemRecord ==
  [state : States, health : Healths, message : Messages \cup {NoMessage},
   isStalled : BOOLEAN, type : Types, interval : Intervals]

-----------------------------------------------------------------------------

\* The constructors leave the store with a component that is initialising and
\* without subsystems; its isStalled is never set, so it holds anything.
Init ==
  /\ subsystems = <<>>
  /\ infrastructure = "Idle"
  /\ elapsed = [n \in Names |-> 0]
  /\ sincePublish = 0
  /\ walk = "created"
  /\ sinceProcess = 0
  /\ \E garbage \in BOOLEAN :
       store = [state |-> "CompInitialising", health |-> "Ok",
                isStalled |-> garbage, subsystems |-> <<>>]
  /\ published = FALSE
  /\ retyped = FALSE
  /\ calls = 0

\* localPublish() and publishEvent()
Publish ==
  /\ store' = Aggregate(infrastructure', subsystems')
  /\ published' = TRUE
  /\ retyped' = FALSE
  /\ sincePublish' = 0

KeepPublished == UNCHANGED <<store, published, sincePublish>>

\* heartbeatTimer.restart() (mutant: left out)
RestartTimerMutant(n) == UNCHANGED elapsed
RestartTimer(n) == elapsed' = [elapsed EXCEPT ![n] = 0]

-----------------------------------------------------------------------------
(* The operations of gbxutilacfr::Status                                    *)

\* addSubsystem(): a new name; for one that exists it throws
AddSubsystem(n, interval, type) ==
  /\ n \notin DOMAIN subsystems
  /\ subsystems' = [m \in DOMAIN subsystems \cup {n} |->
       IF m = n THEN [state |-> "Idle", health |-> "Ok", message |-> NoMessage,
                      isStalled |-> FALSE, type |-> type, interval |-> interval]
       ELSE subsystems[m]]
  /\ elapsed' = [elapsed EXCEPT ![n] = 0]
  /\ UNCHANGED infrastructure
  /\ Publish
  /\ UNCHANGED <<walk, sinceProcess>>

RemoveSubsystem(n) ==
  /\ n \in DOMAIN subsystems
  /\ subsystems' = [m \in DOMAIN subsystems \ {n} |-> subsystems[m]]
  /\ UNCHANGED infrastructure
  /\ Publish
  /\ UNCHANGED <<walk, sinceProcess, elapsed>>

\* setMaxHeartbeatInterval(): isStalled stays as it is and nothing is published
SetMaxHeartbeatInterval(n, interval) ==
  /\ n \in DOMAIN subsystems
  /\ subsystems' = [subsystems EXCEPT ![n].interval = interval]
  /\ RestartTimer(n)
  /\ KeepPublished
  /\ UNCHANGED <<infrastructure, walk, sinceProcess, retyped>>

\* setSubsystemType(): nothing is published
SetSubsystemType(n, type) ==
  /\ n \in DOMAIN subsystems
  /\ subsystems' = [subsystems EXCEPT ![n].type = type]
  /\ retyped' = TRUE
  /\ KeepPublished
  /\ UNCHANGED <<infrastructure, walk, sinceProcess, elapsed>>

Keep == "keep"      \* the argument -1: state or health did not change

\* internalSetStatus(), from the heartbeat test to the end: what becomes of a
\* subsystem's status
Updated(old, state, health, msg) ==
  IF state = Keep /\ health = Keep /\ ~old.isStalled
  THEN old
  ELSE [old EXCEPT !.isStalled = FALSE,
                   !.state = IF state = Keep THEN @ ELSE state,
                   !.health = IF health = Keep THEN @ ELSE health,
                   !.message = msg]

\* a change is published (mutant: clearing a stall alone is not)
ChangesMutant(old, new) == [old EXCEPT !.isStalled = FALSE] # new
Changes(old, new) == old # new

\* internalSetStatus()
SetStatus(n, state, health, msg) ==
  /\ n \in DOMAIN subsystems
  /\ RestartTimer(n)
  /\ subsystems' = [subsystems EXCEPT ![n] = Updated(@, state, health, msg)]
  /\ UNCHANGED <<infrastructure, walk, sinceProcess>>
  /\ IF Changes(subsystems[n], Updated(subsystems[n], state, health, msg))
     THEN Publish
     ELSE KeepPublished /\ UNCHANGED retyped

\* initialising(), working(), finalising()
ReportState(n, state, msg) ==
  /\ state \in {"Initialising", "Working", "Finalising"}
  /\ SetStatus(n, state, Keep, msg)

\* ok(), warning(), fault(); the last two assert that there is a text
ReportHealth(n, health, msg) ==
  /\ health = "Ok" \/ msg # NoMessage
  /\ SetStatus(n, Keep, health, msg)

\* setSubsystemStatus( subsystem, SubsystemShutdown, SubsystemOk ), the one use
ReportShutdown(n) == SetStatus(n, "Shutdown", "Ok", NoMessage)

Heartbeat(n) == SetStatus(n, Keep, Keep, NoMessage)

\* message()
Message(n, msg) == SetStatus(n, Keep, Keep, msg)

-----------------------------------------------------------------------------
(* The infrastructure thread                                                *)

SetInfrastructure(state) ==
  /\ infrastructure' = state
  /\ UNCHANGED subsystems
  /\ Publish
  /\ UNCHANGED <<elapsed, sinceProcess>>

InfrastructureInitialising ==
  /\ walk = "created"
  /\ walk' = "initialising"
  /\ SetInfrastructure("Initialising")

\* then the adapter is activated, which is retried for as long as it fails
InfrastructureWorking ==
  /\ walk = "initialising"
  /\ walk' = "activating"
  /\ SetInfrastructure("Working")

\* the thread is told to stop, or an exception ends the loop
InfrastructureFinalising ==
  /\ walk \in {"activating", "looping"}
  /\ walk' = "done"
  /\ SetInfrastructure("Finalising")

Tolerated(interval) == interval * Mult + Add

\* a subsystem that is expected to be heard from
Watched(s) == s.interval > 0 /\ s.state \notin {"Idle", "Shutdown"}

Overdue(s, silence) == silence > Tolerated(s.interval)

JustStalled ==
  {n \in DOMAIN subsystems :
     /\ Watched(subsystems[n])
     /\ ~subsystems[n].isStalled
     /\ Overdue(subsystems[n], elapsed[n])}

PublishTime == sincePublish >= PublishInterval

\* a stall, or a long silence of the component, is published
\* (mutants: only the one or the other)
SilenceForgotten == JustStalled # {}
StallForgotten == PublishTime
MustPublish == JustStalled # {} \/ PublishTime

\* process(), from the loop of walk()
Process ==
  /\ walk \in {"activating", "looping"}
  /\ walk' = "looping"
  /\ sinceProcess' = 0
  /\ subsystems' = [n \in DOMAIN subsystems |->
       [subsystems[n] EXCEPT !.isStalled = @ \/ n \in JustStalled]]
  /\ IF DOMAIN subsystems # {} /\ MustPublish
     THEN UNCHANGED infrastructure /\ Publish
     ELSE KeepPublished /\ UNCHANGED <<infrastructure, retyped>>
  /\ UNCHANGED elapsed

\* Time passes; a punctual subsystem is heard from within its interval, and the
\* loop of the infrastructure thread comes round to process().
InTime(n) ==
  subsystems[n].interval > 0 => elapsed[n] < subsystems[n].interval

Tick ==
  /\ \A n \in Punctual \cap DOMAIN subsystems : InTime(n)
  /\ walk = "looping" => sinceProcess < ProcessPeriod
  /\ elapsed' = [n \in Names |-> IF elapsed[n] < MaxElapsed THEN elapsed[n] + 1
                                 ELSE elapsed[n]]
  /\ sincePublish' = IF sincePublish < PublishInterval + ProcessPeriod + 1
                     THEN sincePublish + 1 ELSE sincePublish
  /\ sinceProcess' = IF walk = "looping" THEN sinceProcess + 1 ELSE sinceProcess
  /\ UNCHANGED <<subsystems, infrastructure, walk, store, published, retyped>>

-----------------------------------------------------------------------------

Texts == Messages \cup {NoMessage}

Report(n) ==
  /\ calls < MaxCalls
  /\ calls' = calls + 1
  /\ \/ \E i \in Intervals, t \in Types : AddSubsystem(n, i, t)
     \/ RemoveSubsystem(n)
     \/ \E i \in Intervals : SetMaxHeartbeatInterval(n, i)
     \/ \E t \in Types : SetSubsystemType(n, t)
     \/ \E s \in States, m \in Texts : ReportState(n, s, m)
     \/ \E h \in Healths, m \in Texts : ReportHealth(n, h, m)
     \/ ReportShutdown(n)
     \/ \E m \in Messages : Message(n, m)

Next ==
  \/ \E n \in Names : Report(n)
  \/ \E n \in Names : Heartbeat(n) /\ UNCHANGED calls
  \/ InfrastructureInitialising /\ UNCHANGED calls
  \/ InfrastructureWorking /\ UNCHANGED calls
  \/ InfrastructureFinalising /\ UNCHANGED calls
  \/ Process /\ UNCHANGED calls
  \/ Tick /\ UNCHANGED calls

Spec == Init /\ [][Next]_vars

-----------------------------------------------------------------------------
(* Properties                                                               *)

\* The variables keep their types; the map of subsystems is partial.
TypeOK ==
  /\ DOMAIN subsystems \subseteq Names
  /\ subsystems \in [DOMAIN subsystems -> SubsystemRecord]
  /\ infrastructure \in States
  /\ elapsed \in [Names -> Nat]
  /\ sincePublish \in Nat
  /\ walk \in {"created", "initialising", "activating", "looping", "done"}
  /\ sinceProcess \in 0..ProcessPeriod
  /\ store.state \in CompStates /\ store.health \in Healths
  /\ store.isStalled \in BOOLEAN
  /\ published \in BOOLEAN
  /\ retyped \in BOOLEAN
  /\ calls \in 0..MaxCalls

\* What readers get is what the component knows: every path through
\* internalSetStatus() and process() that changes a subsystem's state, health,
\* text or stall also publishes it. Only a change of type waits for the next
\* publication, and then only the component's state may be out of date.
StoreIsCurrent ==
  published =>
    /\ store.subsystems = Shown(subsystems)
    /\ store.health = WorstHealth(subsystems)
    /\ store.isStalled = AnyStalled(subsystems)
    /\ retyped \/ store.state = CombinedState(infrastructure, subsystems)

\* A subsystem that is heard from as often as it promises is never declared
\* stalled, also when it changes the promise or leaves and comes back.
PunctualNeverStalled ==
  \A n \in Punctual \cap DOMAIN subsystems : ~subsystems[n].isStalled

\* A subsystem that has fallen silent is shown as stalled no later than one
\* round of the infrastructure thread after the tolerated delay.
StallShownInTime ==
  walk = "looping" =>
    \A n \in DOMAIN subsystems :
      Watched(subsystems[n])
        /\ elapsed[n] > Tolerated(subsystems[n].interval) + ProcessPeriod
        => store.isStalled /\ store.subsystems[n].isStalled

\* As long as the component has subsystems it publishes at least once per
\* PublishInterval and round of the infrastructure thread.
UpdatesKeepComing ==
  walk = "looping" /\ DOMAIN subsystems # {} =>
    sincePublish <= PublishInterval + ProcessPeriod

\* The component counts as working exactly if its infrastructure works and every
\* subsystem works, or was allowed to exit early and did.
WorkingMeansWorking ==
  published /\ ~retyped /\ DOMAIN subsystems # {} =>
    (store.state = "CompWorking" <=>
       /\ infrastructure = "Working"
       /\ \A n \in DOMAIN subsystems :
            \/ subsystems[n].state = "Working"
            \/ /\ subsystems[n].type = "EarlyExit"
               /\ subsystems[n].state \in {"Finalising", "Shutdown"})

\* Readers see the end of a component, whatever its subsystems go on reporting, and they do
\* not see it working before its infrastructure is.
EndIsShown ==
  /\ walk = "done" => store.state = "CompFinalising"
  /\ walk \in {"created", "initialising"} => store.state # "CompWorking"

-----------------------------------------------------------------------------
(* What makes the safety properties inductive                               *)

\* The infrastructure thread publishes before it enters its loop.
PublishedFirst == walk # "created" => published

\* Silence below the tolerated delay, give or take the time since process() last
\* looked; the same for the component as a whole.
SilenceBounded ==
  walk = "looping" =>
    /\ \A n \in DOMAIN subsystems :
         Watched(subsystems[n]) /\ ~subsystems[n].isStalled =>
           elapsed[n] <= Tolerated(subsystems[n].interval) + sinceProcess
    /\ DOMAIN subsystems # {} => sincePublish <= PublishInterval + sinceProcess

\* A punctual subsystem is within its promise whenever it is bound by one.
PunctualInTime ==
  \A n \in Punctual \cap DOMAIN subsystems :
    subsystems[n].interval > 0 => elapsed[n] <= subsystems[n].interval

IInv ==
  /\ TypeOK
  /\ StoreIsCurrent
  /\ PublishedFirst
  /\ SilenceBounded
  /\ PunctualInTime
  /\ PunctualNeverStalled
=============================================================================
