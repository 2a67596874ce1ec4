-------------------------- MODULE StatusAggregator --------------------------
(***************************************************************************)
(* orcaice::detail::ComponentStatusAggregator                              *)
(* (libs/orcaice/detail/componentstatusaggregator.cpp): what a component   *)
(* reports of itself, worked out from the state of its infrastructure and  *)
(* the status of its subsystems.                                           *)
(***************************************************************************)
EXTENDS Naturals

States     == {"Idle", "Initialising", "Working", "Finalising", "Shutdown"}
Healths    == {"Ok", "Warning", "Fault"}
Types      == {"Standard", "EarlyExit"}
CompStates == {"CompInitialising", "CompWorking", "CompFinalising"}

\* toComponentState() of one state
ToComponentState(state) ==
  CASE state \in {"Idle", "Initialising"}       -> "CompInitialising"
    [] state = "Working"                        -> "CompWorking"
    [] state \in {"Finalising", "Shutdown"}     -> "CompFinalising"

Starting(s) == s.state \in {"Idle", "Initialising"}

\* mutant: a subsystem that may exit early counts like any other
LeavingMutant(s) == s.state \in {"Finalising", "Shutdown"}
Leaving(s) == s.state \in {"Finalising", "Shutdown"} /\ s.type # "EarlyExit"

\* toComponentState() of all subsystems: of the flags it collects those for the
\* end of life are looked at last, and win
SubsystemsState(subs) ==
  IF \E n \in DOMAIN subs : Leaving(subs[n]) THEN "CompFinalising"
  ELSE IF \E n \in DOMAIN subs : Starting(subs[n]) THEN "CompInitialising"
  ELSE "CompWorking"

WorstHealth(subs) ==
  IF \E n \in DOMAIN subs : subs[n].health = "Fault" THEN "Fault"
  ELSE IF \E n \in DOMAIN subs : subs[n].health = "Warning" THEN "Warning"
  ELSE "Ok"

AnyStalled(subs) == \E n \in DOMAIN subs : subs[n].isStalled

\* convert(): the part of a subsystem's status that goes out
Shown(subs) ==
  [n \in DOMAIN subs |-> [state     |-> subs[n].state,
                          health    |-> subs[n].health,
                          message   |-> subs[n].message,
                          isStalled |-> subs[n].isStalled]]

\* the infrastructure has priority over the subsystems
CombinedState(infrastructure, subs) ==
  IF DOMAIN subs = {} \/ infrastructure # "Working"
  THEN ToComponentState(infrastructure)
  ELSE SubsystemsState(subs)

\* convertStateBased()
Aggregate(infrastructure, subs) ==
  [state      |-> CombinedState(infrastructure, subs),
   health     |-> WorstHealth(subs),
   isStalled  |-> AnyStalled(subs),
   subsystems |-> Shown(subs)]
=============================================================================
