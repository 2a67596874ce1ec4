---------------------------- MODULE BicycleDriver ----------------------------
(***************************************************************************)
(* The Bicycle component: HwThread, which enables the driver, reads from   *)
(* the hardware and writes the pending command in a loop; NetThread, which *)
(* publishes what was read; the threads of Ice in which handleData() hands *)
(* commands to HwThread; and the driver it loads, playerclient, which      *)
(* talks to a Player server. Robot2d has the same threads, and a driver    *)
(* that differs in its proxies only.                                       *)
(*                                                                         *)
(* A command is one that limit() has let through. The driver reports no    *)
(* change of state from read(), so that branch of HwThread is left out.    *)
(***************************************************************************)
EXTENDS Naturals

CONSTANTS
  Commands,   \* motion commands
  NoCommand,  \* an empty store
  Callers,    \* the threads that dispatch setCommand()
  MaxOutages  \* bound: how often the Player server goes away

ASSUME BicycleAssumption ==
  /\ NoCommand \notin Commands
  /\ MaxOutages \in Nat

VARIABLES
  hw,        \* where HwThread is
  state,     \* HwThread::stateMachine_
  health,    \* what HwThread last reported to the status
  hold,      \* the command it is about to write
  net,       \* where NetThread is
  fresh,     \* data has been stored since NetThread waits for it
  reference, \* the command NetThread last published as the reference
  caller,    \* the command each dispatch thread is about to store
  command,   \* HwThread::commandStore_
  netTold,   \* NetThread has been told to stop
  hwTold,    \* HwThread has been told to stop
  enabled,   \* Driver::enabled_
  link,      \* the connection of the driver's proxies
  server,    \* the Player server
  outages,   \* how often it has gone away
  written,   \* the command the hardware was last given
  readOk     \* history: the last read() returned data

hwVars == <<hw, state, health, hold>>
netVars == <<net, fresh, reference>>
cmdVars == <<caller, command>>
toldVars == <<netTold, hwTold>>
serverVars == <<server, outages>>
vars == <<hwVars, netVars, cmdVars, toldVars, enabled, link, serverVars, written,
          readOk>>

\* the state machine's default
DefaultState == "fault"

Init ==
  /\ hw = "checking"
  /\ state = DefaultState
  /\ health = "none"
  /\ hold = NoCommand
  /\ net = "initialising"
  /\ fresh = FALSE
  /\ reference = NoCommand
  /\ caller = [t \in Callers |-> NoCommand]
  /\ command = NoCommand
  /\ netTold = FALSE
  /\ hwTold = FALSE
  /\ enabled = FALSE
  /\ link = "none"
  /\ server \in {"up", "down"}
  /\ outages = 0
  /\ written = NoCommand
  /\ readOk = FALSE

-----------------------------------------------------------------------------
(* HwThread                                                                 *)

\* an exception of the driver is caught: it becomes a fault of the state machine
\* and of the status (mutant: of the status only)
FaultMutant == health' = "fault" /\ state' = state
Fault == health' = "fault" /\ state' = "fault"

\* the head of the loop
Check ==
  /\ hw = "checking"
  /\ hw' = IF hwTold THEN "over"
           ELSE IF state = "fault" THEN "enabling" ELSE "reading"
  /\ UNCHANGED <<state, health, hold, netVars, cmdVars, toldVars, enabled, link,
                 serverVars, written, readOk>>

\* whether enableDriver() tries again (mutant: until it succeeds)
TriesMutant == TRUE
Tries == ~hwTold

\* Driver::enable(): there is a driver to be connected
Connects == ~enabled /\ server = "up"

\* enableDriver() returns, because enable() does or because it is to stop
EnableReturns ==
  /\ hw = "enabling"
  /\ ~Tries \/ enabled \/ Connects
  /\ hw' = "enabled"
  /\ IF Tries /\ Connects
       THEN enabled' = TRUE /\ link' = "open"
       ELSE UNCHANGED <<enabled, link>>
  /\ UNCHANGED <<state, health, hold, netVars, cmdVars, toldVars, serverVars,
                 written, readOk>>

\* enable() throws, and enableDriver() sleeps before it tries again
EnableFails ==
  /\ hw = "enabling"
  /\ Tries
  /\ ~enabled /\ server = "down"
  /\ Fault
  /\ UNCHANGED <<hw, hold, netVars, cmdVars, toldVars, enabled, link, serverVars,
                 written, readOk>>

\* the driver is presumed OK
Presume ==
  /\ hw = "enabled"
  /\ state' = "ok"
  /\ hw' = IF hwTold THEN "over" ELSE "reading"
  /\ UNCHANGED <<health, hold, netVars, cmdVars, toldVars, enabled, link,
                 serverVars, written, readOk>>

\* read() returns data, which NetThread may be waiting for
Read ==
  /\ hw = "reading"
  /\ enabled /\ link = "open"
  /\ readOk' = TRUE
  /\ fresh' = (fresh \/ net = "waiting")
  /\ hw' = "commanding"
  /\ UNCHANGED <<state, health, hold, net, reference, cmdVars, toldVars, enabled,
                 link, serverVars, written>>

\* read() throws; that the driver is not enabled any more is noted behind the
\* throw only, where it has no effect
ReadFails ==
  /\ hw = "reading"
  /\ ~(enabled /\ link = "open")
  /\ Fault
  /\ readOk' = FALSE
  /\ hw' = "commanding"
  /\ UNCHANGED <<hold, netVars, cmdVars, toldVars, enabled, link, serverVars,
                 written>>

\* the pending command is taken, and stays in the store (mutant: taken out of it
\* before it is written)
TakenMutant == NoCommand
Taken == command

Take ==
  /\ hw = "commanding"
  /\ IF command # NoCommand /\ state # "fault"
       THEN /\ hold' = command
            /\ command' = Taken
            /\ hw' = "writing"
       ELSE /\ UNCHANGED <<hold, command>>
            /\ hw' = "reporting"
  /\ UNCHANGED <<state, health, netVars, caller, toldVars, enabled, link,
                 serverVars, written, readOk>>

Write ==
  /\ hw = "writing"
  /\ IF link = "open"
       THEN written' = hold /\ UNCHANGED <<state, health>>
       ELSE Fault /\ UNCHANGED written
  /\ hw' = "reporting"
  /\ UNCHANGED <<hold, netVars, cmdVars, toldVars, enabled, link, serverVars,
                 readOk>>

Report ==
  /\ hw = "reporting"
  /\ health' = state
  /\ hw' = "checking"
  /\ UNCHANGED <<state, hold, netVars, cmdVars, toldVars, enabled, link,
                 serverVars, written, readOk>>

HwStep ==
  \/ Check \/ EnableReturns \/ EnableFails \/ Presume \/ Read \/ ReadFails
  \/ Take \/ Write \/ Report

-----------------------------------------------------------------------------
(* NetThread and the commands                                               *)

\* initialise(): the interfaces are made, and their commands are handled
NetInitialised ==
  /\ net = "initialising"
  /\ net' = IF netTold THEN "over" ELSE "waiting"
  /\ UNCHANGED <<fresh, reference, hwVars, cmdVars, toldVars, enabled, link,
                 serverVars, written, readOk>>

\* getNext() returns new data; when it times out, NetThread waits again
NetAwakes ==
  /\ net = "waiting"
  /\ netTold \/ fresh
  /\ net' = IF netTold THEN "over" ELSE "publishing"
  /\ fresh' = FALSE
  /\ UNCHANGED <<reference, hwVars, cmdVars, toldVars, enabled, link, serverVars,
                 written, readOk>>

\* the data is published with the last command as the reference, at the default
\* Odometry2dPublishInterval of 0, unless NetThread has been told to stop
Publish ==
  /\ net = "publishing"
  /\ reference' = IF netTold THEN reference ELSE command
  /\ net' = "waiting"
  /\ UNCHANGED <<fresh, hwVars, cmdVars, toldVars, enabled, link, serverVars,
                 written, readOk>>

NetStep == NetInitialised \/ NetAwakes \/ Publish

\* handleData() and HwThread::setCommand(), which refuses the command in a fault
Receive(t, c) ==
  /\ net # "initialising"
  /\ caller[t] = NoCommand
  /\ state # "fault"
  /\ caller' = [caller EXCEPT ![t] = c]
  /\ UNCHANGED <<command, hwVars, netVars, toldVars, enabled, link, serverVars,
                 written, readOk>>

\* ... which stores it, whatever has happened since
Store(t) ==
  /\ caller[t] # NoCommand
  /\ command' = caller[t]
  /\ caller' = [caller EXCEPT ![t] = NoCommand]
  /\ UNCHANGED <<hwVars, netVars, toldVars, enabled, link, serverVars, written,
                 readOk>>

-----------------------------------------------------------------------------
(* The component's stop() and the Player server                             *)

StopNet ==
  /\ ~netTold
  /\ netTold' = TRUE
  /\ UNCHANGED <<hwTold, hwVars, netVars, cmdVars, enabled, link, serverVars,
                 written, readOk>>

\* NetThread has been joined
StopHw ==
  /\ net = "over"
  /\ ~hwTold
  /\ hwTold' = TRUE
  /\ UNCHANGED <<netTold, hwVars, netVars, cmdVars, enabled, link, serverVars,
                 written, readOk>>

ServerStops ==
  /\ server = "up"
  /\ outages < MaxOutages
  /\ server' = "down"
  /\ outages' = outages + 1
  /\ link' = IF link = "open" THEN "lost" ELSE link
  /\ UNCHANGED <<hwVars, netVars, cmdVars, toldVars, enabled, written, readOk>>

ServerStarts ==
  /\ server = "down"
  /\ server' = "up"
  /\ UNCHANGED <<outages, hwVars, netVars, cmdVars, toldVars, enabled, link,
                 written, readOk>>

Next ==
  \/ HwStep \/ NetStep
  \/ \E t \in Callers : Store(t) \/ \E c \in Commands : Receive(t, c)
  \/ StopNet \/ StopHw \/ ServerStops \/ ServerStarts

\* the threads run and the calls of the driver return; nobody has to send a
\* command or to stop the component, and the server need not come back
Fairness ==
  /\ WF_vars(HwStep)
  /\ WF_vars(NetStep)
  /\ \A t \in Callers : WF_vars(Store(t))

Spec == Init /\ [][Next]_vars
FairSpec == Spec /\ Fairness

-----------------------------------------------------------------------------
(* Properties                                                               *)

TypeOK ==
  /\ hw \in {"checking", "enabling", "enabled", "reading", "commanding", "writing",
             "reporting", "over"}
  /\ state \in {"fault", "ok"}
  /\ health \in {"none", "fault", "ok"}
  /\ hold \in Commands \cup {NoCommand}
  /\ net \in {"initialising", "waiting", "publishing", "over"}
  /\ fresh \in BOOLEAN
  /\ reference \in Commands \cup {NoCommand}
  /\ caller \in [Callers -> Commands \cup {NoCommand}]
  /\ command \in Commands \cup {NoCommand}
  /\ netTold \in BOOLEAN
  /\ hwTold \in BOOLEAN
  /\ enabled \in BOOLEAN
  /\ link \in {"none", "open", "lost"}
  /\ server \in {"up", "down"}
  /\ outages \in 0..MaxOutages
  /\ written \in Commands \cup {NoCommand}
  /\ readOk \in BOOLEAN

\* A command is written only in a pass of the loop that has read from the
\* hardware: never to a driver without proxies, which write() does not check, and
\* never after a failure, whatever command was accepted before it.
WritesFollowReads == hw = "writing" => enabled /\ readOk

\* HwThread does not report itself well unless its last read() returned data,
\* however often it has presumed the driver to be OK in between.
HealthIsHonest == health = "ok" => readOk

\* NetThread, which refers to HwThread, ends before it.
NetEndsFirst == hw = "over" => net = "over"

\* driver.cpp:177 stands behind a throw: once the connection is lost it remains lost, and
\* no command is written any more, however often the server comes back and the driver is
\* "enabled" again.
LossIsForever ==
  [][link = "lost" => link' = "lost" /\ written' = written]_vars

\* An accepted command is written and published as the reference, or another one
\* takes its place, unless the connection is lost or the component is stopped.
AcceptedCommandIsExecuted ==
  \A c \in Commands :
    command = c ~>
      \/ written = c /\ reference = c
      \/ command \in Commands \ {c}
      \/ link # "open" \/ netTold

\* HwThread ends when it is told to, though the server may be away for ever.
HwThreadStops == hwTold ~> hw = "over"
=============================================================================
