------------------------------ MODULE GoalPlanner ------------------------------
(***************************************************************************)
(* GoalPlanner between its clients, PathPlanner and the path follower      *)
(* (components/goalplanner/mainthread.cpp, pathfollower2dI.cpp,            *)
(* components/pathplanner/mainthread.cpp, pathplanner2dI.cpp). Dispatch    *)
(* threads put a path and its activation into two stores; MainThread takes *)
(* the path, has it planned, takes the activation, and sends both on.      *)
(*                                                                         *)
(* A path is the number of the request it came with. Plans differ by the   *)
(* task they answer. Replanning, off by default, is left out.              *)
(*                                                                         *)
(* Names that PathFollower has as well begin with GP here: the two make up *)
(* the navigation, and what is proved about them is in one module.         *)
(***************************************************************************)
EXTENDS Naturals, Sequences

CONSTANTS
  Callers,      \* dispatch threads of GoalPlanner
  MaxRequests,  \* bound: paths that are set
  MaxReleases,  \* bound: calls of activateNow()
  MaxTimeOuts,  \* bound: waits for the planner that time out
  MaxFaults     \* bound: everything else that fails

ASSUME GoalPlannerAssumption ==
  {MaxRequests, MaxReleases, MaxTimeOuts, MaxFaults} \subseteq Nat

VARIABLES
  requests,    \* the paths set so far; incomingPathStore_ holds the last one
  unread,      \* incomingPathStore_.isNewData()
  activationStore, \* "none" while it is empty, "go" or "stay"
  caller,      \* what each dispatch thread has yet to do
  releases,    \* number of calls of activateNow()
  mainPc,      \* where MainThread is
  requestIsOutstanding,
  goal,        \* incomingPath
  sent,        \* number of tasks sent to PathPlanner
  tasks,       \* pathPlannerTaskBuffer_
  answer,      \* the last data in computedPathConsumer_'s store
  fresh,       \* its isNewData()
  plan,        \* the answer that MainThread took
  activateImmediately,
  follower,    \* the path the follower was sent last, and its activation
  timeOuts, faults, \* how many there were
  strays,      \* history: number of tasks that PathPlanner got, though sending them failed
  given        \* history: a request was given up

storeVars == <<requests, unread, activationStore>>
callerVars == <<caller, releases>>
mainVars == <<mainPc, requestIsOutstanding, goal, plan, activateImmediately>>
plannerVars == <<sent, tasks, answer, fresh>>
faultVars == <<timeOuts, faults, strays, given>>
gpVars == <<storeVars, callerVars, mainVars, plannerVars, follower, faultVars>>

NoAnswer == [task |-> 0, goal |-> 0, ok |-> FALSE]

GPInit ==
  /\ requests = <<>>
  /\ unread = FALSE
  /\ activationStore = "none"
  /\ caller = [c \in Callers |-> "idle"]
  /\ releases = 0
  /\ mainPc = "waiting"
  /\ requestIsOutstanding = FALSE
  /\ goal = 0
  /\ sent = 0
  /\ tasks = <<>>
  /\ answer = NoAnswer
  /\ fresh = FALSE
  /\ plan = NoAnswer
  /\ activateImmediately = "stay"
  /\ follower = [goal |-> 0, activation |-> "stay"]
  /\ timeOuts = 0
  /\ faults = 0
  /\ strays = 0
  /\ given = FALSE

-----------------------------------------------------------------------------
(* Dispatch threads                                                         *)

\* setData(): the path goes into one store, then its activation into another; an
\* empty path tells the robot to stop
SetPath(c, empty, go) ==
  /\ caller[c] = "idle" /\ Len(requests) < MaxRequests
  /\ requests' = Append(requests, [empty |-> empty, go |-> go])
  /\ unread' = TRUE
  /\ caller' = [caller EXCEPT ![c] = go]
  /\ UNCHANGED <<activationStore, releases, mainVars, plannerVars, follower, faultVars>>

SetActivation(c) ==
  /\ caller[c] \in {"go", "stay"}
  /\ activationStore' = caller[c]
  /\ caller' = [caller EXCEPT ![c] = "idle"]
  /\ UNCHANGED <<requests, unread, releases, mainVars, plannerVars, follower,
                 faultVars>>

\* activateNow(): into the store, then to the follower
GPActivateNow(c) ==
  /\ caller[c] = "idle" /\ releases < MaxReleases
  /\ activationStore' = "go"
  /\ caller' = [caller EXCEPT ![c] = "pass"]
  /\ releases' = releases + 1
  /\ UNCHANGED <<requests, unread, mainVars, plannerVars, follower, faultVars>>

PassActivation(c) ==
  /\ caller[c] = "pass"
  /\ follower' = IF follower.goal = 0 THEN follower
                 ELSE [follower EXCEPT !.activation = "go"]
  /\ caller' = [caller EXCEPT ![c] = "idle"]
  /\ UNCHANGED <<storeVars, releases, mainVars, plannerVars, faultVars>>

\* the call of the follower fails; the caller gets the exception
PassFails(c) ==
  /\ caller[c] = "pass"
  /\ faults < MaxFaults /\ faults' = faults + 1
  /\ caller' = [caller EXCEPT ![c] = "idle"]
  /\ UNCHANGED <<storeVars, releases, mainVars, plannerVars, follower, timeOuts, strays, given>>

-----------------------------------------------------------------------------
(* MainThread                                                               *)

\* the loop goes round after a request was served, is to be tried again, or is given up
Served == mainPc' = "waiting" /\ requestIsOutstanding' = FALSE /\ UNCHANGED given
TriedAgain == mainPc' = "waiting" /\ UNCHANGED <<requestIsOutstanding, given>>
GivenUp == mainPc' = "waiting" /\ requestIsOutstanding' = FALSE /\ given' = TRUE
Fault == faults < MaxFaults /\ faults' = faults + 1 /\ UNCHANGED timeOuts

\* what the calls of the follower and of PathPlanner do there
Stop == follower' = [goal |-> goal, activation |-> "go"]
Send == follower' = [goal |-> plan.goal, activation |-> activateImmediately]
Push == sent' = sent + 1 /\ tasks' = Append(tasks, [task |-> sent', goal |-> goal])

\* a request that is tried again is the one that was set last (mutant: it is the same
\* again, although the store has been read)
NewestMutant == IF requestIsOutstanding THEN goal ELSE Len(requests)
Newest == Len(requests)

Take ==
  /\ mainPc = "waiting"
  /\ unread \/ requestIsOutstanding
  /\ goal' = Newest
  /\ unread' = FALSE
  /\ requestIsOutstanding' = TRUE
  /\ mainPc' = "taken"
  /\ UNCHANGED <<requests, activationStore, callerVars, plan, activateImmediately,
                 plannerVars, follower, faultVars>>

StopRobot ==
  /\ mainPc = "taken" /\ requests[goal].empty
  /\ Stop
  /\ Served
  /\ UNCHANGED <<storeVars, callerVars, goal, plan, activateImmediately, plannerVars,
                 timeOuts, faults, strays>>

SetTask ==
  /\ mainPc = "taken" /\ ~requests[goal].empty
  /\ Push
  /\ mainPc' = "planning"
  /\ UNCHANGED <<storeVars, callerVars, requestIsOutstanding, goal, plan,
                 activateImmediately, answer, fresh, follower, faultVars>>

\* the pose is too old (to be tried again), or any of the calls fails (given up) and has
\* no effect
TakenFails ==
  /\ mainPc = "taken"
  /\ Fault
  /\ GivenUp \/ (~requests[goal].empty /\ TriedAgain)
  /\ UNCHANGED <<storeVars, callerVars, goal, plan, activateImmediately, plannerVars,
                 follower, strays>>

\* the call has its effect, but the reply gets lost: stopRobot(), ...
StopRobotUnanswered ==
  /\ mainPc = "taken" /\ requests[goal].empty
  /\ Stop
  /\ Fault
  /\ GivenUp
  /\ UNCHANGED <<storeVars, callerVars, goal, plan, activateImmediately, plannerVars,
                 strays>>

\* ... and setTask(), whose task is planned for nobody
SetTaskUnanswered ==
  /\ mainPc = "taken" /\ ~requests[goal].empty
  /\ Push
  /\ strays' = strays + 1
  /\ Fault
  /\ GivenUp
  /\ UNCHANGED <<storeVars, callerVars, goal, plan, activateImmediately, answer, fresh,
                 follower>>

\* getNext() returns data not read before, and then it is read (mutant: it is not)
ReadMutant == fresh
Read == FALSE

\* an answer without a path is a temporary failure
Receive ==
  /\ mainPc = "planning" /\ fresh
  /\ fresh' = Read
  /\ IF answer.ok
     THEN mainPc' = "planned" /\ plan' = answer /\ UNCHANGED <<requestIsOutstanding, given>>
     ELSE TriedAgain /\ UNCHANGED plan
  /\ UNCHANGED <<storeVars, callerVars, goal, activateImmediately, sent, tasks, answer,
                 follower, timeOuts, faults, strays>>

\* the bound is on waits that are too short, not on those for an answer that got lost
TimeOut ==
  /\ mainPc = "planning" /\ ~fresh
  /\ timeOuts < MaxTimeOuts \/ tasks = <<>>
  /\ timeOuts' = timeOuts + 1
  /\ GivenUp
  /\ UNCHANGED <<storeVars, callerVars, goal, plan, activateImmediately, plannerVars,
                 follower, faults, strays>>

\* get() throws if the store is empty
HasActivation == activationStore # "none"

GetActivation ==
  /\ mainPc = "planned"
  /\ IF HasActivation
     THEN /\ activateImmediately' = activationStore
          /\ mainPc' = "sending"
          /\ UNCHANGED <<requestIsOutstanding, given>>
     ELSE GivenUp /\ UNCHANGED activateImmediately
  /\ UNCHANGED <<storeVars, callerVars, goal, plan, plannerVars, follower, timeOuts, faults,
                 strays>>

GPSendPath ==
  /\ mainPc = "sending"
  /\ Send
  /\ Served
  /\ UNCHANGED <<storeVars, callerVars, goal, plan, activateImmediately, plannerVars,
                 timeOuts, faults, strays>>

\* with an uncertain pose the path is sent, and all is done again
SendUncertainPath ==
  /\ mainPc = "sending"
  /\ Send
  /\ Fault
  /\ TriedAgain
  /\ UNCHANGED <<storeVars, callerVars, goal, plan, activateImmediately, plannerVars, strays>>

\* the call fails, without an effect or with it
SendFails ==
  /\ mainPc = "sending"
  /\ UNCHANGED follower \/ Send
  /\ Fault
  /\ GivenUp
  /\ UNCHANGED <<storeVars, callerVars, goal, plan, activateImmediately, plannerVars, strays>>

-----------------------------------------------------------------------------
(* PathPlanner                                                              *)

\* one task after the other: a path, or the reason why there is none
Plan ==
  /\ tasks # <<>>
  /\ tasks' = Tail(tasks)
  /\ fresh' = TRUE
  /\ \/ answer' = [task |-> Head(tasks).task, goal |-> Head(tasks).goal, ok |-> TRUE]
        /\ UNCHANGED faultVars
     \/ answer' = [task |-> Head(tasks).task, goal |-> Head(tasks).goal, ok |-> FALSE]
        /\ Fault /\ UNCHANGED <<strays, given>>
  /\ UNCHANGED <<storeVars, callerVars, mainVars, sent, follower>>

\* another exception of the driver, or a call of the consumer that fails
PlanFails ==
  /\ tasks # <<>>
  /\ tasks' = Tail(tasks)
  /\ Fault
  /\ UNCHANGED <<storeVars, callerVars, mainVars, sent, answer, fresh, follower, strays, given>>

-----------------------------------------------------------------------------

CallerStep(c) == SetActivation(c) \/ PassActivation(c)
GPMainStep ==
  Take \/ StopRobot \/ SetTask \/ Receive \/ GetActivation \/ GPSendPath

GPNext ==
  \/ \E c \in Callers, empty \in BOOLEAN, go \in {"go", "stay"} : SetPath(c, empty, go)
  \/ \E c \in Callers : GPActivateNow(c) \/ CallerStep(c) \/ PassFails(c)
  \/ GPMainStep
  \/ TakenFails \/ StopRobotUnanswered \/ SetTaskUnanswered
  \/ TimeOut \/ SendUncertainPath \/ SendFails
  \/ Plan \/ PlanFails

\* the threads go on, and the planner deals with its tasks; nobody has to call, nothing
\* has to fail, and no wait has to time out but one for an answer that got lost
GPSpec == GPInit /\ [][GPNext]_gpVars
GPFairSpec ==
  /\ GPSpec
  /\ WF_gpVars(GPMainStep) /\ WF_gpVars(TimeOut /\ tasks = <<>>)
  /\ WF_gpVars(Plan)
  /\ \A c \in Callers : WF_gpVars(CallerStep(c))

-----------------------------------------------------------------------------
(* Properties                                                               *)

Requests == 0 .. Len(requests)
Tasks == [task : 1..sent, goal : Requests]
Answers == [task : 0..sent, goal : Requests, ok : BOOLEAN]
FollowerInputs == [goal : Requests, activation : {"go", "stay"}]

GPTypeOK ==
  /\ requests \in Seq([empty : BOOLEAN, go : {"go", "stay"}])
  /\ Len(requests) <= MaxRequests
  /\ unread \in BOOLEAN
  /\ activationStore \in {"none", "go", "stay"}
  /\ caller \in [Callers -> {"idle", "go", "stay", "pass"}]
  /\ releases \in 0..MaxReleases
  /\ mainPc \in {"waiting", "taken", "planning", "planned", "sending"}
  /\ requestIsOutstanding \in BOOLEAN
  /\ goal \in Requests
  /\ sent \in Nat
  /\ tasks \in Seq(Tasks)
  /\ answer \in Answers
  /\ fresh \in BOOLEAN
  /\ plan \in Answers
  /\ activateImmediately \in {"go", "stay"}
  /\ follower \in FollowerInputs
  /\ timeOuts \in 0..(MaxTimeOuts + MaxFaults)
  /\ faults \in 0..MaxFaults
  /\ strays \in Nat
  /\ given \in BOOLEAN

\* An answer may come too late for its task, or to a task whose sender has been told that
\* it could not be sent; it is then taken for that of a later one. planPath() is off by no
\* more tasks than were abandoned in these two ways, however tasks fail and are sent again:
\* an answer is read only once, and none that was overtaken is taken for a newer one.
Abandoned == timeOuts + strays
PlanLagsByAbandoned ==
  mainPc \in {"planned", "sending"} => plan.task + Abandoned >= sent

\* When MainThread has nothing to do, the follower has the path that was set last, unless
\* a request was given up: none is dropped between the store, the retries and the flags.
IdleMeansServed ==
  (mainPc = "waiting" /\ ~unread /\ ~requestIsOutstanding /\ ~given) =>
    follower.goal = Len(requests)

\* As long as no task has been abandoned, the follower is never sent back to an older path.
NeverGoesBack == [][Abandoned = 0 => follower'.goal >= follower.goal]_gpVars

\* The robot goes only if it was asked to: by a path to be activated at once, by
\* activateNow(), or by an empty path, along which it stands.
GoIsAsked ==
  \/ releases > 0
  \/ \E i \in 1..Len(requests) : requests[i].go = "go" \/ requests[i].empty
NeverGoesUnasked == follower.activation = "go" => GoIsAsked

\* No request is forgotten among those that are overwritten, retried and served: unless
\* one was given up, the follower ends up with the path that was set last.
LastRequestIsServed ==
  <>[]given \/ <>[](follower.goal = Len(requests))

\* doc.dox: GoalPlanner sends the task path to the planner, waits for an answer and
\* sends out the resulting path. The plan is that of the path it is serving.
PlanMatchesGoal ==
  mainPc \in {"planned", "sending"} => plan.goal = goal

-----------------------------------------------------------------------------
(* What makes the safety properties inductive                               *)

\* PathPlanner answers in the order of the tasks.
AnswersInOrder ==
  /\ \A i, j \in 1..Len(tasks) : i < j => tasks[i].task < tasks[j].task
  /\ fresh => \A i \in 1..Len(tasks) : answer.task < tasks[i].task

\* Each task is abandoned or waited for; each wait takes an answer, times out or goes on,
\* and the answers that were taken are to different tasks: one that is still to come
\* answers a task after theirs.
Waits == IF mainPc = "planning" THEN 1 ELSE 0
IsAhead(task) == task + Abandoned + Waits > sent
AnswersAreAhead ==
  /\ \A i \in 1..Len(tasks) : IsAhead(tasks[i].task)
  /\ fresh => IsAhead(answer.task)

\* A wait that nothing answers any more was paid for by a fault of the planner.
IsLost == mainPc = "planning" /\ tasks = <<>> /\ ~fresh
LostAnswersArePaid ==
  timeOuts + (IF IsLost THEN 1 ELSE 0) <= MaxTimeOuts + faults

\* The task that was sent last is for the path that is being served.
LastTaskIsForGoal ==
  /\ mainPc = "planning" =>
       /\ \A i \in 1..Len(tasks) : tasks[i].task = sent => tasks[i].goal = goal
       /\ fresh /\ answer.task = sent => answer.goal = goal
  /\ mainPc \in {"planned", "sending"} /\ plan.task = sent => plan.goal = goal

\* What is unread, outstanding or given up explains every path not sent.
RequestsAreExplained ==
  /\ Abandoned > 0 => given
  /\ ~unread => goal = Len(requests)
  /\ mainPc # "waiting" => requestIsOutstanding
  /\ ~requestIsOutstanding /\ ~given => follower.goal = goal
  /\ Abandoned = 0 => follower.goal <= goal

GPIInv ==
  /\ GPTypeOK
  /\ AnswersInOrder
  /\ AnswersAreAhead
  /\ LostAnswersArePaid
  /\ LastTaskIsForGoal
  /\ PlanLagsByAbandoned
  /\ RequestsAreExplained
=============================================================================
