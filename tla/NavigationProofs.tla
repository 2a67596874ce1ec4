---------------------------- MODULE NavigationProofs ----------------------------
(***************************************************************************)
(* What PathFollower and GoalPlanner promise, for any paths and clients,   *)
(* any calls and any failures. The two components share no variable.       *)
(*                                                                         *)
(* PathFollower first. The argument: what the store holds amounts to the   *)
(* requests so far, and what has been taken out of it is known to the      *)
(* PathMaintainer once the requests have been serviced. The exception is a *)
(* path that was refused, which is stored and followed all the same until  *)
(* another one is set.                                                     *)
(***************************************************************************)
EXTENDS PathFollower, GoalPlanner, TLAPS

\* The parts of the inductive invariant. A path in the store is the one set last, and
\* its activation is wanted exactly if that has been noted; one that was refused is there
\* to be followed, and nothing is wanted.
StoreIsTrue ==
  /\ haveNewPath \/ havePendingActivation => pending # NoPath
  /\ pending # NoPath /\ pending \notin Malformed =>
        pending = wanted.path /\ wanted.go = havePendingActivation
  /\ pending \in Malformed => haveNewPath /\ havePendingActivation /\ wanted = Standing

\* What is wanted is no path that was refused.
WantedIsSane == wanted.path \notin Malformed

\* What has been taken out of the store is on its way into the PathMaintainer.
TakenIsTrue ==
  /\ ~haveNewPath => IF path \in Malformed THEN wanted = Standing ELSE path = wanted.path
  /\ (~haveNewPath /\ ~havePendingActivation /\ path \notin Malformed) =>
        wanted.go = IF Servicing THEN gotPathActivation
                    ELSE activation \in {"FollowingPath", "FinishedPath"}
  /\ pc \in {"activate", "sendActivation"} => gotPathActivation

\* There is a path to service or to follow, and the waypoint sought is on it.
PathIsThere ==
  /\ Servicing \/ activation = "FollowingPath" => path \in Paths
  /\ (~Servicing /\ activation = "FollowingPath") => wpIndex < Size[path]

\* The inductive invariant.
IInv == TypeOK /\ StoreIsTrue /\ WantedIsSane /\ TakenIsTrue /\ PathIsThere /\ StateIsCurrent

\* The initial states satisfy the invariant.
LEMMA InitHolds == PathFollowerAssumption /\ Init => IInv
<1> SUFFICES ASSUME PathFollowerAssumption, Init PROVE IInv
  OBVIOUS
<1>1. state \in States /\ setter \in States \cup {NoState}
  BY DEF Init, States, Activations
<1>2. /\ wanted \in [path : Paths \cup {NoPath}, go : BOOLEAN]
      /\ wanted.path = NoPath /\ ~wanted.go
  BY DEF Init, Standing
<1>r. NoPath \notin Malformed
  BY DEF PathFollowerAssumption
<1>3. calls \in 0..MaxCalls /\ failures \in 0..MaxFailures
  BY DEF Init, PathFollowerAssumption
<1>4. TypeOK
  BY <1>1, <1>2, <1>3 DEF Init, TypeOK, Activations
<1>5. StoreIsTrue /\ WantedIsSane
  BY <1>2, <1>r DEF Init, StoreIsTrue, WantedIsSane
<1>6. TakenIsTrue
  <2>1. path = wanted.path /\ path \notin Malformed
    BY <1>2, <1>r DEF Init
  <2>2. ~Servicing /\ (activation \in {"FollowingPath", "FinishedPath"}) = FALSE
    BY DEF Init, Servicing
  <2>3. wanted.go = FALSE
    BY DEF Init, Standing
  <2>4. wanted.go = IF Servicing THEN gotPathActivation
                    ELSE activation \in {"FollowingPath", "FinishedPath"}
    BY <2>2, <2>3
  <2>5. pc = "starting"
    BY DEF Init
  <2> QED
    BY <2>1, <2>4, <2>5 DEF TakenIsTrue
<1>7. PathIsThere /\ StateIsCurrent
  BY DEF Init, PathIsThere, StateIsCurrent, Servicing
<1> QED
  BY <1>4, <1>5, <1>6, <1>7 DEF IInv

\* Every step keeps the types.
LEMMA TypesStep ==
  PathFollowerAssumption /\ TypeOK /\ PathIsThere /\ [Next]_vars
  => TypeOK'
<1> SUFFICES ASSUME PathFollowerAssumption, TypeOK, PathIsThere,
                    [Next]_vars
             PROVE TypeOK'
  OBVIOUS
<1> USE DEF TypeOK,
           requestVars, stateVars, topicVars, pathVars, loopVars, callVars, robotVars
<1>1. CASE \E p \in Paths, now \in BOOLEAN : SetData(p, now)
  <2>1. PICK p \in Paths, now \in BOOLEAN : SetData(p, now)
    BY <1>1
  <2>2. wanted' \in [path : Paths \cup {NoPath}, go : BOOLEAN]
    BY <2>1 DEF SetData, AskedFor, Standing
  <2>3. pending' \in Paths /\ haveNewPath' \in BOOLEAN /\ havePendingActivation' \in BOOLEAN
    BY <2>1 DEF SetData, Activation
  <2>4. calls' \in 0..MaxCalls
    BY <2>1 DEF SetData, Call, PathFollowerAssumption
  <2> QED
    BY <2>1, <2>2, <2>3, <2>4 DEF SetData
<1>2. CASE ActivateNow
  <2>1. wanted' \in [path : Paths \cup {NoPath}, go : BOOLEAN]
    BY <1>2 DEF ActivateNow
  <2> QED
    BY <1>2, <2>1 DEF ActivateNow, Call, PathFollowerAssumption
<1>3. CASE \E enabled \in BOOLEAN : SetEnabled(enabled)
  <2>1. state' \in States
    BY <1>3 DEF SetEnabled, States, Activations
  <2> QED
    BY <1>3, <2>1 DEF SetEnabled, Call, PathFollowerAssumption
<1>4. CASE EnabledIsPublished
  BY <1>4 DEF EnabledIsPublished
<1>5. CASE StopThread
  BY <1>5 DEF StopThread
<1>6. CASE Begin
  <2>1. prevIsEnabled' \in BOOLEAN
    BY <1>6 DEF Begin, States
  <2> QED
    BY <1>6, <2>1 DEF Begin
<1>7. CASE Service
  <2>1. path' \in Paths \cup {NoPath} /\ pending' \in Paths \cup {NoPath}
    BY <1>7 DEF Service
  <2>2. pc' \in {"sendPath", "activate", "changes"} /\ gotPathActivation' \in BOOLEAN
    BY <1>7 DEF Service
  <2>3. haveNewPath' \in BOOLEAN /\ havePendingActivation' \in BOOLEAN
    BY <1>7 DEF Service
  <2>4. UNCHANGED <<wanted, state, setter, seen, seenPath, activation, wpIndex, changed,
                    tempState, prevIsEnabled, command, stopping, calls, robot, failures>>
    BY <1>7 DEF Service
  <2> QED
    BY <2>1, <2>2, <2>3, <2>4
<1>8. CASE SendPath
  BY <1>8 DEF SendPath
<1>9. CASE Activate
  <2>1. state' \in States
    BY <1>9 DEF Activate, States, Activations
  <2> QED
    BY <1>9, <2>1 DEF Activate
<1>10. CASE SendActivation
  BY <1>10 DEF SendActivation
<1>11. CASE Note
  BY <1>11 DEF Note, First, Activations
<1>12. CASE PublishChanges
  <2>1. state' \in States
    BY <1>12 DEF PublishChanges, States, Activations
  <2>2. tempState' \in States \cup {NoState} /\ pc' \in {"sendState", "inputs"}
    BY <1>12, <2>1 DEF PublishChanges
  <2>3. /\ changed' \in BOOLEAN
        /\ UNCHANGED <<pending, haveNewPath, havePendingActivation, wanted, setter, seen,
                       seenPath, path, activation, wpIndex, gotPathActivation,
                       prevIsEnabled, command, stopping, calls, robot, failures>>
    BY <1>12 DEF PublishChanges
  <2> QED
    BY <2>1, <2>2, <2>3
<1>13. CASE SendState
  BY <1>13 DEF SendState
<1>14. CASE GetCommand
  <2>1. activation' \in Activations /\ command' \in Paths \cup {NoPath}
    BY <1>14 DEF GetCommand, Activations, PathIsThere, Servicing
  <2>2. changed' \in BOOLEAN
    BY <1>14 DEF GetCommand, Changes
  <2>3. wpIndex' \in Nat
    <3>1. CASE activation = "FollowingPath"
      <4>1. Size[path] \in Nat
        BY <1>14, <3>1 DEF GetCommand, PathIsThere, PathFollowerAssumption
      <4> QED
        BY <1>14, <3>1, <4>1 DEF GetCommand
    <3>2. CASE activation # "FollowingPath"
      BY <1>14, <3>2 DEF GetCommand
    <3> QED
      BY <3>1, <3>2
  <2> QED
    BY <1>14, <2>1, <2>2, <2>3 DEF GetCommand
<1>15. CASE Decide
  <2>1. prevIsEnabled' \in BOOLEAN
    BY <1>15 DEF Decide, IsEnabled, BeforeLetGo, States
  <2>2. pc' \in {"letGo", "send", "service"}
    BY <1>15 DEF Decide, IsEnabled, BeforeLetGo
  <2> QED
    BY <1>15, <2>1, <2>2 DEF Decide, IsEnabled, BeforeLetGo
<1>16. CASE LetGo
  <2>1. robot' = NoPath /\ prevIsEnabled' \in BOOLEAN /\ pc' = "service"
    BY <1>16 DEF LetGo
  <2>2. UNCHANGED <<pending, haveNewPath, havePendingActivation, wanted, state, setter,
                    seen, seenPath, path, activation, wpIndex, changed,
                    gotPathActivation, tempState, command, stopping, calls, failures>>
    BY <1>16 DEF LetGo
  <2> QED
    BY <2>1, <2>2
<1>17. CASE SendCommand
  BY <1>17 DEF SendCommand
<1>18. CASE Fails
  BY <1>18 DEF Fails, PathFollowerAssumption
<1>19. CASE StopVehicle
  BY <1>19 DEF StopVehicle
<1>20. CASE StopVehicleFails
  BY <1>20 DEF StopVehicleFails, PathFollowerAssumption
<1>21. CASE End
  BY <1>21 DEF End
<1>22. CASE SomebodyDrives
  BY <1>22 DEF SomebodyDrives
<1>23. CASE UNCHANGED vars
  BY <1>23 DEF vars
<1> QED
  BY <1>1, <1>2, <1>3, <1>4, <1>5, <1>6, <1>7, <1>8, <1>9, <1>10, <1>11, <1>12,
     <1>13, <1>14, <1>15, <1>16, <1>17, <1>18, <1>19, <1>20, <1>21, <1>22, <1>23
  DEF Next, MainStep

\* No call makes a refused path wanted.
LEMMA WantedStep == TypeOK /\ PathFollowerAssumption /\ WantedIsSane /\ [Next]_vars => WantedIsSane'
<1> SUFFICES ASSUME TypeOK, PathFollowerAssumption, WantedIsSane, [Next]_vars
             PROVE  WantedIsSane'
  OBVIOUS
<1> USE DEF WantedIsSane, requestVars
<1>1. ASSUME NEW p \in Paths, NEW now \in BOOLEAN, SetData(p, now) PROVE WantedIsSane'
  BY <1>1 DEF SetData, AskedFor, Standing, PathFollowerAssumption
<1>2. CASE ActivateNow
  <2>1. wanted'.path = wanted.path
    BY <1>2 DEF ActivateNow, TypeOK
  <2> QED
    BY <2>1
<1>3. ASSUME \/ \E enabled \in BOOLEAN : SetEnabled(enabled)
             \/ EnabledIsPublished \/ StopThread \/ SomebodyDrives
             \/ Fails \/ StopVehicleFails \/ UNCHANGED vars
      PROVE  UNCHANGED wanted
  BY <1>3 DEF SetEnabled, EnabledIsPublished, StopThread, SomebodyDrives, Fails,
              StopVehicleFails, vars
<1>4. ASSUME MainStep PROVE UNCHANGED wanted
  BY <1>4 DEF MainStep, Begin, Service, SendPath, Activate, SendActivation, Note,
              PublishChanges, SendState, GetCommand, Decide, LetGo, SendCommand,
              StopVehicle, End
<1> QED
  BY <1>1, <1>2, <1>3, <1>4 DEF Next

\* Every step keeps the store true.
LEMMA StoreStep ==
  TypeOK /\ PathFollowerAssumption /\ StoreIsTrue /\ [Next]_vars
  => StoreIsTrue'
<1> SUFFICES ASSUME TypeOK /\ PathFollowerAssumption /\ StoreIsTrue,
                    [Next]_vars
             PROVE StoreIsTrue'
  OBVIOUS
<1> USE DEF PathFollowerAssumption, TypeOK, StoreIsTrue,
           requestVars, stateVars, topicVars, pathVars, loopVars, callVars, robotVars
<1>1. ASSUME NEW p \in Paths, NEW now \in BOOLEAN, SetData(p, now)
      PROVE  StoreIsTrue'
  <2>1. /\ pending' = p /\ haveNewPath' = TRUE /\ wanted' = AskedFor(p, now)
        /\ havePendingActivation' = (now \/ p \in Malformed)
    BY <1>1 DEF SetData, Activation
  <2>2. CASE p \in Malformed
    BY <2>1, <2>2 DEF AskedFor
  <2>3. CASE p \notin Malformed
    <3>1. wanted' = [path |-> p, go |-> now]
      BY <2>1, <2>3 DEF AskedFor
    <3>2. wanted'.path = p /\ wanted'.go = now
      BY <3>1
    <3>3. havePendingActivation' = now
      BY <2>1, <2>3
    <3> QED
      BY <2>1, <2>3, <3>2, <3>3
  <2> QED
    BY <2>2, <2>3
<1>2. CASE ActivateNow
  <2>1. /\ UNCHANGED <<pending, haveNewPath>> /\ havePendingActivation' = TRUE
        /\ wanted' = [wanted EXCEPT !.go = wanted.path # NoPath] /\ pending # NoPath
    BY <1>2 DEF ActivateNow
  <2>2. CASE pending \in Malformed
    <3>1. wanted = Standing /\ haveNewPath
      BY <2>2
    <3>2. wanted' = [Standing EXCEPT !.go = NoPath # NoPath]
      BY <2>1, <3>1 DEF Standing
    <3>3. wanted' = Standing
      BY <3>2 DEF Standing
    <3> QED
      BY <2>1, <2>2, <3>1, <3>3
  <2>3. CASE pending \notin Malformed
    <3>1. wanted.path = pending
      BY <2>1, <2>3
    <3>2. wanted'.path = pending /\ wanted'.go = TRUE
      BY <2>1, <3>1
    <3> QED
      BY <2>1, <2>3, <3>2
  <2> QED
    BY <2>2, <2>3
<1>3. CASE \E enabled \in BOOLEAN : SetEnabled(enabled)
  BY <1>3 DEF SetEnabled, Call
<1>4. CASE EnabledIsPublished
  BY <1>4 DEF EnabledIsPublished
<1>5. CASE StopThread
  BY <1>5 DEF StopThread
<1>6. CASE Begin
  BY <1>6 DEF Begin
<1>7. CASE Service
  BY <1>7 DEF Service
<1>8. CASE SendPath
  BY <1>8 DEF SendPath
<1>9. CASE Activate
  BY <1>9 DEF Activate
<1>10. CASE SendActivation
  BY <1>10 DEF SendActivation
<1>11. CASE Note
  BY <1>11 DEF Note, First
<1>12. CASE PublishChanges
  BY <1>12 DEF PublishChanges
<1>13. CASE SendState
  BY <1>13 DEF SendState
<1>14. CASE GetCommand
  BY <1>14 DEF GetCommand, Finishes, Changes
<1>15. CASE Decide
  BY <1>15 DEF Decide, IsEnabled, BeforeLetGo
<1>16. CASE LetGo
  BY <1>16 DEF LetGo
<1>17. CASE SendCommand
  BY <1>17 DEF SendCommand
<1>18. CASE Fails
  BY <1>18 DEF Fails
<1>19. CASE StopVehicle
  BY <1>19 DEF StopVehicle
<1>20. CASE StopVehicleFails
  BY <1>20 DEF StopVehicleFails
<1>21. CASE End
  BY <1>21 DEF End
<1>22. CASE SomebodyDrives
  BY <1>22 DEF SomebodyDrives
<1>23. CASE UNCHANGED vars
  BY <1>23 DEF vars
<1> QED
  BY <1>1, <1>2, <1>3, <1>4, <1>5, <1>6, <1>7, <1>8, <1>9, <1>10, <1>11, <1>12,
     <1>13, <1>14, <1>15, <1>16, <1>17, <1>18, <1>19, <1>20, <1>21, <1>22, <1>23
  DEF Next, MainStep

\* What is taken out of the store remains true on its way.
LEMMA TakenStep ==
  PathFollowerAssumption /\ TypeOK /\ StoreIsTrue /\ WantedIsSane /\ TakenIsTrue /\ [Next]_vars
  => TakenIsTrue'
<1> SUFFICES ASSUME PathFollowerAssumption, TypeOK /\ StoreIsTrue /\ WantedIsSane /\ TakenIsTrue,
                    [Next]_vars
             PROVE  TakenIsTrue'
  OBVIOUS
<1> USE DEF TypeOK, Activations, StoreIsTrue, TakenIsTrue, Servicing,
           requestVars, stateVars, topicVars, pathVars, loopVars, callVars, robotVars
<1>1. CASE \E p \in Paths, now \in BOOLEAN : SetData(p, now)
  BY <1>1 DEF SetData, AskedFor, Standing, Activation, Call
<1>2. CASE ActivateNow
  BY <1>2 DEF ActivateNow, Standing, Call
<1>3. CASE \E enabled \in BOOLEAN : SetEnabled(enabled)
  BY <1>3 DEF SetEnabled, Call
<1>4. CASE EnabledIsPublished
  BY <1>4 DEF EnabledIsPublished
<1>5. CASE StopThread
  BY <1>5 DEF StopThread
<1>6. CASE Begin
  BY <1>6 DEF Begin
<1>7. CASE Service
  BY <1>7 DEF Service
<1>8. CASE SendPath
  BY <1>8 DEF SendPath
<1>9. CASE Activate
  BY <1>9 DEF Activate
<1>10. CASE SendActivation
  BY <1>10 DEF SendActivation
<1>11. CASE Note
  BY <1>11 DEF Note, First
<1>12. CASE PublishChanges
  BY <1>12 DEF PublishChanges
<1>13. CASE SendState
  BY <1>13 DEF SendState
<1>14. CASE GetCommand
  BY <1>14 DEF GetCommand, Finishes, Changes
<1>15. CASE Decide
  BY <1>15 DEF Decide, IsEnabled, BeforeLetGo
<1>16. CASE LetGo
  BY <1>16 DEF LetGo
<1>17. CASE SendCommand
  BY <1>17 DEF SendCommand
<1>18. CASE Fails
  BY <1>18 DEF Fails
<1>19. CASE StopVehicle
  BY <1>19 DEF StopVehicle
<1>20. CASE StopVehicleFails
  BY <1>20 DEF StopVehicleFails
<1>21. CASE End
  BY <1>21 DEF End
<1>22. CASE SomebodyDrives
  BY <1>22 DEF SomebodyDrives
<1>23. CASE UNCHANGED vars
  BY <1>23 DEF vars
<1> QED
  BY <1>1, <1>2, <1>3, <1>4, <1>5, <1>6, <1>7, <1>8, <1>9, <1>10, <1>11, <1>12,
     <1>13, <1>14, <1>15, <1>16, <1>17, <1>18, <1>19, <1>20, <1>21, <1>22, <1>23
  DEF Next, MainStep

\* The waypoint sought remains on the path.
LEMMA PathStep ==
  PathFollowerAssumption /\ TypeOK /\ StoreIsTrue /\ TakenIsTrue /\ PathIsThere /\ [Next]_vars
  => PathIsThere'
<1> SUFFICES ASSUME PathFollowerAssumption /\ TypeOK /\ StoreIsTrue /\ TakenIsTrue /\ PathIsThere,
                    [Next]_vars
             PROVE PathIsThere'
  OBVIOUS
<1> USE DEF PathFollowerAssumption, TypeOK, StoreIsTrue, TakenIsTrue,
           PathIsThere, Servicing,
           requestVars, stateVars, topicVars, pathVars, loopVars, callVars, robotVars
<1>1. CASE \E p \in Paths, now \in BOOLEAN : SetData(p, now)
  BY <1>1 DEF SetData, Activation, Call
<1>2. CASE ActivateNow
  BY <1>2 DEF ActivateNow, Call
<1>3. CASE \E enabled \in BOOLEAN : SetEnabled(enabled)
  BY <1>3 DEF SetEnabled, Call
<1>4. CASE EnabledIsPublished
  BY <1>4 DEF EnabledIsPublished
<1>5. CASE StopThread
  BY <1>5 DEF StopThread
<1>6. CASE Begin
  BY <1>6 DEF Begin
<1>7. CASE Service
  BY <1>7 DEF Service
<1>8. CASE SendPath
  BY <1>8 DEF SendPath
<1>9. CASE Activate
  BY <1>9 DEF Activate
<1>10. CASE SendActivation
  BY <1>10 DEF SendActivation
<1>11. CASE Note
  BY <1>11 DEF Note, First
<1>12. CASE PublishChanges
  BY <1>12 DEF PublishChanges
<1>13. CASE SendState
  BY <1>13 DEF SendState
<1>14. CASE GetCommand
  BY <1>14 DEF GetCommand, Finishes, Changes
<1>15. CASE Decide
  BY <1>15 DEF Decide, IsEnabled, BeforeLetGo
<1>16. CASE LetGo
  BY <1>16 DEF LetGo
<1>17. CASE SendCommand
  BY <1>17 DEF SendCommand
<1>18. CASE Fails
  BY <1>18 DEF Fails
<1>19. CASE StopVehicle
  BY <1>19 DEF StopVehicle
<1>20. CASE StopVehicleFails
  BY <1>20 DEF StopVehicleFails
<1>21. CASE End
  BY <1>21 DEF End
<1>22. CASE SomebodyDrives
  BY <1>22 DEF SomebodyDrives
<1>23. CASE UNCHANGED vars
  BY <1>23 DEF vars
<1> QED
  BY <1>1, <1>2, <1>3, <1>4, <1>5, <1>6, <1>7, <1>8, <1>9, <1>10, <1>11, <1>12,
     <1>13, <1>14, <1>15, <1>16, <1>17, <1>18, <1>19, <1>20, <1>21, <1>22, <1>23
  DEF Next, MainStep

\* The state remains current.
LEMMA StateStep ==
  PathFollowerAssumption /\ TypeOK /\ PathIsThere /\ StateIsCurrent /\ [Next]_vars
  => StateIsCurrent'
<1> SUFFICES ASSUME PathFollowerAssumption /\ TypeOK /\ PathIsThere /\ StateIsCurrent,
                    [Next]_vars
             PROVE StateIsCurrent'
  OBVIOUS
<1> USE DEF PathFollowerAssumption, TypeOK, PathIsThere, States, StateIsCurrent, Servicing,
           PathIsThere, Servicing,
           requestVars, stateVars, topicVars, pathVars, loopVars, callVars, robotVars
<1>1. CASE \E p \in Paths, now \in BOOLEAN : SetData(p, now)
  BY <1>1 DEF SetData, Activation, Call
<1>2. CASE ActivateNow
  BY <1>2 DEF ActivateNow, Call
<1>3. CASE \E enabled \in BOOLEAN : SetEnabled(enabled)
  BY <1>3 DEF SetEnabled, Call
<1>4. CASE EnabledIsPublished
  BY <1>4 DEF EnabledIsPublished
<1>5. CASE StopThread
  BY <1>5 DEF StopThread
<1>6. CASE Begin
  BY <1>6 DEF Begin
<1>7. CASE Service
  BY <1>7 DEF Service
<1>8. CASE SendPath
  BY <1>8 DEF SendPath
<1>9. CASE Activate
  BY <1>9 DEF Activate
<1>10. CASE SendActivation
  BY <1>10 DEF SendActivation
<1>11. CASE Note
  BY <1>11 DEF Note, First
<1>12. CASE PublishChanges
  BY <1>12 DEF PublishChanges
<1>13. CASE SendState
  BY <1>13 DEF SendState
<1>14. CASE GetCommand
  <2>1. CASE activation = "FollowingPath"
    <3>1. PICK reached \in 0 .. (Size[path] - wpIndex) :
            /\ activation' = IF Finishes(reached) THEN "FinishedPath" ELSE activation
            /\ wpIndex' = IF Finishes(reached) THEN 0 ELSE wpIndex + reached
            /\ changed' = (changed \/ Changes(reached))
      BY <1>14, <2>1 DEF GetCommand
    <3>2. CASE reached = 0
      <4>1. wpIndex = Size[path] => FALSE
        BY <1>14, <2>1 DEF GetCommand
      <4> QED
        BY <1>14, <3>1, <3>2, <4>1 DEF GetCommand, Finishes, Changes
    <3>3. CASE reached # 0
      <4>1. Changes(reached)
        BY <3>3 DEF Changes
      <4>2. changed'
        BY <3>1, <4>1, Zenon
      <4> QED
        BY <4>2
    <3> QED
      BY <3>2, <3>3
  <2>2. CASE activation # "FollowingPath"
    BY <1>14, <2>2 DEF GetCommand
  <2> QED
    BY <2>1, <2>2
<1>15. CASE Decide
  BY <1>15 DEF Decide, IsEnabled, BeforeLetGo
<1>16. CASE LetGo
  BY <1>16 DEF LetGo
<1>17. CASE SendCommand
  BY <1>17 DEF SendCommand
<1>18. CASE Fails
  BY <1>18 DEF Fails
<1>19. CASE StopVehicle
  BY <1>19 DEF StopVehicle
<1>20. CASE StopVehicleFails
  BY <1>20 DEF StopVehicleFails
<1>21. CASE End
  BY <1>21 DEF End
<1>22. CASE SomebodyDrives
  BY <1>22 DEF SomebodyDrives
<1>23. CASE UNCHANGED vars
  BY <1>23 DEF vars
<1> QED
  BY <1>1, <1>2, <1>3, <1>4, <1>5, <1>6, <1>7, <1>8, <1>9, <1>10, <1>11, <1>12,
     <1>13, <1>14, <1>15, <1>16, <1>17, <1>18, <1>19, <1>20, <1>21, <1>22, <1>23
  DEF Next, MainStep

\* Every step keeps the invariant.
LEMMA StepHolds == PathFollowerAssumption /\ IInv /\ [Next]_vars => IInv'
BY TypesStep, StoreStep, WantedStep, TakenStep, PathStep, StateStep DEF IInv

\* The invariant holds in every behaviour.
THEOREM InvariantHolds == Spec => []IInv
<1>1. Init => IInv
  BY InitHolds, PathFollowerAssumption
<1>2. IInv /\ [Next]_vars => IInv'
  BY StepHolds, PathFollowerAssumption
<1> QED
  BY <1>1, <1>2, PTL DEF Spec

\* The state of the follower has its types in every behaviour.
THEOREM TypeCorrect == Spec => []TypeOK
<1>1. IInv => TypeOK
  BY DEF IInv
<1> QED
  BY <1>1, InvariantHolds, PTL

\* getActiveGoals() never looks at a waypoint that the path does not have.
THEOREM WaypointsAreThere == Spec => []WaypointInRange
<1>1. IInv => WaypointInRange
  BY DEF IInv, PathIsThere, WaypointInRange, Servicing
<1> QED
  BY <1>1, InvariantHolds, PTL

\* No request is lost or applied to the path of another, however calls meet the loop, and
\* a path that was refused never takes the place of one that was set after it.
THEOREM RequestsHonoured == Spec => []RequestsAreHonoured
<1>1. IInv => RequestsAreHonoured
  BY DEF IInv, TakenIsTrue, RequestsAreHonoured
<1> QED
  BY <1>1, InvariantHolds, PTL

\* getState() answers what the follower does.
THEOREM StateCurrent == Spec => []StateIsCurrent
<1>1. IInv => StateIsCurrent
  BY DEF IInv
<1> QED
  BY <1>1, InvariantHolds, PTL

-----------------------------------------------------------------------------
(* The follower implements its interface. Two more facts are needed: the     *)
(* command to be sent is for the path that is followed, and whoever sends    *)
(* one has the hands on the wheel.                                           *)

\* The part of the invariant that only the refinement needs.
CommandIsForPath ==
  /\ pc \in {"letGo", "send"} => prevIsEnabled
  /\ pc \in {"decide", "send"} =>
       command = NoPath \/ (command = path /\ activation = "FollowingPath")

\* It holds at first.
LEMMA CommandInit == Init => CommandIsForPath
BY DEF Init, CommandIsForPath

\* Neither the calls nor the steps before the inputs can make a command stale.
LEMMA CommandStep == TypeOK /\ CommandIsForPath /\ [Next]_vars => CommandIsForPath'
<1> SUFFICES ASSUME TypeOK, CommandIsForPath, [Next]_vars PROVE CommandIsForPath'
  OBVIOUS
<1> USE DEF CommandIsForPath,
           requestVars, stateVars, topicVars, pathVars, loopVars, callVars, robotVars
<1>1. CASE \/ \E p \in Paths, now \in BOOLEAN : SetData(p, now)
           \/ ActivateNow
           \/ \E enabled \in BOOLEAN : SetEnabled(enabled)
           \/ EnabledIsPublished \/ StopThread \/ SomebodyDrives
  <2>1. UNCHANGED <<pc, prevIsEnabled, command, path, activation>>
    BY <1>1 DEF SetData, ActivateNow, SetEnabled, EnabledIsPublished, StopThread,
                SomebodyDrives
  <2> QED
    BY <2>1
<1>2. CASE Begin \/ Service \/ SendPath \/ Activate \/ SendActivation \/ Note
  <2>1. pc' \notin {"decide", "letGo", "send"}
    BY <1>2 DEF Begin, Service, SendPath, Activate, SendActivation, Note
  <2> QED
    BY <2>1
<1>3. CASE PublishChanges \/ SendState
  <2>1. pc' \notin {"decide", "letGo", "send"}
    BY <1>3 DEF PublishChanges, SendState
  <2> QED
    BY <2>1
<1>4. CASE GetCommand
  <2>1. pc' = "decide" /\ path' = path
    BY <1>4 DEF GetCommand
  <2>2. command' = NoPath \/ (command' = path /\ activation' = "FollowingPath")
    BY <1>4 DEF GetCommand
  <2> QED
    BY <2>1, <2>2
<1>5. CASE Decide
  <2>1. UNCHANGED <<command, path, activation>> /\ pc = "decide"
    BY <1>5 DEF Decide
  <2>2. pc' \in {"letGo", "send"} => prevIsEnabled'
    BY <1>5 DEF Decide, IsEnabled, BeforeLetGo
  <2> QED
    BY <2>1, <2>2
<1>6. CASE LetGo \/ SendCommand \/ StopVehicle \/ End \/ Fails
  <2>1. pc' \notin {"decide", "letGo", "send"}
    BY <1>6 DEF LetGo, SendCommand, StopVehicle, End, Fails
  <2> QED
    BY <2>1
<1>7. CASE StopVehicleFails \/ UNCHANGED vars
  <2>1. UNCHANGED <<pc, prevIsEnabled, command, path, activation>>
    BY <1>7 DEF StopVehicleFails, vars
  <2> QED
    BY <2>1
<1> QED
  BY <1>1, <1>2, <1>3, <1>4, <1>5, <1>6, <1>7 DEF Next, MainStep

\* The follower starts as the interface says.
LEMMA PromiseInit == Init => Promise!Init
<1> SUFFICES ASSUME Init PROVE Promise!Init
  OBVIOUS
<1>1. Followed = Standing
  <2>1. ~Servicing /\ (activation \in {"FollowingPath", "FinishedPath"}) = FALSE
    BY DEF Init, Servicing
  <2> QED
    BY <2>1 DEF Init, Followed, Standing
<1> QED
  BY <1>1 DEF Init, Promise!Init, Promise!Nothing, Wheel, Standing

\* What the interface speaks of is unchanged if what it is mapped to is.
LEMMA PromiseStutters ==
  ASSUME UNCHANGED <<wanted, Followed, state.enabled, Wheel, robot>>
  PROVE  UNCHANGED Promise!promiseVars
BY DEF Promise!promiseVars

\* Servicing aside, a path is followed from its activation on.
LEMMA FollowedIsUndisturbed ==
  ASSUME path' = path, Servicing' = Servicing, gotPathActivation' = gotPathActivation,
         activation' = activation
  PROVE  Followed' = Followed
BY DEF Followed

\* Every step of the follower is one of the interface, a departure from it, or none.
LEMMA PromiseStep ==
  ASSUME PathFollowerAssumption, IInv, CommandIsForPath, [Next]_vars
  PROVE  [Promise!Next \/ TakesUpRefused \/ StopsUnasked]_(Promise!promiseVars)
<1> USE DEF requestVars, stateVars, topicVars, pathVars, loopVars, callVars, robotVars
<1>t. TypeOK
  BY DEF IInv
<1>1. ASSUME NEW p \in Paths, NEW now \in BOOLEAN, SetData(p, now)
      PROVE  Promise!Next
  <2>1. Followed' = Followed /\ Wheel' = Wheel
    BY <1>1 DEF SetData, Followed, Wheel, Servicing
  <2>2. CASE p \in Malformed
    <3>1. Promise!Refuse(p)
      BY <1>1, <2>1, <2>2 DEF SetData, AskedFor, Standing, Promise!Refuse, Promise!Nothing
    <3> QED
      BY <3>1 DEF Promise!Next
  <2>3. CASE p \notin Malformed
    <3>1. Promise!SetData(p, now)
      BY <1>1, <2>1, <2>3 DEF SetData, AskedFor, Promise!SetData
    <3> QED
      BY <3>1 DEF Promise!Next
  <2> QED
    BY <2>2, <2>3
<1>2. CASE ActivateNow
  <2>1. Followed' = Followed /\ Wheel' = Wheel
    BY <1>2 DEF ActivateNow, Followed, Wheel, Servicing
  <2>2. CASE wanted.path # NoPath
    <3>1. wanted' = [wanted EXCEPT !.go = TRUE]
      BY <1>2, <2>2 DEF ActivateNow
    <3>2. Promise!ActivateNow
      BY <1>2, <2>1, <2>2, <3>1 DEF ActivateNow, Promise!ActivateNow
    <3> QED
      BY <3>2 DEF Promise!Next
  <2>3. CASE wanted.path = NoPath
    <3>1. pending # NoPath
      BY <1>2 DEF ActivateNow
    <3>2. pending \in Malformed
      BY <2>3, <3>1 DEF IInv, StoreIsTrue
    <3>3. wanted = Standing
      BY <3>2 DEF IInv, StoreIsTrue
    <3>4. wanted' = [wanted EXCEPT !.go = wanted.path # NoPath]
      BY <1>2 DEF ActivateNow
    <3>a. wanted' = [Standing EXCEPT !.go = NoPath # NoPath]
      BY <2>3, <3>3, <3>4
    <3>b. wanted' = Standing
      BY <3>a DEF Standing
    <3>5. wanted' = wanted
      BY <3>3, <3>b
    <3> QED
      BY <1>2, <2>1, <3>5 DEF ActivateNow, Promise!promiseVars
  <2> QED
    BY <2>2, <2>3
<1>3. ASSUME NEW isEnabled \in BOOLEAN, SetEnabled(isEnabled)
      PROVE  Promise!Next
  <2>1. Followed' = Followed /\ Wheel' = Wheel
    BY <1>3 DEF SetEnabled, Followed, Wheel, Servicing
  <2>2. state'.enabled = isEnabled
    BY <1>3, <1>t DEF SetEnabled, TypeOK, States
  <2>3. Promise!SetEnabled(isEnabled)
    BY <1>3, <2>1, <2>2 DEF SetEnabled, Promise!SetEnabled
  <2> QED
    BY <1>3, <2>3 DEF Promise!Next
<1>4. CASE SomebodyDrives
  <2>1. Followed' = Followed /\ Wheel' = Wheel /\ Wheel = "off"
    BY <1>4 DEF SomebodyDrives, Followed, Wheel, Servicing
  <2>2. Promise!SomebodyDrives
    BY <1>4, <2>1 DEF SomebodyDrives, Promise!SomebodyDrives
  <2> QED
    BY <2>2 DEF Promise!Next
<1>5. CASE Begin
  <2>1. pc = "starting" /\ pc' = "service"
    BY <1>5 DEF Begin
  <2>2. Servicing' = Servicing
    BY <2>1 DEF Servicing
  <2>3. Followed' = Followed
    BY <1>5, <2>2, FollowedIsUndisturbed DEF Begin
  <2>4. Wheel = "off" /\ Wheel' = IF state.enabled THEN "on" ELSE "off"
    BY <1>5 DEF Begin, Wheel
  <2>5. CASE state.enabled
    <3>1. Promise!TakeHold
      BY <1>5, <2>3, <2>4, <2>5 DEF Begin, Promise!TakeHold
    <3> QED
      BY <3>1 DEF Promise!Next
  <2>6. CASE ~state.enabled
    BY <1>5, <2>3, <2>4, <2>6 DEF Begin, Promise!promiseVars
  <2> QED
    BY <2>5, <2>6
<1>6. CASE Service
  <2>1. Wheel' = Wheel
    BY <1>6 DEF Service, Wheel
  <2>2. UNCHANGED <<wanted, state, robot>>
    BY <1>6 DEF Service
  <2>5. CASE pending \in Malformed
    <3>1. haveNewPath /\ havePendingActivation
      BY <2>5 DEF IInv, StoreIsTrue
    <3>2. path' = pending /\ Servicing' /\ gotPathActivation' = TRUE
      BY <1>6, <3>1 DEF Service, Servicing
    <3>3. Followed' = [path |-> pending, go |-> TRUE]
      BY <3>2 DEF Followed
    <3>4. TakesUpRefused
      BY <2>1, <2>2, <2>5, <3>3 DEF TakesUpRefused
    <3> QED
      BY <3>4
  <2>3. CASE (haveNewPath \/ havePendingActivation) /\ pending \notin Malformed
    <3>1. path' = wanted.path
      BY <1>6, <2>3 DEF Service, IInv, StoreIsTrue
    <3>2. Servicing'
      BY <1>6, <2>3 DEF Service, Servicing
    <3>3. gotPathActivation' = wanted.go
      BY <1>6, <2>3 DEF Service, IInv, StoreIsTrue
    <3>4. wanted = [path |-> wanted.path, go |-> wanted.go]
      BY <1>t DEF TypeOK
    <3>5. Followed' = wanted
      BY <3>1, <3>2, <3>3, <3>4 DEF Followed
    <3>6. Promise!TakeUp
      BY <2>1, <2>2, <3>5 DEF Promise!TakeUp
    <3> QED
      BY <3>6 DEF Promise!Next
  <2>4. CASE ~haveNewPath /\ ~havePendingActivation
    <3>1. ~Servicing /\ ~Servicing' /\ path' = path /\ activation' = activation
      BY <1>6, <2>4 DEF Service, Servicing
    <3>2. Followed' = Followed
      BY <3>1 DEF Followed
    <3> QED
      BY <2>1, <2>2, <3>2 DEF Promise!promiseVars
  <2> QED
    BY <2>3, <2>4, <2>5
<1>7. CASE SendPath \/ Activate \/ SendActivation
  <2>1. Servicing' = Servicing /\ Wheel' = Wheel
    BY <1>7 DEF SendPath, Activate, SendActivation, Servicing, Wheel
  <2>2. UNCHANGED <<wanted, robot, path, gotPathActivation, activation>>
    BY <1>7 DEF SendPath, Activate, SendActivation
  <2>3. state'.enabled = state.enabled
    BY <1>7, <1>t DEF SendPath, Activate, SendActivation, TypeOK, States
  <2> QED
    BY <2>1, <2>2, <2>3, FollowedIsUndisturbed DEF Promise!promiseVars
<1>8. CASE Note
  <2>1. Servicing /\ ~Servicing' /\ Wheel' = Wheel
    BY <1>8 DEF Note, Servicing, Wheel
  <2>2. (activation' \in {"FollowingPath", "FinishedPath"}) = gotPathActivation
    BY <1>8, <1>t DEF Note, TypeOK
  <2>3. Followed' = Followed
    BY <1>8, <2>1, <2>2 DEF Note, Followed
  <2> QED
    BY <1>8, <2>1, <2>3 DEF Note, Promise!promiseVars
<1>9. CASE PublishChanges \/ SendState
  <2>1. Servicing' = Servicing /\ Wheel' = Wheel
    BY <1>9 DEF PublishChanges, SendState, Servicing, Wheel
  <2>2. UNCHANGED <<wanted, robot, path, gotPathActivation, activation>>
    BY <1>9 DEF PublishChanges, SendState
  <2>3. state'.enabled = state.enabled
    BY <1>9, <1>t DEF PublishChanges, SendState, TypeOK, States
  <2> QED
    BY <2>1, <2>2, <2>3, FollowedIsUndisturbed DEF Promise!promiseVars
<1>10. CASE GetCommand
  <2>1. ~Servicing /\ ~Servicing' /\ Wheel' = Wheel
    BY <1>10 DEF GetCommand, Servicing, Wheel
  <2>2. (activation' \in {"FollowingPath", "FinishedPath"})
        = (activation \in {"FollowingPath", "FinishedPath"})
    BY <1>10 DEF GetCommand
  <2>3. UNCHANGED <<wanted, robot, path, gotPathActivation, state>>
    BY <1>10 DEF GetCommand
  <2>4. Followed' = Followed
    BY <2>1, <2>2, <2>3 DEF Followed
  <2> QED
    BY <2>1, <2>3, <2>4 DEF Promise!promiseVars
<1>11. CASE Decide
  <2>1. /\ UNCHANGED <<wanted, robot, path, gotPathActivation, activation, state>>
        /\ pc = "decide" /\ pc' \in {"letGo", "send", "service"}
    BY <1>11 DEF Decide
  <2>2. Servicing' = Servicing
    BY <2>1 DEF Servicing
  <2>3. Followed' = Followed
    BY <2>1, <2>2, FollowedIsUndisturbed
  <2>4. CASE prevIsEnabled /\ ~state.enabled
    <3>1. Wheel = "on" /\ Wheel' = "leaving"
      BY <1>11, <2>4 DEF Decide, IsEnabled, BeforeLetGo, Wheel
    <3>2. Promise!Leave
      BY <2>1, <2>3, <2>4, <3>1 DEF Promise!Leave
    <3> QED
      BY <3>2 DEF Promise!Next
  <2>5. CASE ~prevIsEnabled /\ state.enabled
    <3>1. Wheel = "off" /\ Wheel' = "on"
      BY <1>11, <2>5 DEF Decide, IsEnabled, Wheel
    <3>2. Promise!TakeHold
      BY <2>1, <2>3, <2>5, <3>1 DEF Promise!TakeHold
    <3> QED
      BY <3>2 DEF Promise!Next
  <2>6. CASE prevIsEnabled /\ state.enabled
    <3>1. Wheel' = Wheel
      BY <1>11, <2>6 DEF Decide, IsEnabled, Wheel
    <3> QED
      BY <2>1, <2>3, <3>1 DEF Promise!promiseVars
  <2>7. CASE ~prevIsEnabled /\ ~state.enabled
    <3>1. Wheel' = Wheel
      BY <1>11, <2>7 DEF Decide, IsEnabled, Wheel
    <3> QED
      BY <2>1, <2>3, <3>1 DEF Promise!promiseVars
  <2> QED
    BY <2>4, <2>5, <2>6, <2>7
<1>12. CASE LetGo
  <2>1. /\ UNCHANGED <<wanted, path, gotPathActivation, activation, state>>
        /\ pc = "letGo" /\ pc' = "service" /\ robot' = NoPath
    BY <1>12 DEF LetGo
  <2>2. Servicing' = Servicing
    BY <2>1 DEF Servicing
  <2>3. Followed' = Followed
    BY <2>1, <2>2, FollowedIsUndisturbed
  <2>4. Wheel = "leaving" /\ Wheel' = "off"
    BY <1>12 DEF LetGo, Wheel, CommandIsForPath
  <2>5. Promise!LetGo
    BY <2>1, <2>3, <2>4 DEF Promise!LetGo
  <2> QED
    BY <2>5 DEF Promise!Next
<1>13. CASE SendCommand
  <2>1. /\ UNCHANGED <<wanted, path, gotPathActivation, activation, state, prevIsEnabled>>
        /\ pc = "send" /\ pc' = "service" /\ robot' = command
    BY <1>13 DEF SendCommand
  <2>2. ~Servicing /\ Servicing' = Servicing
    BY <2>1 DEF Servicing
  <2>3. Followed' = Followed
    BY <2>1, <2>2, FollowedIsUndisturbed
  <2>4. Wheel = "on" /\ Wheel' = "on"
    BY <2>1 DEF Wheel, CommandIsForPath
  <2>5. robot' = NoPath \/ (Followed.go /\ robot' = Followed.path)
    BY <2>1, <2>2 DEF CommandIsForPath, Followed
  <2>6. Promise!Drive
    BY <2>1, <2>3, <2>4, <2>5 DEF Promise!Drive
  <2> QED
    BY <2>6 DEF Promise!Next
<1>14. CASE Fails
  <2>1. /\ UNCHANGED <<wanted, robot, path, gotPathActivation, activation, state,
                       prevIsEnabled>>
        /\ pc \in {"inputs", "decide", "letGo", "send"}
        /\ pc' \in {"stopVehicle", "service"}
    BY <1>14 DEF Fails
  <2>2. Servicing' = Servicing
    BY <2>1 DEF Servicing
  <2>3. Followed' = Followed
    BY <2>1, <2>2, FollowedIsUndisturbed
  <2>4. CASE pc = "letGo"
    <3>1. Wheel = "leaving" /\ Wheel' = "on"
      BY <2>1, <2>4 DEF Wheel, CommandIsForPath
    <3>2. Promise!Remain
      BY <2>1, <2>3, <3>1 DEF Promise!Remain
    <3> QED
      BY <3>2 DEF Promise!Next
  <2>5. CASE pc # "letGo"
    <3>1. Wheel' = Wheel
      BY <2>1, <2>5 DEF Wheel
    <3> QED
      BY <2>1, <2>3, <3>1 DEF Promise!promiseVars
  <2> QED
    BY <2>4, <2>5
<1>15. CASE StopVehicle
  <2>1. /\ UNCHANGED <<wanted, path, gotPathActivation, activation, state, prevIsEnabled>>
        /\ pc = "stopVehicle" /\ pc' = "service"
        /\ (robot' = NoPath) \/ (robot' = robot)
    BY <1>15 DEF StopVehicle
  <2>2. Servicing' = Servicing
    BY <2>1 DEF Servicing
  <2>3. Followed' = Followed /\ Wheel' = Wheel
    BY <2>1, <2>2, FollowedIsUndisturbed DEF Wheel
  <2>4. Wheel \in {"on", "off"}
    BY <2>1 DEF Wheel
  <2>5. CASE robot' = NoPath /\ Wheel = "on"
    <3>1. Promise!Drive
      BY <2>1, <2>3, <2>5 DEF Promise!Drive
    <3> QED
      BY <3>1 DEF Promise!Next
  <2>6. CASE robot' = NoPath /\ Wheel = "off"
    <3>1. StopsUnasked
      BY <2>1, <2>3, <2>6 DEF StopsUnasked
    <3> QED
      BY <3>1
  <2>7. CASE robot' = robot
    BY <2>1, <2>3, <2>7 DEF Promise!promiseVars
  <2> QED
    BY <2>1, <2>4, <2>5, <2>6, <2>7
<1>16. CASE EnabledIsPublished \/ StopThread \/ StopVehicleFails \/ End \/ UNCHANGED vars
  <2>1. UNCHANGED <<wanted, robot, path, gotPathActivation, activation, state,
                    prevIsEnabled>>
    BY <1>16 DEF EnabledIsPublished, StopThread, StopVehicleFails, End, vars
  <2>2. pc' = pc \/ (pc = "service" /\ pc' = "over")
    BY <1>16 DEF EnabledIsPublished, StopThread, StopVehicleFails, End, vars
  <2>3. Servicing' = Servicing /\ Wheel' = Wheel
    BY <2>1, <2>2 DEF Servicing, Wheel
  <2> QED
    BY <2>1, <2>3, FollowedIsUndisturbed DEF Promise!promiseVars
<1> QED
  BY <1>1, <1>2, <1>3, <1>4, <1>5, <1>6, <1>7, <1>8, <1>9, <1>10, <1>11, <1>12, <1>13,
     <1>14, <1>15, <1>16 DEF Next, MainStep

\* Whatever is called and whatever fails, the follower takes requests up as a whole, sends
\* the robot along the path that it follows then, takes its hands off the wheel by making
\* the robot stand and commands it no more, as pathfollower2d.ice says. Of every step that
\* the interface does not allow it is known which one it is: a path that was refused is
\* taken up, or a failure stops the vehicle of a follower that has let go.
THEOREM FollowerDepartsOnlyAsRecorded == Spec => DepartsOnlyAsRecorded
<1>1. Init => CommandIsForPath
  BY CommandInit
<1>2. IInv /\ CommandIsForPath /\ [Next]_vars => CommandIsForPath'
  BY CommandStep DEF IInv
<1>3. Spec => []CommandIsForPath
  BY <1>1, <1>2, InvariantHolds, PTL DEF Spec
<1>4. Init => Promise!Init
  BY PromiseInit
<1>5. IInv /\ CommandIsForPath /\ [Next]_vars
      => [Promise!Next \/ TakesUpRefused \/ StopsUnasked]_(Promise!promiseVars)
  BY PromiseStep, PathFollowerAssumption
<1> QED
  BY <1>3, <1>4, <1>5, InvariantHolds, PTL DEF Spec, DepartsOnlyAsRecorded

\* The interface has it that the follower lets go of a robot that stands, and neither
\* departure changes that.
LEMMA InterfaceLetsGo ==
  ASSUME NoPath \notin Paths, Other \notin Paths
  PROVE  DepartsOnlyAsRecorded => []Promise!HandsOff
<1>1. Promise!Init => Promise!HandsOff
  BY DEF Promise!Init, Promise!HandsOff
<1>2. /\ Promise!HandsOff
      /\ [Promise!Next \/ TakesUpRefused \/ StopsUnasked]_(Promise!promiseVars)
      => Promise!HandsOff'
  <2> SUFFICES ASSUME Promise!HandsOff,
                      [Promise!Next \/ TakesUpRefused \/ StopsUnasked]_(Promise!promiseVars)
               PROVE  Promise!HandsOff'
    OBVIOUS
  <2> USE DEF Promise!HandsOff
  <2>1. ASSUME \/ \E p \in Paths, go \in BOOLEAN : Promise!SetData(p, go)
               \/ \E p \in Paths : Promise!Refuse(p)
               \/ Promise!ActivateNow \/ Promise!TakeUp \/ TakesUpRefused
               \/ \E isEnabled \in BOOLEAN : Promise!SetEnabled(isEnabled)
               \/ UNCHANGED Promise!promiseVars
        PROVE  UNCHANGED <<Wheel, robot>>
    BY <2>1 DEF Promise!SetData, Promise!Refuse, Promise!ActivateNow, Promise!TakeUp,
                TakesUpRefused, Promise!SetEnabled, Promise!promiseVars
  <2>2. ASSUME Promise!TakeHold \/ Promise!Leave \/ Promise!Remain \/ Promise!Drive
        PROVE  Wheel' # "off"
    BY <2>2 DEF Promise!TakeHold, Promise!Leave, Promise!Remain, Promise!Drive
  <2>3. ASSUME Promise!LetGo \/ StopsUnasked \/ Promise!SomebodyDrives
        PROVE  robot' \in {NoPath, Other}
    BY <2>3 DEF Promise!LetGo, StopsUnasked, Promise!SomebodyDrives
  <2> QED
    BY <2>1, <2>2, <2>3 DEF Promise!Next
<1> QED
  BY <1>1, <1>2, PTL DEF DepartsOnlyAsRecorded

\* A follower that has noted that it is disabled has taken its hands off the wheel: the
\* robot stands or is driven by somebody else. It follows from the interface and from what
\* the departures leave alone.
THEOREM FollowerLetsGo == Spec => []HandsOffTheWheel
<1>1. NoPath \notin Paths /\ Other \notin Paths
  BY PathFollowerAssumption
<1>2. DepartsOnlyAsRecorded => []Promise!HandsOff
  BY <1>1, InterfaceLetsGo
<1>3. Promise!HandsOff => HandsOffTheWheel
  BY <1>1 DEF Promise!HandsOff, HandsOffTheWheel, Wheel
<1> QED
  BY <1>2, <1>3, FollowerDepartsOnlyAsRecorded, PTL

\* The robot is only sent along the path that is followed then, by a follower that has
\* its hands on the wheel: no command outlives the path it was worked out for.
THEOREM CommandsAreForThePath == Spec => CommandsFollowThePath
<1>1. Spec => []CommandIsForPath
  <2>1. IInv /\ CommandIsForPath /\ [Next]_vars => CommandIsForPath'
    BY CommandStep DEF IInv
  <2> QED
    BY <2>1, CommandInit, InvariantHolds, PTL DEF Spec
<1>2. CommandIsForPath /\ [Next]_vars
      => [robot' # robot /\ robot' \in Paths =>
            prevIsEnabled /\ activation = "FollowingPath" /\ robot' = path]_vars
  <2> SUFFICES ASSUME CommandIsForPath, [Next]_vars, robot' # robot, robot' \in Paths
               PROVE  prevIsEnabled /\ activation = "FollowingPath" /\ robot' = path
    OBVIOUS
  <2>1. SendCommand
    <3>1. ASSUME \/ \E p \in Paths, now \in BOOLEAN : SetData(p, now)
                 \/ ActivateNow
                 \/ \E enabled \in BOOLEAN : SetEnabled(enabled)
                 \/ EnabledIsPublished \/ StopThread
                 \/ UNCHANGED vars
          PROVE  UNCHANGED robot
      BY <3>1 DEF SetData, ActivateNow, SetEnabled, EnabledIsPublished, StopThread,
                  robotVars, vars
    <3>2. ASSUME \/ Begin \/ Service \/ SendPath \/ Activate \/ SendActivation \/ Note
                 \/ PublishChanges \/ SendState \/ GetCommand \/ Decide \/ End
                 \/ Fails \/ StopVehicleFails
          PROVE  UNCHANGED robot
      BY <3>2 DEF Begin, Service, SendPath, Activate, SendActivation, Note,
                  PublishChanges, SendState, GetCommand, Decide, End, Fails,
                  StopVehicleFails, robotVars
    <3>3. ASSUME LetGo \/ StopVehicle \/ SomebodyDrives
          PROVE  robot' \in {robot, NoPath, Other}
      BY <3>3 DEF LetGo, StopVehicle, SomebodyDrives
    <3> QED
      BY <3>1, <3>2, <3>3, PathFollowerAssumption DEF Next, MainStep, PathFollowerAssumption
  <2> QED
    BY <2>1, PathFollowerAssumption DEF SendCommand, CommandIsForPath, PathFollowerAssumption
<1> QED
  BY <1>1, <1>2, PTL DEF Spec, CommandsFollowThePath

-----------------------------------------------------------------------------
(* GoalPlanner, for any number of callers, requests, time-outs and faults.  *)
(*                                                                          *)
(* The argument: answers come in the order of the tasks, and each wait that *)
(* did not time out took one. The answers still to come therefore lag the   *)
(* task sent last by no more than there were tasks abandoned: by a wait     *)
(* that timed out, or as their sender was told that sending them failed.    *)

\* The sequences over a set are sequences over any larger one.
LEMMA SeqIsMonotone ==
  ASSUME NEW S, NEW T, S \subseteq T, NEW s \in Seq(S)
  PROVE  s \in Seq(T)
OBVIOUS

\* More requests and more tasks leave room for all that was there.
LEMMA DomainsGrow ==
  ASSUME requests \in Seq([empty : BOOLEAN, go : {"go", "stay"}]), sent \in Nat,
         requests' \in Seq([empty : BOOLEAN, go : {"go", "stay"}]), sent' \in Nat,
         Len(requests) <= Len(requests'), sent <= sent'
  PROVE  /\ Requests \subseteq Requests'
         /\ Tasks \subseteq Tasks'
         /\ Answers \subseteq Answers'
         /\ FollowerInputs \subseteq FollowerInputs'
<1>1. Requests \subseteq Requests'
  BY DEF Requests
<1>2. 0..sent \subseteq 0..(sent') /\ 1..sent \subseteq 1..(sent')
  OBVIOUS
<1> QED
  BY <1>1, <1>2 DEF Tasks, Answers, FollowerInputs

\* The initial states satisfy the invariant.
LEMMA PlannerInitHolds == ASSUME GoalPlannerAssumption, GPInit PROVE GPIInv
<1> USE DEF GPInit, GoalPlannerAssumption, NoAnswer
<1>1. GPTypeOK
  <2>1. 0 \in Requests /\ 0 \in 0..sent
    BY DEF Requests
  <2>2. answer \in Answers /\ plan \in Answers /\ follower \in FollowerInputs
    BY <2>1 DEF Answers, FollowerInputs
  <2>3. requests \in Seq([empty : BOOLEAN, go : {"go", "stay"}]) /\ tasks \in Seq(Tasks)
    OBVIOUS
  <2>4. caller \in [Callers -> {"idle", "go", "stay", "pass"}]
    OBVIOUS
  <2>5. /\ Len(requests) <= MaxRequests /\ releases \in 0..MaxReleases /\ sent \in Nat
        /\ timeOuts \in 0..(MaxTimeOuts + MaxFaults) /\ faults \in 0..MaxFaults
        /\ strays \in Nat
    OBVIOUS
  <2> HIDE DEF GoalPlannerAssumption
  <2> QED
    BY <2>1, <2>2, <2>3, <2>4, <2>5 DEF GPTypeOK
<1>2. AnswersInOrder /\ AnswersAreAhead
  BY DEF AnswersInOrder, AnswersAreAhead
<1>3. LostAnswersArePaid
  BY DEF LostAnswersArePaid, IsLost
<1>4. LastTaskIsForGoal /\ PlanLagsByAbandoned
  BY DEF LastTaskIsForGoal, PlanLagsByAbandoned
<1>5. RequestsAreExplained
  BY DEF RequestsAreExplained, Abandoned
<1> QED
  BY <1>1, <1>2, <1>3, <1>4, <1>5 DEF GPIInv

\* Only a caller that sets a path adds to the requests, and only setTask() to the tasks.
LEMMA PlannerCounts ==
  ASSUME GoalPlannerAssumption, GPTypeOK, [GPNext]_gpVars
  PROVE  /\ requests' \in Seq([empty : BOOLEAN, go : {"go", "stay"}])
         /\ Len(requests') <= MaxRequests
         /\ Len(requests) <= Len(requests')
         /\ sent' \in Nat
         /\ sent <= sent'
<1> USE DEF GPTypeOK, storeVars, callerVars, mainVars, plannerVars,
            faultVars
<1>1. ASSUME NEW c \in Callers, NEW empty \in BOOLEAN, NEW go \in {"go", "stay"},
             SetPath(c, empty, go)
      PROVE  /\ requests' \in Seq([empty : BOOLEAN, go : {"go", "stay"}])
             /\ Len(requests') <= MaxRequests /\ Len(requests) <= Len(requests')
             /\ UNCHANGED sent
  <2>1. [empty |-> empty, go |-> go] \in [empty : BOOLEAN, go : {"go", "stay"}]
    BY <1>1
  <2>2. /\ requests' = Append(requests, [empty |-> empty, go |-> go])
        /\ Len(requests) < MaxRequests /\ UNCHANGED sent
    BY <1>1 DEF SetPath
  <2>3. Len(requests') = Len(requests) + 1
    BY <2>1, <2>2
  <2>4. MaxRequests \in Nat
    BY DEF GoalPlannerAssumption
  <2> QED
    BY <2>1, <2>2, <2>3, <2>4
<1>2. ASSUME NEW c \in Callers, GPActivateNow(c) \/ CallerStep(c) \/ PassFails(c)
      PROVE  UNCHANGED <<requests, sent>>
  BY <1>2 DEF GPActivateNow, CallerStep, SetActivation, PassActivation, PassFails
<1>3. CASE SetTask \/ SetTaskUnanswered
  BY <1>3 DEF SetTask, SetTaskUnanswered, Push
<1>4. ASSUME Take \/ StopRobot \/ Receive \/ GetActivation \/ GPSendPath
      PROVE  UNCHANGED <<requests, sent>>
  BY <1>4 DEF Take, StopRobot, Receive, GetActivation, GPSendPath
<1>5. ASSUME TakenFails \/ StopRobotUnanswered \/ TimeOut \/ SendUncertainPath \/ SendFails
      PROVE  UNCHANGED <<requests, sent>>
  BY <1>5 DEF TakenFails, StopRobotUnanswered, TimeOut, SendUncertainPath, SendFails
<1>6. ASSUME Plan \/ PlanFails PROVE UNCHANGED <<requests, sent>>
  BY <1>6 DEF Plan, PlanFails
<1>7. CASE UNCHANGED gpVars
  BY <1>7 DEF gpVars
<1> QED
  BY <1>1, <1>2, <1>3, <1>4, <1>5, <1>6, <1>7 DEF GPNext, GPMainStep

\* Every step keeps the types; the bound of the time-outs rests on LostAnswersArePaid.
LEMMA PlannerTypesStep ==
  ASSUME GoalPlannerAssumption, GPTypeOK, LostAnswersArePaid, [GPNext]_gpVars
  PROVE  GPTypeOK'
<1>1. /\ requests' \in Seq([empty : BOOLEAN, go : {"go", "stay"}])
      /\ Len(requests') <= MaxRequests
      /\ sent' \in Nat
  BY PlannerCounts
<1>2. /\ goal \in Requests'
      /\ tasks \in Seq(Tasks')
      /\ answer \in Answers' /\ plan \in Answers'
      /\ follower \in FollowerInputs'
  <2>1. /\ Requests \subseteq Requests' /\ Tasks \subseteq Tasks'
        /\ Answers \subseteq Answers' /\ FollowerInputs \subseteq FollowerInputs'
    BY PlannerCounts, DomainsGrow DEF GPTypeOK
  <2>2. tasks \in Seq(Tasks')
    BY <2>1, SeqIsMonotone DEF GPTypeOK
  <2> QED
    BY <2>1, <2>2 DEF GPTypeOK
<1>3. /\ unread \in BOOLEAN /\ activationStore \in {"none", "go", "stay"}
      /\ caller \in [Callers -> {"idle", "go", "stay", "pass"}]
      /\ releases \in 0..MaxReleases
      /\ mainPc \in {"waiting", "taken", "planning", "planned", "sending"}
      /\ requestIsOutstanding \in BOOLEAN /\ fresh \in BOOLEAN /\ given \in BOOLEAN
      /\ activateImmediately \in {"go", "stay"}
      /\ timeOuts \in 0..(MaxTimeOuts + MaxFaults) /\ faults \in 0..MaxFaults
      /\ strays \in Nat
  BY DEF GPTypeOK
<1> USE <1>1, <1>2, <1>3 DEF storeVars, callerVars, mainVars, plannerVars,
        faultVars
<1>4. ASSUME NEW c \in Callers, NEW empty \in BOOLEAN, NEW go \in {"go", "stay"},
             SetPath(c, empty, go)
      PROVE  GPTypeOK'
  <2>1. caller' \in [Callers -> {"idle", "go", "stay", "pass"}]
    BY <1>4 DEF SetPath
  <2> QED
    BY <1>4, <2>1 DEF SetPath, GPTypeOK
<1>5. ASSUME NEW c \in Callers, SetActivation(c) PROVE GPTypeOK'
  <2>1. caller' \in [Callers -> {"idle", "go", "stay", "pass"}]
    BY <1>5 DEF SetActivation
  <2> QED
    BY <1>5, <2>1 DEF SetActivation, GPTypeOK
<1>6. ASSUME NEW c \in Callers, GPActivateNow(c) PROVE GPTypeOK'
  <2>1. caller' \in [Callers -> {"idle", "go", "stay", "pass"}]
    BY <1>6 DEF GPActivateNow
  <2>2. releases' \in 0..MaxReleases
    BY <1>6 DEF GPActivateNow, GoalPlannerAssumption
  <2> QED
    BY <1>6, <2>1, <2>2 DEF GPActivateNow, GPTypeOK
<1>7. ASSUME NEW c \in Callers, PassActivation(c) PROVE GPTypeOK'
  <2>1. caller' \in [Callers -> {"idle", "go", "stay", "pass"}]
    BY <1>7 DEF PassActivation
  <2>2. follower' \in FollowerInputs'
    BY <1>7 DEF PassActivation, FollowerInputs
  <2> QED
    BY <1>7, <2>1, <2>2 DEF PassActivation, GPTypeOK
<1>8. CASE Take
  <2>1. goal' \in Requests'
    BY <1>8 DEF Take, Newest, Requests, GPTypeOK
  <2> QED
    BY <1>8, <2>1 DEF Take, GPTypeOK
<1>9. CASE StopRobot
  <2>1. follower' \in FollowerInputs'
    BY <1>9 DEF StopRobot, Stop, FollowerInputs
  <2> QED
    BY <1>9, <2>1 DEF StopRobot, Served, GPTypeOK
<1>10. CASE SetTask
  <2>1. [task |-> sent', goal |-> goal] \in Tasks'
    BY <1>10 DEF SetTask, Push, Tasks, GPTypeOK
  <2>2. tasks' \in Seq(Tasks')
    BY <1>10, <2>1 DEF SetTask, Push
  <2> QED
    BY <1>10, <2>2 DEF SetTask, GPTypeOK
<1>11. CASE Receive
  <2>1. fresh' \in BOOLEAN
    BY <1>11 DEF Receive, Read
  <2>2. /\ mainPc' \in {"planned", "waiting"} /\ plan' \in Answers'
        /\ requestIsOutstanding' = requestIsOutstanding /\ given' = given
    BY <1>11 DEF Receive, TriedAgain
  <2> QED
    BY <1>11, <2>1, <2>2 DEF Receive, GPTypeOK
<1>12. CASE GetActivation
  <2>1. /\ mainPc' \in {"sending", "waiting"} /\ requestIsOutstanding' \in BOOLEAN
        /\ given' \in BOOLEAN
    BY <1>12 DEF GetActivation, GivenUp
  <2>2. activateImmediately' \in {"go", "stay"}
    BY <1>12 DEF GetActivation, HasActivation
  <2> QED
    BY <1>12, <2>1, <2>2 DEF GetActivation, GPTypeOK
<1>13. CASE GPSendPath \/ SendUncertainPath
  <2>1. follower' \in FollowerInputs'
    BY <1>13 DEF GPSendPath, SendUncertainPath, Send, FollowerInputs, Answers
  <2>2. faults' \in 0..MaxFaults
    BY <1>13 DEF GPSendPath, SendUncertainPath, Fault, GoalPlannerAssumption
  <2>3. /\ mainPc' = "waiting" /\ requestIsOutstanding' \in BOOLEAN
        /\ UNCHANGED <<given, timeOuts>>
    BY <1>13 DEF GPSendPath, SendUncertainPath, Fault, Served, TriedAgain
  <2> QED
    BY <1>13, <2>1, <2>2, <2>3 DEF GPSendPath, SendUncertainPath, GPTypeOK
<1>14. CASE TakenFails \/ SendFails
  <2>1. faults' \in 0..MaxFaults
    BY <1>14 DEF TakenFails, SendFails, Fault, GoalPlannerAssumption
  <2>2. /\ mainPc' = "waiting" /\ requestIsOutstanding' \in BOOLEAN /\ given' \in BOOLEAN
        /\ UNCHANGED timeOuts
    BY <1>14 DEF TakenFails, SendFails, Fault, GivenUp, TriedAgain
  <2>3. follower' \in FollowerInputs'
    BY <1>14 DEF TakenFails, SendFails, Send, FollowerInputs, Answers
  <2> QED
    BY <1>14, <2>1, <2>2, <2>3 DEF TakenFails, SendFails, GPTypeOK
<1>15. CASE TimeOut
  <2>1. timeOuts' \in 0..(MaxTimeOuts + MaxFaults)
    BY <1>15 DEF TimeOut, LostAnswersArePaid, IsLost, GoalPlannerAssumption
  <2>2. mainPc' = "waiting" /\ requestIsOutstanding' = FALSE /\ given' = TRUE
    BY <1>15 DEF TimeOut, GivenUp
  <2> QED
    BY <1>15, <2>1, <2>2 DEF TimeOut, GPTypeOK
<1>16. CASE Plan
  <2>1. Head(tasks) \in Tasks' /\ tasks' \in Seq(Tasks')
    BY <1>16 DEF Plan
  <2>2. answer' \in Answers'
    <3>1. Head(tasks).task \in 0..(sent') /\ Head(tasks).goal \in Requests'
      BY <2>1 DEF Tasks
    <3>2. PICK ok \in BOOLEAN :
            answer' = [task |-> Head(tasks).task, goal |-> Head(tasks).goal, ok |-> ok]
      BY <1>16 DEF Plan
    <3> QED
      BY <3>1, <3>2 DEF Answers
  <2>3. faults' \in 0..MaxFaults /\ UNCHANGED <<timeOuts, strays, given>>
    BY <1>16 DEF Plan, Fault, GoalPlannerAssumption
  <2> QED
    BY <1>16, <2>1, <2>2, <2>3 DEF Plan, GPTypeOK
<1>17. CASE PlanFails
  <2>1. tasks' \in Seq(Tasks')
    BY <1>17 DEF PlanFails
  <2>2. faults' \in 0..MaxFaults /\ UNCHANGED timeOuts
    BY <1>17 DEF PlanFails, Fault, GoalPlannerAssumption
  <2> QED
    BY <1>17, <2>1, <2>2 DEF PlanFails, GPTypeOK
<1>18. CASE StopRobotUnanswered
  <2>1. follower' \in FollowerInputs'
    BY <1>18 DEF StopRobotUnanswered, Stop, FollowerInputs
  <2>2. faults' \in 0..MaxFaults
    BY <1>18 DEF StopRobotUnanswered, Fault, GoalPlannerAssumption
  <2> QED
    BY <1>18, <2>1, <2>2 DEF StopRobotUnanswered, Fault, GivenUp, GPTypeOK
<1>19. CASE SetTaskUnanswered
  <2>1. [task |-> sent', goal |-> goal] \in Tasks'
    BY <1>19 DEF SetTaskUnanswered, Push, Tasks, GPTypeOK
  <2>2. tasks' \in Seq(Tasks')
    BY <1>19, <2>1 DEF SetTaskUnanswered, Push
  <2>3. faults' \in 0..MaxFaults /\ strays' \in Nat
    BY <1>19 DEF SetTaskUnanswered, Fault, GoalPlannerAssumption
  <2> QED
    BY <1>19, <2>2, <2>3 DEF SetTaskUnanswered, Fault, GivenUp, GPTypeOK
<1>20. ASSUME NEW c \in Callers, PassFails(c) PROVE GPTypeOK'
  <2>1. caller' \in [Callers -> {"idle", "go", "stay", "pass"}]
    BY <1>20 DEF PassFails
  <2>2. faults' \in 0..MaxFaults
    BY <1>20 DEF PassFails, GoalPlannerAssumption
  <2> QED
    BY <1>20, <2>1, <2>2 DEF PassFails, GPTypeOK
<1>21. CASE UNCHANGED gpVars
  BY <1>21 DEF gpVars, GPTypeOK
<1> QED
  BY <1>4, <1>5, <1>6, <1>7, <1>8, <1>9, <1>10, <1>11, <1>12, <1>13, <1>14, <1>15,
     <1>16, <1>17, <1>18, <1>19, <1>20, <1>21 DEF GPNext, GPMainStep, CallerStep

\* No other steps touch the tasks, the answers or the wait for them.
LEMMA WaitIsUndisturbed ==
  ASSUME [GPNext]_gpVars,
         ~SetTask, ~SetTaskUnanswered, ~Receive, ~TimeOut, ~Plan, ~PlanFails
  PROVE  /\ UNCHANGED <<sent, tasks, answer, fresh, timeOuts, strays, Waits>>
         /\ mainPc' = "planning" <=> mainPc = "planning"
         /\ faults' = faults \/ faults' = faults + 1
<1> USE DEF storeVars, callerVars, mainVars, plannerVars, faultVars
<1>1. ASSUME NEW c \in Callers, NEW empty \in BOOLEAN, NEW go \in {"go", "stay"},
             SetPath(c, empty, go)
      PROVE  UNCHANGED <<sent, tasks, answer, fresh, timeOuts, strays, mainPc, faults>>
  BY <1>1 DEF SetPath
<1>2. ASSUME NEW c \in Callers, GPActivateNow(c) \/ CallerStep(c)
      PROVE  UNCHANGED <<sent, tasks, answer, fresh, timeOuts, strays, mainPc, faults>>
  BY <1>2 DEF GPActivateNow, CallerStep, SetActivation, PassActivation
<1>3. ASSUME Take \/ StopRobot \/ GetActivation \/ GPSendPath
      PROVE  /\ UNCHANGED <<sent, tasks, answer, fresh, timeOuts, strays, faults>>
             /\ mainPc' # "planning" /\ mainPc # "planning"
  BY <1>3 DEF Take, StopRobot, GetActivation, GPSendPath, Served, GivenUp
<1>4. ASSUME TakenFails \/ StopRobotUnanswered \/ SendUncertainPath \/ SendFails
      PROVE  /\ UNCHANGED <<sent, tasks, answer, fresh, timeOuts, strays>>
             /\ faults' = faults + 1
             /\ mainPc' # "planning" /\ mainPc # "planning"
  BY <1>4 DEF TakenFails, StopRobotUnanswered, SendUncertainPath, SendFails, Fault, GivenUp,
              TriedAgain
<1>5. CASE UNCHANGED gpVars
  BY <1>5 DEF gpVars, Waits
<1>6. ASSUME NEW c \in Callers, PassFails(c)
      PROVE  /\ UNCHANGED <<sent, tasks, answer, fresh, timeOuts, strays, mainPc>>
             /\ faults' = faults + 1
  BY <1>6 DEF PassFails
<1> QED
  BY <1>1, <1>2, <1>3, <1>4, <1>5, <1>6 DEF GPNext, GPMainStep, Waits

\* PathPlanner takes the first task, and answers it or fails.
LEMMA PlanTakesHead ==
  ASSUME Plan \/ PlanFails
  PROVE  /\ tasks # <<>> /\ tasks' = Tail(tasks)
         /\ UNCHANGED <<storeVars, mainVars, sent, timeOuts, strays, given, follower>>
         /\ \/ /\ fresh' = TRUE
               /\ answer'.task = Head(tasks).task /\ answer'.goal = Head(tasks).goal
               /\ faults' = faults \/ faults' = faults + 1
            \/ UNCHANGED <<fresh, answer>> /\ faults' = faults + 1
<1>1. CASE Plan
  <2>1. PICK ok \in BOOLEAN :
          /\ answer' = [task |-> Head(tasks).task, goal |-> Head(tasks).goal, ok |-> ok]
          /\ UNCHANGED faultVars \/ (Fault /\ UNCHANGED <<strays, given>>)
    BY <1>1 DEF Plan
  <2>2. answer'.task = Head(tasks).task /\ answer'.goal = Head(tasks).goal
    BY <2>1
  <2>3. UNCHANGED <<timeOuts, strays, given>> /\ (faults' = faults \/ faults' = faults + 1)
    BY <2>1 DEF faultVars, Fault
  <2> QED
    BY <1>1, <2>2, <2>3 DEF Plan
<1>2. CASE PlanFails
  BY <1>2 DEF PlanFails, Fault
<1> QED
  BY <1>1, <1>2

\* What the planner takes off the queue is ahead of what it leaves there.
LEMMA HeadComesFirst ==
  ASSUME GPTypeOK, AnswersInOrder, tasks # <<>>, tasks' = Tail(tasks)
  PROVE  /\ Len(tasks') = Len(tasks) - 1
         /\ 1 \in 1..Len(tasks) /\ Head(tasks) = tasks[1]
         /\ \A i \in 1..Len(tasks') : i + 1 \in 1..Len(tasks) /\ tasks'[i] = tasks[i + 1]
         /\ \A i \in 1..Len(tasks') : Head(tasks).task < tasks'[i].task
<1>1. tasks \in Seq(Tasks)
  BY DEF GPTypeOK
<1>2. /\ Len(tasks') = Len(tasks) - 1
      /\ 1 \in 1..Len(tasks) /\ Head(tasks) = tasks[1]
      /\ \A i \in 1..Len(tasks') : i + 1 \in 1..Len(tasks) /\ tasks'[i] = tasks[i + 1]
  BY <1>1
<1>3. \A i \in 1..Len(tasks') : 1 < i + 1
  BY <1>1, <1>2
<1> QED
  BY <1>2, <1>3 DEF AnswersInOrder

\* The tasks and the answers have numbers.
LEMMA TasksAreNumbers ==
  ASSUME GPTypeOK
  PROVE  /\ \A i \in 1..Len(tasks) : tasks[i] \in Tasks /\ tasks[i].task \in 1..sent
         /\ answer.task \in 0..sent /\ plan.task \in 0..sent
         /\ sent \in Nat /\ Len(tasks) \in Nat
         /\ timeOuts \in Nat /\ faults \in Nat /\ strays \in Nat
         /\ Waits \in 0..1
<1>1. \A i \in 1..Len(tasks) : tasks[i] \in Tasks
  BY DEF GPTypeOK
<1> QED
  BY <1>1 DEF GPTypeOK, Tasks, Answers, Waits

\* Every step keeps the order of the answers.
LEMMA OrderStep ==
  ASSUME GPTypeOK, AnswersInOrder, [GPNext]_gpVars
  PROVE  AnswersInOrder'
<1> USE TasksAreNumbers DEF AnswersInOrder
<1>1. CASE SetTask \/ SetTaskUnanswered
  <2>1. /\ tasks' = Append(tasks, [task |-> sent + 1, goal |-> goal])
        /\ UNCHANGED <<answer, fresh>>
    BY <1>1 DEF SetTask, SetTaskUnanswered, Push
  <2>2. /\ Len(tasks') = Len(tasks) + 1
        /\ \A i \in 1..Len(tasks) : tasks'[i] = tasks[i] /\ tasks'[i].task < sent + 1
        /\ tasks'[Len(tasks) + 1].task = sent + 1
    BY <2>1 DEF GPTypeOK
  <2>3. \A i \in 1..Len(tasks') : i \in 1..Len(tasks) \/ i = Len(tasks) + 1
    BY <2>2
  <2>4. \A i, j \in 1..Len(tasks') : i < j => i \in 1..Len(tasks)
    BY <2>2
  <2>5. \A i, j \in 1..Len(tasks') : i < j => tasks'[i].task < tasks'[j].task
    BY <2>2, <2>3, <2>4
  <2>6. fresh' => \A i \in 1..Len(tasks') : answer'.task < tasks'[i].task
    BY <2>1, <2>2, <2>3
  <2> QED
    BY <2>5, <2>6
<1>2. CASE Receive \/ TimeOut
  <2>1. UNCHANGED tasks /\ (fresh' => fresh /\ UNCHANGED answer)
    BY <1>2 DEF Receive, Read, TimeOut, plannerVars
  <2> QED
    BY <2>1
<1>3. CASE Plan \/ PlanFails
  <2>1. tasks # <<>> /\ tasks' = Tail(tasks)
    BY <1>3, PlanTakesHead
  <2>2. fresh' => answer'.task = Head(tasks).task \/ (fresh /\ UNCHANGED answer)
    BY <1>3, PlanTakesHead
  <2> QED
    BY <2>1, <2>2, HeadComesFirst
<1>4. CASE UNCHANGED <<tasks, answer, fresh>>
  BY <1>4
<1> QED
  BY <1>1, <1>2, <1>3, <1>4, WaitIsUndisturbed

\* Every step keeps the answers to come ahead of those that were taken.
LEMMA AheadStep ==
  ASSUME GPTypeOK, AnswersInOrder, AnswersAreAhead, [GPNext]_gpVars
  PROVE  AnswersAreAhead'
<1> USE TasksAreNumbers DEF AnswersAreAhead, IsAhead, Abandoned
<1>1. CASE SetTask \/ SetTaskUnanswered
  <2>1. /\ tasks' = Append(tasks, [task |-> sent + 1, goal |-> goal])
        /\ UNCHANGED <<answer, fresh, timeOuts>> /\ sent' = sent + 1
        /\ Waits = 0
        /\ \/ Waits' = 1 /\ strays' = strays
           \/ Waits' = 0 /\ strays' = strays + 1
    BY <1>1 DEF SetTask, SetTaskUnanswered, Push, Fault, GivenUp, Waits, faultVars
  <2>2. /\ Len(tasks') = Len(tasks) + 1
        /\ \A i \in 1..Len(tasks) : tasks'[i] = tasks[i]
        /\ tasks'[Len(tasks) + 1].task = sent + 1
    BY <2>1 DEF GPTypeOK
  <2>3. Waits' \in Nat /\ strays' \in Nat
    BY <2>1
  <2>4. \A task \in Nat : IsAhead(task) => (IsAhead(task))'
    BY <2>1, <2>3
  <2>5. \A i \in 1..Len(tasks') : i \in 1..Len(tasks) \/ i = Len(tasks) + 1
    BY <2>2
  <2>6. (sent + 1) + (timeOuts' + strays') + Waits' > sent'
    BY <2>1
  <2>7. \A i \in 1..Len(tasks') : (IsAhead(tasks[i].task))'
    <3> TAKE i \in 1..Len(tasks')
    <3>1. CASE i \in 1..Len(tasks)
      <4>1. tasks'[i] = tasks[i]
        BY <2>2, <3>1
      <4>2. IsAhead(tasks[i].task)
        BY <3>1
      <4>3. tasks[i].task \in Nat
        BY <3>1
      <4>4. tasks[i].task + (timeOuts' + strays') + Waits' > sent'
        BY <2>4, <4>2, <4>3
      <4> QED
        BY <4>1, <4>4
    <3>2. CASE i = Len(tasks) + 1
      BY <2>2, <2>6, <3>2
    <3> QED
      BY <2>5, <3>1, <3>2
  <2>8. fresh' => (IsAhead(answer.task))'
    BY <2>1, <2>4
  <2> QED
    BY <2>7, <2>8
<1>2. CASE Receive
  <2>1. /\ fresh /\ ~fresh' /\ UNCHANGED <<tasks, sent, timeOuts, strays>>
        /\ Waits = 1 /\ Waits' = 0
    BY <1>2 DEF Receive, Read, TriedAgain, Waits
  <2>2. answer.task + (timeOuts + strays) + 1 > sent
    BY <2>1
  <2>3. \A i \in 1..Len(tasks) : answer.task < tasks[i].task /\ tasks[i].task \in Nat
    BY <2>1 DEF AnswersInOrder
  <2>4. \A i \in 1..Len(tasks) : tasks[i].task + (timeOuts + strays) + 0 > sent
    BY <2>2, <2>3
  <2> QED
    BY <2>1, <2>4
<1>3. CASE TimeOut
  <2>1. /\ UNCHANGED <<tasks, sent, answer, fresh, strays>> /\ timeOuts' = timeOuts + 1
        /\ Waits = 1 /\ Waits' = 0
    BY <1>3 DEF TimeOut, GivenUp, Waits, plannerVars
  <2>2. \A task \in Nat :
          task + (timeOuts + strays) + 1 > sent => task + (timeOuts' + strays') + 0 > sent'
    BY <2>1
  <2>3. \A i \in 1..Len(tasks) : tasks[i].task \in Nat
    OBVIOUS
  <2>4. answer.task \in Nat
    OBVIOUS
  <2> QED
    BY <2>1, <2>2, <2>3, <2>4
<1>4. CASE Plan \/ PlanFails
  <2>1. /\ tasks # <<>> /\ tasks' = Tail(tasks)
        /\ UNCHANGED <<sent, timeOuts, strays, Waits>>
    BY <1>4, PlanTakesHead DEF Waits, mainVars
  <2>2. fresh' => answer'.task = Head(tasks).task \/ (fresh /\ UNCHANGED answer)
    BY <1>4, PlanTakesHead
  <2> QED
    BY <2>1, <2>2, HeadComesFirst
<1>5. CASE UNCHANGED <<sent, tasks, answer, fresh, timeOuts, strays, Waits>>
  BY <1>5
<1> QED
  BY <1>1, <1>2, <1>3, <1>4, <1>5, WaitIsUndisturbed

\* Every step pays for the answers that get lost.
LEMMA PaidStep ==
  ASSUME GoalPlannerAssumption, GPTypeOK, LostAnswersArePaid, [GPNext]_gpVars
  PROVE  LostAnswersArePaid'
<1> USE TasksAreNumbers DEF GoalPlannerAssumption, LostAnswersArePaid, IsLost
<1>1. CASE SetTask \/ SetTaskUnanswered
  <2>1. tasks' = Append(tasks, [task |-> sent', goal |-> goal]) /\ tasks \in Seq(Tasks)
    BY <1>1 DEF SetTask, SetTaskUnanswered, Push, GPTypeOK
  <2>2. tasks' # <<>>
    BY <2>1
  <2>3. UNCHANGED timeOuts /\ (faults' = faults \/ faults' = faults + 1)
    BY <1>1 DEF SetTask, SetTaskUnanswered, Fault, faultVars
  <2> QED
    BY <2>2, <2>3
<1>2. CASE Receive
  BY <1>2 DEF Receive, TriedAgain
<1>3. CASE TimeOut
  BY <1>3 DEF TimeOut, GivenUp
<1>4. CASE Plan \/ PlanFails
  <2>1. ~IsLost
    BY <1>4, PlanTakesHead
  <2>2. UNCHANGED timeOuts /\ (faults' = faults + 1 \/ (fresh' /\ faults' = faults))
    BY <1>4, PlanTakesHead
  <2> QED
    BY <2>1, <2>2
<1>5. CASE /\ UNCHANGED <<tasks, fresh, timeOuts>>
           /\ mainPc' = "planning" <=> mainPc = "planning"
           /\ faults' = faults \/ faults' = faults + 1
  BY <1>5
<1> QED
  BY <1>1, <1>2, <1>3, <1>4, <1>5, WaitIsUndisturbed

\* Every step keeps the last task and its answer for the path that is served, and the plan
\* taken as recent as the abandoned tasks allow.
LEMMA PlanStep ==
  ASSUME GPTypeOK, AnswersInOrder, AnswersAreAhead, LastTaskIsForGoal,
         PlanLagsByAbandoned, [GPNext]_gpVars
  PROVE  LastTaskIsForGoal' /\ PlanLagsByAbandoned'
<1> USE TasksAreNumbers DEF LastTaskIsForGoal, PlanLagsByAbandoned, Abandoned
<1>1. CASE SetTask
  <2>1. /\ tasks' = Append(tasks, [task |-> sent + 1, goal |-> goal])
        /\ UNCHANGED <<answer, goal>> /\ sent' = sent + 1 /\ mainPc' = "planning"
    BY <1>1 DEF SetTask, Push
  <2>2. /\ Len(tasks') = Len(tasks) + 1
        /\ \A i \in 1..Len(tasks) : tasks'[i] = tasks[i]
        /\ tasks'[Len(tasks) + 1].goal = goal
    BY <2>1 DEF GPTypeOK
  <2> QED
    BY <2>1, <2>2
<1>2. CASE Receive
  <2>1. /\ mainPc = "planning" /\ fresh /\ UNCHANGED <<goal, sent, timeOuts, strays>>
        /\ mainPc' = "waiting" \/ (mainPc' = "planned" /\ plan' = answer)
    BY <1>2 DEF Receive, TriedAgain
  <2> QED
    BY <2>1 DEF AnswersAreAhead, IsAhead, Waits
<1>3. CASE Plan \/ PlanFails
  <2>1. /\ tasks # <<>> /\ tasks' = Tail(tasks)
        /\ UNCHANGED <<mainPc, goal, plan, sent, timeOuts, strays>>
        /\ \/ answer'.task = Head(tasks).task /\ answer'.goal = Head(tasks).goal
           \/ UNCHANGED <<fresh, answer>>
    BY <1>3, PlanTakesHead DEF mainVars
  <2> QED
    BY <2>1, HeadComesFirst
<1>4. CASE Take \/ StopRobot \/ GPSendPath \/ TakenFails \/ TimeOut
             \/ StopRobotUnanswered \/ SetTaskUnanswered
             \/ SendUncertainPath \/ SendFails
  <2>1. mainPc' \in {"waiting", "taken"}
    BY <1>4 DEF Take, StopRobot, GPSendPath, TakenFails, TimeOut,
                StopRobotUnanswered, SetTaskUnanswered,
                SendUncertainPath, SendFails, Served, TriedAgain, GivenUp
  <2> QED
    BY <2>1
<1>5. CASE GetActivation
  <2>1. /\ mainPc = "planned" /\ mainPc' \in {"waiting", "sending"}
        /\ UNCHANGED <<goal, plan, sent, timeOuts, strays>>
    BY <1>5 DEF GetActivation, GivenUp, plannerVars
  <2> QED
    BY <2>1
<1>6. CASE UNCHANGED <<mainVars, plannerVars, timeOuts, strays>>
  BY <1>6 DEF mainVars, plannerVars
<1>7. ASSUME NEW c \in Callers, NEW empty \in BOOLEAN, NEW go \in {"go", "stay"},
             SetPath(c, empty, go)
      PROVE  UNCHANGED <<mainVars, plannerVars, timeOuts, strays>>
  BY <1>7 DEF SetPath, faultVars
<1>8. ASSUME NEW c \in Callers, GPActivateNow(c) \/ CallerStep(c) \/ PassFails(c)
      PROVE  UNCHANGED <<mainVars, plannerVars, timeOuts, strays>>
  BY <1>8 DEF GPActivateNow, CallerStep, SetActivation, PassActivation, PassFails,
              faultVars
<1>9. CASE UNCHANGED gpVars
  BY <1>6, <1>9 DEF gpVars, faultVars
<1> QED
  BY <1>1, <1>2, <1>3, <1>4, <1>5, <1>6, <1>7, <1>8, <1>9 DEF GPNext, GPMainStep

\* As long as no task was abandoned the plan is the answer to the last one.
LEMMA OnTimeIsLast ==
  ASSUME GPTypeOK, LastTaskIsForGoal, PlanLagsByAbandoned, Abandoned = 0,
         mainPc \in {"planned", "sending"}
  PROVE  plan.goal = goal
<1>1. plan.task = sent
  BY TasksAreNumbers DEF PlanLagsByAbandoned
<1> QED
  BY <1>1 DEF LastTaskIsForGoal

\* What the paths on the way out do to the follower, as long as no task was abandoned: it
\* gets the path that is being served, or keeps its own.
LEMMA FollowerGetsGoal ==
  ASSUME GPTypeOK, LastTaskIsForGoal, PlanLagsByAbandoned, [GPNext]_gpVars,
         Abandoned = 0
  PROVE  follower'.goal \in {follower.goal, goal}
<1> USE DEF storeVars, callerVars, mainVars, plannerVars, faultVars
<1>1. CASE StopRobot \/ StopRobotUnanswered
  BY <1>1 DEF StopRobot, StopRobotUnanswered, Stop
<1>2. CASE GPSendPath \/ SendUncertainPath \/ SendFails
  <2>1. plan.goal = goal
    BY <1>2, OnTimeIsLast DEF GPSendPath, SendUncertainPath, SendFails
  <2> QED
    BY <1>2, <2>1 DEF GPSendPath, SendUncertainPath, SendFails, Send
<1>3. ASSUME NEW c \in Callers, PassActivation(c) PROVE follower'.goal = follower.goal
  BY <1>3 DEF PassActivation, GPTypeOK, FollowerInputs
<1>4. ASSUME Take \/ SetTask \/ SetTaskUnanswered \/ Receive \/ GetActivation
             \/ TakenFails \/ TimeOut
      PROVE  UNCHANGED follower
  BY <1>4 DEF Take, SetTask, SetTaskUnanswered, Receive, GetActivation, TakenFails, TimeOut
<1>5. ASSUME NEW c \in Callers, SetActivation(c) \/ GPActivateNow(c) \/ PassFails(c)
      PROVE  UNCHANGED follower
  BY <1>5 DEF SetActivation, GPActivateNow, PassFails
<1>6. ASSUME NEW c \in Callers, NEW empty \in BOOLEAN, NEW go \in {"go", "stay"},
             SetPath(c, empty, go)
      PROVE  UNCHANGED follower
  BY <1>6 DEF SetPath
<1>7. ASSUME Plan \/ PlanFails PROVE UNCHANGED follower
  BY <1>7, PlanTakesHead
<1>8. CASE UNCHANGED gpVars
  BY <1>8 DEF gpVars
<1> QED
  BY <1>1, <1>2, <1>3, <1>4, <1>5, <1>6, <1>7, <1>8 DEF GPNext, GPMainStep,
     CallerStep

\* Every step keeps the books on the requests.
LEMMA ExplainedStep ==
  ASSUME GPTypeOK, LastTaskIsForGoal, PlanLagsByAbandoned, RequestsAreExplained,
         [GPNext]_gpVars
  PROVE  RequestsAreExplained'
<1> USE DEF RequestsAreExplained, Abandoned, storeVars, callerVars, mainVars,
            plannerVars, faultVars
<1>1. /\ goal \in 0..Len(requests) /\ follower.goal \in Nat /\ timeOuts \in Nat
      /\ strays \in Nat /\ Len(requests) \in Nat
  BY DEF GPTypeOK, Requests, FollowerInputs
<1>2. ASSUME NEW c \in Callers, NEW empty \in BOOLEAN, NEW go \in {"go", "stay"},
             SetPath(c, empty, go)
      PROVE  RequestsAreExplained'
  BY <1>2 DEF SetPath
<1>3. ASSUME NEW c \in Callers, SetActivation(c) \/ GPActivateNow(c) \/ PassFails(c)
      PROVE  RequestsAreExplained'
  BY <1>3 DEF SetActivation, GPActivateNow, PassFails
<1>4. ASSUME NEW c \in Callers, PassActivation(c) PROVE RequestsAreExplained'
  <2>1. follower'.goal = follower.goal
    BY <1>4 DEF PassActivation, GPTypeOK, FollowerInputs
  <2> QED
    BY <1>4, <2>1 DEF PassActivation
<1>5. CASE Take
  BY <1>1, <1>5 DEF Take, Newest
<1>6. CASE StopRobot \/ StopRobotUnanswered
  BY <1>1, <1>6 DEF StopRobot, StopRobotUnanswered, Stop, Served, GivenUp, Fault
<1>7. CASE SetTask
  BY <1>7 DEF SetTask
<1>8. CASE Receive
  BY <1>8 DEF Receive, TriedAgain
<1>9. CASE GetActivation
  BY <1>9 DEF GetActivation, GivenUp
<1>10. CASE GPSendPath \/ SendUncertainPath
  <2>1. Abandoned = 0 => follower'.goal = goal
    <3> HAVE Abandoned = 0
    <3>1. plan.goal = goal
      BY <1>10, OnTimeIsLast DEF GPSendPath, SendUncertainPath
    <3> QED
      BY <1>10, <3>1 DEF GPSendPath, SendUncertainPath, Send
  <2>2. /\ mainPc' = "waiting"
        /\ UNCHANGED <<requests, unread, goal, given, timeOuts, strays>>
        /\ requestIsOutstanding' = FALSE \/ requestIsOutstanding' = requestIsOutstanding
        /\ mainPc = "sending"
    BY <1>10 DEF GPSendPath, SendUncertainPath, Served, TriedAgain, Fault
  <2> QED
    BY <1>1, <2>1, <2>2
<1>11. CASE TakenFails
  <2>1. /\ mainPc' = "waiting" /\ UNCHANGED <<requests, unread, goal, follower, timeOuts, strays>>
        /\ \/ requestIsOutstanding' = FALSE /\ given'
           \/ UNCHANGED <<requestIsOutstanding, given>>
        /\ mainPc = "taken"
    BY <1>11 DEF TakenFails, GivenUp, TriedAgain, Fault
  <2> QED
    BY <1>1, <2>1
<1>12. CASE TimeOut
  BY <1>1, <1>12 DEF TimeOut, GivenUp
<1>13. CASE Plan \/ PlanFails
  BY <1>13, PlanTakesHead
<1>14. CASE UNCHANGED gpVars
  BY <1>14 DEF gpVars
<1>15. CASE SendFails
  <2>1. Abandoned = 0 => follower'.goal \in {follower.goal, goal}
    BY FollowerGetsGoal
  <2>2. /\ mainPc' = "waiting" /\ given'
        /\ UNCHANGED <<requests, unread, goal, timeOuts, strays>>
    BY <1>15 DEF SendFails, GivenUp, Fault
  <2> QED
    BY <1>1, <2>1, <2>2
<1>16. CASE SetTaskUnanswered
  BY <1>1, <1>16 DEF SetTaskUnanswered, GivenUp, Fault
<1> QED
  BY <1>2, <1>3, <1>4, <1>5, <1>6, <1>7, <1>8, <1>9, <1>10, <1>11, <1>12, <1>13, <1>14,
     <1>15, <1>16
  DEF GPNext, GPMainStep, CallerStep

\* Every step keeps GoalPlanner's invariant.
LEMMA PlannerStepHolds ==
  ASSUME GoalPlannerAssumption, GPIInv, [GPNext]_gpVars PROVE GPIInv'
BY PlannerTypesStep, OrderStep, AheadStep, PaidStep, PlanStep, ExplainedStep DEF GPIInv

\* GoalPlanner's invariant holds in every state of every behaviour.
THEOREM PlannerInvariance ==
  ASSUME GoalPlannerAssumption PROVE GPSpec => []GPIInv
<1>1. GPInit => GPIInv
  BY PlannerInitHolds
<1>2. GPIInv /\ [GPNext]_gpVars => GPIInv'
  BY PlannerStepHolds
<1> QED
  BY <1>1, <1>2, PTL DEF GPSpec

\* GoalPlanner's variables keep their types, and no more waits time out than may, beyond
\* those for answers that a fault of PathPlanner has lost.
THEOREM PlannerTypeCorrect ==
  ASSUME GoalPlannerAssumption PROVE GPSpec => []GPTypeOK
<1>1. GPIInv => GPTypeOK
  BY DEF GPIInv
<1> QED
  BY <1>1, PlannerInvariance, PTL

\* planPath() takes an answer that is late by no more tasks than were abandoned, after a
\* time-out or a reply of setTask() that got lost, however answers fail, get lost and
\* overtake the time-outs.
THEOREM PlansLagLittle ==
  ASSUME GoalPlannerAssumption PROVE GPSpec => []PlanLagsByAbandoned
<1>1. GPIInv => PlanLagsByAbandoned
  BY DEF GPIInv
<1> QED
  BY <1>1, PlannerInvariance, PTL

\* What the run goalplanner_late refutes holds as long as no wait has timed out and no
\* setTask() has been executed but failed for its caller: the plan is that of the path
\* which is being served.
THEOREM PlansOnTimeMatch ==
  ASSUME GoalPlannerAssumption
  PROVE  GPSpec => [](Abandoned = 0 => PlanMatchesGoal)
<1>1. GPIInv => (Abandoned = 0 => PlanMatchesGoal)
  BY OnTimeIsLast DEF GPIInv, PlanMatchesGoal
<1> QED
  BY <1>1, PlannerInvariance, PTL

\* A GoalPlanner with nothing to do has sent the path set last, or has given one up.
THEOREM IdlePlannerHasServed ==
  ASSUME GoalPlannerAssumption PROVE GPSpec => []IdleMeansServed
<1>1. GPIInv => IdleMeansServed
  BY DEF GPIInv, IdleMeansServed, RequestsAreExplained
<1> QED
  BY <1>1, PlannerInvariance, PTL

\* The follower is never sent back to an older path before a task has been abandoned.
THEOREM FollowerGoesForward ==
  ASSUME GoalPlannerAssumption PROVE GPSpec => NeverGoesBack
<1>1. GPIInv /\ [GPNext]_gpVars
      => [Abandoned = 0 => follower'.goal >= follower.goal]_gpVars
  <2> SUFFICES ASSUME GPIInv, [GPNext]_gpVars, Abandoned = 0
               PROVE  follower'.goal >= follower.goal
    OBVIOUS
  <2>1. follower.goal \in Nat /\ goal \in Nat /\ follower.goal <= goal
    BY DEF GPIInv, GPTypeOK, Requests, FollowerInputs, RequestsAreExplained
  <2>2. follower'.goal = follower.goal \/ follower'.goal = goal
    BY FollowerGetsGoal DEF GPIInv
  <2> QED
    BY <2>1, <2>2
<1> QED
  BY <1>1, PlannerInvariance, PTL DEF GPSpec, NeverGoesBack

-----------------------------------------------------------------------------
(* Who asks the robot to go. Whatever says "go", on its way from a request   *)
(* to the follower, can be traced to one.                                    *)

\* The inductive invariant, beyond GPIInv.
GoIsTraced ==
  /\ "go" \in {activationStore, activateImmediately, follower.activation} => GoIsAsked
  /\ \A c \in Callers : /\ caller[c] = "go" => GoIsAsked
                        /\ caller[c] = "pass" => releases > 0
  /\ unread \/ requestIsOutstanding => requests # <<>>
  /\ mainPc = "taken" => goal # 0

\* At first nobody has asked.
LEMMA TracedInit == GPInit => GoIsTraced
BY DEF GPInit, GoIsTraced

\* Paths and calls of activateNow() are never taken back.
LEMMA AskedStays ==
  ASSUME GPTypeOK, GoIsAsked, [GPNext]_gpVars PROVE GoIsAsked'
<1> USE DEF storeVars, callerVars, mainVars, plannerVars, faultVars
<1>1. ASSUME UNCHANGED <<requests, releases>> PROVE GoIsAsked'
  BY <1>1 DEF GoIsAsked
<1>2. ASSUME NEW c \in Callers, NEW empty \in BOOLEAN, NEW go \in {"go", "stay"},
             SetPath(c, empty, go)
      PROVE  GoIsAsked'
  <2>1. /\ requests' = Append(requests, [empty |-> empty, go |-> go])
        /\ UNCHANGED releases
    BY <1>2 DEF SetPath
  <2>2. /\ Len(requests') = Len(requests) + 1
        /\ \A i \in 1..Len(requests) : requests'[i] = requests[i]
    BY <2>1 DEF GPTypeOK
  <2>3. 1..Len(requests) \subseteq 1..Len(requests')
    BY <2>2 DEF GPTypeOK
  <2> QED
    BY <2>1, <2>2, <2>3 DEF GoIsAsked
<1>3. ASSUME NEW c \in Callers, GPActivateNow(c) PROVE GoIsAsked'
  BY <1>3 DEF GPActivateNow, GoIsAsked, GPTypeOK
<1>4. ASSUME NEW c \in Callers, CallerStep(c) \/ PassFails(c)
      PROVE  UNCHANGED <<requests, releases>>
  BY <1>4 DEF CallerStep, SetActivation, PassActivation, PassFails
<1>5. ASSUME GPMainStep PROVE UNCHANGED <<requests, releases>>
  BY <1>5 DEF GPMainStep, Take, StopRobot, SetTask, Receive, GetActivation, GPSendPath
<1>6. ASSUME \/ TakenFails \/ StopRobotUnanswered \/ SetTaskUnanswered
             \/ TimeOut \/ SendUncertainPath \/ SendFails \/ Plan \/ PlanFails
      PROVE  UNCHANGED <<requests, releases>>
  BY <1>6 DEF TakenFails, StopRobotUnanswered, SetTaskUnanswered, TimeOut,
              SendUncertainPath, SendFails, Plan, PlanFails
<1>7. CASE UNCHANGED gpVars
  BY <1>1, <1>7 DEF gpVars
<1> QED
  BY <1>1, <1>2, <1>3, <1>4, <1>5, <1>6, <1>7 DEF GPNext

\* An empty path that has been set asks as well, since the robot stands along it.
LEMMA RequestsAsk ==
  ASSUME GPTypeOK, NEW i \in 1..Len(requests), requests[i].empty \/ requests[i].go = "go"
  PROVE  GoIsAsked
BY DEF GoIsAsked

\* Every step keeps the trace.
LEMMA TracedStep ==
  ASSUME GPTypeOK, GoIsTraced, [GPNext]_gpVars PROVE GoIsTraced'
<1> USE DEF GoIsTraced, storeVars, callerVars, mainVars, plannerVars, faultVars
<1>a. GoIsAsked => GoIsAsked'
  BY AskedStays
<1>2. ASSUME NEW c \in Callers, NEW empty \in BOOLEAN, NEW go \in {"go", "stay"},
             SetPath(c, empty, go)
      PROVE  GoIsTraced'
  <2>1. /\ requests' = Append(requests, [empty |-> empty, go |-> go])
        /\ caller' = [caller EXCEPT ![c] = go]
        /\ UNCHANGED <<activationStore, activateImmediately, follower, releases,
                       mainPc, goal>>
    BY <1>2 DEF SetPath
  <2>2. requests' # <<>> /\ (go = "go" => GoIsAsked')
    <3>1. /\ Len(requests') \in 1..Len(requests')
          /\ requests'[Len(requests')] = [empty |-> empty, go |-> go]
      BY <2>1 DEF GPTypeOK
    <3>2. requests' # <<>>
      BY <2>1 DEF GPTypeOK
    <3> QED
      BY <3>1, <3>2 DEF GoIsAsked
  <2>3. \A d \in Callers : /\ caller'[d] = "go" => GoIsAsked'
                           /\ caller'[d] = "pass" => releases' > 0
    BY <1>2, <1>a, <2>1, <2>2 DEF GPTypeOK
  <2> QED
    BY <1>a, <2>1, <2>2, <2>3
<1>3. ASSUME NEW c \in Callers, SetActivation(c) PROVE GoIsTraced'
  <2>1. /\ activationStore' = caller[c] /\ caller' = [caller EXCEPT ![c] = "idle"]
        /\ UNCHANGED <<requests, unread, requestIsOutstanding, activateImmediately,
                       follower, releases, mainPc, goal>>
    BY <1>3 DEF SetActivation
  <2> QED
    BY <1>a, <1>3, <2>1 DEF GPTypeOK
<1>4. ASSUME NEW c \in Callers, GPActivateNow(c) PROVE GoIsTraced'
  <2>1. /\ caller' = [caller EXCEPT ![c] = "pass"] /\ releases' = releases + 1
        /\ UNCHANGED <<requests, unread, requestIsOutstanding, mainPc, goal>>
    BY <1>4 DEF GPActivateNow
  <2>2. releases' > 0
    BY <2>1 DEF GPTypeOK
  <2>3. GoIsAsked'
    BY <2>2 DEF GoIsAsked
  <2> QED
    BY <2>1, <2>2, <2>3 DEF GPTypeOK
<1>5. ASSUME NEW c \in Callers, PassActivation(c) PROVE GoIsTraced'
  <2>1. /\ caller[c] = "pass" /\ caller' = [caller EXCEPT ![c] = "idle"]
        /\ UNCHANGED <<requests, unread, requestIsOutstanding, activationStore,
                       activateImmediately, releases, mainPc, goal>>
    BY <1>5 DEF PassActivation
  <2>2. GoIsAsked
    BY <1>5, <2>1 DEF GoIsAsked
  <2> QED
    BY <1>a, <2>1, <2>2 DEF GPTypeOK
<1>6. CASE Take
  <2>1. /\ unread \/ requestIsOutstanding
        /\ goal' = Len(requests)
        /\ UNCHANGED <<requests, caller, activationStore, activateImmediately, follower,
                       releases>>
    BY <1>6 DEF Take, Newest
  <2>2. requests # <<>>
    BY <2>1
  <2>3. Len(requests) # 0
    BY <2>2 DEF GPTypeOK
  <2> QED
    BY <1>a, <2>1, <2>2, <2>3
<1>7. CASE StopRobot \/ StopRobotUnanswered
  <2>1. /\ mainPc = "taken" /\ requests[goal].empty /\ mainPc' = "waiting"
        /\ UNCHANGED <<requests, unread, caller, activationStore, activateImmediately,
                       releases>>
        /\ requestIsOutstanding' = FALSE
    BY <1>7 DEF StopRobot, StopRobotUnanswered, Served, GivenUp
  <2>2. goal \in 1..Len(requests)
    BY <2>1 DEF GPTypeOK, Requests
  <2>3. GoIsAsked
    BY <2>1, <2>2, RequestsAsk
  <2> QED
    BY <1>a, <2>1, <2>3
<1>8. CASE SetTask \/ Receive
  <2>1. /\ UNCHANGED <<requests, unread, caller, activationStore, activateImmediately,
                       follower, releases, goal, requestIsOutstanding>>
        /\ mainPc' # "taken"
    BY <1>8 DEF SetTask, Receive, TriedAgain
  <2> QED
    BY <1>a, <2>1
<1>9. CASE GetActivation
  <2>1. /\ UNCHANGED <<requests, unread, caller, activationStore, follower, releases, goal>>
        /\ requestIsOutstanding' => requestIsOutstanding
        /\ activateImmediately' \in {activationStore, activateImmediately}
        /\ mainPc' # "taken"
    BY <1>9 DEF GetActivation, GivenUp
  <2> QED
    BY <1>a, <2>1
<1>10. CASE GPSendPath \/ SendUncertainPath \/ SendFails
  <2>1. /\ UNCHANGED <<requests, unread, caller, activationStore, activateImmediately,
                       releases, goal>>
        /\ requestIsOutstanding' => requestIsOutstanding
        /\ mainPc' # "taken"
    BY <1>10 DEF GPSendPath, SendUncertainPath, SendFails, Served, TriedAgain, GivenUp
  <2>2. UNCHANGED follower \/ follower'.activation = activateImmediately
    BY <1>10 DEF GPSendPath, SendUncertainPath, SendFails, Send
  <2> QED
    BY <1>a, <2>1, <2>2
<1>11. CASE TakenFails \/ SetTaskUnanswered \/ TimeOut
  <2>1. /\ UNCHANGED <<requests, unread, caller, activationStore, activateImmediately,
                       follower, releases, goal>>
        /\ requestIsOutstanding' => requestIsOutstanding
        /\ mainPc' # "taken"
    BY <1>11 DEF TakenFails, SetTaskUnanswered, TimeOut, GivenUp, TriedAgain
  <2> QED
    BY <1>a, <2>1
<1>12. CASE Plan \/ PlanFails \/ UNCHANGED gpVars
  <2>1. UNCHANGED <<requests, unread, caller, activationStore, activateImmediately,
                    follower, releases, mainPc, goal, requestIsOutstanding>>
    BY <1>12 DEF Plan, PlanFails, gpVars
  <2> QED
    BY <1>a, <2>1
<1>13. ASSUME NEW c \in Callers, PassFails(c) PROVE GoIsTraced'
  <2>1. /\ caller' = [caller EXCEPT ![c] = "idle"]
        /\ UNCHANGED <<requests, unread, requestIsOutstanding, activationStore,
                       activateImmediately, follower, releases, mainPc, goal>>
    BY <1>13 DEF PassFails
  <2> QED
    BY <1>a, <2>1 DEF GPTypeOK
<1> QED
  BY <1>2, <1>3, <1>4, <1>5, <1>6, <1>7, <1>8, <1>9, <1>10, <1>11, <1>12, <1>13
  DEF GPNext, GPMainStep, CallerStep

\* However activations overtake paths on their way through the two stores, the robot goes
\* only if some request asked it to.
THEOREM NobodyGoesUnasked ==
  ASSUME GoalPlannerAssumption PROVE GPSpec => []NeverGoesUnasked
<1>1. GPIInv /\ GoIsTraced /\ [GPNext]_gpVars => GoIsTraced'
  BY TracedStep DEF GPIInv
<1>2. GoIsTraced => NeverGoesUnasked
  BY DEF GoIsTraced, NeverGoesUnasked
<1> QED
  BY <1>1, <1>2, TracedInit, PlannerInvariance, PTL DEF GPSpec
=============================================================================
