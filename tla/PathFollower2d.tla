---------------------------- MODULE PathFollower2d ----------------------------
(***************************************************************************)
(* What the interface PathFollower2d promises its users                    *)
(* (interfaces/slice/orca/pathfollower2d.ice). A path is followed if it    *)
(* was set with activateImmediately or activated later; a new path takes   *)
(* the place of the old one, and so does its activation. A path that is    *)
(* refused is not followed, and the follower is to stop. A follower that   *)
(* is disabled takes its hands off the wheel, once the robot stands, and   *)
(* commands it no more until it is enabled again.                          *)
(* PathFollower is compared with this module: no store, thread or waypoint *)
(* appears here.                                                           *)
(***************************************************************************)

CONSTANTS Paths,  \* the paths there are
          Malformed, \* those that are refused
          NoPath, \* no path, and what a robot follows that has been told to stand
          Other   \* what a robot does that follows somebody else's commands

VARIABLES asked,    \* what the calls amount to: a path, and whether to go along it
          followed, \* what the follower does, likewise
          enabled,
          wheel,    \* the follower's hands: "on" the wheel, "leaving" it, "off"
          robot     \* the path the robot was told to move along

promiseVars == <<asked, followed, enabled, wheel, robot>>

Nothing == [path |-> NoPath, go |-> FALSE]

Init ==
  /\ asked = Nothing
  /\ followed = Nothing
  /\ enabled = TRUE
  /\ wheel = "off"
  /\ robot = NoPath

-----------------------------------------------------------------------------
(* The users                                                                *)

SetData(p, go) ==
  /\ p \notin Malformed
  /\ asked' = [path |-> p, go |-> go]
  /\ UNCHANGED <<followed, enabled, wheel, robot>>

Refuse(p) ==
  /\ p \in Malformed
  /\ asked' = Nothing
  /\ UNCHANGED <<followed, enabled, wheel, robot>>

ActivateNow ==
  /\ asked.path # NoPath
  /\ asked' = [asked EXCEPT !.go = TRUE]
  /\ UNCHANGED <<followed, enabled, wheel, robot>>

SetEnabled(isEnabled) ==
  /\ enabled' = isEnabled
  /\ UNCHANGED <<asked, followed, wheel, robot>>

SomebodyDrives ==
  /\ ~enabled /\ wheel = "off"
  /\ robot' = Other
  /\ UNCHANGED <<asked, followed, enabled, wheel>>

-----------------------------------------------------------------------------
(* The follower                                                             *)

\* path and activation change together, to what is asked at that moment
TakeUp ==
  /\ followed' = asked
  /\ UNCHANGED <<asked, enabled, wheel, robot>>

\* the robot is told to stand, or to go along the path that is followed now
Drive ==
  /\ wheel = "on"
  /\ robot' = NoPath \/ (followed.go /\ robot' = followed.path)
  /\ UNCHANGED <<asked, followed, enabled, wheel>>

TakeHold ==
  /\ wheel = "off" /\ enabled
  /\ wheel' = "on"
  /\ UNCHANGED <<asked, followed, enabled, robot>>

Leave ==
  /\ wheel = "on" /\ ~enabled
  /\ wheel' = "leaving"
  /\ UNCHANGED <<asked, followed, enabled, robot>>

\* the robot could not be told to stand
Remain ==
  /\ wheel = "leaving"
  /\ wheel' = "on"
  /\ UNCHANGED <<asked, followed, enabled, robot>>

LetGo ==
  /\ wheel = "leaving"
  /\ wheel' = "off"
  /\ robot' = NoPath
  /\ UNCHANGED <<asked, followed, enabled>>

-----------------------------------------------------------------------------

Next ==
  \/ \E p \in Paths, go \in BOOLEAN : SetData(p, go)
  \/ \E p \in Paths : Refuse(p)
  \/ ActivateNow
  \/ \E isEnabled \in BOOLEAN : SetEnabled(isEnabled)
  \/ SomebodyDrives
  \/ TakeUp \/ Drive
  \/ TakeHold \/ Leave \/ Remain \/ LetGo

Spec == Init /\ [][Next]_promiseVars

-----------------------------------------------------------------------------
(* What follows                                                             *)

\* A follower whose hands are off the wheel has made the robot stand, or somebody else
\* drives it: it does not go along a path that the follower sent it.
HandsOff == wheel = "off" => robot \in {NoPath, Other}
=============================================================================
