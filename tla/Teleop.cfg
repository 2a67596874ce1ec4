CONSTANTS
  MaxSpeed = 1
  Devices = {"joystick", "keyboard"}
  MaxQueue = 2
  MaxPending = 2
  MaxFailures = 1

SPECIFICATION FairSpec
INVARIANTS
  CombiningIsInvisible
PROPERTIES
  RobotFollowsCommand
CHECK_DEADLOCK FALSE
