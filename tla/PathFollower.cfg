\* Paths of two, one and no waypoints, one that is malformed, three calls, two failures.
CONSTANTS
  long = long
  short = short
  empty = empty
  bad = bad
  Paths <- MCPaths
  Size <- MCSize
  Malformed <- MCMalformed
  NoPath = NoPath
  Other = Other
  MaxCalls = 3
  MaxFailures = 2
SPECIFICATION FairSpec
INVARIANTS
  WaypointInRange
  RequestsAreHonoured
  StateIsCurrent
PROPERTIES
  DepartsOnlyAsRecorded
  RobotStands
  PathIsFollowed
CHECK_DEADLOCK FALSE
