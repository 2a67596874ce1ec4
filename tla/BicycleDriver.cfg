\* Two commands, two dispatch threads, two outages of the server.
CONSTANTS
  slow = slow
  fast = fast
  t1 = t1
  t2 = t2
  Commands <- MCCommands
  Callers <- MCCallers
  NoCommand = NoCommand
  MaxOutages = 2
SPECIFICATION FairSpec
INVARIANTS
  WritesFollowReads
  HealthIsHonest
PROPERTIES
  AcceptedCommandIsExecuted
  HwThreadStops
CHECK_DEADLOCK FALSE
