\* One caller, two paths, one time-out.
CONSTANTS
  c1 = c1
  c2 = c2
  Callers <- MCOne
  MaxRequests = 2
  MaxReleases = 0
  MaxTimeOuts = 1
  MaxFaults = 0
SPECIFICATION GPFairSpec
INVARIANTS
  PlanMatchesGoal
CHECK_DEADLOCK FALSE
