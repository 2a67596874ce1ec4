\* Two callers, two paths, one release, one time-out, two other faults.
CONSTANTS
  c1 = c1
  c2 = c2
  Callers <- MCTwo
  MaxRequests = 2
  MaxReleases = 1
  MaxTimeOuts = 1
  MaxFaults = 2
SPECIFICATION GPFairSpec
INVARIANTS
  IdleMeansServed
  PlanLagsByAbandoned
PROPERTIES
  LastRequestIsServed
CHECK_DEADLOCK FALSE
