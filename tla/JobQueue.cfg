\* Two workers, three jobs of which one is endless, one spurious wake-up, and
\* stop() called twice.
CONSTANTS
  w1 = w1
  w2 = w2
  j1 = j1
  j2 = j2
  j3 = j3
  Workers <- MCWorkers
  Jobs <- MCJobs
  EndlessJobs <- MCEndless
  MaxSpurious = 1
  MaxStops = 2
  NoJob = NoJob
  Nobody = Nobody
  Client = Client
SPECIFICATION FairSpec
INVARIANTS
  NothingLost
  PopFindsJob
  NoLostWakeup
  AddMeetsLivePool
  JoinedOnce
  QuietAfterStop
PROPERTIES
  ImplementsPool
  AcceptedJobEnds
  StopReturns
\* the queue is stopped for good in the end
CHECK_DEADLOCK FALSE
