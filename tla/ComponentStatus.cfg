\* Two subsystems, one of which keeps its promises.
CONSTANTS
  main = main
  hw = hw
  text = text
  Names <- MCNames
  Intervals <- MCIntervals
  Messages <- MCMessages
  NoMessage = NoMessage
  Mult = 1
  Add = 0
  PublishInterval = 2
  ProcessPeriod = 1
  Punctual <- MCPunctual
  MaxElapsed = 3
  MaxCalls = 4
SPECIFICATION Spec
INVARIANTS
  StoreIsCurrent
  PunctualNeverStalled
  StallShownInTime
  UpdatesKeepComing
  WorkingMeansWorking
