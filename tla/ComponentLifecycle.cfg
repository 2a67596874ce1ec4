\* Two subsystems, two signals, three configurations, start() may throw.
CONSTANTS
  NThreads = 2
  Configs <- MCConfigs
  StartThrows = TRUE
  MaxSignals = 2
SPECIFICATION FairSpec
INVARIANTS
  NothingLeftBehind
  UsersStopFirst
  DropoutsAreShown
PROPERTIES
  SignalEndsProgram
  RegistryIsFound
CHECK_DEADLOCK FALSE
