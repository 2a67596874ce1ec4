\* One powerbase, e-stop fitted, two dispatch threads; dead variables are left out of the view.
CONSTANTS
  ice1 = ice1
  ice2 = ice2
  NBases = 1
  Dispatchers <- MCTwoThreads
  Commands <- MCCommands
  MaxSpeed = 2
  ForwardAccel = 1
  ReverseAccel = 1
  CommandTimeout = 1
  DtLimit = 2
  LoopMax = 3
  KeepAlive = 1
  EStopEnabled = TRUE
  MotionEnabled = TRUE
SPECIFICATION Spec
SYMMETRY MCSymmetry
INVARIANTS
  StopsWithoutCommands
  EStopStops
PROPERTIES
  AccelerationLimited
VIEW MCView
