CONSTANTS
  MaxSpeed = 1
  Devices = {"keyboard"}
  MaxQueue = 2
  MaxPending = 2
  MaxFailures = 1

SPECIFICATION FairSpec
PROPERTY StopIsObeyed
CHECK_DEADLOCK FALSE
