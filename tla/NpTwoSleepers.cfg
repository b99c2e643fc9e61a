SPECIFICATION Spec
CONSTANTS
  Clients = {"app"}
  SharedId = FALSE
  Calls = {}
  AwakeTimeout = "timeout_some"
  Faults = {}
  MaxQueue = 1
  MaxKeys = 2
PROPERTY RequestReachesKernel
CHECK_DEADLOCK FALSE
