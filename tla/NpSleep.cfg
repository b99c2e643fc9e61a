SPECIFICATION Spec
CONSTANTS
  Clients = {"app"}
  SharedId = FALSE
  Calls = {"acquire", "release", "useractivity", "shutdown", "timeout_some"}
  AwakeTimeout = "timeout_some"
  Faults = {"mem", "lock"}
  MaxQueue = 1
  MaxKeys = 0
INVARIANT SleepInv
INVARIANT NoMissedSignal
PROPERTY SleepIsOneCycle
PROPERTY SleeperReturns
PROPERTY RequestReachesKernel
PROPERTY IdleDeviceSleeps
CHECK_DEADLOCK FALSE
