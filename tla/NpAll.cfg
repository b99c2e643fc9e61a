SPECIFICATION Spec
CONSTANTS
  Clients = {"app"}
  SharedId = FALSE
  Calls = {"gotosleep", "acquire", "release"}
  AwakeTimeout = "timeout_some"
  Faults = {"count"}
  MaxQueue = 2
  MaxKeys = 1
INVARIANT DisplayLockOwed
INVARIANT StandbyIsRequested
INVARIANT ClientLockKeepsAwake
CHECK_DEADLOCK FALSE
