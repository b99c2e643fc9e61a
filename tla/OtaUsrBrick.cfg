SPECIFICATION Spec
CONSTANTS
  HasExtend = TRUE
  Media = "mmc"
  MaxVersion = 2
  MaxLosses = 2
  LocalPkgs = {}
  Reachable = {"default"}
  Faults = {"download"}
  LostFlags = {}
  StartReturns = {0}
  Commands = {"force", "post", "reboot"}
  CommandScripts = {"process"}
  CommandOptions = {{}}
  OperatorInRecovery = FALSE
INVARIANT Bootable
