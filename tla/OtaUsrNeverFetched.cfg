SPECIFICATION Spec
CONSTANTS
  HasExtend = TRUE
  Media = "mmc"
  MaxVersion = 2
  MaxLosses = 2
  LocalPkgs = {}
  Reachable = {"default"}
  Faults = {}
  LostFlags = {}
  StartReturns = {0}
  Commands = {"force", "reboot"}
  CommandScripts = {"process"}
  CommandOptions = {{}}
  OperatorInRecovery = FALSE
PROPERTY UsrReinstalled
