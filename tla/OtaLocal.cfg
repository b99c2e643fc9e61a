SPECIFICATION Spec
CONSTANTS
  HasExtend = FALSE
  Media = "nor"
  MaxVersion = 2
  MaxLosses = 3
  LocalPkgs = {"ramdisk", "target", "usr"}
  Reachable = {}
  Faults = {}
  LostFlags = {}
  StartReturns = {0}
  Commands = {"force", "reboot"}
  CommandScripts = {"process", "normal"}
  CommandOptions = {{"path"}}
  OperatorInRecovery = FALSE
INVARIANT LocalInv
INVARIANT LocalUpgradeFlashes
PROPERTY RecoveryCompletes
