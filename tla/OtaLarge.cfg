SPECIFICATION Spec
CONSTANTS
  HasExtend = FALSE
  Media = "mmc"
  MaxVersion = 3
  MaxLosses = 2
  LocalPkgs = {"ramdisk", "target", "usr"}
  Reachable = {"default"}
  Faults = {"network", "download", "early_unpack", "unpack", "late_unpack"}
  LostFlags = {"boot-recovery"}
  StartReturns = {0, 1}
  Commands = {"force", "post", "dispatch", "reboot"}
  CommandScripts = {"process", "normal"}
  CommandOptions = {{}, {"path"}}
  OperatorInRecovery = FALSE
INVARIANT IInv
PROPERTY AtomicSystem
