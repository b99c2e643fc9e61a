SPECIFICATION Spec
CONSTANTS
  HasExtend = TRUE
  Media = "nor"
  MaxVersion = 3
  MaxLosses = 2
  LocalPkgs = {"ramdisk", "target", "usr"}
  Reachable = {"default", "configured"}
  Faults = {"network", "download", "unpack"}
  LostFlags = {"boot-recovery", "upgrade_end"}
  StartReturns = {0}
  Commands = {"force", "dispatch", "reject", "reboot"}
  CommandScripts = {"process", "normal"}
  CommandOptions = {{}, {"url", "domain"}, {"path"}}
  OperatorInRecovery = FALSE
INVARIANT IInv
INVARIANT Bootable
INVARIANT EndMeansUsr
PROPERTY AtomicSystem
