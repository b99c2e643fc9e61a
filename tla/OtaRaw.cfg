SPECIFICATION Spec
CONSTANTS
  HasExtend = TRUE
  Media = "mmc"
  MaxVersion = 1
  MaxLosses = 3
  LocalPkgs = {"ramdisk", "target"}
  Reachable = {"default"}
  Faults = {"network"}
  LostFlags = {"boot-recovery"}
  StartReturns = {0}
  Commands = {"force", "reboot"}
  CommandScripts = {"process"}
  CommandOptions = {{"none_compress"}, {"path"}}
  OperatorInRecovery = FALSE
INVARIANT TypeOK
INVARIANT Bootable
INVARIANT EndMeansUsr
