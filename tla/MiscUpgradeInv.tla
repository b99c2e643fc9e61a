--------------------------- MODULE MiscUpgradeInv ---------------------------
(***************************************************************************)
(* Why the device survives a power loss at any point of an upgrade: the     *)
(* inductive invariant behind Bootable, EndMeansUsr and AtomicSystem of      *)
(* MiscUpgrade, and the use of the scripts under which it holds:             *)
(*   - a write to flash is complete when it returns;                         *)
(*   - only the write of "boot-recovery", the one flag that                  *)
(*     do_upgrade_image reads back, or of "upgrade_end" may get lost;        *)
(*   - packages are compressed, that is, checked against their md5 sums;     *)
(*   - nobody issues commands in the recovery system;                        *)
(*   - where the ramdisk and usr.img share the extend partition: no separate *)
(*     update of usr.img (-p), and no complete or empty left-overs of a tar  *)
(*     that failed.                                                          *)
(* Without any one of them TLC finds a device on which Bootable is violated. *)
(***************************************************************************)
EXTENDS MiscUpgrade

(* What a step of do_upgrade_image is about; with TypeOK, inductive for any use. *)
StepInv ==
  /\ op = "set" => arg \in {"upgrade_pre", "boot-recovery", "upgrade_post", "upgrade_end"}
  /\ op \in {"write", "writing"} => arg \in Images
  /\ op = "writing" => PartitionOf(arg) \in Partitions /\ staged[arg] # Absent

SafeUse ==
  /\ "flash" \notin Faults
  /\ LostFlags \subseteq {"boot-recovery", "upgrade_end"}
  /\ \A opts \in CommandOptions : "none_compress" \notin opts
  /\ ~OperatorInRecovery
  /\ HasExtend => /\ "post" \notin Commands
                  /\ "late_unpack" \notin Faults /\ "early_unpack" \notin Faults

SystemGood == SystemVersion # Garbage

At(o, as) == op = o /\ arg \in as

(* boot and rootfs are not a system right now. *)
SystemDirty == At("writing", {"boot", "rootfs"}) \/ At("write", {"rootfs"})

Writes(is) == At("write", is) \/ At("writing", is)

SettingsInv == "none_compress" \notin settings

FilesInv ==
  /\ \A i \in Images : staged[i] # Garbage
  /\ staged["boot"] = staged["rootfs"]
  /\ HasExtend => \A p \in Packages : unpacked[p] \in {Absent, Garbage}
  /\ env = "off" \/ op = "autorun" => staged = NoFiles /\ unpacked = NoDirs

EnvInv ==
  /\ env # "bricked"
  /\ env = "off" => op = "idle"
  /\ env = "normal" => SystemGood \/ SystemDirty

(* Each step of do_upgrade_image finds the device as its predecessors left it. *)
FlashInv ==
  /\ op = "set" => SystemGood
  /\ op \in {"finish", "finishing"} => SystemGood
  /\ Writes({"ramdisk"}) => flag = "upgrade_pre" /\ SystemGood
  /\ At("set", {"boot-recovery"}) => RamdiskGood /\ flag \in {"upgrade_pre", "erased"}
  /\ Writes({"boot", "rootfs"}) => flag = "boot-recovery"
  /\ Writes({"boot", "rootfs"}) => staged["boot"] # Absent
  /\ Writes({"rootfs"}) => part["boot"].ver = staged["boot"]
  /\ Writes({"usr"}) => SystemGood
  /\ op = "finishing" /\ saved = "boot-recovery" => RamdiskGood
  /\ Writes({"ramdisk"}) \/ At("set", {"upgrade_pre", "boot-recovery"}) => staged["ramdisk"] # Absent
  /\ op = "test" \/ Writes({"boot", "rootfs", "usr"}) \/ At("set", {"upgrade_post", "upgrade_end"}) =>
       staged["ramdisk"] = Absent

(* The recovery system only ever prepares and flashes the target package. *)
RecoveryInv ==
  env = "recovery" =>
    /\ staged["ramdisk"] = Absent /\ staged["usr"] = Absent
    /\ unpacked["ramdisk"] = Absent /\ unpacked["usr"] = Absent
    /\ op = "autorun" => flag = "boot-recovery"
    /\ op \in {"network", "stage"} => want = {"target"} /\ flag = "boot-recovery" /\ job = "recovery"
    /\ op \in {"flash", "test"} => staged["boot"] # Absent /\ flag = "boot-recovery"
    /\ op # "start"
    /\ op \in {"flash", "test", "set", "write", "writing"} => want = {}
    /\ op = "set" => arg = "upgrade_post"
    /\ op \in {"write", "writing"} => arg \in {"boot", "rootfs"}

(* With a shared extend partition usr.img overwrites the ramdisk only once no  *)
(* flag selects it any more.  Whatever is prepared together with usr.img, or   *)
(* before it, has either been flashed by then or lies staged with it and is    *)
(* flashed first.                                                             *)
TargetFirst == \/ staged["boot"] # Absent
               \/ staged["ramdisk"] = Absent /\ flag # "boot-recovery"

ExtendInv ==
  HasExtend =>
    /\ flag = "upgrade_end" => UsrGood
    /\ At("set", {"upgrade_end"}) => UsrGood /\ want = {}
    /\ op = "finishing" /\ saved = "upgrade_end" => UsrGood
    /\ "ramdisk" \in want => "target" \in want
    /\ op \in {"network", "stage"} => want # {} /\ staged["usr"] = Absent
    /\ op \in {"network", "stage"} /\ job = "post" =>
         want = {"usr"} /\ staged["ramdisk"] = Absent /\ flag # "boot-recovery"
    /\ op \in {"network", "stage"} /\ "ramdisk" \notin want =>
         staged["ramdisk"] # Absent \/ flag # "upgrade_end"
    /\ op \in {"network", "stage"} /\ want \subseteq {"usr"} => TargetFirst
    /\ op = "start" => want = {} /\ staged["ramdisk"] = Absent /\ flag \notin {"boot-recovery", "upgrade_end"}
    /\ op \in {"flash", "test", "set", "write", "writing"} =>
         (staged["usr"] # Absent \/ job = "post" => want = {})
    /\ op \in {"flash", "test"} /\ staged["ramdisk"] = Absent => flag # "upgrade_end"
    /\ op \in {"flash", "test"} \/ At("set", {"upgrade_pre", "boot-recovery"}) \/ Writes({"ramdisk"}) =>
         (staged["usr"] # Absent \/ want = {"usr"} => TargetFirst)
    /\ Writes({"usr"}) => flag \notin {"boot-recovery", "upgrade_end"} /\ want = {} /\ staged["usr"] # Absent

(* All of the above: what every step of a safely used device preserves. *)
IInv ==
  /\ TypeOK /\ StepInv
  /\ Bootable
  /\ SettingsInv /\ FilesInv /\ EnvInv /\ FlashInv /\ RecoveryInv /\ ExtendInv

-----------------------------------------------------------------------------
(* Why an upgrade from local packages that finishes has flashed them, and    *)
(* the use under which it does: writes to flash are complete, the write of    *)
(* "boot-recovery" is not lost, packages are compressed, and a tar that fails *)
(* leaves no complete or empty directory behind, which do_prepare_image would *)
(* take for the package it was called for.                                   *)
LocalUse ==
  /\ Faults \cap {"flash", "late_unpack", "early_unpack"} = {}
  /\ "boot-recovery" \notin LostFlags
  /\ \A opts \in CommandOptions : "none_compress" \notin opts

LocalJob == job = "pre" /\ source = "local"

LocalStaged == staged["boot"] = LocalVersion /\ staged["rootfs"] = LocalVersion

(* upgrade_pre_mode prepares all packages before it flashes the first, and    *)
(* each step of do_upgrade_image finds the images that are still to be flashed. *)
LocalInv ==
  /\ SettingsInv
  /\ \A p \in Packages : unpacked[p] \in {Absent, Garbage}
  /\ LocalJob =>
       /\ op \notin {"network", "start"}
       /\ op = "stage" =>
            /\ want # {} /\ ("ramdisk" \in want => "target" \in want)
            /\ "ramdisk" \in want \/ staged["ramdisk"] # Absent
            /\ "target" \in want \/ LocalStaged
       /\ op \in {"flash", "set", "test", "write", "writing"} => want = {}
       /\ op = "flash" \/ At("set", {"upgrade_pre", "boot-recovery"}) \/ Writes({"ramdisk"}) =>
            staged["ramdisk"] # Absent /\ LocalStaged
       /\ op = "test" => flag = "boot-recovery" /\ LocalStaged
       /\ Writes({"boot", "rootfs"}) => LocalStaged
       /\ Writes({"rootfs"}) => part["boot"].ver = LocalVersion
       /\ At("set", {"upgrade_post", "upgrade_end"}) \/ Writes({"usr"}) \/ op \in {"finish", "finishing"} =>
            SystemVersion = LocalVersion
=============================================================================
