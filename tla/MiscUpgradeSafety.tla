-------------------------- MODULE MiscUpgradeSafety --------------------------
(***************************************************************************)
(* The device survives a power loss at any point of an upgrade: IInv is     *)
(* inductive for every safely used device, and from it follow Bootable,     *)
(* EndMeansUsr and the refinement of AtomicUpgrade.                         *)
(***************************************************************************)
EXTENDS MiscUpgradeProofs

(* An empty /tmp. *)
LEMMA NothingStaged ==
  ASSUME staged = NoFiles, unpacked = NoDirs
  PROVE  /\ staged["ramdisk"] = Absent /\ staged["boot"] = Absent
         /\ staged["rootfs"] = Absent /\ staged["usr"] = Absent
         /\ unpacked["ramdisk"] = Absent /\ unpacked["usr"] = Absent
         /\ FilesInv
BY DEF NoFiles, NoDirs, Images, Packages, Absent, Garbage, FilesInv

(* write_misc sets the flag, and what it says is flashed is deleted. *)
LEMMA SetSystemFlagSafe ==
  ASSUME SafeUse, IInv, SetSystemFlag, TypeOK', StepInv'
  PROVE  IInv'
<1> USE DEF IInv, TypeOK, SafeUse, SettingsInv, FilesInv, EnvInv, FlashInv, RecoveryInv, ExtendInv, TargetFirst,
            At, Writes, SystemDirty, SystemGood, SystemVersion, RamdiskGood, Startable,
            BootsRecovery, Bootable, UsrGood, Garbage, Absent, durable, tmp, process, outside
<1> USE DEF SetSystemFlag, Goto, Return, FlashUsrOrReturn
<1>1. arg \in {"upgrade_pre", "boot-recovery", "upgrade_post", "upgrade_end"}
  BY DEF StepInv
<1>2. \A i \in Images : staged'[i] = IF i \in FlashedBy(arg) THEN Absent ELSE staged[i]
  OBVIOUS
<1>3. FilesInv'
  <2>1. staged'["boot"] = staged'["rootfs"]
    BY <1>1, <1>2, Members DEF FlashedBy
  <2>2. env # "off" /\ op' # "autorun"
    BY <1>1
  <2>3. QED
    BY <1>2, <2>1, <2>2
<1>4. CASE arg = "upgrade_pre"
  BY <1>2, <1>3, <1>4, Members DEF FlashedBy
<1>5. CASE arg = "boot-recovery"
  <2>1. flag' \in {"upgrade_pre", "erased", "boot-recovery"}
    BY <1>5
  <2>2. QED
    BY <1>2, <1>3, <1>5, <2>1, Members DEF FlashedBy
<1>6. CASE arg = "upgrade_post"
  BY <1>2, <1>3, <1>6, Members DEF FlashedBy
<1>7. CASE arg = "upgrade_end"
  BY <1>2, <1>3, <1>7, Members DEF FlashedBy
<1>8. QED
  BY <1>1, <1>4, <1>5, <1>6, <1>7

(* The first block of an image replaces the old content of its partition. *)
LEMMA BeginWriteSafe ==
  ASSUME SafeUse, IInv, NEW i \in Images, BeginWrite(i), TypeOK', StepInv'
  PROVE  IInv'
<1> USE DEF IInv, TypeOK, SafeUse, SettingsInv, FilesInv, EnvInv, FlashInv, RecoveryInv, ExtendInv, TargetFirst,
            At, Writes, SystemDirty, SystemGood, SystemVersion, RamdiskGood, Startable,
            BootsRecovery, Bootable, UsrGood, Garbage, Absent, durable, tmp, process, outside
<1> USE DEF BeginWrite, PartitionOf, AfterWrite, Goto
<1>1. FilesInv' /\ SettingsInv'
  <2>1. env # "off" /\ op' # "autorun"
    BY DEF Images
  <2>2. QED
    BY <2>1
<1>2. CASE i = "ramdisk"
  BY <1>1, <1>2, Members
<1>3. CASE i = "boot"
  BY <1>1, <1>3, Members
<1>4. CASE i = "rootfs"
  BY <1>1, <1>4, Members
<1>5. CASE i = "usr"
  BY <1>1, <1>5, Members
<1>6. QED
  BY <1>2, <1>3, <1>4, <1>5 DEF Images

(* The last block makes it a complete image of the staged version. *)
LEMMA EndWriteSafe ==
  ASSUME SafeUse, IInv, NEW i \in Images, EndWrite(i), TypeOK', StepInv'
  PROVE  IInv'
<1> USE DEF IInv, TypeOK, SafeUse, SettingsInv, FilesInv, EnvInv, FlashInv, RecoveryInv, ExtendInv, TargetFirst,
            At, Writes, SystemDirty, SystemGood, SystemVersion, RamdiskGood, Startable,
            BootsRecovery, Bootable, UsrGood, Garbage, Absent, durable, tmp, process, outside
<1> USE DEF EndWrite, PartitionOf, AfterWrite, Goto
<1>1. FilesInv' /\ SettingsInv'
  <2>1. env # "off" /\ op' # "autorun"
    BY DEF Images
  <2>2. QED
    BY <2>1
<1>2. /\ part' = [part EXCEPT ![PartitionOf(i)] = [img |-> i, ver |-> staged[i]]]
      /\ PartitionOf(i) \in Partitions /\ staged[i] # Garbage
  BY DEF StepInv
<1>3. CASE i = "ramdisk"
  BY <1>1, <1>2, <1>3, Members
<1>4. CASE i = "boot"
  BY <1>1, <1>2, <1>4, Members
<1>5. CASE i = "rootfs"
  BY <1>1, <1>2, <1>5, Members
<1>6. CASE i = "usr"
  BY <1>1, <1>2, <1>6, Members
<1>7. QED
  BY <1>3, <1>4, <1>5, <1>6 DEF Images

(* do_upgrade clean leaves nothing staged, and nothing new unpacked. *)
LEMMA CleanFiles ==
  ASSUME IInv, NEW inTmp \in BOOLEAN, Clean(inTmp)
  PROVE  /\ staged' = NoFiles
         /\ \A i \in Images : staged'[i] = Absent
         /\ \A p \in Packages : unpacked'[p] \in {Absent, unpacked[p]}
BY DEF Clean, NoFiles, NoDirs, IInv, TypeOK, Packages

(* A mode function starts with nothing staged: in the recovery system only     *)
(* boot_recovery_mode of the normal script, and upgrade_post_mode only after    *)
(* the system was flashed.                                                    *)
LEMMA StartJobSafe ==
  ASSUME SafeUse, IInv,
         NEW s \in Scripts, NEW j \in Jobs, NEW opts \in SUBSET Options,
         NEW nm \in BOOLEAN, NEW inTmp \in BOOLEAN,
         StartJob(s, j, opts, nm, inTmp), settings' = opts,
         UNCHANGED <<part, flag, env, saved, outside>>,
         op = "autorun" \/ (op = "idle" /\ env = "normal"),
         "none_compress" \notin opts,
         env = "recovery" => s = "normal" /\ j = "recovery",
         HasExtend /\ j = "post" => flag = "upgrade_post",
         j = "recovery" => flag = "boot-recovery",
         TypeOK', StepInv'
  PROVE  IInv'
<1> USE DEF IInv, TypeOK, SafeUse, SettingsInv, FilesInv, EnvInv, FlashInv, RecoveryInv, ExtendInv, TargetFirst,
            At, Writes, SystemDirty, SystemGood, SystemVersion, RamdiskGood, Startable,
            BootsRecovery, Bootable, UsrGood, Garbage, Absent, durable, tmp, process, outside
<1> USE DEF StartJob
<1>1. /\ op' \in {"start", "stage", "network"}
      /\ op' = "start" => s = "normal" /\ j = "post"
  BY DEF FirstOp
<1>2. env # "off"
  BY Members
<1>3. /\ staged'["ramdisk"] = Absent /\ staged'["usr"] = Absent
      /\ unpacked'["ramdisk"] \in {Absent, unpacked["ramdisk"]}
      /\ unpacked'["usr"] \in {Absent, unpacked["usr"]}
  BY CleanFiles, Members
<1>4. FilesInv'
  BY <1>1, <1>2, CleanFiles, Members
<1>5. SettingsInv'
  BY DEF UsesLocal
<1>6. Bootable' /\ EnvInv' /\ FlashInv'
  BY <1>1, <1>2
<1>7. RecoveryInv'
  BY <1>1, <1>3 DEF PackagesOf
<1>8. ExtendInv'
  <2>1. CASE j = "pre"
    BY <1>1, <1>3, <2>1 DEF PackagesOf, Packages
  <2>2. CASE j = "recovery"
    BY <1>1, <1>3, <2>2 DEF PackagesOf
  <2>3. CASE j = "post"
    BY <1>1, <1>3, <2>3 DEF PackagesOf, FirstOp, Scripts
  <2>4. QED
    BY <2>1, <2>2, <2>3 DEF Jobs
<1>9. QED
  BY <1>4, <1>5, <1>6, <1>7, <1>8

(* A script that goes by the flag, at boot or on command. *)
LEMMA DispatchSafe ==
  ASSUME SafeUse, IInv,
         NEW s \in Scripts, NEW opts \in SUBSET Options, NEW inTmp \in BOOLEAN,
         Dispatch(s, opts, inTmp), UNCHANGED <<part, flag, env, saved, outside>>,
         op = "autorun" \/ (op = "idle" /\ env = "normal"),
         "none_compress" \notin opts,
         env = "recovery" => s = "normal",
         TypeOK', StepInv'
  PROVE  IInv'
<1>1. CASE flag \in DOMAIN JobOfFlag
  <2>1. /\ JobOfFlag[flag] \in Jobs
        /\ JobOfFlag[flag] = "post" => flag = "upgrade_post"
        /\ JobOfFlag[flag] = "recovery" => flag = "boot-recovery"
        /\ flag = "boot-recovery" => JobOfFlag[flag] = "recovery"
    BY <1>1 DEF JobOfFlag, Jobs
  <2>2. env = "recovery" => JobOfFlag[flag] = "recovery"
    BY <2>1 DEF IInv, RecoveryInv
  <2>3. StartJob(s, JobOfFlag[flag], opts, FALSE, inTmp) /\ settings' = opts
    BY <1>1 DEF Dispatch
  <2>4. QED
    BY <2>1, <2>2, <2>3, StartJobSafe
<1>2. CASE flag \notin DOMAIN JobOfFlag
  <2>1. UpgradeEndMode /\ env # "recovery"
    BY <1>2 DEF Dispatch, JobOfFlag, IInv, RecoveryInv
  <2>2. QED
    BY <2>1
    DEF UpgradeEndMode, IInv, TypeOK, SafeUse, SettingsInv, FilesInv, EnvInv, FlashInv, RecoveryInv, ExtendInv, TargetFirst,
        At, Writes, SystemDirty, SystemGood, SystemVersion, RamdiskGood, Startable,
        BootsRecovery, Bootable, UsrGood, Garbage, Absent, durable, tmp, process, outside
<1>3. QED
  BY <1>1, <1>2

(* do_prepare_image stages the images of one package, or exits.  Where usr.img  *)
(* and the ramdisk share a partition that is the package it was called for,       *)
(* and in the recovery system it is the target package.                          *)
LEMMA UnpackSafe ==
  ASSUME SafeUse, IInv, op = "stage",
         NEW c \in FileVersion, c # Absent, Unpack(NextPackage, c),
         UNCHANGED <<durable, env, saved, outside>>, TypeOK', StepInv'
  PROVE  IInv'
<1> USE DEF IInv, TypeOK, SafeUse, SettingsInv, FilesInv, EnvInv, FlashInv, RecoveryInv, ExtendInv, TargetFirst,
            At, Writes, SystemDirty, SystemGood, SystemVersion, RamdiskGood, Startable,
            BootsRecovery, Bootable, UsrGood, Garbage, Absent, durable, tmp, process, outside
<1> DEFINE p == NextPackage
           dirs == [unpacked EXCEPT ![p] = c]
           q == Listed(dirs)
<1>1. /\ p \in Packages /\ q \in Packages
      /\ dirs \in [Packages -> FileVersion \cup {Empty}] /\ dirs[p] = c
      /\ \A r \in Packages \ {p} : dirs[r] = unpacked[r]
  BY DEF NextPackage, Listed, Packages
<1>2. env # "off"
  OBVIOUS
<1>3. CASE Exit
  <2>1. staged' = staged
    BY <1>3 DEF Unpack, Prepared, Exit
  <2>2. /\ unpacked'["ramdisk"] # Absent => p = "ramdisk" \/ unpacked["ramdisk"] # Absent
        /\ unpacked'["usr"] # Absent => p = "usr" \/ unpacked["usr"] # Absent
    BY <1>1, Members DEF Unpack, NoDirs
  <2>3. HasExtend => \A r \in Packages : unpacked'[r] \in {Absent, Garbage}
    BY <1>1, <1>3 DEF Unpack, Prepared, Exit, NoDirs
  <2>4. FilesInv'
    BY <1>2, <1>3, <2>1, <2>3 DEF Exit
  <2>5. SettingsInv' /\ EnvInv' /\ Bootable' /\ FlashInv' /\ ExtendInv'
    BY <1>2, <1>3, <2>1 DEF Exit
  <2>6. RecoveryInv'
    BY <1>3, <2>1, <2>2 DEF Exit, NextPackage
  <2>7. QED
    BY <2>4, <2>5, <2>6
<1>4. CASE /\ dirs[q] \notin {Garbage, Empty} /\ unpacked' = NoDirs
           /\ staged' = [i \in Images |-> IF i \in ImagesOf(q) THEN dirs[q] ELSE staged[i]]
           /\ Prepared(p)
  <2>1. dirs[q] # Absent
    BY <1>1 DEF Listed, Packages
  <2>2. env = "recovery" => p = "target" /\ q = "target"
    BY <1>1, Members DEF NextPackage, Listed
  <2>3. HasExtend => q = p
    BY <1>1, <1>4, <2>1
  <2>4. \A i \in Images : staged'[i] = IF i \in ImagesOf(q) THEN dirs[q] ELSE staged[i]
    BY <1>4
  <2>5. /\ unpacked'["ramdisk"] = Absent /\ unpacked'["usr"] = Absent
        /\ \A r \in Packages : unpacked'[r] = Absent
    BY <1>4, Members DEF NoDirs
  <2>6. op' \in {"stage", "start", "flash"}
    BY <1>4 DEF Prepared
  <2> HIDE DEF p, dirs, q
  <2>7. FilesInv'
    <3>1. staged'["boot"] = staged'["rootfs"]
      BY <1>1, <2>4, Members DEF ImagesOf, Packages
    <3>2. \A i \in Images : staged'[i] # Garbage
      BY <1>4, <2>4
    <3>3. QED
      BY <1>2, <2>5, <2>6, <3>1, <3>2
  <2>8. SettingsInv' /\ EnvInv' /\ Bootable' /\ FlashInv'
    BY <1>2, <1>4, <2>6 DEF Prepared
  <2>9. RecoveryInv'
    BY <1>4, <2>1, <2>2, <2>4, <2>5, <2>6, Members DEF Prepared, ImagesOf
  <2>10. ExtendInv'
    <3> SUFFICES ASSUME HasExtend PROVE ExtendInv'
      OBVIOUS
    <3>1. /\ op' \in {"stage", IF job = "post" THEN "start" ELSE "flash"}
          /\ op' = "stage" => want' # {}
          /\ want' = want \ {p} /\ job' = job /\ flag' = flag
      BY <1>4 DEF Prepared, p, NextPackage, Packages
    <3>2. CASE p = "ramdisk"
      BY <2>1, <2>3, <2>4, <3>1, <3>2, Members DEF p, NextPackage, ImagesOf
    <3>3. CASE p = "target"
      BY <2>1, <2>3, <2>4, <3>1, <3>3, Members DEF p, NextPackage, ImagesOf
    <3>4. CASE p = "usr"
      <4>1. want \subseteq {"usr"}
        BY <3>4 DEF p, NextPackage, Packages
      <4>2. want' = {}
        BY <3>1, <3>4, <4>1
      <4>3. /\ staged'["usr"] # Absent
            /\ staged'["ramdisk"] = staged["ramdisk"] /\ staged'["boot"] = staged["boot"]
        BY <2>1, <2>3, <2>4, <3>4, Members DEF ImagesOf
      <4>4. TargetFirst /\ (job = "post" => flag # "boot-recovery" /\ staged["ramdisk"] = Absent)
        BY <4>1
      <4>5. QED
        BY <3>1, <4>1, <4>2, <4>3, <4>4
    <3>5. QED
      BY <1>1, <3>2, <3>3, <3>4 DEF Packages
  <2>11. QED
    BY <2>7, <2>8, <2>9, <2>10
<1>5. CASE dirs[q] = Empty /\ unpacked' = NoDirs /\ UNCHANGED staged /\ Prepared(p)
  <2>1. c # Empty
    BY DeviceAssumption DEF FileVersion, Versions, Empty
  <2>2. ~HasExtend
    BY <1>1, <1>5, <2>1 DEF Empty
  <2>3. env # "recovery"
    <3> SUFFICES ASSUME env = "recovery" PROVE FALSE
      OBVIOUS
    <3>1. p = "target" /\ q = "target"
      BY <1>1, Members DEF NextPackage, Listed
    <3>2. QED
      BY <1>1, <1>5, <2>1, <3>1
  <2>4. op' \in {"stage", "start", "flash"} /\ UNCHANGED <<arg, process>>
    BY <1>5 DEF Prepared
  <2> HIDE DEF p, dirs, q
  <2>5. FilesInv'
    BY <1>2, <1>5, <2>2, <2>4
  <2>6. SettingsInv' /\ EnvInv' /\ Bootable' /\ FlashInv'
    BY <1>2, <1>5, <2>4
  <2>7. RecoveryInv' /\ ExtendInv'
    BY <2>2, <2>3
  <2>8. QED
    BY <2>5, <2>6, <2>7
<1>6. QED
  BY <1>3, <1>4, <1>5 DEF Unpack

(* A command of the operator, in the normal system. *)
LEMMA CommandSafe ==
  ASSUME SafeUse, IInv,
         NEW s \in CommandScripts, NEW c \in Commands \cap {"force", "post", "dispatch"},
         NEW opts \in CommandOptions, NEW inTmp \in BOOLEAN, Command(s, c, opts, inTmp),
         TypeOK', StepInv'
  PROVE  IInv'
<1>1. op = "idle" /\ env = "normal"
  BY DEF Command, MayCommand, SafeUse
<1>2. /\ s \in Scripts /\ settings \cup opts \in SUBSET Options
      /\ "none_compress" \notin settings \cup opts
  BY EnvironmentAssumption DEF SafeUse, IInv, TypeOK, SettingsInv
<1>3. UNCHANGED <<part, flag, env, saved, outside>>
  BY DEF Command
<1>4. CASE c = "dispatch"
  <2>1. Dispatch(s, settings \cup opts, inTmp)
    BY <1>4 DEF Command
  <2>2. QED
    BY <1>1, <1>2, <1>3, <2>1, DispatchSafe
<1>5. CASE c # "dispatch"
  <2>1. settings' = settings \cup opts
    BY <1>5 DEF Command
  <2>2. PICK j \in {"pre", "post"} :
          /\ StartJob(s, j, settings \cup opts, TRUE, inTmp)
          /\ HasExtend => j = "pre"
    BY <1>5 DEF Command, SafeUse
  <2>3. QED
    BY <1>1, <1>2, <1>3, <2>1, <2>2, StartJobSafe DEF Jobs
<1>6. QED
  BY <1>4, <1>5

(* Every step of a safely used device preserves the invariant. *)
LEMMA SafeStep ==
  ASSUME SafeUse, IInv, [Next]_vars
  PROVE  IInv'
<1>1. TypeOK' /\ StepInv'
  BY TypeStep, StepInvStep DEF IInv
<1> USE DEF IInv, TypeOK, SafeUse, SettingsInv, FilesInv, EnvInv, FlashInv, RecoveryInv, ExtendInv, TargetFirst,
            At, Writes, SystemDirty, SystemGood, SystemVersion, RamdiskGood, Startable,
            BootsRecovery, Bootable, UsrGood, Garbage, Absent, durable, tmp, process, outside
<1>2. CASE Bootloader
  BY <1>1, <1>2, NothingStaged DEF Bootloader
<1>3. CASE Autorun
  BY <1>1, <1>3, DispatchSafe DEF Autorun, Scripts
<1>4. CASE CheckNetwork
  BY <1>1, <1>4 DEF CheckNetwork, Exit
<1>5. CASE PrepareLocal
  <2>1. Compressed /\ op = "stage"
    BY <1>5 DEF PrepareLocal, Compressed
  <2>2. CASE Exit /\ UNCHANGED tmp
    BY <1>1, <1>5, <2>2 DEF PrepareLocal, Exit
  <2>3. CASE Unpack(NextPackage, LocalVersion)
    <3>1. LocalVersion \in FileVersion /\ LocalVersion # Absent
      BY DeviceAssumption DEF LocalVersion, FileVersion, Versions
    <3>2. UNCHANGED <<durable, env, saved, outside>>
      BY <1>5 DEF PrepareLocal
    <3>3. QED
      BY <1>1, <2>1, <2>3, <3>1, <3>2, UnpackSafe
  <2>4. QED
    BY <1>5, <2>1, <2>2, <2>3 DEF PrepareLocal
<1>6. CASE DownloadPackage
  <2>1. PICK c \in Downloads : \/ Exit /\ UNCHANGED tmp
                               \/ c # Absent /\ Unpack(NextPackage, c)
    BY <1>6 DEF DownloadPackage
  <2>2. CASE Exit /\ UNCHANGED tmp
    BY <1>1, <1>6, <2>2 DEF DownloadPackage, Exit
  <2>3. CASE c # Absent /\ Unpack(NextPackage, c)
    <3>1. c \in FileVersion /\ op = "stage"
      BY <1>6 DEF Downloads, DownloadPackage
    <3>2. UNCHANGED <<durable, env, saved, outside>>
      BY <1>6 DEF DownloadPackage
    <3>3. QED
      BY <1>1, <2>3, <3>1, <3>2, UnpackSafe
  <2>4. QED
    BY <2>1, <2>2, <2>3
<1>7. CASE DownloadImage
  BY <1>7 DEF DownloadImage, Compressed
<1>8. CASE StartPost
  BY <1>1, <1>8 DEF StartPost
<1>9. CASE DoUpgradeImage
  BY <1>1, <1>9 DEF DoUpgradeImage, Goto
<1>10. CASE EraseMisc
  BY <1>1, <1>10 DEF EraseMisc
<1>11. CASE SetSystemFlag
  BY <1>1, <1>11, SetSystemFlagSafe
<1>12. CASE TestSystemFlag
  BY <1>1, <1>12 DEF TestSystemFlag, Goto, Return, FlashUsrOrReturn
<1>13. CASE \E i \in Images : BeginWrite(i) \/ EndWrite(i)
  BY <1>1, <1>13, BeginWriteSafe, EndWriteSafe
<1>14. CASE BeginFinish
  BY <1>1, <1>14 DEF BeginFinish
<1>15. CASE UpgradeFinish \/ Reboot \/ PowerLoss
  <2> USE DEF PowerOff, Exit, NoFiles, NoDirs, Images, Packages
  <2>1. CASE UpgradeFinish
    BY <1>1, <2>1 DEF UpgradeFinish
  <2>2. CASE Reboot
    BY <1>1, <2>2 DEF Reboot
  <2>3. CASE PowerLoss
    BY <1>1, <2>3 DEF PowerLoss
  <2>4. QED
    BY <1>15, <2>1, <2>2, <2>3
<1>16. CASE \E s \in CommandScripts, c \in Commands \cap {"force", "post", "dispatch"},
               opts \in CommandOptions, inTmp \in BOOLEAN : Command(s, c, opts, inTmp)
  BY <1>1, <1>16, CommandSafe
<1>17. ASSUME NEW opts \in CommandOptions, RejectCommand(opts) PROVE IInv'
  BY <1>1, <1>17 DEF RejectCommand, MayCommand
<1>18. CASE Publish
  BY <1>1, <1>18 DEF Publish
<1>19. CASE UNCHANGED vars
  BY <1>1, <1>19 DEF vars
<1> HIDE DEF IInv
<1>20. QED
  BY <1>2, <1>3, <1>4, <1>5, <1>6, <1>7, <1>8, <1>9, <1>10, <1>11, <1>12, <1>13, <1>14,
     <1>15, <1>16, <1>17, <1>18, <1>19
  DEF Next, DeviceStep, ScriptStep, OperatorStep

(* The factory device satisfies the invariant. *)
LEMMA SafeInit == Init => IInv
<1> SUFFICES ASSUME Init PROVE IInv
  OBVIOUS
<1>1. TypeOK
  BY InitType
<1>2. SystemVersion = 1 /\ flag = "none" /\ op = "idle" /\ env = "off"
  BY DEF Init, FactoryImage, Partitions, SystemVersion
<1>3. FilesInv
  BY NothingStaged DEF Init
<1>4. StepInv /\ SettingsInv /\ RecoveryInv
  BY <1>2 DEF Init, StepInv, SettingsInv, RecoveryInv
<1>5. Bootable /\ EnvInv /\ FlashInv /\ ExtendInv
  BY <1>2 DEF Init, Bootable, Startable, BootsRecovery, EnvInv, FlashInv, ExtendInv, SystemGood,
              At, Writes, Garbage
<1>6. QED
  BY <1>1, <1>3, <1>4, <1>5 DEF IInv

(* The invariant holds throughout, for every storage layout, number of         *)
(* releases and number of power losses, if the device is used safely.          *)
THEOREM Invariant ==
  ASSUME SafeUse
  PROVE  Spec => []IInv
<1>1. IInv /\ [Next]_vars => IInv'
  BY SafeStep
<1>2. QED
  BY <1>1, SafeInit, PTL DEF Spec

(* No power loss, and no failed download or write of the recovery flag, at      *)
(* any point of any sequence of upgrades leaves a device that does not start:  *)
(* the order of writes and flags in do_upgrade_image is safe.                 *)
THEOREM SurvivesPowerLoss ==
  ASSUME SafeUse
  PROVE  Spec => []Bootable
<1>1. IInv => Bootable
  BY DEF IInv
<1>2. QED
  BY <1>1, Invariant, PTL

(* "upgrade_end" is recorded only over a complete usr image. *)
THEOREM EndIsComplete ==
  ASSUME SafeUse
  PROVE  Spec => []EndMeansUsr
<1>1. IInv => EndMeansUsr
  BY DEF IInv, ExtendInv, EndMeansUsr
<1>2. QED
  BY <1>1, Invariant, PTL

(* While the flag keeps selecting the system, nothing writes to its partitions. *)
LEMMA SystemStable ==
  ASSUME SafeUse, IInv, [Next]_vars, ~BootsRecovery
  PROVE  part'["boot"] = part["boot"] /\ part'["rootfs"] = part["rootfs"]
<1> USE DEF durable
<1>1. ASSUME NEW i \in Images, BeginWrite(i) \/ EndWrite(i)
      PROVE  part'["boot"] = part["boot"] /\ part'["rootfs"] = part["rootfs"]
  <2>1. i \notin {"boot", "rootfs"}
    BY <1>1 DEF IInv, FlashInv, Writes, At, BootsRecovery, BeginWrite, EndWrite
  <2>2. PartitionOf(i) \notin {"boot", "rootfs"}
    BY <2>1, Members DEF PartitionOf, Images
  <2>3. QED
    BY <1>1, <2>2, Members DEF BeginWrite, EndWrite, IInv, TypeOK
<1>2. CASE UNCHANGED part
  BY <1>2
<1>3. QED
  BY <1>1, <1>2
  DEF vars, Next, DeviceStep, ScriptStep, OperatorStep, Bootloader, Autorun, CheckNetwork,
      PrepareLocal, DownloadPackage, DownloadImage, StartPost, DoUpgradeImage, EraseMisc,
      SetSystemFlag, TestSystemFlag, BeginFinish, UpgradeFinish, Command, RejectCommand,
      Reboot, PowerLoss, Publish

(* The scripts implement the atomic upgrade: one release replaces another only  *)
(* by way of the recovery system.                                              *)
THEOREM UpgradeIsAtomic ==
  ASSUME SafeUse
  PROVE  Spec => AtomicSystem
<1>1. IInv => BootTarget = IF BootsRecovery THEN 0 ELSE SystemVersion
  BY DEF IInv, Bootable, BootTarget
<1>2. IInv /\ ~BootsRecovery => SystemVersion \in Versions
  BY Members DEF IInv, TypeOK, Content, Bootable, Startable, SystemVersion, Garbage
<1>3. Init => Atomic!Init
  BY <1>1, <1>2, SafeInit DEF Init, BootsRecovery, Atomic!Init
<1>4. IInv /\ [Next]_vars => [Atomic!Next]_BootTarget
  <2> SUFFICES ASSUME IInv, [Next]_vars PROVE [Atomic!Next]_BootTarget
    OBVIOUS
  <2> USE DEF Atomic!Next, Atomic!EnterRecovery, Atomic!LeaveRecovery, Atomic!Recovery
  <2>1. IInv'
    BY SafeStep
  <2>2. /\ BootTarget' = IF BootsRecovery' THEN 0 ELSE SystemVersion'
        /\ ~BootsRecovery' => SystemVersion' \in Versions
    BY <1>1, <1>2, <2>1, Members
    DEF IInv, TypeOK, Content, Bootable, Startable, BootTarget, SystemVersion, Garbage
  <2>3. CASE BootsRecovery
    BY <1>1, <2>2, <2>3
  <2>4. CASE ~BootsRecovery
    <3>1. SystemVersion' = SystemVersion
      BY <2>4, SystemStable DEF SystemVersion
    <3>2. QED
      BY <1>1, <1>2, <2>2, <2>4, <3>1
  <2>5. QED
    BY <2>3, <2>4
<1>5. QED
  BY <1>3, <1>4, Invariant, PTL DEF Spec, AtomicSystem, Atomic!Spec
=============================================================================
