-------------------------- MODULE MiscUpgradeProofs --------------------------
(***************************************************************************)
(* Proofs about MiscUpgrade for every storage layout, every number of      *)
(* releases and every number of power losses.                              *)
(***************************************************************************)
EXTENDS MiscUpgradeInv, TLAPS

(* The images and packages, and the partitions of the device. *)
LEMMA Members ==
  /\ "ramdisk" \in Images /\ "boot" \in Images /\ "rootfs" \in Images /\ "usr" \in Images
  /\ "ramdisk" \in Packages /\ "target" \in Packages /\ "usr" \in Packages
  /\ "boot" \in Partitions /\ "rootfs" \in Partitions /\ RamdiskPart \in Partitions
  /\ RamdiskPart \notin {"boot", "rootfs"}
  /\ HasExtend <=> "extend" \in Partitions
  /\ HasExtend => RamdiskPart = "extend"
BY DeviceAssumption DEF Images, Packages, Partitions, RamdiskPart

(* exit leaves well-typed script variables behind. *)
LEMMA ExitType ==
  ASSUME Exit
  PROVE  /\ op' \in Ops /\ arg' \in Images \cup Flags
         /\ want' \in SUBSET Packages
         /\ script' \in Scripts /\ job' \in Jobs
         /\ source' \in {"local", "net"} /\ normal_mode' \in BOOLEAN
BY DEF Exit, Ops, Flags, Scripts, Jobs

(* So does the start of a mode function, whatever it is started with. *)
LEMMA StartJobType ==
  ASSUME TypeOK,
         NEW s \in Scripts, NEW j \in Jobs, NEW opts \in SUBSET Options,
         NEW nm \in BOOLEAN, NEW inTmp \in BOOLEAN,
         StartJob(s, j, opts, nm, inTmp), settings' = opts,
         UNCHANGED <<part, flag, env, saved, outside>>
  PROVE  TypeOK'
<1>1. /\ staged' \in [Images -> FileVersion]
      /\ unpacked' \in [Packages -> FileVersion \cup {Empty}]
  BY DEF TypeOK, StartJob, Clean, NoFiles, NoDirs, FileVersion
<1>2. want' \in SUBSET Packages
  BY DEF StartJob, PackagesOf, Packages, Jobs, Scripts
<1>3. op' \in Ops /\ arg' \in Images \cup Flags
  BY DEF StartJob, FirstOp, Ops, Flags
<1>4. QED
  BY <1>1, <1>2, <1>3 DEF TypeOK, StartJob, outside

(* do_prepare_image of some package with some content. *)
LEMMA UnpackType ==
  ASSUME TypeOK, NEW p \in Packages, NEW c \in FileVersion,
         Unpack(p, c), UNCHANGED <<durable, env, saved, outside>>
  PROVE  TypeOK'
<1> DEFINE dirs == [unpacked EXCEPT ![p] = c]
           q == Listed(dirs)
<1>1. dirs \in [Packages -> FileVersion \cup {Empty}]
  BY DEF TypeOK
<1>2. dirs[q] \in FileVersion \cup {Empty}
  BY <1>1 DEF Listed, Packages
<1>3. /\ NoDirs \in [Packages -> FileVersion \cup {Empty}]
      /\ \A d \in {Garbage, Empty} : [dirs EXCEPT ![p] = d] \in [Packages -> FileVersion \cup {Empty}]
  BY <1>1 DEF NoDirs, FileVersion
<1>4. unpacked' \in [Packages -> FileVersion \cup {Empty}]
  BY <1>1, <1>3 DEF Unpack, TypeOK
<1>5. staged' \in [Images -> FileVersion]
  BY <1>2 DEF Unpack, TypeOK
<1>6. CASE Exit
  BY <1>4, <1>5, <1>6, ExitType DEF TypeOK, durable, outside
<1>7. CASE Prepared(p)
  BY <1>4, <1>5, <1>7 DEF TypeOK, Prepared, Ops, durable, outside, process
<1>8. QED
  BY <1>6, <1>7 DEF Unpack

(* Every step goes to a step of do_upgrade_image with the right argument. *)
LEMMA StepInvStep == TypeOK /\ StepInv /\ [Next]_vars => StepInv'
<1> SUFFICES ASSUME TypeOK, StepInv, [Next]_vars PROVE StepInv'
  OBVIOUS
<1> USE DEF StepInv, durable, tmp, process, outside
<1>1. ASSUME op' \notin {"set", "write", "writing"} PROVE StepInv'
  BY <1>1
<1>2. ASSUME UNCHANGED <<op, arg, staged>> PROVE StepInv'
  BY <1>2 DEF PartitionOf
<1>3. ASSUME NEW s \in Scripts, NEW j \in Jobs, NEW opts, NEW nm, NEW inTmp,
             StartJob(s, j, opts, nm, inTmp)
      PROVE  StepInv'
  BY <1>3 DEF StartJob, FirstOp
<1>4. ASSUME NEW s \in Scripts, NEW opts, NEW inTmp, Dispatch(s, opts, inTmp) PROVE StepInv'
  BY <1>3, <1>4 DEF Dispatch, JobOfFlag, Jobs, UpgradeEndMode
<1>5. CASE Bootloader \/ CheckNetwork \/ PrepareLocal \/ DownloadPackage \/ DownloadImage \/ StartPost
  BY <1>1, <1>5 DEF Bootloader, CheckNetwork, PrepareLocal, DownloadPackage, DownloadImage,
                    StartPost, Unpack, Prepared, Exit
<1>6. CASE Autorun
  BY <1>4, <1>6 DEF Autorun, Scripts
<1>7. CASE DoUpgradeImage \/ TestSystemFlag
  BY <1>7 DEF DoUpgradeImage, TestSystemFlag, FlashUsrOrReturn, Return, Goto, Images
<1>8. CASE SetSystemFlag
  BY <1>8 DEF SetSystemFlag, FlashUsrOrReturn, Return, Goto, Images
<1>9. ASSUME NEW i \in Images, BeginWrite(i) PROVE StepInv'
  BY <1>9 DEF BeginWrite, AfterWrite, Goto, Images
<1>10. ASSUME NEW i \in Images, EndWrite(i) PROVE StepInv'
  BY <1>10 DEF EndWrite, AfterWrite, Goto, Images
<1>11. CASE BeginFinish \/ UpgradeFinish \/ Reboot \/ PowerLoss
  BY <1>1, <1>11 DEF BeginFinish, UpgradeFinish, Reboot, PowerLoss, PowerOff, Exit
<1>12. ASSUME NEW s \in CommandScripts, NEW c \in Commands \cap {"force", "post", "dispatch"},
              NEW opts \in CommandOptions, NEW inTmp \in BOOLEAN, Command(s, c, opts, inTmp)
       PROVE  StepInv'
  BY <1>3, <1>4, <1>12, EnvironmentAssumption DEF Command, Jobs
<1>13. CASE EraseMisc \/ Publish \/ \E opts \in CommandOptions : RejectCommand(opts)
  BY <1>2, <1>13 DEF EraseMisc, Publish, RejectCommand
<1>14. CASE UNCHANGED vars
  BY <1>2, <1>14 DEF vars
<1>15. QED
  BY <1>5, <1>6, <1>7, <1>8, <1>9, <1>10, <1>11, <1>12, <1>13, <1>14
  DEF Next, DeviceStep, ScriptStep, OperatorStep

(* Every step of every script preserves the types. *)
LEMMA TypeStep == TypeOK /\ StepInv /\ [Next]_vars => TypeOK'
<1> SUFFICES ASSUME TypeOK, StepInv, [Next]_vars PROVE TypeOK'
  OBVIOUS
<1> USE DEF TypeOK, durable, tmp, process, outside
<1>1. CASE Bootloader
  BY <1>1 DEF Bootloader, Ops
<1>2. ASSUME NEW s \in Scripts, NEW opts \in SUBSET Options, NEW inTmp \in BOOLEAN,
             Dispatch(s, opts, inTmp),
             UNCHANGED <<part, flag, env, saved, outside>>
      PROVE  TypeOK'
  <2>1. CASE flag \in DOMAIN JobOfFlag
    <3>1. JobOfFlag[flag] \in Jobs
      BY <2>1 DEF JobOfFlag, Jobs
    <3>2. StartJob(s, JobOfFlag[flag], opts, FALSE, inTmp) /\ settings' = opts
      BY <1>2, <2>1 DEF Dispatch
    <3>3. QED
      BY <1>2, <3>1, <3>2, StartJobType
  <2>2. CASE flag \notin DOMAIN JobOfFlag
    BY <1>2, <2>2 DEF Dispatch, UpgradeEndMode, Ops, Flags
  <2>3. QED
    BY <2>1, <2>2
<1>3. CASE Autorun
  BY <1>2, <1>3 DEF Autorun, Scripts
<1>4. CASE CheckNetwork
  BY <1>4, ExitType DEF CheckNetwork, Ops
<1>5. CASE PrepareLocal
  <2>1. LocalVersion \in FileVersion /\ NextPackage \in Packages
    BY DeviceAssumption DEF LocalVersion, FileVersion, Versions, NextPackage, Packages
  <2>2. CASE Exit /\ UNCHANGED tmp
    BY <1>5, <2>2, ExitType DEF PrepareLocal
  <2>3. CASE Unpack(NextPackage, LocalVersion)
    BY <1>5, <2>1, <2>3, UnpackType DEF PrepareLocal
  <2>4. CASE Prepared(NextPackage) /\ UNCHANGED tmp
    BY <1>5, <2>4 DEF PrepareLocal, Prepared, Ops
  <2>5. QED
    BY <1>5, <2>2, <2>3, <2>4 DEF PrepareLocal
<1>6. CASE DownloadPackage
  <2>1. PICK c \in Downloads : \/ Exit /\ UNCHANGED tmp
                               \/ Unpack(NextPackage, c)
    BY <1>6 DEF DownloadPackage
  <2>2. c \in FileVersion /\ NextPackage \in Packages
    BY DEF Downloads, NextPackage, Packages
  <2>3. QED
    BY <1>6, <2>1, <2>2, ExitType, UnpackType DEF DownloadPackage
<1>7. CASE DownloadImage
  <2> DEFINE i == IF NextPackage = "target"
                    THEN IF staged["boot"] = Absent THEN "boot" ELSE "rootfs"
                    ELSE NextPackage
  <2>1. i \in Images
    BY DEF NextPackage, Images
  <2> HIDE DEF i
  <2>2. PICK c \in Downloads :
          \/ Exit /\ UNCHANGED staged
          \/ /\ staged' = [staged EXCEPT ![i] = c]
             /\ UNCHANGED <<op, arg, want, process>> \/ Prepared(NextPackage)
    BY <1>7 DEF DownloadImage, i
  <2>3. c \in FileVersion
    BY DEF Downloads
  <2>4. CASE Exit /\ UNCHANGED staged
    BY <1>7, <2>4, ExitType DEF DownloadImage
  <2>5. CASE /\ staged' = [staged EXCEPT ![i] = c]
             /\ UNCHANGED <<op, arg, want, process>> \/ Prepared(NextPackage)
    BY <1>7, <2>1, <2>3, <2>5 DEF DownloadImage, Prepared, Ops
  <2>6. QED
    BY <2>2, <2>4, <2>5
<1>8. CASE StartPost
  BY <1>8 DEF StartPost, Ops
<1>9. CASE DoUpgradeImage
  BY <1>9 DEF DoUpgradeImage, Goto, Ops, Flags
<1>10. CASE EraseMisc
  BY <1>10 DEF EraseMisc, Flags
<1>11. CASE SetSystemFlag
  <2>1. staged' \in [Images -> FileVersion]
    BY <1>11 DEF SetSystemFlag, FileVersion
  <2>2. flag' \in Flags /\ op' \in Ops /\ arg' \in Images \cup Flags
    BY <1>11 DEF StepInv, SetSystemFlag, Goto, Return, FlashUsrOrReturn, Ops, Flags, Images
  <2>3. QED
    BY <1>11, <2>1, <2>2 DEF SetSystemFlag
<1>12. CASE TestSystemFlag
  BY <1>12 DEF TestSystemFlag, Goto, Return, FlashUsrOrReturn, Ops, Flags, Images
<1>13. ASSUME NEW i \in Images, BeginWrite(i) PROVE TypeOK'
  <2>1. part' \in [Partitions -> Content]
    BY <1>13 DEF BeginWrite, Content
  <2>2. op' \in Ops /\ arg' \in Images \cup Flags
    BY <1>13 DEF BeginWrite, AfterWrite, Goto, Ops, Flags, Images
  <2>3. QED
    BY <1>13, <2>1, <2>2 DEF BeginWrite
<1>14. ASSUME NEW i \in Images, EndWrite(i) PROVE TypeOK'
  <2>1. part' \in [Partitions -> Content]
    <3>1. PICK v \in {staged[i], Garbage} :
            part' = [part EXCEPT ![PartitionOf(i)] = [img |-> i, ver |-> v]]
      BY <1>14 DEF EndWrite
    <3>2. v \in {Garbage} \cup Versions
      BY <1>14 DEF EndWrite, StepInv, FileVersion
    <3>3. QED
      BY <3>1, <3>2 DEF Content
  <2>2. op' \in Ops /\ arg' \in Images \cup Flags
    BY <1>14 DEF EndWrite, AfterWrite, Goto, Ops, Flags, Images
  <2>3. QED
    BY <1>14, <2>1, <2>2 DEF EndWrite
<1>15. CASE BeginFinish
  BY <1>15 DEF BeginFinish, Ops, Flags
<1>16. ASSUME PowerOff, UNCHANGED <<part, settings, server>>,
              flag' \in Flags, losses' \in 0..MaxLosses
       PROVE  TypeOK'
  BY <1>16, ExitType DEF PowerOff, NoFiles, NoDirs, FileVersion, Flags
<1>17. CASE UpgradeFinish \/ Reboot
  BY <1>16, <1>17 DEF UpgradeFinish, Reboot
<1>18. CASE PowerLoss
  <2>1. losses' \in 0..MaxLosses
    BY <1>18, DeviceAssumption DEF PowerLoss
  <2>2. QED
    BY <1>16, <1>18, <2>1 DEF PowerLoss
<1>19. ASSUME NEW s \in CommandScripts, NEW c \in Commands \cap {"force", "post", "dispatch"},
              NEW opts \in CommandOptions, NEW inTmp \in BOOLEAN, Command(s, c, opts, inTmp)
       PROVE TypeOK'
  <2>1. s \in Scripts /\ settings \cup opts \in SUBSET Options
    BY EnvironmentAssumption
  <2>2. CASE c = "dispatch"
    BY <1>2, <1>19, <2>1, <2>2 DEF Command
  <2>3. CASE c # "dispatch"
    <3>1. \E j \in Jobs : StartJob(s, j, settings \cup opts, TRUE, inTmp)
      BY <1>19, <2>3 DEF Command, Jobs
    <3>2. settings' = settings \cup opts
      BY <1>19, <2>3 DEF Command
    <3>3. UNCHANGED <<part, flag, env, saved, outside>>
      BY <1>19 DEF Command
    <3>4. QED
      BY <2>1, <3>1, <3>2, <3>3, StartJobType
  <2>4. QED
    BY <2>2, <2>3
<1>20. ASSUME NEW opts \in CommandOptions, RejectCommand(opts) PROVE TypeOK'
  BY <1>20, EnvironmentAssumption DEF RejectCommand
<1>21. CASE Publish
  <2>1. server' \in Versions
    BY <1>21, DeviceAssumption DEF Publish, Versions
  <2>2. QED
    BY <1>21, <2>1 DEF Publish
<1>22. CASE UNCHANGED vars
  BY <1>22 DEF vars
<1>23. QED
  BY <1>1, <1>3, <1>4, <1>5, <1>6, <1>7, <1>8, <1>9, <1>10, <1>11, <1>12, <1>13, <1>14,
     <1>15, <1>17, <1>18, <1>19, <1>20, <1>21, <1>22
  DEF Next, DeviceStep, ScriptStep, OperatorStep

(* The factory device is well typed. *)
LEMMA InitType == Init => TypeOK
<1> SUFFICES ASSUME Init PROVE TypeOK
  OBVIOUS
<1>1. part \in [Partitions -> Content]
  BY DeviceAssumption
  DEF Init, FactoryImage, Partitions, RamdiskPart, Content, Images, Versions, Garbage
<1>2. staged \in [Images -> FileVersion] /\ unpacked \in [Packages -> FileVersion]
  BY DEF Init, NoFiles, NoDirs, FileVersion
<1>3. server \in Versions /\ losses \in 0..MaxLosses
  BY DeviceAssumption DEF Init, Versions
<1>4. QED
  BY <1>1, <1>2, <1>3 DEF Init, TypeOK, Scripts, Jobs, Flags, Ops

(* Type correctness: the state the scripts leave is always one of MiscUpgrade's. *)
THEOREM TypeCorrect == Spec => []TypeOK
<1>1. Init => StepInv
  BY DEF Init, StepInv
<1>2. QED
  BY <1>1, InitType, TypeStep, StepInvStep, PTL DEF Spec
=============================================================================
