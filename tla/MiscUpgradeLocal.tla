-------------------------- MODULE MiscUpgradeLocal --------------------------
(***************************************************************************)
(* An upgrade from local packages that gets to upgrade_finish has flashed  *)
(* the system it was given, on every device, after any power losses and    *)
(* under any other commands: LocalInv is inductive under LocalUse.         *)
(***************************************************************************)
EXTENDS MiscUpgradeProofs

(* The version of the local packages is one that can be staged. *)
LEMMA LocalVersionType ==
  LocalVersion \in FileVersion /\ LocalVersion \notin {Absent, Garbage}
BY DeviceAssumption DEF LocalVersion, FileVersion, Versions, Absent, Garbage

(* write_misc in a local upgrade: "boot-recovery" is there when it is read back. *)
LEMMA SetSystemFlagLocal ==
  ASSUME LocalUse, TypeOK, StepInv, LocalInv, SetSystemFlag
  PROVE  LocalInv'
<1> USE DEF LocalInv, TypeOK, LocalUse, SettingsInv, LocalJob, LocalStaged,
            At, Writes, SystemVersion, Garbage, Absent, durable, tmp, process, outside
<1> USE DEF SetSystemFlag, Goto, Return, FlashUsrOrReturn
<1>1. arg \in {"upgrade_pre", "boot-recovery", "upgrade_post", "upgrade_end"}
  BY DEF StepInv
<1>2. \A i \in Images : staged'[i] = IF i \in FlashedBy(arg) THEN Absent ELSE staged[i]
  OBVIOUS
<1>3. CASE arg = "upgrade_pre"
  BY <1>2, <1>3, Members DEF FlashedBy
<1>4. CASE arg = "boot-recovery"
  BY <1>2, <1>4, Members DEF FlashedBy
<1>5. CASE arg = "upgrade_post"
  BY <1>2, <1>5, Members DEF FlashedBy
<1>6. CASE arg = "upgrade_end"
  BY <1>2, <1>6, Members DEF FlashedBy
<1>7. QED
  BY <1>1, <1>3, <1>4, <1>5, <1>6

(* Flashing an image of a local upgrade. *)
LEMMA WriteLocal ==
  ASSUME LocalUse, TypeOK, StepInv, LocalInv, NEW i \in Images, BeginWrite(i) \/ EndWrite(i)
  PROVE  LocalInv'
<1> USE DEF LocalInv, TypeOK, LocalUse, SettingsInv, LocalJob, LocalStaged,
            At, Writes, SystemVersion, Garbage, Absent, durable, tmp, process, outside
<1> USE DEF BeginWrite, EndWrite, PartitionOf, AfterWrite, Goto
<1>1. staged' = staged /\ unpacked' = unpacked /\ flag' = flag /\ want' = want
  OBVIOUS
<1>2. CASE i = "ramdisk"
  BY <1>1, <1>2, Members
<1>3. CASE i = "boot"
  BY <1>1, <1>3, Members, LocalVersionType DEF StepInv
<1>4. CASE i = "rootfs"
  BY <1>1, <1>4, Members, LocalVersionType DEF StepInv
<1>5. CASE i = "usr"
  BY <1>1, <1>5, Members DEF StepInv
<1>6. QED
  BY <1>2, <1>3, <1>4, <1>5 DEF Images

(* upgrade_pre_mode starts with both packages of the system still to prepare. *)
LEMMA StartJobLocal ==
  ASSUME LocalUse, TypeOK, LocalInv,
         NEW s \in Scripts, NEW j \in Jobs, NEW opts \in SUBSET Options,
         NEW nm \in BOOLEAN, NEW inTmp \in BOOLEAN,
         StartJob(s, j, opts, nm, inTmp), settings' = opts, "none_compress" \notin opts
  PROVE  LocalInv'
<1> USE DEF LocalInv, TypeOK, LocalUse, SettingsInv, LocalJob, LocalStaged,
            At, Writes, SystemVersion, Garbage, Absent, durable, tmp, process, outside
<1> USE DEF StartJob
<1>1. \A p \in Packages : unpacked'[p] \in {Absent, Garbage}
  BY DEF Clean, NoDirs, Packages
<1>2. CASE LocalJob'
  <2>1. j = "pre" /\ UsesLocal(s, j, opts)
    BY <1>2
  <2>2. op' = "stage"
    BY <2>1 DEF FirstOp
  <2>3. "ramdisk" \in want' /\ "target" \in want'
    BY <2>1 DEF PackagesOf, Packages
  <2>4. QED
    BY <1>1, <2>2, <2>3
<1>3. CASE ~LocalJob'
  BY <1>1, <1>3
<1>4. QED
  BY <1>2, <1>3

(* A script that goes by the flag, at boot or on command. *)
LEMMA DispatchLocal ==
  ASSUME LocalUse, TypeOK, LocalInv,
         NEW s \in Scripts, NEW opts \in SUBSET Options, NEW inTmp \in BOOLEAN,
         Dispatch(s, opts, inTmp), "none_compress" \notin opts
  PROVE  LocalInv'
<1>1. CASE flag \in DOMAIN JobOfFlag
  <2>1. JobOfFlag[flag] \in Jobs
    BY <1>1 DEF JobOfFlag, Jobs
  <2>2. StartJob(s, JobOfFlag[flag], opts, FALSE, inTmp) /\ settings' = opts
    BY <1>1 DEF Dispatch
  <2>3. QED
    BY <2>1, <2>2, StartJobLocal
<1>2. CASE flag \notin DOMAIN JobOfFlag
  BY <1>2 DEF Dispatch, UpgradeEndMode, LocalInv, SettingsInv, LocalJob, At, Writes, tmp, process
<1>3. QED
  BY <1>1, <1>2

(* do_prepare_image stages the package it was called for, or exits. *)
LEMMA UnpackLocal ==
  ASSUME LocalUse, TypeOK, LocalInv, op = "stage",
         NEW c \in FileVersion, c # Absent, Unpack(NextPackage, c),
         source = "local" => c = LocalVersion,
         UNCHANGED <<durable, env, saved, outside>>
  PROVE  LocalInv'
<1> USE DEF LocalInv, TypeOK, LocalUse, SettingsInv, LocalJob, LocalStaged,
            At, Writes, SystemVersion, Garbage, Absent, durable, tmp, process, outside
<1> DEFINE p == NextPackage
           dirs == [unpacked EXCEPT ![p] = c]
           q == Listed(dirs)
<1>1. /\ p \in Packages /\ q \in Packages /\ dirs[p] = c
      /\ \A r \in Packages \ {p} : dirs[r] = unpacked[r]
  BY DEF NextPackage, Listed, Packages
<1>2. CASE Exit
  <2>1. \A r \in Packages : unpacked'[r] \in {Absent, Garbage}
    BY <1>1, <1>2 DEF Unpack, Prepared, Exit, NoDirs
  <2>2. QED
    BY <1>2, <2>1 DEF Exit
<1>3. CASE /\ dirs[q] \notin {Garbage, Empty} /\ unpacked' = NoDirs
           /\ staged' = [i \in Images |-> IF i \in ImagesOf(q) THEN dirs[q] ELSE staged[i]]
           /\ Prepared(p)
  <2>1. dirs[q] # Absent
    BY <1>1 DEF Listed, Packages
  <2>2. q = p
    BY <1>1, <1>3, <2>1
  <2>3. \A i \in Images : staged'[i] = IF i \in ImagesOf(p) THEN c ELSE staged[i]
    BY <1>1, <1>3, <2>2
  <2>4. \A r \in Packages : unpacked'[r] = Absent
    BY <1>3 DEF NoDirs
  <2> HIDE DEF p, dirs, q
  <2>5. CASE LocalJob
    <3>1. /\ want' = want \ {p} /\ p \in want
          /\ op' = IF want # {p} THEN "stage" ELSE "flash"
          /\ job' = job /\ source' = source /\ c = LocalVersion
      BY <1>3, <2>5 DEF Prepared, p, NextPackage, Packages
    <3>2. op' = "flash" => want' = {}
      BY <3>1
    <3>3. op' = "stage" => want' # {}
      BY <3>1
    <3>4. CASE p = "ramdisk"
      BY <2>3, <2>4, <2>5, <3>1, <3>2, <3>3, <3>4, Members, LocalVersionType DEF ImagesOf
    <3>5. CASE p = "target"
      <4>1. "ramdisk" \notin want
        BY <3>5 DEF p, NextPackage
      <4>2. QED
        BY <2>3, <2>4, <2>5, <3>1, <3>2, <3>3, <3>5, <4>1, Members DEF ImagesOf
    <3>6. CASE p = "usr"
      <4>1. "ramdisk" \notin want /\ "target" \notin want
        BY <3>6 DEF p, NextPackage
      <4>2. QED
        BY <2>3, <2>4, <2>5, <3>1, <3>2, <3>3, <3>6, <4>1, Members DEF ImagesOf
    <3>7. QED
      BY <1>1, <3>4, <3>5, <3>6 DEF Packages
  <2>6. CASE ~LocalJob
    BY <1>3, <2>4, <2>6 DEF Prepared
  <2>7. QED
    BY <2>5, <2>6
<1>4. dirs[q] # Empty
  BY <1>1, DeviceAssumption DEF FileVersion, Versions, Empty
<1>5. QED
  BY <1>2, <1>3, <1>4 DEF Unpack

(* A command of the operator. *)
LEMMA CommandLocal ==
  ASSUME LocalUse, TypeOK, LocalInv,
         NEW s \in CommandScripts, NEW c \in Commands \cap {"force", "post", "dispatch"},
         NEW opts \in CommandOptions, NEW inTmp \in BOOLEAN, Command(s, c, opts, inTmp)
  PROVE  LocalInv'
<1>1. /\ s \in Scripts /\ settings \cup opts \in SUBSET Options
      /\ "none_compress" \notin settings \cup opts
  BY EnvironmentAssumption DEF LocalUse, LocalInv, SettingsInv, TypeOK
<1>2. CASE c = "dispatch"
  <2>1. Dispatch(s, settings \cup opts, inTmp)
    BY <1>2 DEF Command
  <2>2. QED
    BY <1>1, <2>1, DispatchLocal
<1>3. CASE c # "dispatch"
  <2>1. settings' = settings \cup opts
    BY <1>3 DEF Command
  <2>2. PICK j \in Jobs : StartJob(s, j, settings \cup opts, TRUE, inTmp)
    BY <1>3 DEF Command, Jobs
  <2>3. QED
    BY <1>1, <2>1, <2>2, StartJobLocal
<1>4. QED
  BY <1>2, <1>3

(* Every step preserves the invariant of local upgrades. *)
LEMMA LocalStep ==
  ASSUME LocalUse, TypeOK, StepInv, LocalInv, [Next]_vars
  PROVE  LocalInv'
<1> USE DEF LocalInv, TypeOK, LocalUse, SettingsInv, LocalJob, LocalStaged,
            At, Writes, SystemVersion, Garbage, Absent, durable, tmp, process, outside
<1>1. CASE Bootloader \/ CheckNetwork \/ StartPost \/ DoUpgradeImage \/ EraseMisc
  BY <1>1 DEF Bootloader, CheckNetwork, Exit, StartPost, DoUpgradeImage, Goto, EraseMisc
<1>2. CASE Autorun
  <2>1. Dispatch("normal", settings, FALSE)
    BY <1>2 DEF Autorun
  <2>2. QED
    BY <2>1, DispatchLocal DEF Scripts
<1>3. CASE PrepareLocal
  <2>1. Compressed /\ op = "stage"
    BY <1>3 DEF PrepareLocal, Compressed
  <2>2. CASE Exit /\ UNCHANGED tmp
    BY <1>3, <2>2 DEF PrepareLocal, Exit
  <2>3. CASE Unpack(NextPackage, LocalVersion)
    <3>1. UNCHANGED <<durable, env, saved, outside>>
      BY <1>3 DEF PrepareLocal
    <3>2. QED
      BY <2>1, <2>3, <3>1, LocalVersionType, UnpackLocal
  <2>4. QED
    BY <1>3, <2>1, <2>2, <2>3 DEF PrepareLocal
<1>4. CASE DownloadPackage
  <2>1. PICK c \in Downloads : \/ Exit /\ UNCHANGED tmp
                               \/ c # Absent /\ Unpack(NextPackage, c)
    BY <1>4 DEF DownloadPackage
  <2>2. CASE Exit /\ UNCHANGED tmp
    BY <1>4, <2>2 DEF DownloadPackage, Exit
  <2>3. CASE c # Absent /\ Unpack(NextPackage, c)
    <3>1. c \in FileVersion /\ op = "stage" /\ source = "net"
      BY <1>4 DEF Downloads, DownloadPackage
    <3>2. UNCHANGED <<durable, env, saved, outside>>
      BY <1>4 DEF DownloadPackage
    <3>3. QED
      BY <2>3, <3>1, <3>2, UnpackLocal
  <2>4. QED
    BY <2>1, <2>2, <2>3
<1>5. CASE DownloadImage
  BY <1>5 DEF DownloadImage, Compressed
<1>6. CASE SetSystemFlag
  BY <1>6, SetSystemFlagLocal
<1>7. CASE TestSystemFlag
  BY <1>7, LocalVersionType DEF TestSystemFlag, Goto, Return, FlashUsrOrReturn
<1>8. CASE \E i \in Images : BeginWrite(i) \/ EndWrite(i)
  BY <1>8, WriteLocal
<1>9. CASE BeginFinish
  BY <1>9 DEF BeginFinish
<1>10. CASE UpgradeFinish \/ Reboot \/ PowerLoss
  BY <1>10 DEF UpgradeFinish, Reboot, PowerLoss, PowerOff, Exit, NoDirs
<1>11. CASE \E s \in CommandScripts, c \in Commands \cap {"force", "post", "dispatch"},
               opts \in CommandOptions, inTmp \in BOOLEAN : Command(s, c, opts, inTmp)
  BY <1>11, CommandLocal
<1>12. ASSUME NEW opts \in CommandOptions, RejectCommand(opts) PROVE LocalInv'
  BY <1>12 DEF RejectCommand, MayCommand
<1>13. CASE Publish
  BY <1>13 DEF Publish
<1>14. CASE UNCHANGED vars
  BY <1>14 DEF vars
<1> HIDE DEF LocalInv
<1>15. QED
  BY <1>1, <1>2, <1>3, <1>4, <1>5, <1>6, <1>7, <1>8, <1>9, <1>10, <1>11, <1>12, <1>13, <1>14
  DEF Next, DeviceStep, ScriptStep, OperatorStep

(* The factory device satisfies it. *)
LEMMA LocalInit == Init => LocalInv
BY DEF Init, LocalInv, SettingsInv, NoDirs, LocalJob, Absent, Garbage

(* LocalInv holds throughout, whatever else is done with the device. *)
THEOREM LocalInvariant ==
  ASSUME LocalUse
  PROVE  Spec => [](TypeOK /\ StepInv /\ LocalInv)
<1>1. Init => TypeOK /\ StepInv /\ LocalInv
  BY InitType, LocalInit DEF Init, StepInv
<1>2. (TypeOK /\ StepInv /\ LocalInv) /\ [Next]_vars => (TypeOK /\ StepInv /\ LocalInv)'
  BY TypeStep, StepInvStep, LocalStep
<1>3. QED
  BY <1>1, <1>2, PTL DEF Spec

(* A forced upgrade with -l that reaches upgrade_finish has written the kernel  *)
(* and the root file system of the local packages: it never reports success    *)
(* over the old system or over half of a new one.                              *)
THEOREM LocalUpgradeTheorem ==
  ASSUME LocalUse
  PROVE  Spec => []LocalUpgradeFlashes
<1>1. LocalInv => LocalUpgradeFlashes
  BY DEF LocalInv, LocalJob, LocalUpgradeFlashes
<1>2. QED
  BY <1>1, LocalInvariant, PTL
=============================================================================
