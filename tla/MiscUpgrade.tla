----------------------------- MODULE MiscUpgrade -----------------------------
(***************************************************************************)
(* The over-the-air upgrade of allwinner/misc-upgrade: the upgrade scripts *)
(* (aw_upgrade_process.sh for small storage, aw_upgrade_normal.sh for      *)
(* large storage), the flashing library both source                        *)
(* (aw_upgrade_image.sh), the flag they keep in the misc partition through *)
(* read_misc / write_misc, the boot-time autorun, and power losses between *)
(* any two steps.                                                          *)
(*                                                                         *)
(* Durable state is what survives a power loss: the partitions, the        *)
(* "command" field of the misc partition, and the settings files in the    *)
(* overlay.  The rest lives in RAM (/tmp, the running script) and is lost. *)
(*                                                                         *)
(* At most one upgrade script runs at a time.  The scripts take no lock;   *)
(* two concurrent ones are outside this module (see the README).           *)
(***************************************************************************)
EXTENDS Integers, FiniteSets

CONSTANTS
  HasExtend,           \* small storage: "extend" holds usr.img and, in turn, the ramdisk
  Media,               \* "mmc" (eMMC and NAND: block devices) or "nor" (mtd)
  MaxVersion,          \* bound on the versions the server publishes; 1 is the factory one
  MaxLosses,           \* bound on power losses
  LocalPkgs,           \* packages present in the directory given with -l
  Reachable,           \* OTA servers that can be reached: subset of Servers
  Faults,              \* environment faults: subset of FaultKinds
  LostFlags,           \* flags whose write_misc may fail (its status is ignored)
  StartReturns,        \* what upgrade_start_vendor may return (the default hook: {0})
  Commands,            \* operator commands: subset of CommandKinds
  CommandScripts,      \* the scripts the operator may run: subset of Scripts
  CommandOptions,      \* the option sets the operator may pass
  OperatorInRecovery   \* may the operator also issue commands in the recovery system?

Images    == {"ramdisk", "boot", "rootfs", "usr"}
Packages  == {"ramdisk", "target", "usr"}
Options   == {"path", "none_compress", "url", "domain"}
Servers   == {"default", "configured"}
Scripts   == {"process", "normal"}
Jobs      == {"pre", "recovery", "post"}
Flags     == {"none", "erased", "upgrade_pre", "boot-recovery", "upgrade_post", "upgrade_end"}
CommandKinds == {"force", "post", "dispatch", "reject", "reboot"}
FaultKinds   == {"network", "download", "early_unpack", "unpack", "late_unpack", "flash"}
Versions  == 1..MaxVersion
Garbage   == 0         \* the content of something partly written or corrupted
Absent    == -1        \* no such file
Empty     == -2        \* a directory without files
LocalVersion == MaxVersion  \* of the packages in the local directory

RamdiskPart == IF HasExtend THEN "extend" ELSE "recovery"
Partitions  == {"boot", "rootfs", RamdiskPart}

ASSUME DeviceAssumption ==
  /\ HasExtend \in BOOLEAN
  /\ Media \in {"mmc", "nor"}
  /\ MaxVersion \in Nat \ {0}
  /\ MaxLosses \in Nat

ASSUME EnvironmentAssumption ==
  /\ LocalPkgs \subseteq Packages
  /\ Reachable \subseteq Servers
  /\ Faults \subseteq FaultKinds
  /\ LostFlags \subseteq Flags
  /\ StartReturns \subseteq {0, 1}
  /\ Commands \subseteq CommandKinds
  /\ CommandScripts \subseteq Scripts
  /\ CommandOptions \subseteq SUBSET Options
  /\ OperatorInRecovery \in BOOLEAN

VARIABLES
  \* durable
  part,        \* partition -> the image written to it and the version, or Garbage
  flag,        \* the "command" field of the misc partition
  settings,    \* the settings files present in /overlay/etc/.misc-upgrade
  \* volatile
  env,         \* "off", the system that runs ("normal", "recovery") or "bricked"
  staged,      \* image -> version of the file in /tmp/upgrade
  unpacked,    \* package -> content of its directory in /tmp
  script,      \* the script that runs ...
  job,         \* ... its mode function ...
  source,      \* ... where that gets its packages: "local" or "net" ...
  want,        \* ... the packages it still has to prepare ...
  normal_mode, \* ... and NORMAL_MODE: started with -f or -p
  op, arg,     \* the next step of the script and the image or flag it is about
  saved,       \* the command field write_misc read before it erased the block
  \* environment
  server,      \* the version the server publishes now
  losses       \* power losses so far

durable  == <<part, flag, settings>>
tmp      == <<staged, unpacked>>
process  == <<script, job, source, normal_mode>>
outside  == <<server, losses>>
vars     == <<durable, env, tmp, process, want, op, arg, saved, outside>>

Content == [img : Images, ver : {Garbage} \cup Versions]
FileVersion == {Absent, Garbage} \cup Versions
Ops == {"idle", "autorun", "network", "stage", "start", "flash", "set", "test",
        "write", "writing", "finish", "finishing"}

TypeOK ==
  /\ part \in [Partitions -> Content]
  /\ flag \in Flags
  /\ settings \in SUBSET Options
  /\ env \in {"off", "normal", "recovery", "bricked"}
  /\ staged \in [Images -> FileVersion]
  /\ unpacked \in [Packages -> FileVersion \cup {Empty}]
  /\ script \in Scripts
  /\ job \in Jobs
  /\ source \in {"local", "net"}
  /\ want \in SUBSET Packages
  /\ normal_mode \in BOOLEAN
  /\ op \in Ops
  /\ arg \in Images \cup Flags
  /\ saved \in Flags
  /\ server \in Versions
  /\ losses \in 0..MaxLosses

NoFiles == [i \in Images |-> Absent]
NoDirs  == [p \in Packages |-> Absent]

-----------------------------------------------------------------------------
(* The bootloader (external).  Only "boot-recovery" selects the ramdisk.    *)

SystemVersion ==
  IF part["boot"].ver = part["rootfs"].ver THEN part["boot"].ver ELSE Garbage

RamdiskGood == part[RamdiskPart].img = "ramdisk" /\ part[RamdiskPart].ver # Garbage

BootsRecovery == flag = "boot-recovery"

Startable == IF BootsRecovery THEN RamdiskGood ELSE SystemVersion # Garbage

Bootloader ==
  /\ env = "off"
  /\ env' = IF ~Startable THEN "bricked" ELSE IF BootsRecovery THEN "recovery" ELSE "normal"
  /\ op' = IF Startable THEN "autorun" ELSE "idle"
  /\ UNCHANGED <<durable, tmp, process, want, arg, saved, outside>>

Running == env \in {"normal", "recovery"}

(* exit: the script is gone; what it left in /tmp stays. *)
Exit ==
  /\ op' = "idle" /\ arg' = "none"
  /\ want' = {}
  /\ script' = "normal" /\ job' = "pre" /\ source' = "net" /\ normal_mode' = FALSE

(* Power goes: the script and the RAM file system with it. *)
PowerOff ==
  /\ env' = "off"
  /\ Exit
  /\ staged' = NoFiles /\ unpacked' = NoDirs
  /\ saved' = "none"

PowerLoss ==
  /\ Running
  /\ losses < MaxLosses
  /\ losses' = losses + 1
  /\ PowerOff
  /\ UNCHANGED <<durable, server>>

(* aw_reboot.sh without a special argument *)
Reboot ==
  /\ Running /\ op = "idle" /\ "reboot" \in Commands
  /\ PowerOff
  /\ UNCHANGED <<durable, outside>>

(* A new version appears on the server. *)
Publish ==
  /\ server < MaxVersion
  /\ server' = server + 1
  /\ UNCHANGED <<durable, env, tmp, process, want, op, arg, saved, losses>>

-----------------------------------------------------------------------------
(* Starting a mode function.                                               *)

(* The packages a mode function prepares, in the order ramdisk, target, usr. *)
PackagesOf(s, j) ==
  CASE j = "pre"      -> IF s = "process" THEN Packages ELSE {"ramdisk", "target"}
    [] j = "recovery" -> IF s = "process" THEN {"target", "usr"} ELSE {"target"}
    [] j = "post"     -> IF s = "process" THEN {"usr"} ELSE {}

(* Mutant: the normal script has the bracket error too. *)
UsesLocalBroken(s, j, opts) ==
  /\ "path" \in opts
  /\ CASE j = "pre"      -> {"ramdisk", "target"} \subseteq LocalPkgs
       [] j = "recovery" -> FALSE
       [] j = "post"     -> "usr" \in LocalPkgs

(* Does the mode function take its branch for local packages?  The test of *)
(* boot_recovery_mode in aw_upgrade_process.sh lacks its closing bracket,   *)
(* so that it fails whatever files there are.                              *)
UsesLocal(s, j, opts) ==
  /\ "path" \in opts
  /\ CASE j = "pre"      -> {"ramdisk", "target"} \subseteq LocalPkgs
       [] j = "recovery" -> s = "normal" /\ "target" \in LocalPkgs
       [] j = "post"     -> "usr" \in LocalPkgs

FirstOp(s, j, local) ==
  IF s = "normal" /\ j = "post" THEN "start" ELSE IF local THEN "stage" ELSE "network"

(* do_upgrade clean: /tmp/upgrade goes; of the unpacked directories only    *)
(* ramdisk_sys and target_sys, and these relative to the current directory. *)
Clean(inTmp) ==
  /\ staged' = NoFiles
  /\ unpacked' = IF inTmp THEN [NoDirs EXCEPT !["usr"] = unpacked["usr"]] ELSE unpacked

StartJob(s, j, opts, nm, inTmp) ==
  /\ script' = s /\ job' = j /\ normal_mode' = nm
  /\ Clean(inTmp)
  /\ source' = IF UsesLocal(s, j, opts) THEN "local" ELSE "net"
  /\ want' = PackagesOf(s, j)
  /\ op' = FirstOp(s, j, UsesLocal(s, j, opts)) /\ arg' = "none"

(* upgrade_end_mode: forget the settings, wait for the next upgrade *)
UpgradeEndMode ==
  /\ settings' = {}
  /\ op' = "idle" /\ arg' = "none"
  /\ UNCHANGED <<tmp, process, want>>

JobOfFlag ==
  [f \in {"boot-recovery", "upgrade_pre", "upgrade_post"} |->
     CASE f = "boot-recovery" -> "recovery"
       [] f = "upgrade_pre"   -> "pre"
       [] f = "upgrade_post"  -> "post"]

(* The script without -f and -p: the flag tells which mode function runs. *)
Dispatch(s, opts, inTmp) ==
  IF flag \in DOMAIN JobOfFlag
    THEN StartJob(s, JobOfFlag[flag], opts, FALSE, inTmp) /\ settings' = opts
    ELSE UpgradeEndMode

(* aw_upgrade_log.sh, run once at the end of every boot.  Its test for the  *)
(* extend partition is malformed, so that it always runs the normal script. *)
Autorun ==
  /\ op = "autorun"
  /\ Dispatch("normal", settings, FALSE)
  /\ UNCHANGED <<part, flag, env, saved, outside>>

MayCommand(c) ==
  /\ op = "idle"
  /\ env = "normal" \/ (env = "recovery" /\ OperatorInRecovery)
  /\ c \in Commands

(* aw_upgrade_process.sh / aw_upgrade_normal.sh with -f, with -p, or with    *)
(* neither.  The options are saved before the mode function starts.          *)
Command(s, c, opts, inTmp) ==
  /\ MayCommand(c)
  /\ CASE c = "force" -> StartJob(s, "pre", settings \cup opts, TRUE, inTmp)
       [] c = "post"  -> StartJob(s, "post", settings \cup opts, TRUE, inTmp)
       [] c = "dispatch" -> Dispatch(s, settings \cup opts, inTmp)
  /\ c # "dispatch" => settings' = settings \cup opts
  /\ UNCHANGED <<part, flag, env, saved, outside>>

(* A rejected command line (both -f and -p, a bad option, -l with no such  *)
(* directory) exits, but the options before the offending one are saved.    *)
RejectCommand(opts) ==
  /\ MayCommand("reject")
  /\ settings' = settings \cup opts
  /\ UNCHANGED <<part, flag, env, tmp, process, want, op, arg, saved, outside>>

-----------------------------------------------------------------------------
(* Preparing packages.                                                     *)

(* check_network: ping, restart the wifi, ping again.  The post mode passes *)
(* the misspelt $DOMIAN, so that the default server is pinged.              *)
PingedServer == IF "domain" \in settings /\ job # "post" THEN "configured" ELSE "default"

CheckNetwork ==
  /\ op = "network"
  /\ \/ /\ PingedServer \in Reachable
        /\ op' = "stage"
        /\ UNCHANGED <<arg, want, process>>
     \/ /\ PingedServer \notin Reachable \/ "network" \in Faults
        /\ Exit
  /\ UNCHANGED <<durable, env, tmp, saved, outside>>

Compressed == "none_compress" \notin settings

ImagesOf(p) == IF p = "target" THEN {"boot", "rootfs"} ELSE {p}

NextPackage ==
  IF "ramdisk" \in want THEN "ramdisk" ELSE IF "target" \in want THEN "target" ELSE "usr"

(* After a package: flash it if it was downloaded, else prepare the rest first. *)
Prepared(p) ==
  /\ want' = want \ {p}
  /\ op' = IF source = "local" /\ want # {p} THEN "stage"
           ELSE IF job = "post" THEN "start" ELSE "flash"
  /\ UNCHANGED <<arg, process>>

(* The package whose images do_prepare_image checks and moves: the last of   *)
(* target, ramdisk, usr that has a directory in /tmp.                       *)
Listed(dirs) ==
  IF dirs["usr"] # Absent THEN "usr" ELSE IF dirs["ramdisk"] # Absent THEN "ramdisk" ELSE "target"

(* Mutant: no md5 check. *)
UnpackUnchecked(p, c) ==
  LET dirs == [unpacked EXCEPT ![p] = c]
      q    == Listed(dirs)
  IN  /\ unpacked' = NoDirs
      /\ staged' = [i \in Images |-> IF i \in ImagesOf(q) THEN dirs[q] ELSE staged[i]]
      /\ Prepared(p)

(* do_prepare_image for a compressed package p of content c.  tar may fail   *)
(* before the first file, part-way (no space left) or after the last file (a  *)
(* damaged trailer); all leave the directory behind.  Of one without files    *)
(* check_img_md5 compares two empty strings and passes; nothing is moved.     *)
Unpack(p, c) ==
  LET dirs == [unpacked EXCEPT ![p] = c]
      q    == Listed(dirs)
  IN  \/ /\ \/ /\ "early_unpack" \in Faults
               /\ unpacked' = IF unpacked[p] = Absent THEN [dirs EXCEPT ![p] = Empty] ELSE unpacked
            \/ "unpack" \in Faults /\ unpacked' = [dirs EXCEPT ![p] = Garbage]
            \/ "late_unpack" \in Faults /\ unpacked' = dirs
         /\ UNCHANGED staged
         /\ Exit
      \/ /\ dirs[q] = Garbage                    \* an md5 sum does not match
         /\ unpacked' = NoDirs
         /\ UNCHANGED staged
         /\ Exit
      \/ /\ dirs[q] = Empty
         /\ unpacked' = NoDirs
         /\ UNCHANGED staged
         /\ Prepared(p)
      \/ /\ dirs[q] \notin {Garbage, Empty}
         /\ unpacked' = NoDirs
         /\ staged' = [i \in Images |-> IF i \in ImagesOf(q) THEN dirs[q] ELSE staged[i]]
         /\ Prepared(p)

(* do_upgrade prepare, of a file in the local directory.  With the setting   *)
(* --none-compress the package itself is moved to /tmp/upgrade, where       *)
(* nothing looks for it.                                                   *)
PrepareLocal ==
  /\ op = "stage" /\ source = "local"
  /\ LET p == NextPackage
     IN  \/ p \notin LocalPkgs /\ Exit /\ UNCHANGED tmp
         \/ p \in LocalPkgs /\ Compressed /\ Unpack(p, LocalVersion)
         \/ p \in LocalPkgs /\ ~Compressed /\ Prepared(p) /\ UNCHANGED tmp
  /\ UNCHANGED <<durable, env, saved, outside>>

DownloadServer == IF "url" \in settings THEN "configured" ELSE "default"

(* What wget may leave in /tmp; its exit status is ignored. *)
Downloads ==
  {v \in FileVersion : \/ v = server /\ DownloadServer \in Reachable
                       \/ v = Garbage /\ "download" \in Faults
                       \/ v = Absent /\ (DownloadServer \notin Reachable \/ "download" \in Faults)}

(* download_prepare_image of a compressed package *)
DownloadPackage ==
  /\ op = "stage" /\ source = "net" /\ Compressed
  /\ \E c \in Downloads :
       \/ c = Absent /\ Exit /\ UNCHANGED tmp
       \/ c # Absent /\ Unpack(NextPackage, c)
  /\ UNCHANGED <<durable, env, saved, outside>>

(* download_prepare_image with --none-compress: image by image, and without *)
(* a check of what was downloaded.                                         *)
DownloadImage ==
  /\ op = "stage" /\ source = "net" /\ ~Compressed
  /\ LET p == NextPackage
         i == IF p = "target"
                THEN IF staged["boot"] = Absent THEN "boot" ELSE "rootfs"
                ELSE p
     IN  \E c \in Downloads :
           \/ c = Absent /\ Exit /\ UNCHANGED staged
           \/ /\ c # Absent
              /\ staged' = [staged EXCEPT ![i] = c]
              /\ IF i = "boot" THEN UNCHANGED <<op, arg, want, process>> ELSE Prepared(p)
  /\ UNCHANGED <<durable, env, unpacked, saved, outside>>

(* upgrade_start in the post mode: the hook may veto the update, but only of *)
(* a script started with -p.  The normal script never flashes here.          *)
StartPost ==
  /\ op = "start"
  /\ \E ret \in StartReturns :
       op' = IF script = "process" /\ (ret = 0 \/ ~normal_mode) THEN "flash" ELSE "finish"
  /\ UNCHANGED <<durable, env, tmp, process, want, arg, saved, outside>>

-----------------------------------------------------------------------------
(* do_upgrade_image: flashing what is staged.                              *)

Goto(o, a) == op' = o /\ arg' = a

(* Where do_upgrade_image returns to. *)
Return == IF want = {} THEN Goto("finish", "none") ELSE Goto("stage", "none")

(* Mutant: usr.img is flashed whether or not it is there. *)
FlashUsr == Goto("write", "usr")

FlashUsrOrReturn == IF staged["usr"] # Absent THEN Goto("write", "usr") ELSE Return

(* Mutant: the ramdisk is written without withdrawing boot-recovery first. *)
DoUpgradeImageAtOnce ==
  /\ op = "flash"
  /\ IF staged["ramdisk"] # Absent THEN Goto("write", "ramdisk") ELSE Goto("test", "none")
  /\ UNCHANGED <<durable, env, tmp, process, want, saved, outside>>

DoUpgradeImage ==
  /\ op = "flash"
  /\ IF staged["ramdisk"] # Absent THEN Goto("set", "upgrade_pre") ELSE Goto("test", "none")
  /\ UNCHANGED <<durable, env, tmp, process, want, saved, outside>>

(* set_bootloader_message_block on an mtd device erases the block first. *)
EraseMisc ==
  /\ op = "set" /\ Media = "nor" /\ flag # "erased"
  /\ flag' = "erased"
  /\ UNCHANGED <<part, settings, env, tmp, process, want, op, arg, saved, outside>>

MiscWritable == Media = "nor" => flag = "erased"

(* Mutant: each step deletes all of /tmp/upgrade. *)
FlashedAll(f) == Images

(* The images do_upgrade_image deletes once the flag says they are flashed. *)
FlashedBy(f) ==
  CASE f = "boot-recovery" -> {"ramdisk"}
    [] f = "upgrade_post"  -> {"boot", "rootfs"}
    [] f = "upgrade_end"   -> {"usr"}
    [] OTHER               -> {}

SetSystemFlag ==
  /\ op = "set" /\ MiscWritable
  /\ flag' \in {arg} \cup (IF arg \in LostFlags THEN {flag} ELSE {})
  /\ staged' = [i \in Images |-> IF i \in FlashedBy(arg) THEN Absent ELSE staged[i]]
  /\ CASE arg = "upgrade_pre"   -> Goto("write", "ramdisk")
       [] arg = "boot-recovery" -> Goto("test", "none")
       [] arg = "upgrade_post"  -> FlashUsrOrReturn
       [] arg = "upgrade_end"   -> Return
  /\ UNCHANGED <<part, settings, env, unpacked, process, want, saved, outside>>

(* Mutant: the flag is not read back. *)
TestImagesOnly ==
  /\ op = "test"
  /\ IF staged["boot"] # Absent /\ staged["rootfs"] # Absent
       THEN Goto("write", "boot")
       ELSE FlashUsrOrReturn
  /\ UNCHANGED <<durable, env, tmp, process, want, saved, outside>>

(* boot and rootfs are flashed only if the flag, read back, is boot-recovery. *)
TestSystemFlag ==
  /\ op = "test"
  /\ IF staged["boot"] # Absent /\ staged["rootfs"] # Absent /\ flag = "boot-recovery"
       THEN Goto("write", "boot")
       ELSE FlashUsrOrReturn
  /\ UNCHANGED <<durable, env, tmp, process, want, saved, outside>>

PartitionOf(i) == CASE i = "ramdisk" -> RamdiskPart
                    [] i = "usr"     -> "extend"
                    [] OTHER         -> i

(* Mutant: the root file system is forgotten. *)
AfterWriteNoRootfs(i) == CASE i = "ramdisk"           -> Goto("set", "boot-recovery")
                           [] i \in {"boot", "rootfs"} -> Goto("set", "upgrade_post")
                           [] i = "usr"               -> Goto("set", "upgrade_end")

AfterWrite(i) == CASE i = "ramdisk" -> Goto("set", "boot-recovery")
                   [] i = "boot"    -> Goto("write", "rootfs")
                   [] i = "rootfs"  -> Goto("set", "upgrade_post")
                   [] i = "usr"     -> Goto("set", "upgrade_end")

(* do_write_partition: nothing to do without the file or the partition; else *)
(* from the first block on the old content is lost.                          *)
BeginWrite(i) ==
  /\ op = "write" /\ arg = i
  /\ IF PartitionOf(i) \in Partitions /\ staged[i] # Absent
       THEN /\ part' = [part EXCEPT ![PartitionOf(i)] = [img |-> i, ver |-> Garbage]]
            /\ Goto("writing", i)
       ELSE AfterWrite(i) /\ UNCHANGED part
  /\ UNCHANGED <<flag, settings, env, tmp, process, want, saved, outside>>

(* Mutant: the partition is erased and nothing is written. *)
EraseOnly(i) ==
  /\ op = "writing" /\ arg = i
  /\ part' = [part EXCEPT ![PartitionOf(i)] = [img |-> i, ver |-> Absent]]
  /\ AfterWrite(i)
  /\ UNCHANGED <<flag, settings, env, tmp, process, want, saved, outside>>

(* The write ends.  dd is not verified, and an mtd write that fails the      *)
(* verification ten times is taken for a success.                            *)
EndWrite(i) ==
  /\ op = "writing" /\ arg = i
  /\ \E v \in {staged[i]} \cup (IF "flash" \in Faults THEN {Garbage} ELSE {}) :
       part' = [part EXCEPT ![PartitionOf(i)] = [img |-> i, ver |-> v]]
  /\ AfterWrite(i)
  /\ UNCHANGED <<flag, settings, env, tmp, process, want, saved, outside>>

(* upgrade_finish_vendor: set status and version in misc, which rewrites the *)
(* whole block and on an mtd device erases it first; then reboot.            *)
BeginFinish ==
  /\ op = "finish"
  /\ saved' = flag
  /\ flag' = IF Media = "nor" THEN "erased" ELSE flag
  /\ op' = "finishing"
  /\ UNCHANGED <<part, settings, env, tmp, process, want, arg, outside>>

UpgradeFinish ==
  /\ op = "finishing"
  /\ flag' = saved
  /\ PowerOff
  /\ UNCHANGED <<part, settings, outside>>

-----------------------------------------------------------------------------

FactoryImage(p) == [img |-> CASE p = "extend"   -> "usr"
                              [] p = "recovery" -> "ramdisk"
                              [] OTHER          -> p,
                    ver |-> IF p = "recovery" THEN Garbage ELSE 1]

Init ==
  /\ part = [p \in Partitions |-> FactoryImage(p)]
  /\ flag = "none" /\ settings = {}
  /\ env = "off"
  /\ staged = NoFiles /\ unpacked = NoDirs
  /\ script = "normal" /\ job = "pre" /\ source = "net" /\ normal_mode = FALSE
  /\ want = {}
  /\ op = "idle" /\ arg = "none"
  /\ saved = "none"
  /\ server = 1 /\ losses = 0

ScriptStep ==
  \/ CheckNetwork \/ PrepareLocal \/ DownloadPackage \/ DownloadImage \/ StartPost
  \/ DoUpgradeImage \/ EraseMisc \/ SetSystemFlag \/ TestSystemFlag
  \/ \E i \in Images : BeginWrite(i) \/ EndWrite(i)
  \/ BeginFinish \/ UpgradeFinish

DeviceStep == Bootloader \/ Autorun \/ ScriptStep

OperatorStep ==
  \/ \E s \in CommandScripts, c \in Commands \cap {"force", "post", "dispatch"},
        opts \in CommandOptions, inTmp \in BOOLEAN : Command(s, c, opts, inTmp)
  \/ \E opts \in CommandOptions : RejectCommand(opts)
  \/ Reboot

Next == DeviceStep \/ OperatorStep \/ PowerLoss \/ Publish

(* A powered device boots and its scripts run; nobody has to issue commands. *)
Fairness == WF_vars(DeviceStep)

Spec == Init /\ [][Next]_vars /\ Fairness

-----------------------------------------------------------------------------
(* Properties.                                                             *)

(* Whenever the power goes, the device starts again: the partition that the *)
(* flag selects holds a complete image, and a kernel and a root file system *)
(* of the same release.  This is the order of writes and flags in           *)
(* do_upgrade_image, which the ramdisk is there for.                        *)
Bootable == Startable

UsrGood == part["extend"].img = "usr" /\ part["extend"].ver # Garbage

(* "upgrade_end" is only ever recorded over a complete usr image: nothing    *)
(* re-installs it once that flag is set (do_upgrade_image, fail #3).         *)
EndMeansUsr == HasExtend /\ flag = "upgrade_end" => UsrGood

BootTarget ==
  CASE ~Startable                -> -1
    [] Startable /\ BootsRecovery  -> 0
    [] Startable /\ ~BootsRecovery -> SystemVersion

Atomic == INSTANCE AtomicUpgrade WITH Releases <- Versions, system <- BootTarget

(* The scripts implement an atomic upgrade: what the device would start next *)
(* goes from release to recovery system to release, in whatever order power  *)
(* losses, failed downloads and repeated commands interrupt them.            *)
AtomicSystem == Atomic!Spec

(* A forced upgrade from local packages that gets to upgrade_finish has      *)
(* flashed the system it was given.                                         *)
LocalUpgradeFlashes ==
  op = "finish" /\ job = "pre" /\ source = "local" => SystemVersion = LocalVersion

(* An upgrade interrupted at any point after the recovery flag was set is   *)
(* carried through to a complete new system that boots from its own         *)
(* partitions, without a network (boot_recovery_mode at every start).       *)
RecoveryCompletes == BootsRecovery ~> (~BootsRecovery /\ SystemVersion = LocalVersion)

(* If flashing usr.img fails, the next start fetches and flashes it again   *)
(* (the comment "fail #3" of do_upgrade_image).                             *)
UsrReinstalled == ~UsrGood ~> UsrGood

=============================================================================
