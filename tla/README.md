# Verification of the Allwinner Tina package feed

`package` is the package feed of Allwinner's Tina Linux, an OpenWrt
distribution for small devices (speakers, cameras, voice assistants). Most of
it is build recipes and third-party programs. The feed's own programs are under
`src/allwinner/`; this project models the three whose failure the owner of a
device notices most: the over-the-air upgrade, which can leave it unable to
start, the power manager, which can leave it unable to sleep or to wake up, and
the Wi-Fi manager, which can leave it without a network.

Contents: [Inventory](#inventory), [Plan](#plan),
[Over-the-air upgrade](#over-the-air-upgrade), [Power manager](#power-manager),
[Wi-Fi manager](#wi-fi-manager), [Runs](#runs), [Proofs](#proofs), [Deviations](#deviations),
[Not modelled](#not-modelled).

## Inventory

| component | state it keeps | operations | interacts with | what is hard |
|---|---|---|---|---|
| `misc-upgrade` scripts | images in `/tmp/upgrade`, directories in `/tmp`, settings in `/overlay/etc/.misc-upgrade` | `-f`, `-p`, flag dispatch at boot, options `-l -d -u -n`, flashing, clean | misc tools, OTA server, bootloader, vendor hooks | power loss between any two writes, ignored exit codes, left-overs of failed steps, one partition for two images |
| `misc-upgrade/tools` | the command field of the misc partition | `read_misc`, `write_misc` | bootloader | erase before write on mtd |
| `nativepower/daemon` | `has_sleep`, activity time, awake timeout, power key state | `goToSleep`, lock calls, `shutdown`, `set_awake_timeout`, key scanning | libsuspend, libpower, D-Bus | four threads, unlocked variables, a server that blocks while the device sleeps |
| `nativepower/libsuspend` | `tinasuspend_state`, its mutex and condition | `set_state`, `wait_resume`, the suspend thread, the wake-up callback | kernel, daemon | two kinds of waiters on one condition |
| `nativepower/libpower` | none (the kernel's wake locks) | acquire, release, count | kernel | locks without count or owner |
| `nativepower/libnativepower` | none | one blocking D-Bus call per function | daemon | time-outs, late service |
| `wifimanager` | connection state machine, last inner event, network asked for, counters, event labels, scan pause flag | on, off, connect (by name, by id, automatically), disconnect, add, remove, list, scan | wpa_supplicant, udhcpc, application callbacks | an event thread, a scan thread, and a DHCP thread and timers that nobody waits for, against API calls; no lock around the state machine |
| `softap`, `smartlinkd` | mode of the Wi-Fi chip; a socket per client | start, stop, set; init, start, protocol hand-over | hostapd, wifimanager | failure half-way through a sequence of commands |
| `tinymp3`, `tplayer`, `tinaplayer` | player status, queues between decoder and output | prepare, start, pause, seek, stop, notify | ALSA, libcedarx | callbacks against API calls |
| `liballwinner-ipc`, `powermanager`, `healthd`, `mtop`, demos | little or none | | | |
| `libcedarx`, `libcedarc`, `bluetooth`, `libs`, the rest of the feed | vendored or third-party | | | |

What makes each correct: an upgrade never leaves a device that does not start,
moves from one complete release to another, and is carried through after an
interruption; a sleep request reaches the kernel once and its caller returns; a
client's lock keeps the device on; an idle device sleeps; a Wi-Fi connection
reported to the application is the one that was asked for, and no API call
leaves the scan thread paused; a player delivers each completion once.

`PROJECT.json` lists every component with its status, and under `hazards` the
lines where the code is hard to test.

## Plan

1. `MiscUpgrade` with `AtomicUpgrade`: done, proved.
2. `NativePower` with `SuspendCycle`: done for the back end the package builds
   (`USE_TINA_SUSPEND=y`), proved.
3. `WifiScan` and `WifiConnect`: done, proved. Their composition was not worth
   its states: they share only `gwifi_state` and the paused section, in which
   `WifiConnect` lets the application run without the scan thread, which
   `PausedMeansQuiet` justifies. An abstract specification of what the
   application is told is not stated: the code keeps no such promise (see
   [Deviations](#deviations)).
4. `SuspendBackends`: the `wakeup_count` and `earlysuspend` back ends behind the
   same interface.
5. Two upgrade scripts at once (`aw_upgrade_log.sh` and an application).
6. `softap`, `smartlinkd`, `tinymp3`, `tplayer`.

| module | role |
|---|---|
| `AtomicUpgrade` | abstract: a device starts one release or the recovery system |
| `MiscUpgrade` | scripts, misc partition, bootloader, operator, power losses; properties |
| `MiscUpgradeInv` | conditions of use (`SafeUse`, `LocalUse`) and the inductive invariants (`IInv`, `LocalInv`) |
| `MiscUpgradeProofs`, `MiscUpgradeSafety`, `MiscUpgradeLocal` | proofs: types; survival of power losses; local upgrades |
| `SuspendCycle` | abstract: a call of `goToSleep` is one suspend cycle |
| `NativePower` | daemon threads, suspend thread, locks, clients, kernel; properties and invariants |
| `NativePowerProofs`, `NativePowerSafety` | proofs |
| `WifiScan`, `WifiScanProofs` | the scan thread against the interface functions; properties; proofs |
| `WifiConnect`, `WifiConnectProofs` | connection state machine, event thread, DHCP thread, timers, interface functions; properties; proofs |

Definitions whose comment begins with "Mutant:" are plausible mistakes in the
definition that follows; they are used by no specification.

## Over-the-air upgrade

`MiscUpgrade` models one device. `part` holds what is in the partitions,
`flag` the command field of the misc partition, `settings` the option files;
these survive a power loss. `staged` (`/tmp/upgrade`), `unpacked` (`/tmp`) and
the running script do not. A script is described by its name (`script`), its
mode function (`job`: `boot_recovery_mode`, `upgrade_pre_mode`,
`upgrade_post_mode`), where it gets packages (`source`), the packages left to
prepare (`want`) and its next step (`op`, `arg`).

A step is one thing a power loss can separate from the next: beginning or
ending the write of a partition (in between its content is `Garbage`), erasing
or rewriting the misc block, fetching one package, testing the flag.

* `Command`, `RejectCommand`: the command line; options are saved before the
  mode is checked, so a rejected command leaves its options behind.
* `Autorun`, `Dispatch`: `aw_upgrade_log.sh` at boot. Its test for the extend
  partition lacks a space and always fails, so `Autorun` runs the normal script.
* `CheckNetwork`, `DownloadPackage`, `DownloadImage`, `PrepareLocal`, `Unpack`:
  how images get to `/tmp/upgrade`, checked (packages) or not (`-n`).
* `DoUpgradeImage`, `SetSystemFlag`, `TestSystemFlag`, `BeginWrite`,
  `EndWrite`, `AfterWrite`, `FlashUsrOrReturn`: `do_upgrade_image`, which
  flashes ramdisk, then boot and rootfs, then usr, with the flag between them.
* `BeginFinish`, `UpgradeFinish`: `upgrade_finish_vendor`, which rewrites the
  misc block with what it read from it, and reboots.
* `Bootloader` (external): `boot-recovery` selects the ramdisk, anything else
  the boot and rootfs partitions, which must be of one release.

Images are versions: a file or partition holds version `v` of an image or
`Garbage`. The vendor hooks are the default ones; `StartReturns` lets
`upgrade_start_vendor` refuse.

Fairness: `WF_vars(DeviceStep)`. A device that has power boots and runs its
scripts; downloads may fail for ever, nobody has to type a command, and power
losses are bounded (`MaxLosses`), without which no flashing would ever end.

## Power manager

`NativePower` has four threads: `suspend` (`tinasuspend_thread_func`), `main`
(the loop in `main`), `key` (`scanPowerKey`), `dbus` (`filter_func`). The last
three call `goToSleep`. A step is one critical section, one access to an
unlocked variable or one write to `/sys/power`; `pc` says what a thread does
next, and a thread in `waiters` is blocked in `pthread_cond_wait`.
`pthread_cond_signal` wakes any one waiter and spurious wake-ups happen.

* `GoToSleep(t)`: count the locks, mark the device asleep, release the display
  lock, set the state to MEM, wait for ON. A count that cannot be read is -1
  and passes the test.
* `SuspendThread`: wait for MEM, write "mem", two seconds, set ON, write "on",
  then the three assignments of `wakeup_callback` one by one.
* `MainThread`: `isActivityTimeValid`, whose two tests and two assignments are
  separate steps because no lock protects them. Time is `fresh` or `old`
  (beyond the timeout) since the last activity.
* `KeyThread`: press and release; how long the key was held is chosen when the
  release is read. `powerkey_down_ms` is not initialised: either value.
* `DbusThread`: calls are served one at a time in order. While the server is in
  `goToSleep` nothing is served, clients reach the D-Bus time limit (`GiveUp`),
  and their calls are still executed later.
* Kernel (external): standby is entered only while "mem" is the last state
  written and no lock is held; during standby no thread runs.
* `held` is what clients know: a client is in it from the successful return of
  its acquire to its call of release.

`poweroff` and `reboot` are the end of a behaviour (`power = "off"`): what
threads do until init kills the daemon is left out.

Fairness: strong fairness of each thread, because a thread is disabled whenever
the device is in standby and may be so again and again; a scheduler that runs a
thread which is ready infinitely often justifies it. Weak fairness of
`TimePasses`. Nothing is assumed of the user, the clients, the kernel's
decision to suspend, or wake-up sources; where a property needs the device to
be awake again and again it says so.

## Wi-Fi manager

`WifiScan` models `network_manager.c` and the way `wifimanager.c` uses it. `thr`
is where `wifi_scan_thread` is, `main` and `op` where the application is and in
which function; `scan_mutex` is held by the scan thread in `send` and
`scanning` (`LockFree`), so the critical sections of the application are single
steps.

* Scan thread: `TestRunning`, `Enter` (lock, wait on `scan_cond` while paused),
  `SendAccepted`, `SendRefused`, `BackedOff`, `ScanOver`, `ResultsRefused`,
  `Report`, `WaitOver` are the loop in its order; `SpuriousWakeup` is a wake-up
  nobody sent.
* Application: `On`, `StartScanThread`, `Call` and `FirstPlaces` (where each
  function begins, and its refusals), `Request` and `PollOver`
  (`update_scan_results`), `Lookup`, `Pause`, `Work` (the paused section, with
  the early returns of `aw_wifi_remove_network`), `Resume`, `Signal`, `Off`,
  `Join`, `Close`.
* `ScanResultsEvent`, `Terminating` and `TimedOut` are the event thread. The
  last two turn Wi-Fi off and differ in `Answers`: a wpa_supplicant that ended
  refuses every command, and a scan thread that outlives it backs off for ever;
  one whose answer was merely late goes on scanning. A mutex that is
  used before or after its life, or initialised twice, is recorded in
  `undefined`, after which nothing is promised.

`WifiConnect` models who reads and writes the connection state machine:
`state` (`gwifi_machine_state`), `event` (`wifi_event_inner`), `netid`
(`netid_connecting`), `disconnecting` and the two counters.

* Event thread (`evt`): `OnConnected`, `OnDisconnected`, `OnWrongKey`,
  `OnAssocReject` take an event from `evq`; `EvtSend`, `EvtUp`, `EvtStart`,
  `EvtSet`, `EvtNote` are the commands and assignments that follow, one by one.
* Background threads (`kind`, `at`, one slot each): DHCP (`DhcpPoll`, `DhcpUp`,
  `DhcpUpNote`), the watch of `aw_wifi_connect_ap_auto` (`TimeoutPoll`,
  `TimeoutRecheck`), the one of `aw_wifi_on` (`OnCheckPoll`); all give up
  alike (`BgSend`, `BgSet`, `BgNote`).
* Application (`app`, `op`, `net`): `aw_wifi_on` (`On`, `OnSet`, `OnSync`,
  `OnUp`, `OnNote`), `aw_wifi_off` (`Off`), removing (`RemoveNetworks`), and the
  connecting functions, which share their course: `Call`, `Check`, `Begin`,
  `Select`, `Save`, `Reconnect`, `ResetCount`, then `StartTimeout` (automatic)
  or the wait (`PollOver`, `PollRejected`), then giving up (`GiveUpSend`,
  `GiveUpSet`, `GiveUpNote`), success (`Enable`) or the error path (`Restore`,
  `Reset`). Where the wait ends in DISCONNECTED for a reason other than a wrong
  password, the new network is kept and enabled (`"keep"`). They differ in guards on `op`. `aw_wifi_disconnect_ap`: `Flag`,
  `DCheck`, `DSet`, `DSend`, `DPoll`.
* wpa_supplicant (external): the network it is on (`link`), whether it wants one
  (`want`), the networks enabled and known (`sel`, `conf`). It associates with
  enabled networks, loses links, reports wrong keys and rejections, refuses the
  commands in `Faults`, and ends at any moment (`Terminating`). Between
  `aw_wifi_off` and `aw_wifi_on` every command fails. When an answer is late
  (`TimedOut`), the event thread ends and Wi-Fi is off for this process, but
  wpa_supplicant, its link and the command socket live on: commands of threads
  that are still running work, events reach nobody, and `aw_wifi_on` finds
  wpa_supplicant as it is. `alone` records this, and at the start a
  wpa_supplicant that runs for another process.
* `stranded` is a history variable for the two ways in which the code leaves the
  machine busy: the refused SELECT_NETWORK of `aw_wifi_connect_ap_with_netid`
  (CONNECTING), and a loss of the link that the event thread deals with before
  `aw_wifi_disconnect_ap` sets DISCONNECTING. The properties except it.

Abstractions. A waiting loop reads state, event and counters of one moment and
ends when it sees what it waits for or because its time is over, which may be
at any moment. A command and its answer are one step; the command whose answer
is late is one of the scan thread, or one of those modelled as refused, and
wpa_supplicant does not execute it later. The end of wpa_supplicant
is noticed at once. What callbacks tell the application is left out, and so are
names, keys and the parsing of answers: a network is its id. A process that
formats the number 3 as a string (`PollRejected`) is dead: `app = "crashed"`.

Fairness. `WifiConnect`: weak fairness of the application's thread, of the
event thread and of each background thread, because every wait in them has a
limit; nothing is assumed of the air, of the calls or of wpa_supplicant.
`WifiScan`: weak fairness of the scan thread, of the signal that follows a
resume and of the join; strong fairness of `SendAccepted` and `ScanOver`, that
is, a wpa_supplicant that runs does not refuse every SCAN and every
SCAN_RESULTS. Without that no request would be served; the code retries for
ever. Of one that ended nothing is assumed, and `RequestServed` excepts it.

## Runs

| run | instance | shows |
|---|---|---|
| `ota_small` | extend partition on NOR flash; 3 releases, 2 power losses, both scripts, `-l`, server options, lost flag writes | `Bootable`, `EndMeansUsr`, `AtomicSystem`, `IInv` |
| `ota_large` | recovery partition on eMMC; 3 releases, 2 losses, `-f -p -l`, complete and empty left-overs of a failed tar, a refusing vendor hook | `IInv`, `AtomicSystem` |
| `ota_local` | no network, NOR, 3 losses | `LocalInv`, `LocalUpgradeFlashes`, `RecoveryCompletes` |
| `ota_raw` | `-n` and `-l` on small storage, one release | `TypeOK`, `Bootable`, `EndMeansUsr` |
| `np_all` | all three sleepers at once, a client with two queued calls, unreadable lock count | `DisplayLockOwed`, `ClientLockKeepsAwake`, `StandbyIsRequested` |
| `np_sleep` | awake timeout as the only sleeper, failing writes of "mem" and of locks, a client that moves the timeout and shuts down | `SleepInv`, `NoMissedSignal`, `SleepIsOneCycle`, `SleeperReturns`, `RequestReachesKernel`, `IdleDeviceSleeps` |
| `ota_usr_brick` | `-p` after an interrupted `-f` | violates `Bootable` |
| `ota_usr_never_fetched` | power lost after the system was flashed | violates `UsrReinstalled` |
| `np_two_sleepers` | power key and awake timeout | violates `RequestReachesKernel` |
| `wifi_scan` | every function, any number of on and off, a wpa_supplicant that ends or answers late | `TypeOK`, `PausedMeansQuiet`, `NoLostResume`, `MutexSafe`, `NoPauseLeak`, `StopFinishes`, `RequestServed` |
| `wifi_conn` | two networks, one of them known at start, two background threads, two calls of any function, one event of the air, late answers (one instead of a call), refused SAVE_CONFIG, RECONNECT and DISCONNECT | `Watched`, `RightNetwork`, `DisconnectionHeard`, `ConnectingEnds` |
| `wifi_busy_forever` | a connection by an id that is not known | violates `BusyEnds` |

Bounds. Three releases are enough for a package of an older, of the current and
of a newer release to meet; two losses interrupt both the upgrade and the
recovery from it, and a third the finish of that. One queued call per client
and one more lets a call that timed out be queued ahead of the next one; for
more clients there is the theorem. `MaxKeys` of 1 lets a press or a release be pending
while the thread sleeps, 2 both. The safety properties with a theorem hold for
all values of these bounds.

`WifiScan` needs no bound. In `WifiConnect`, two calls let one attempt meet
what is left of another, or of the one `aw_wifi_on` makes; one event of the air
is an association, a loss, a wrong key, a rejection or the end of
wpa_supplicant at any point of them; two slots let two background threads
overlap (a third thread waits to be started). The counters of rejections and
wrong keys have a limit of 1 instead of 3 and 2, so that one event reaches it.
A late answer counts against `MaxCalls`: it takes the place of the second call.
`ConnectingEnds` has no theorem and holds within these bounds.

`CHECK_DEADLOCK FALSE` is set for the upgrade and the power manager because
these systems may stop: a device that has started waits, and nobody need
command it; a device that was shut down does nothing. The Wi-Fi runs check
deadlock; `Rest` names the states in which nothing has to happen.

## Proofs

All theorems hold for every value of the constants that satisfies the named
assumptions (`DeviceAssumption`, `EnvironmentAssumption`, `ClientAssumption`,
`BoundAssumption`, `CallsAssumption`, `ConnectAssumption`: types of the
parameters, that no client names its lock like the display lock, and that no
network id is the value for none).

*Upgrade.* `TypeCorrect` needs `StepInv`, what the argument of a step ranges
over. `SurvivesPowerLoss`, `EndIsComplete` and `UpgradeIsAtomic` follow from
`IInv` (`Invariant`), under `SafeUse`. `Bootable` alone is not inductive: that
writing the boot partition is harmless depends on the flag being
`boot-recovery`, which depends on the flag having been read back, on the
ramdisk having been complete when it was set, and on nothing else having
written the extend partition since. `FlashInv` says what each step of
`do_upgrade_image` finds, `FilesInv` that checked packages put only complete
images in `/tmp/upgrade` and boot and rootfs of one release, `RecoveryInv` that
the recovery system only flashes the target package, `ExtendInv` that usr.img
overwrites the ramdisk only once no flag selects it any more. A download fetches
usr.img after the system was flashed; a local upgrade stages all three packages
together, and then the order within `do_upgrade_image` is what counts
(`TargetFirst`: what is prepared with usr.img lies staged with it and is flashed
first). `UpgradeIsAtomic` is the
refinement of `AtomicUpgrade`: while the flag selects the system, no step
changes its partitions.

`SafeUse`: flash writes succeed; only the writes of `boot-recovery` (which is
read back) and `upgrade_end` may be lost; compressed packages; no commands in
the recovery system; and with a shared extend partition no `-p` and no complete
or empty left-overs of a failed tar. Without any one of these TLC finds `Bootable`
violated on some device (lost flags: `ota_small` with `Media = "mmc"`).

`LocalUpgradeTheorem` follows from `LocalInv` (`LocalInvariant`), under
`LocalUse`: flash writes succeed, the write of `boot-recovery` is not lost,
compressed packages, and no complete or empty left-overs of a failed tar. It holds on both
kinds of storage and under any other commands, `-p` and commands in the recovery
system included. That the system is the local one at `upgrade_finish` depends on
every branch of `do_upgrade_image` before it having been taken: the ramdisk must
be staged for the flag to be set, the flag must read back as `boot-recovery` for
boot and rootfs to be written, and both must still be staged then. `LocalInv`
says this for each step, and that `upgrade_pre_mode` does not flash before it
prepared every package. A lost `boot-recovery` makes the script skip the system
and finish, which is safe (`SafeUse` allows it) but flashes nothing.

*Power manager.*

* `TypeCorrect`, with `BusInv`: the call that sleeps stays at the head of the
  queue until it is answered.
* `DisplayLockIsOwed` (if locks can be written): inductive with the types.
* `SleepInvariant`, `NoSignalMissed`, `SleepsInCycles`: if at most one thread
  calls `goToSleep` (`SoleSleeper`). `NoMissedSignal` says that a waiter waits
  for what is not yet the case. A signal is lost when it goes to a waiter of
  the other kind; with one sleeper the invariant shows that at each signal only
  the thread it is meant for can be waiting (`ThreadInv`: a waiter is where it
  waits; `RequestInv`: MEM is pending only while the sleeper is in
  `wait_resume`; `AwakeInv`: the others stay out of it). `SleepsInCycles` is
  the refinement of `SuspendCycle` under `Phase`. `np_two_sleepers` shows that
  the assumption is needed.
* `StandbyRequested`, for any number of sleepers: `StandbyInv`. With two
  sleepers requests get stuck, but none is made up: MEM is set only by a
  thread that stays in `wait_resume` until ON, the suspend thread writes "mem"
  only under MEM, and only it sets ON, so whoever is woken by whose signal, a
  standby has a thread in `goToSleep` that asked for it.
* `LockKeepsAwake` (if every client has its own lock id): `HeldInv`. A client
  that holds its lock has no release on the way, because a release that timed
  out was sent before the acquire and is served before it; and the call it
  waits for is its last (`LiveIsLast`).

*Wi-Fi scan thread.* `ScanInvariant` proves `ScanInv`, and from it
`PausedMeansQuietTheorem`, `NoLostResumeTheorem`, `MutexSafeTheorem` and
`NoPauseLeakTheorem`. The properties need each other and four more facts:
a paused section runs with `scan_pause` set (`PauseHeld`), a started thread
runs until it is joined (`ThreadRuns`), `gwifi_state` implies a live mutex but
for two windows in `aw_wifi_on` and `aw_wifi_off` (`MutexLives`), and a thread
outlives `gwifi_state` only when wpa_supplicant ended by itself
(`OutlivedOnlyByTermination`). `TypeTheorem` and `JoinTheorem` follow from it
too: the join of `aw_wifi_off` meets a sleeping scan thread only after an early
return of `aw_wifi_remove_network`. This is the safety half of `StopFinishes`;
that the thread then comes to its end is left to TLC.

*Connection.* `ConnectInvariant` proves `ConnectInv`, and from it `TypeTheorem`,
`WatchedTheorem` and `RightNetworkTheorem`. `Watched` needs `InFunction`: which
functions can be at which place, since only some of them end an attempt
there. `RightNetwork` needs `SelectedAlone`: between SELECT_NETWORK and the
assignment of `netid_connecting` only the new network is enabled, so that the
assignment cannot make an existing link a wrong one; and `OffLine`: while Wi-Fi
is off there is a link only on a wpa_supplicant that runs all the same. The
proofs go by thread, and for each by action: one lemma for types and the
auxiliary facts, one for each property. `RightNetwork` excepts a link that was
made while nobody listened (`alone`), until the next SELECT_NETWORK or a
restart, and a refused DISCONNECT of the event thread: the code ignores that
answer, and the link stays.
`DisconnectionHeardTheorem` is about DISCONNECTING, the third busy state, which
only the event thread ends. `DisconnectionHeard` is inductive with the types:
whoever takes the link down, by whatever command, puts DISCONNECTED in the queue
(`QueueKept`), no step takes it out but the one of the event thread that goes on
to set the state, and `DSend` finds a link, a loss still in the queue, or the
case that `stranded` records.

Only model-checked: the liveness properties (the prover does not reason about
fairness or ENABLED), and `-n` (its images are not checked, so that `SafeUse`
excludes it: `ota_raw`).

## Deviations

Runs with a finding in `PROJECT.json`: `ota_usr_brick`, `ota_usr_never_fetched`,
`np_two_sleepers`, `wifi_busy_forever`. TLC shows these too when
the constants of a run are changed as said:

* With `-n` and two releases (`ota_raw`, `MaxVersion = 2`) a release published
  between the downloads of boot.img and rootfs.img is flashed mixed with the
  other (`Bootable`; `aw_upgrade_process.sh:73`).
* `-l` with `-n` (`ota_local`, options `{"path", "none_compress"}`) moves the
  package to `/tmp/upgrade` unopened, flashes nothing and finishes
  (`LocalUpgradeFlashes`; readme.txt:134 says that `-n` has no effect then).
* With `late_unpack` among `ota_small`'s faults,
  `clean` leaves `usr_sys` behind and usr.img is staged in place of the ramdisk
  (`Bootable`; `aw_upgrade_image.sh:291`).
* With `early_unpack` instead, an empty directory of another package is left
  behind: `check_img_md5` compares two empty strings and passes, nothing is
  staged for the package that is prepared, and the script goes on to flash the
  rest (`Bootable`; `aw_upgrade_image.sh:89`).
* A power loss while `-p` flashes usr.img (`ota_usr_never_fetched`, command
  `"post"` for `"force"`) leaves a flag that does not say so (`UsrReinstalled`; `aw_upgrade_image.sh:227`).
* Two clients with one lock id (`np_all` with two clients and `SharedId = TRUE`): one release
  drops the lock of both (`ClientLockKeepsAwake`; `libpower/power.c:128`, where
  `power.h:31` promises that the device stays on).
* `aw_wifi_disconnect_ap` sets DISCONNECTING after it tested the connection. If
  the link is lost and its event handled in between, or wpa_supplicant ends, DISCONNECT causes no
  event and the machine stays busy (`wifi_busy_forever` with
  `Calls = {"disconnect"}`, `MaxAir = 1`; `BusyEnds`; `wifimanager.c:1464`).

Seen while modelling, and part of the models where these reach:

* On large storage `upgrade_post_mode` of the normal script only calls
  `upgrade_finish`, which reboots: the flag stays `upgrade_post` and every boot
  ends in another reboot (`aw_upgrade_normal.sh:169`).
* `scanPowerKey` calls `set_sleep_state(1)` after `goToSleep` returned, and
  `wakeup_callback`'s `set_sleep_state(0)` may come first: the next press of the key is
  swallowed on a device that is awake (`np_input.c:146`).
* `success` in `tinasuspend_thread_func` is never initialised or set to true;
  `wakeup_callback` ignores it.
* `aw_wifi_remove_network` returns early without resuming the scan thread, when
  the network is not saved or a command is refused (`wifimanager.c:1317-1340`).
  Scanning stops, and `aw_wifi_off` then waits for the thread for ever; the
  next function that resumes helps only if it comes before. `NoPauseLeak` and
  `StopFinishes` name this exception.
* `aw_wifi_get_netid` does not test `gwifi_state` and locks a destroyed mutex
  when Wi-Fi is off; after wpa_supplicant ended by itself `aw_wifi_on` starts a
  second scan thread over the mutex of the first (`MutexSafe` names both).
* Scan requests count as served when the scan timed out: the results are the
  old ones (`network_manager.c:225`).
* A third association rejection in a row makes `printf("%s", 3)` read address 3
  (`wifimanager.c:516`, 850, 1240).
* A busy `aw_wifi_add_network` leaves through the error path and sets
  DISCONNECTED under the attempt that is running (`wifimanager.c:232`, 601).
* `netid_connecting` is saved after SELECT_NETWORK; an association announced in
  between is compared with the previous id and dropped (`wifimanager.c:816`).
  It is not reset by off and on either, so a later automatic connection of
  `aw_wifi_on` to another network is dropped.
* The busy test and the assignment of CONNECTING are separate steps: an
  association that is announced in between makes the state L2CONNECTED, which is
  busy, and is overwritten (`wifimanager.c:1175`).
* After a late answer wpa_supplicant may go to a network other than
  `netid_connecting` unnoticed, and the next `aw_wifi_on` reports it as
  connected (`wifimanager.c:1635`; `RightNetwork` names the exception).
* CONNECTED handled after the link was lost finds no network, which differs
  from the one asked for, and sends DISCONNECT: wpa_supplicant does not
  reconnect (`wifi_event.c:52`).
* The DHCP thread takes an address left over from before for a new one and sets
  CONNECTED, with or without a link, also during a later attempt
  (`udhcpc_thread.c:86`); the two watches, too, act on whatever attempt runs
  when their time is over (`wifi_event.c:262`, 300).
* A refused `aw_wifi_disconnect_ap` leaves `disconnecting` at 1
  (`wifimanager.c:1433`): a DHCP thread started after an automatic
  reassociation gives up at once.
* `authentication_fail_count` is never reset: after two wrong keys in the life of the
  process a single one ends an attempt (`wifi_event.c:93`).
* The last inner event survives an attempt: a later one that ends in
  DISCONNECTED for another reason is reported as PASSWORD_FAILED
  (`wifimanager.c:843`).
* A command that times out ends the event thread and turns Wi-Fi off
  (`wifi.c:450`) while wpa_supplicant keeps its link; after wpa_supplicant ended
  by itself the scan thread is not stopped and backs off for ever
  (`network_manager.c:211`).
* Commands of several threads share one control connection without a lock
  (`wifi.c:448`).
* `aw_reboot.sh boot-recovery` selects the recovery system without a test: a
  device whose recovery partition holds no ramdisk is told to start one
  (`aw_reboot.sh:8`).

## Not modelled

In `misc-upgrade`: the copy of busybox to RAM (`prepare_env`), the extroot-uuid
file, the arguments `efex` and `boot-recovery` of `aw_reboot.sh`, the look-up of mtd devices by name,
two scripts at once. In `nativepower`: scenes, the uci file, the D-Bus watch
table, `autosuspend_disable` (reached only when the server thread cannot be
created), the back ends that are not built, restarts of the daemon, and
`EPOLLWAKEUP`. In `wifimanager`: callbacks and their labels, conversions of
names and checks of keys, the parsing in `wpa_supplicant_conf.c`, the sockets of
`wifi.c`, the late execution of a command that timed out, the registration of callbacks, `aw_wifi_get_wifi_state`, which writes
`gwifi_state` without a lock, several application threads at once, and a failed start of
wpa_supplicant (which changes nothing). Everything else: see `components` in `PROJECT.json`.
