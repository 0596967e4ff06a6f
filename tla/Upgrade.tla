---- MODULE Upgrade ----
(***************************************************************************)
(* A firmware upgrade, as the window (AppDelegate.m, upgradeFirmwareThread)*)
(* and the command line tool (SCSI2SDTask.m) perform it. The board is asked*)
(* over HID whether the file suits it and told to restart in its           *)
(* bootloader, or it is found there and its version marker is read; then   *)
(* dfu_util looks for a device by itself, and programs it. Three searches  *)
(* of the bus thus decide which device is meant: hid_enumerate, hasDevice  *)
(* and probe_devices. Devices may be plugged and unplugged between any two.*)
(*                                                                         *)
(* How dfu_util erases and writes is in DfuseDownload; the lock, the timer *)
(* and the main thread that upgradeFirmwareThread waits for are in         *)
(* DeviceSession.                                                          *)
(***************************************************************************)
EXTENDS Naturals, FiniteSets

CONSTANTS Devices,   \* what can be plugged: boards, other DFU capable devices
          None,      \* no device
          Files,     \* what the user may select
          Benches,   \* what the devices are: their profiles, firmware and modes
          Moves,     \* bound on plugging and unplugging
          Rounds     \* bound on upgrades, one after the other

ASSUME UpgradeAssumption ==
  /\ None \notin Devices
  /\ Moves \in Nat /\ Rounds \in Nat \ {0}

\* Every device has a mode and a firmware, "none" if it is no board; what runs has
\* firmware, and a board that has none is one whose firmware was torn.
ASSUME BenchAssumption ==
  \A bench \in Benches :
    /\ bench.firmware \in [Devices -> {"old", "630", "new", "torn", "none"}]
    /\ bench.mode \in [Devices -> {"away", "app", "boot", "runtime"}]
    /\ \A d \in Devices :
         /\ bench.mode[d] = "app" => bench.firmware[d] \notin {"torn", "none"}
         /\ bench.profile[d].hw # "foreign" => bench.firmware[d] # "none"

VARIABLES
  profile,          \* hardware, version marker, vendor and product, has it an alternate 2?
  firmware,         \* a board's firmware: "old" (below 6.3.0), "630", "new" or "torn"
  mode,             \* "away", "app" (HID), "boot" (DFU) or "runtime" (DFU, to be detached)
  rebooting,        \* boards that were told to restart and have not yet done so
  file,
  pc, versionChecked,
  hid,              \* myHID: whose it is and what it "sees", as in DeviceSession
  call, dfu_root, runtime,   \* dfu_util: its mode, the device selected, runtime_vendor
  vetted, flashed,  \* ghosts: devices compared or read, devices programmed
  origin,           \* ghost: what each device was when the upgrade began, or "moved"
  moves, rounds     \* what is left of Moves and Rounds

bus == <<profile, firmware, mode, rebooting>>
dfu == <<call, dfu_root, runtime>>
ghosts == <<vetted, flashed, origin>>
counts == <<moves, rounds>>
vars == <<bus, file, pc, versionChecked, hid, dfu, ghosts, counts>>

NoHid == [dev |-> None, sees |-> "nothing"]
Handles == [dev : Devices, sees : {"live", "blind", "null"}]

In(m) == {d \in Devices : mode[d] = m}

\* What a device is before the upgrade: its firmware if it runs, or its mode.
Seen(fw, m, restarts) ==
  [d \in Devices |-> IF d \in restarts THEN "moved" ELSE IF m[d] = "app" THEN fw[d] ELSE m[d]]

Init ==
  /\ \E bench \in Benches : profile = bench.profile /\ firmware = bench.firmware /\ mode = bench.mode
  /\ rebooting = {}
  /\ file \in Files
  /\ pc = "begins" /\ versionChecked = FALSE
  /\ hid \in {NoHid} \union {h \in Handles : mode[h.dev] = "app"}
  /\ call = "none" /\ dfu_root = None /\ runtime = "any"
  /\ vetted = {} /\ flashed = {}
  /\ origin = Seen(firmware, mode, {})
  /\ moves = Moves /\ rounds = Rounds

----
(* The user and the devices. *)

Moved(d) == origin' = [origin EXCEPT ![d] = "moved"]

Unplug(d) ==
  /\ moves > 0 /\ moves' = moves - 1
  /\ mode[d] # "away"
  /\ mode' = [mode EXCEPT ![d] = "away"]
  /\ rebooting' = rebooting \ {d}
  /\ Moved(d)
  /\ UNCHANGED <<profile, firmware, file, pc, versionChecked, hid, dfu, vetted, flashed, rounds>>

\* A board starts in its bootloader when its jumper is set, or without firmware.
Plug(d) ==
  /\ moves > 0 /\ moves' = moves - 1
  /\ mode[d] = "away"
  /\ \E m \in IF profile[d].hw = "foreign" THEN {"boot", "runtime"}
              ELSE IF firmware[d] = "torn" THEN {"boot"} ELSE {"app", "boot"} :
        mode' = [mode EXCEPT ![d] = m]
  /\ Moved(d)
  /\ UNCHANGED <<profile, firmware, rebooting, file, pc, versionChecked, hid, dfu, vetted, flashed, rounds>>

\* Until it restarts, a board is still found by hid_enumerate.
Restart(d) ==
  /\ d \in rebooting
  /\ rebooting' = rebooting \ {d}
  /\ mode' = [mode EXCEPT ![d] = "boot"]
  /\ UNCHANGED <<profile, firmware, file, pc, versionChecked, hid, dfu, ghosts, counts>>

----
(* upgradeFirmwareThread, upgradeFirmwareDeviceFromFilename. *)

\* [HID open], on one of the boards that run: hid_open_path may fail, DEVINFO may
\* stay unanswered.
Opened == IF In("app") = {} THEN {NoHid} ELSE {h \in Handles : mode[h.dev] = "app"}

Begin ==
  /\ pc = "begins"
  /\ pc' = IF file.dfu THEN "seeks" ELSE "refused"
  /\ UNCHANGED <<bus, file, versionChecked, hid, dfu, ghosts, counts>>

Seek ==
  /\ pc = "seeks"
  /\ hid' \in IF hid = NoHid THEN Opened ELSE {hid}
  /\ pc' = IF hid' = NoHid THEN "looks" ELSE "compares"
  /\ UNCHANGED <<bus, file, versionChecked, dfu, ghosts, counts>>

\* The version a handle was given by DEVINFO; 0, which is below 6.3.0, without an answer.
Version(h) == IF h.sees = "live" THEN firmware[h.dev] ELSE "old"

\* Product strings name the hardware and no firmware file.
NamesIn(product) == {}

\* firmware.V6.2020.dfu, firmware.V6.2021.dfu; firmware.V6.revF.dfu or firmware.dfu.
FileNames(hw) == IF hw \in {"2020", "2021"} THEN {hw} ELSE {"revF", "plain"}

\* A slip: no name is asked for below 6.3.0 either.
isCorrectFirmware_Any(h) == Version(h) # "new"

\* Of the newest firmware the name is looked for in the product string, not in the path.
isCorrectFirmware(h) ==
  \/ Version(h) = "old" /\ file.names \cap FileNames("revF") # {}
  \/ Version(h) = "630"
  \/ Version(h) = "new" /\ mode[h.dev] = "app"
     /\ NamesIn(profile[h.dev].hw) \cap FileNames(profile[h.dev].hw) # {}

Compare ==
  /\ pc = "compares"
  /\ versionChecked' = (versionChecked \/ isCorrectFirmware(hid))
  /\ pc' = IF isCorrectFirmware(hid) THEN "reboots" ELSE "refused"
  /\ vetted' = IF isCorrectFirmware(hid) THEN vetted \union {hid.dev} ELSE vetted
  /\ UNCHANGED <<bus, file, hid, dfu, flashed, origin, counts>>

\* enterBootloader: nothing is sent without a handle; else the command may be lost
\* or not, and whether it raises says nothing of that. myHID becomes nil.
Reboot ==
  /\ pc = "reboots"
  /\ hid' = NoHid
  /\ \/ hid.sees = "null" /\ pc' = "looks" /\ UNCHANGED rebooting
     \/ /\ hid.sees # "null"
        /\ pc' \in {"looks", "seeks"}
        /\ rebooting' \in {rebooting, rebooting \union ({hid.dev} \cap In("app"))}
  /\ UNCHANGED <<profile, firmware, mode, file, versionChecked, dfu, ghosts, counts>>

\* A device with the vendor and product of the STM bootloader, whatever it is.
hasDevice == \E d \in Devices : mode[d] \notin {"away", "app"} /\ profile[d].ids = "stm"

DfuUtil(c) == call' = c /\ dfu_root' = None /\ runtime' = "any"

\* A slip: a device that was found counts as a device that was read.
Look_Unread ==
  /\ pc = "looks"
  /\ versionChecked' = (versionChecked \/ hasDevice)
  /\ pc' = "looksAgain"
  /\ UNCHANGED <<bus, file, hid, dfu, ghosts, counts>>

Look ==
  /\ pc = "looks"
  /\ IF hasDevice /\ ~versionChecked
     THEN pc' = "probes" /\ DfuUtil("upload")
     ELSE pc' = "looksAgain" /\ UNCHANGED dfu
  /\ UNCHANGED <<bus, file, versionChecked, hid, ghosts, counts>>

\* The command is split at its blanks, so a path with one is cut short and dfu_load_file
\* exits; the ids of the suffix, if any, are looked for.
LookAgain ==
  /\ pc = "looksAgain"
  /\ \/ ~hasDevice /\ pc' = "seeks" /\ UNCHANGED dfu
     \/ hasDevice /\ pc' = (IF file.blanks THEN "exited" ELSE "probes") /\ DfuUtil("download")
  /\ UNCHANGED <<bus, file, versionChecked, hid, ghosts, counts>>

----
(* dfu_util. *)

\* probe_configuration: in DFU mode the vendor is not looked at, only the alternate.
InDfuMode == {d \in In("boot") : call = "upload" => profile[d].two}

MatchingRuntime == {d \in In("runtime") : call = "upload" \/ file.ids \in {"any", profile[d].ids}}

\* A slip: an empty list is not told from another.
Select_Empty(candidates, next) ==
  dfu_root' \in (IF candidates = {} THEN {None} ELSE candidates) /\ pc' = next

\* The list is not empty, its head is taken, and the bus has no order of its own.
Select(candidates, next) ==
  \/ candidates = {} /\ pc' = "exited" /\ UNCHANGED dfu_root
  \/ dfu_root' \in candidates /\ pc' = next

Probe ==
  /\ pc = "probes"
  /\ Select(InDfuMode \union MatchingRuntime, "opens")
  /\ UNCHANGED <<bus, file, versionChecked, hid, call, runtime, ghosts, counts>>

\* errx, for one of the transfers on the way to dfuIDLE or because the device is gone.
Fail ==
  /\ pc \in {"opens", "transfers"}
  /\ pc' = "exited"
  /\ UNCHANGED <<bus, file, versionChecked, hid, dfu, ghosts, counts>>

\* The ids looked for become those of the device.
OpenInDfuMode ==
  /\ pc = "opens"
  /\ mode[dfu_root] = "boot"
  /\ runtime' = IF call = "upload" \/ file.ids = "any" THEN profile[dfu_root].ids ELSE file.ids
  /\ pc' = "transfers"
  /\ UNCHANGED <<bus, file, versionChecked, hid, call, dfu_root, ghosts, counts>>

Detach ==
  /\ pc = "opens"
  /\ mode[dfu_root] = "runtime"
  /\ runtime' = profile[dfu_root].ids
  /\ mode' \in {mode, [mode EXCEPT ![dfu_root] = "boot"]}
  /\ pc' = "probesAgain"
  /\ UNCHANGED <<profile, firmware, rebooting, file, versionChecked, hid, call, dfu_root, ghosts, counts>>

ProbeAgain ==
  /\ pc = "probesAgain"
  /\ Select(InDfuMode, "transfers")
  /\ UNCHANGED <<bus, file, versionChecked, hid, call, runtime, ghosts, counts>>

\* A slip: a marker that is not known is taken for one that is not set.
Accepted_Unknown(marker) == TRUE

\* The value of checkVersionMarker, which looks at the marker and not at the file.
Accepted(marker) == marker \in {"unset", "2019", "2020"}

\* The upload fails, or the marker of whatever was selected is read.
Upload ==
  /\ pc = "transfers" /\ call = "upload"
  /\ \/ pc' = "refused" /\ UNCHANGED <<versionChecked, vetted>>
     \/ /\ mode[dfu_root] = "boot"
        /\ Accepted(profile[dfu_root].marker)
        /\ versionChecked' = TRUE
        /\ vetted' = vetted \union {dfu_root}
        /\ pc' = "looksAgain"
  /\ UNCHANGED <<bus, file, hid, dfu, flashed, origin, counts>>

\* The suffix names neither the device that was looked for nor the one that is open.
Mismatch == file.ids \notin {"any", runtime, profile[dfu_root].ids}

\* The device takes the whole file, or part of it before dfu_util returns 1 or exits.
Program(whole) ==
  /\ mode[dfu_root] = "boot"
  /\ flashed' = flashed \union {dfu_root}
  /\ firmware' = [firmware EXCEPT ![dfu_root] = IF whole THEN "new" ELSE "torn"]

\* A slip: the loop goes on, to look for the board that was programmed.
Return_Loops == pc' = "seeks" /\ hid' \in Opened \union {NoHid}

\* What dfu_util returns is not looked at: the loop ends, and reset_hid opens a board.
Return == pc' = "done" /\ hid' \in Opened \union {NoHid}

Download ==
  /\ pc = "transfers" /\ call = "download"
  /\ \/ UNCHANGED <<firmware, mode, flashed>> /\ Return
     \/ ~Mismatch /\ Program(FALSE) /\ UNCHANGED mode /\ Return
     \/ ~Mismatch /\ Program(FALSE) /\ UNCHANGED <<mode, hid>> /\ pc' = "exited"
     \/ /\ ~Mismatch /\ Program(TRUE)
        /\ mode' = [mode EXCEPT ![dfu_root] = IF profile[dfu_root].hw = "foreign" THEN "runtime" ELSE "app"]
        /\ Return
  /\ UNCHANGED <<profile, rebooting, file, versionChecked, dfu, vetted, origin, counts>>

----
\* The user starts another one, or the tool repeats (-r): getHid keeps a handle that
\* answers, opens one, or finds no board and goes on all the same.
Again ==
  /\ pc \in {"done", "refused"}
  /\ rounds > 1 /\ rounds' = rounds - 1
  /\ file' \in Files
  /\ hid' \in {hid} \union Opened
  /\ pc' = "begins" /\ versionChecked' = FALSE
  /\ vetted' = {} /\ flashed' = {}
  /\ origin' = [d \in Devices |-> IF hid'.dev = d /\ mode[d] # "app" THEN "moved"
                                  ELSE Seen(firmware, mode, rebooting)[d]]
  /\ UNCHANGED <<bus, dfu, moves>>

Step == \/ Begin \/ Seek \/ Compare \/ Reboot \/ Look \/ LookAgain
        \/ Probe \/ Fail \/ OpenInDfuMode \/ Detach \/ ProbeAgain \/ Upload \/ Download

Next == Step \/ Again \/ \E d \in Devices : Unplug(d) \/ Plug(d) \/ Restart(d)

\* The thread runs on; nothing is assumed of devices and of the user.
Spec == Init /\ [][Next]_vars /\ WF_vars(Step)

----
Places == {"begins", "seeks", "compares", "reboots", "looks", "looksAgain", "probes", "opens",
           "probesAgain", "transfers", "done", "refused", "exited"}

\* Every variable has its type; a board in the application has firmware, and inside
\* dfu_util a device is selected whenever one is used.
TypeOK ==
  /\ firmware \in [Devices -> {"old", "630", "new", "torn", "none"}]
  /\ mode \in [Devices -> {"away", "app", "boot", "runtime"}]
  /\ \A d \in In("app") : firmware[d] \notin {"torn", "none"}
  /\ rebooting \subseteq In("app")
  /\ pc \in Places /\ versionChecked \in BOOLEAN
  /\ hid \in Handles \union {NoHid}
  /\ hid = NoHid => pc \notin {"compares", "reboots"}
  /\ dfu_root \in Devices \union {None}
  /\ pc \in {"opens", "transfers"} => dfu_root # None
  /\ vetted \subseteq Devices /\ flashed \subseteq Devices
  /\ origin \in [Devices -> {"old", "630", "new", "boot", "runtime", "away", "moved"}]
  /\ moves \in 0..Moves /\ rounds \in 1..Rounds

\* Was d there, alone and without a pause, since the upgrade began?
Alone(d) == origin[d] \notin {"away", "moved"} /\ \A e \in Devices \ {d} : origin[e] = "away"

\* versionChecked is one flag for whatever device there is: where only one was, what is
\* programmed is the device whose firmware was compared or whose marker was read.
FlashedIsChecked == \A d \in flashed : Alone(d) => d \in vetted

\* Nor is the answer lost on the way through the restart and the loop, however often the
\* board is asked: a board found running, but for one of 6.3.0, is programmed only with a
\* file named for revision F, and what is found in DFU mode only with a known marker.
\* Such a file need not suit the board: one above 6.3.0 is programmed with it just when it
\* did not answer (see BelowIsOlder), 6.3.0 takes any file, and so does every known marker.
FlashedIsRight ==
  \A d \in flashed : Alone(d) =>
    /\ origin[d] \in {"old", "new"} => file.names \cap FileNames("revF") # {}
    /\ origin[d] \in {"boot", "runtime"} => profile[d].marker \in {"unset", "2019", "2020"}

Over == pc \in {"done", "refused", "exited"}

\* The loop has no bound: it ends at last when a bootloader stays and no board runs,
\* be it after failed transfers, commands that were lost or boards that left.
UpgradeEnds ==
  (<>[](In("app") = {} /\ hasDevice)) => (pc = "begins" ~> Over)

\* "Firmware does not match hardware" (AppDelegate.m:1107) is said of files made for other
\* hardware only, at least when the board has answered. Above 6.3.0 it is said of every file.
RefusedOnlyWrongFile ==
  [][pc = "compares" /\ pc' = "refused" /\ hid.sees = "live" =>
       file.names \cap FileNames(profile[hid.dev].hw) = {}]_vars

\* "Definitely the older hardware." (SCSI2SD_HID.m:286), of a version below 6.3.0. It is also
\* 0 when DEVINFO is not answered, or when the device could not be opened.
BelowIsOlder == pc = "reboots" /\ Version(hid) = "old" => profile[hid.dev].hw = "revF"
====
