---------------------------- MODULE UpgradeProofs ----------------------------
(***************************************************************************)
(* An upgrade for all devices, files and benches, and any number of moves  *)
(* and rounds: its types, and that where one device was there alone, what  *)
(* is programmed is the device that was asked or read, with a file the     *)
(* answer allows.                                                          *)
(***************************************************************************)
EXTENDS Upgrade, TLAPS

(* Types, in the parts that actions change together. *)

\* What is on the bus; beside TypeOK, that boards have firmware, whole or torn.
BusTypes ==
  /\ firmware \in [Devices -> {"old", "630", "new", "torn", "none"}]
  /\ mode \in [Devices -> {"away", "app", "boot", "runtime"}]
  /\ \A d \in Devices : mode[d] = "app" => firmware[d] \notin {"torn", "none"}
  /\ \A d \in rebooting : d \in Devices /\ mode[d] = "app"
  /\ \A d \in Devices : profile[d].hw # "foreign" => firmware[d] # "none"

HidTypes ==
  /\ hid = NoHid \/ (hid \in Handles /\ hid.dev \in Devices)
  /\ hid = NoHid => pc \notin {"compares", "reboots"}

DfuTypes ==
  /\ dfu_root \in Devices \union {None}
  /\ pc \in {"opens", "transfers"} => dfu_root # None

GhostTypes ==
  /\ vetted \subseteq Devices /\ flashed \subseteq Devices
  /\ origin \in [Devices -> {"old", "630", "new", "boot", "runtime", "away", "moved"}]

CountTypes == moves \in 0..Moves /\ rounds \in 1..Rounds

Types ==
  BusTypes /\ pc \in Places /\ versionChecked \in BOOLEAN /\ HidTypes /\ DfuTypes
  /\ GhostTypes /\ CountTypes

\* The parts say all that TypeOK says.
LEMMA TypesAreTypeOK == Types => TypeOK
<1> SUFFICES ASSUME Types PROVE TypeOK
  OBVIOUS
<1>1. /\ firmware \in [Devices -> {"old", "630", "new", "torn", "none"}]
      /\ mode \in [Devices -> {"away", "app", "boot", "runtime"}]
      /\ \A d \in In("app") : firmware[d] \notin {"torn", "none"}
      /\ rebooting \subseteq In("app")
  BY DEF Types, BusTypes, In
<1>2. hid \in Handles \union {NoHid} /\ (hid = NoHid => pc \notin {"compares", "reboots"})
  BY DEF Types, HidTypes
<1> QED BY <1>1, <1>2 DEF Types, DfuTypes, GhostTypes, CountTypes, TypeOK

\* What [HID open] returns is a handle on a board that runs, or none.
LEMMA OpenedType ==
  ASSUME BusTypes, NEW h \in Opened \union {NoHid}
  PROVE  h = NoHid \/ (h \in Handles /\ h.dev \in Devices /\ mode[h.dev] = "app")
  BY DEF Opened, Handles

\* A device is none of the values that stand for no device.
LEMMA NoHidIsNoHandle == \A h \in Handles : h # NoHid /\ h.dev \in Devices
  BY UpgradeAssumption DEF Handles, NoHid

\* The initial state is well typed.
LEMMA TypesInit == Init => Types
<1> SUFFICES ASSUME Init PROVE Types
  OBVIOUS
<1>1. BusTypes
  BY BenchAssumption DEF Init, BusTypes
<1>2. HidTypes
  BY DEF Init, HidTypes, Handles
<1>3. GhostTypes
  <2>1. origin = Seen(firmware, mode, {})
    BY DEF Init
  <2>2. \A d \in Devices : mode[d] \in {"away", "app", "boot", "runtime"}
                           /\ (mode[d] = "app" => firmware[d] \in {"old", "630", "new"})
    BY <1>1 DEF BusTypes
  <2>3. origin \in [Devices -> {"old", "630", "new", "boot", "runtime", "away", "moved"}]
    BY <2>1, <2>2 DEF Seen
  <2> QED BY <2>3 DEF Init, GhostTypes
<1>4. CountTypes
  BY UpgradeAssumption DEF Init, CountTypes
<1> QED BY <1>1, <1>2, <1>3, <1>4 DEF Init, Types, DfuTypes, Places

\* Every step keeps what is known of the bus.
LEMMA BusStep == Types /\ [Next]_vars => BusTypes'
<1> SUFFICES ASSUME Types, [Next]_vars PROVE BusTypes'
  OBVIOUS
<1>0. BusTypes
  BY DEF Types
<1>1. ASSUME UNCHANGED bus PROVE BusTypes'
  BY <1>0, <1>1 DEF BusTypes, bus
<1>2. ASSUME NEW d \in Devices, Unplug(d) PROVE BusTypes'
  BY <1>0, <1>2 DEF Unplug, BusTypes
<1>3. ASSUME NEW d \in Devices, Plug(d) PROVE BusTypes'
  <2>1. PICK m \in {"app", "boot", "runtime"} :
          /\ mode' = [mode EXCEPT ![d] = m]
          /\ m = "app" => profile[d].hw # "foreign" /\ firmware[d] # "torn"
    BY <1>3 DEF Plug
  <2>2. mode[d] = "away" /\ UNCHANGED << profile, firmware, rebooting >>
    BY <1>3 DEF Plug
  <2>3. m = "app" => firmware[d] \notin {"torn", "none"}
    BY <1>0, <2>1 DEF BusTypes
  <2>4. mode' \in [Devices -> {"away", "app", "boot", "runtime"}]
    BY <1>0, <2>1 DEF BusTypes
  <2> QED BY <1>0, <2>1, <2>2, <2>3, <2>4 DEF BusTypes
<1>4. ASSUME NEW d \in Devices, Restart(d) PROVE BusTypes'
  BY <1>0, <1>4 DEF Restart, BusTypes
<1>5. CASE Reboot
  BY <1>0, <1>5 DEF Reboot, BusTypes, In
<1>6. CASE Detach
  <2>1. dfu_root \in Devices
    BY <1>6 DEF Types, DfuTypes, Detach
  <2>2. CASE mode' = mode
    BY <1>0, <1>6, <2>2 DEF Detach, BusTypes
  <2>3. CASE mode' = [mode EXCEPT ![dfu_root] = "boot"]
    BY <1>0, <1>6, <2>1, <2>3 DEF Detach, BusTypes
  <2> QED BY <1>6, <2>2, <2>3 DEF Detach
<1>7. CASE Download
  <2>1. dfu_root \in Devices
    BY <1>7 DEF Types, DfuTypes, Download
  <2>2. UNCHANGED << profile, rebooting >>
    BY <1>7 DEF Download
  <2>3. CASE UNCHANGED << firmware, mode >>
    BY <1>1, <2>2, <2>3 DEF bus
  <2>4. CASE Program(FALSE) /\ UNCHANGED mode
    BY <1>0, <2>1, <2>2, <2>4 DEF Program, BusTypes
  <2>5. CASE /\ Program(TRUE)
             /\ mode' = [mode EXCEPT ![dfu_root] =
                           IF profile[dfu_root].hw = "foreign" THEN "runtime" ELSE "app"]
    <3>1. mode[dfu_root] = "boot" /\ firmware' = [firmware EXCEPT ![dfu_root] = "new"]
      BY <2>5 DEF Program
    <3>2. mode' \in [Devices -> {"away", "app", "boot", "runtime"}]
      BY <1>0, <2>1, <2>5 DEF BusTypes
    <3> QED BY <1>0, <2>1, <2>2, <2>5, <3>1, <3>2 DEF BusTypes
  <2> QED BY <1>7, <2>3, <2>4, <2>5 DEF Download
<1>8. CASE \/ Begin \/ Seek \/ Compare \/ Look \/ LookAgain \/ Probe \/ Fail
           \/ OpenInDfuMode \/ ProbeAgain \/ Upload \/ Again \/ UNCHANGED vars
  BY <1>1, <1>8 DEF Begin, Seek, Compare, Look, LookAgain, Probe, Fail, OpenInDfuMode,
                    ProbeAgain, Upload, Again, vars
<1> QED BY <1>2, <1>3, <1>4, <1>5, <1>6, <1>7, <1>8 DEF Next, Step

\* Every step stays at the places of the program and keeps its flag a Boolean.
LEMMA PlaceStep == Types /\ [Next]_vars => pc' \in Places /\ versionChecked' \in BOOLEAN
<1> SUFFICES ASSUME pc \in Places, versionChecked \in BOOLEAN, [Next]_vars
             PROVE  pc' \in Places /\ versionChecked' \in BOOLEAN
  BY DEF Types
<1>1. pc' \in Places
  BY DEF Places, Next, Step, Begin, Seek, Compare, Reboot, Look, LookAgain, Probe, Fail,
         OpenInDfuMode, Detach, ProbeAgain, Upload, Download, Return, Again, Unplug, Plug,
         Restart, Select, vars
<1>2. versionChecked' \in BOOLEAN
  <2>1. CASE Compare
    BY <2>1 DEF Compare
  <2>2. CASE Upload \/ Again
    BY <2>2 DEF Upload, Again
  <2>3. CASE UNCHANGED versionChecked
    BY <2>3
  <2> QED BY <2>1, <2>2, <2>3 DEF Next, Step, Begin, Seek, Reboot, Look, LookAgain, Probe,
        Fail, OpenInDfuMode, Detach, ProbeAgain, Download, Unplug, Plug, Restart, vars
<1> QED BY <1>1, <1>2

\* Every step keeps the type of the handle; it is compared and restarted only if
\* there is one.
LEMMA HidStep == Types /\ [Next]_vars => HidTypes'
<1> SUFFICES ASSUME Types, [Next]_vars PROVE HidTypes'
  OBVIOUS
<1>0. HidTypes /\ BusTypes
  BY DEF Types
<1>1. CASE Seek
  <2>1. hid' \in Opened \union {NoHid} \/ hid' = hid
    BY <1>1 DEF Seek
  <2>2. hid' = NoHid \/ (hid' \in Handles /\ hid'.dev \in Devices)
    BY <1>0, <2>1, OpenedType DEF HidTypes
  <2>3. hid' = NoHid => pc' = "looks"
    BY <1>1 DEF Seek
  <2> QED BY <2>2, <2>3 DEF HidTypes
<1>2. CASE Reboot
  BY <1>2 DEF Reboot, HidTypes
<1>3. CASE Download
  <2>1. hid' \in Opened \union {NoHid} \/ hid' = hid
    BY <1>3 DEF Download, Return
  <2>2. hid' = NoHid \/ (hid' \in Handles /\ hid'.dev \in Devices)
    BY <1>0, <2>1, OpenedType DEF HidTypes
  <2>3. pc' \in {"done", "exited"}
    BY <1>3 DEF Download, Return
  <2> QED BY <2>2, <2>3 DEF HidTypes
<1>4. CASE Again
  <2>1. hid' \in Opened \union {NoHid} \/ hid' = hid
    BY <1>4 DEF Again
  <2>2. hid' = NoHid \/ (hid' \in Handles /\ hid'.dev \in Devices)
    BY <1>0, <2>1, OpenedType DEF HidTypes
  <2>3. pc' = "begins"
    BY <1>4 DEF Again
  <2> QED BY <2>2, <2>3 DEF HidTypes
<1>5. CASE Compare
  BY <1>0, <1>5 DEF Compare, HidTypes
<1>6. CASE \/ Begin \/ Look \/ LookAgain \/ Probe \/ Fail \/ OpenInDfuMode \/ Detach
           \/ ProbeAgain \/ Upload
  <2>1. hid' = hid /\ pc' \notin {"compares", "reboots"}
    BY <1>6 DEF Begin, Look, LookAgain, Probe, Fail, OpenInDfuMode, Detach, ProbeAgain,
                Upload, Select
  <2> QED BY <1>0, <2>1 DEF HidTypes
<1>7. CASE UNCHANGED vars \/ \E d \in Devices : Unplug(d) \/ Plug(d) \/ Restart(d)
  <2>1. UNCHANGED << hid, pc >>
    BY <1>7 DEF vars, Unplug, Plug, Restart
  <2> QED BY <1>0, <2>1 DEF HidTypes
<1> QED BY <1>1, <1>2, <1>3, <1>4, <1>5, <1>6, <1>7 DEF Next, Step

\* dfu_util opens and programs a device that it selected.
LEMMA DfuStep == Types /\ [Next]_vars => DfuTypes'
<1> SUFFICES ASSUME Types, [Next]_vars PROVE DfuTypes'
  OBVIOUS
<1>0. DfuTypes
  BY DEF Types
<1>1. CASE Probe \/ ProbeAgain
  <2>1. InDfuMode \subseteq Devices /\ MatchingRuntime \subseteq Devices
    BY DEF InDfuMode, MatchingRuntime, In
  <2> QED BY <1>0, <1>1, <2>1, UpgradeAssumption DEF Probe, ProbeAgain, Select, DfuTypes
<1>2. CASE Look \/ LookAgain
  BY <1>0, <1>2 DEF Look, LookAgain, DfuUtil, DfuTypes, dfu
<1>3. CASE OpenInDfuMode \/ Detach \/ Fail
  BY <1>0, <1>3 DEF OpenInDfuMode, Detach, Fail, DfuTypes, dfu
<1>4. CASE Begin \/ Seek \/ Compare \/ Reboot \/ Upload \/ Download \/ Again
  BY <1>0, <1>4 DEF Begin, Seek, Compare, Reboot, Upload, Download, Return, Again,
                    DfuTypes, dfu
<1>5. CASE UNCHANGED vars \/ \E d \in Devices : Unplug(d) \/ Plug(d) \/ Restart(d)
  BY <1>0, <1>5 DEF vars, Unplug, Plug, Restart, DfuTypes, dfu
<1> QED BY <1>1, <1>2, <1>3, <1>4, <1>5 DEF Next, Step

\* The history of an upgrade speaks of devices.
LEMMA GhostStep == Types /\ [Next]_vars => GhostTypes'
<1> SUFFICES ASSUME Types, [Next]_vars PROVE GhostTypes'
  OBVIOUS
<1>0. GhostTypes /\ BusTypes /\ HidTypes /\ DfuTypes
  BY DEF Types
<1>1. CASE Compare
  <2>1. hid.dev \in Devices
    BY <1>0, <1>1 DEF Compare, HidTypes
  <2> QED BY <1>0, <1>1, <2>1 DEF Compare, GhostTypes
<1>2. CASE Upload \/ Download
  <2>1. dfu_root \in Devices
    BY <1>0, <1>2 DEF Upload, Download, DfuTypes
  <2> QED BY <1>0, <1>2, <2>1 DEF Upload, Download, Program, GhostTypes
<1>3. CASE Again
  <2>1. \A d \in Devices : mode[d] \in {"away", "app", "boot", "runtime"}
                           /\ (mode[d] = "app" => firmware[d] \in {"old", "630", "new"})
    BY <1>0 DEF BusTypes
  <2>2. origin' \in [Devices -> {"old", "630", "new", "boot", "runtime", "away", "moved"}]
    BY <1>3, <2>1 DEF Again, Seen
  <2> QED BY <1>3, <2>2 DEF Again, GhostTypes
<1>4. CASE \E d \in Devices : Unplug(d) \/ Plug(d)
  BY <1>0, <1>4 DEF Unplug, Plug, Moved, GhostTypes
<1>5. CASE \/ Begin \/ Seek \/ Reboot \/ Look \/ LookAgain \/ Probe \/ Fail
           \/ OpenInDfuMode \/ Detach \/ ProbeAgain \/ UNCHANGED vars
           \/ \E d \in Devices : Restart(d)
  BY <1>0, <1>5 DEF Begin, Seek, Reboot, Look, LookAgain, Probe, Fail, OpenInDfuMode,
                    Detach, ProbeAgain, Restart, vars, ghosts, GhostTypes
<1> QED BY <1>1, <1>2, <1>3, <1>4, <1>5 DEF Next, Step

\* The bounds on moves and rounds hold.
LEMMA CountStep == Types /\ [Next]_vars => CountTypes'
<1> SUFFICES ASSUME CountTypes, [Next]_vars PROVE CountTypes'
  BY DEF Types
<1>1. CASE \E d \in Devices : Unplug(d) \/ Plug(d)
  BY <1>1, UpgradeAssumption DEF Unplug, Plug, CountTypes
<1>2. CASE Again
  BY <1>2, UpgradeAssumption DEF Again, CountTypes
<1>3. CASE UNCHANGED counts
  BY <1>3 DEF CountTypes, counts
<1> QED BY <1>1, <1>2, <1>3 DEF Next, Step, Begin, Seek, Compare, Reboot, Look, LookAgain,
      Probe, Fail, OpenInDfuMode, Detach, ProbeAgain, Upload, Download, Restart, vars

\* Every step keeps all types.
LEMMA TypesStep == Types /\ [Next]_vars => Types'
  BY BusStep, PlaceStep, HidStep, DfuStep, GhostStep, CountStep DEF Types

\* What runs on a device of the bus has firmware, only such devices restart, and
\* dfu_util uses a device only when one is selected.
THEOREM UpgradeTypes == Spec => []TypeOK
<1>1. Types => TypeOK
  BY TypesAreTypeOK
<1> QED BY <1>1, TypesInit, TypesStep, PTL DEF Spec

-----------------------------------------------------------------------------
(* What is programmed. *)

Running == {"old", "630", "new"}

InDfuUtil == {"probes", "opens", "probesAgain", "transfers"}

\* A device that was there and stays is in one of the modes its first one leads to,
\* and what it ran at first it runs, or has, until it is programmed.
Stays ==
  \A d \in Devices :
    /\ origin[d] = "away" => mode[d] = "away"
    /\ origin[d] \in {"boot", "runtime"} /\ ~Over => mode[d] \in {"boot", "runtime"}
    /\ origin[d] \in Running /\ ~Over => firmware[d] = origin[d]

\* A handle is one on a board that ran when the upgrade began, unless the board
\* moved since.
HidRan == hid # NoHid /\ ~Over => origin[hid.dev] \in Running \union {"moved"}

\* The board that is told to restart was compared.
RebootVetted == pc = "reboots" => hid.dev \in vetted

\* Where d was there alone, each thing that lets dfu_util program it means that d
\* was compared or read: the flag, its restart, its bootloader, the second look.
Passed(d) ==
  \/ versionChecked
  \/ d \in rebooting
  \/ origin[d] \in Running /\ mode[d] # "app"
  \/ pc = "looksAgain" /\ origin[d] \in {"boot", "runtime"} /\ profile[d].ids = "stm"
  \/ call = "download" /\ pc \in InDfuUtil
  \/ d \in flashed

PassedVetted == \A d \in Devices : Alone(d) /\ Passed(d) => d \in vetted

\* What comparing or reading a device lets pass: 6.3.0 any file, other versions one for
\* revision F; of a bootloader the marker counts and not the file.
Allowed(d) ==
  /\ origin[d] \in {"old", "new"} => file.names \cap FileNames("revF") # {}
  /\ origin[d] \in {"boot", "runtime"} => profile[d].marker \in {"unset", "2019", "2020"}

VettedRight == \A d \in vetted : Alone(d) => Allowed(d)

UpgradeInv == Types /\ Stays /\ HidRan /\ RebootVetted /\ PassedVetted /\ VettedRight

\* Where one device was there alone, every device that is not away is that one.
LEMMA OnlyOneThere ==
  ASSUME Stays, NEW d \in Devices, Alone(d), NEW e \in Devices, mode[e] # "away"
  PROVE  e = d
  BY DEF Alone, Stays

\* Until another upgrade begins, a device that is alone was so before.
LEMMA AloneBefore ==
  ASSUME Types, [Next]_vars, ~Again, NEW d \in Devices, Alone(d)'
  PROVE  Alone(d) /\ origin'[d] = origin[d]
<1>1. origin \in [Devices -> {"old", "630", "new", "boot", "runtime", "away", "moved"}]
  BY DEF Types, GhostTypes
<1>2. \A e \in Devices : origin'[e] = origin[e] \/ origin'[e] = "moved"
  <2>1. CASE \E e \in Devices : Unplug(e) \/ Plug(e)
    BY <1>1, <2>1 DEF Unplug, Plug, Moved
  <2>2. CASE origin' = origin
    BY <2>2
  <2> QED BY <2>1, <2>2 DEF Next, Step, Begin, Seek, Compare, Reboot, Look, LookAgain,
        Probe, Fail, OpenInDfuMode, Detach, ProbeAgain, Upload, Download, Restart,
        vars, ghosts
<1> QED BY <1>2 DEF Alone

\* A running board's first mode is none of a device's that was away or in DFU.
LEMMA RunsAsBefore ==
  ASSUME Types, Stays, ~Over, NEW e \in Devices, mode[e] = "app"
  PROVE  origin[e] \in Running \union {"moved"}
  BY DEF Types, GhostTypes, Stays, Running

\* What [HID open] returns while an upgrade runs.
LEMMA OpenedRan ==
  ASSUME Types, Stays, ~Over, NEW h \in Opened \union {NoHid}, h # NoHid
  PROVE  h.dev \in Devices /\ origin[h.dev] \in Running \union {"moved"}
<1>1. h.dev \in Devices /\ mode[h.dev] = "app"
  BY OpenedType DEF Types
<1> QED BY <1>1, RunsAsBefore

\* When another upgrade begins, everything is what it then is.
LEMMA AgainBegins ==
  ASSUME Types, Again, NEW d \in Devices
  PROVE  /\ origin'[d] = "away" => mode[d] = "away"
         /\ origin'[d] \in {"boot", "runtime"} => mode[d] = origin'[d]
         /\ origin'[d] \in Running => mode[d] = "app" /\ firmware[d] = origin'[d]
         /\ origin'[d] # "moved" => d \notin rebooting
         /\ hid'.dev = d /\ mode[d] # "app" => origin'[d] = "moved"
         /\ mode[d] = "app" => origin'[d] \in Running \union {"moved"}
<1>1. /\ mode[d] \in {"away", "app", "boot", "runtime"}
      /\ mode[d] = "app" => firmware[d] \in Running
  BY DEF Types, BusTypes, Running
<1>2. origin'[d] = IF hid'.dev = d /\ mode[d] # "app" THEN "moved"
                   ELSE Seen(firmware, mode, rebooting)[d]
  BY DEF Again
<1>3. Seen(firmware, mode, rebooting)[d] =
        IF d \in rebooting THEN "moved" ELSE IF mode[d] = "app" THEN firmware[d] ELSE mode[d]
  BY DEF Seen
<1>4. d \in rebooting => mode[d] = "app"
  BY DEF Types, BusTypes
<1> QED BY <1>1, <1>2, <1>3, <1>4 DEF Running

\* The invariant holds at first.
LEMMA UpgradeInit == Init => UpgradeInv
<1> SUFFICES ASSUME Init PROVE UpgradeInv
  OBVIOUS
<1>1. Types
  BY TypesInit
<1>2. \A d \in Devices :
        /\ mode[d] \in {"away", "app", "boot", "runtime"}
        /\ mode[d] = "app" => firmware[d] \in Running
  BY <1>1 DEF Types, BusTypes, Running
<1>3. \A d \in Devices : origin[d] = IF mode[d] = "app" THEN firmware[d] ELSE mode[d]
  BY DEF Init, Seen
<1>4. Stays
  BY <1>2, <1>3 DEF Stays, Running
<1>5. HidRan
  BY <1>2, <1>3 DEF Init, HidRan, Handles
<1>6. PassedVetted
  BY <1>2, <1>3 DEF Init, PassedVetted, Passed, Running, InDfuUtil
<1> QED BY <1>1, <1>4, <1>5, <1>6 DEF Init, UpgradeInv, RebootVetted, VettedRight

\* Every step keeps what is known of modes and firmware.
LEMMA StaysStep == UpgradeInv /\ [Next]_vars => Stays'
<1> SUFFICES ASSUME UpgradeInv, [Next]_vars PROVE Stays'
  OBVIOUS
<1>0. /\ Types /\ Stays
      /\ firmware \in [Devices -> {"old", "630", "new", "torn", "none"}]
      /\ mode \in [Devices -> {"away", "app", "boot", "runtime"}]
      /\ \A d \in rebooting : d \in Devices /\ mode[d] = "app"
      /\ origin \in [Devices -> {"old", "630", "new", "boot", "runtime", "away", "moved"}]
  BY DEF UpgradeInv, Types, BusTypes, GhostTypes
<1>1. ASSUME UNCHANGED << firmware, mode, origin >>, Over => Over' PROVE Stays'
  BY <1>0, <1>1 DEF Stays
<1>2. ASSUME NEW e \in Devices, Unplug(e) \/ Plug(e) PROVE Stays'
  <2>1. /\ origin' = [origin EXCEPT ![e] = "moved"]
        /\ \A d \in Devices \ {e} : mode'[d] = mode[d]
        /\ UNCHANGED << firmware, pc >>
    BY <1>0, <1>2 DEF Unplug, Plug, Moved
  <2>2. origin'[e] = "moved" /\ \A d \in Devices \ {e} : origin'[d] = origin[d]
    BY <1>0, <2>1
  <2> QED BY <1>0, <2>1, <2>2 DEF Stays, Over, Running
<1>3. ASSUME NEW e \in Devices, Restart(e) PROVE Stays'
  <2>1. mode[e] = "app" /\ mode' = [mode EXCEPT ![e] = "boot"]
        /\ UNCHANGED << origin, firmware, pc >>
    BY <1>0, <1>3 DEF Restart, ghosts
  <2> QED BY <1>0, <2>1 DEF Stays, Over
<1>4. CASE Detach
  <2>1. mode[dfu_root] = "runtime" /\ mode' \in {mode, [mode EXCEPT ![dfu_root] = "boot"]}
        /\ UNCHANGED << origin, firmware >> /\ ~Over
    BY <1>4 DEF Detach, ghosts, Over
  <2> QED BY <1>0, <2>1 DEF Stays
<1>5. CASE Download
  <2>1. pc' \in {"done", "exited"} /\ UNCHANGED origin
    BY <1>5 DEF Download, Return
  <2>2. mode' = mode \/ (mode[dfu_root] = "boot"
                         /\ \A d \in Devices : d # dfu_root => mode'[d] = mode[d])
    BY <1>0, <1>5 DEF Download, Program
  <2> QED BY <1>0, <2>1, <2>2 DEF Stays, Over
<1>6. CASE Again
  <2>1. UNCHANGED << mode, firmware >>
    BY <1>6 DEF Again, bus
  <2> QED BY <1>0, <1>6, <2>1, AgainBegins DEF Stays
<1>7. CASE \/ Begin \/ Seek \/ Compare \/ Reboot \/ Look \/ LookAgain \/ Probe \/ Fail
           \/ OpenInDfuMode \/ ProbeAgain \/ Upload \/ UNCHANGED vars
  <2>1. UNCHANGED << firmware, mode, origin >>
    BY <1>7 DEF Begin, Seek, Compare, Reboot, Look, LookAgain, Probe, Fail,
                OpenInDfuMode, ProbeAgain, Upload, vars, bus, ghosts
  <2>2. Over => Over'
    BY <1>7 DEF Begin, Seek, Compare, Reboot, Look, LookAgain, Probe, Fail,
                OpenInDfuMode, ProbeAgain, Upload, vars, Over
  <2> QED BY <1>1, <2>1, <2>2
<1> QED BY <1>2, <1>3, <1>4, <1>5, <1>6, <1>7 DEF Next, Step

\* Every step keeps what is known of the handle.
LEMMA HidRanStep == UpgradeInv /\ [Next]_vars => HidRan'
<1> SUFFICES ASSUME UpgradeInv, [Next]_vars PROVE HidRan'
  OBVIOUS
<1>0. Types /\ Stays /\ HidRan /\ HidTypes
  BY DEF UpgradeInv, Types
<1>1. CASE Seek
  <2>1. ~Over /\ UNCHANGED origin
    BY <1>1 DEF Seek, Over, ghosts
  <2>2. hid' \in Opened \union {NoHid} \/ hid' = hid
    BY <1>1 DEF Seek
  <2> QED BY <1>0, <2>1, <2>2, OpenedRan DEF HidRan
<1>2. CASE Reboot \/ Download
  <2>1. hid' = NoHid \/ Over'
    BY <1>2 DEF Reboot, Download, Return, Over
  <2> QED BY <2>1 DEF HidRan
<1>3. CASE Again
  <2>1. hid' \in Opened \union {NoHid} \/ hid' = hid
    BY <1>3 DEF Again
  <2>2. hid' = NoHid \/ hid'.dev \in Devices
    BY <1>0, <2>1, OpenedType DEF Types, HidTypes
  <2>3. hid' # NoHid => origin'[hid'.dev] \in Running \union {"moved"}
    BY <1>0, <1>3, <2>2, AgainBegins
  <2> QED BY <2>3 DEF HidRan
<1>4. ASSUME NEW e \in Devices, Unplug(e) \/ Plug(e) PROVE HidRan'
  <2>1. /\ origin' = [origin EXCEPT ![e] = "moved"] /\ UNCHANGED << hid, pc >>
        /\ DOMAIN origin = Devices
    BY <1>0, <1>4 DEF Unplug, Plug, Moved, Types, GhostTypes
  <2> QED BY <1>0, <2>1 DEF HidRan, HidTypes, Over
<1>5. CASE \/ Begin \/ Compare \/ Look \/ LookAgain \/ Probe \/ Fail \/ OpenInDfuMode
           \/ Detach \/ ProbeAgain \/ Upload \/ UNCHANGED vars
           \/ \E e \in Devices : Restart(e)
  <2>1. UNCHANGED << hid, origin >>
    BY <1>5 DEF Begin, Compare, Look, LookAgain, Probe, Fail, OpenInDfuMode, Detach,
                ProbeAgain, Upload, Restart, vars, ghosts
  <2>2. Over => Over'
    BY <1>5 DEF Begin, Compare, Look, LookAgain, Probe, Fail, OpenInDfuMode, Detach,
                ProbeAgain, Upload, Restart, vars, Over
  <2> QED BY <1>0, <2>1, <2>2 DEF HidRan
<1> QED BY <1>1, <1>2, <1>3, <1>4, <1>5 DEF Next, Step

\* Only a handle that was compared is told to restart.
LEMMA RebootVettedStep == UpgradeInv /\ [Next]_vars => RebootVetted'
<1> SUFFICES ASSUME UpgradeInv, [Next]_vars PROVE RebootVetted'
  OBVIOUS
<1>1. CASE Compare
  BY <1>1 DEF Compare, RebootVetted
<1>2. CASE \/ Begin \/ Seek \/ Reboot \/ Look \/ LookAgain \/ Probe \/ Fail
           \/ OpenInDfuMode \/ Detach \/ ProbeAgain \/ Upload \/ Download \/ Again
  <2>1. pc' # "reboots"
    BY <1>2 DEF Begin, Seek, Reboot, Look, LookAgain, Probe, Fail, OpenInDfuMode, Detach,
                ProbeAgain, Upload, Download, Return, Again, Select
  <2> QED BY <2>1 DEF RebootVetted
<1>3. CASE UNCHANGED vars \/ \E d \in Devices : Unplug(d) \/ Plug(d) \/ Restart(d)
  <2>1. UNCHANGED << pc, hid, vetted >>
    BY <1>3 DEF vars, Unplug, Plug, Restart, ghosts
  <2> QED BY <2>1 DEF UpgradeInv, RebootVetted
<1> QED BY <1>1, <1>2, <1>3 DEF Next, Step

\* In an upgrade that begins, nothing has passed yet.
LEMMA NothingPassed ==
  ASSUME UpgradeInv, Again, NEW d \in Devices, Alone(d)'
  PROVE  ~Passed(d)'
<1>1. origin'[d] # "moved"
  BY DEF Alone
<1>2. Types
  BY DEF UpgradeInv
<1>3. d \notin rebooting /\ (origin'[d] \in Running => mode[d] = "app")
  BY <1>1, <1>2, AgainBegins
<1>4. /\ UNCHANGED << mode, rebooting >> /\ pc' = "begins" /\ ~versionChecked' /\ flashed' = {}
  BY DEF Again, bus
<1> QED BY <1>3, <1>4 DEF Passed, InDfuUtil

\* Every step that lets a device that is alone pass follows one that compared or
\* read that device.
LEMMA PassedStep == UpgradeInv /\ [Next]_vars => PassedVetted'
<1> SUFFICES ASSUME UpgradeInv, [Next]_vars, NEW d \in Devices, Alone(d)', Passed(d)'
             PROVE  d \in vetted'
  BY DEF PassedVetted
<1>1. ~Again
  BY NothingPassed
<1>2. Types /\ Stays /\ HidRan /\ RebootVetted /\ PassedVetted
  BY DEF UpgradeInv
<1>3. Alone(d) /\ origin'[d] = origin[d]
  BY <1>1, <1>2, AloneBefore
<1>4. /\ BusTypes /\ HidTypes /\ DfuTypes
      /\ mode \in [Devices -> {"away", "app", "boot", "runtime"}]
      /\ \A e \in rebooting : e \in Devices /\ mode[e] = "app"
  BY <1>2 DEF Types, BusTypes
<1>5. \A e \in Devices : mode[e] # "away" => e = d
  BY <1>2, <1>3, OnlyOneThere
<1>6. vetted \subseteq vetted'
  BY <1>1 DEF Next, Step, Begin, Seek, Compare, Reboot, Look, LookAgain, Probe, Fail,
       OpenInDfuMode, Detach, ProbeAgain, Upload, Download, Unplug, Plug, Restart, vars,
       ghosts
<1>7. ASSUME Passed(d) PROVE d \in vetted'
  BY <1>2, <1>3, <1>6, <1>7 DEF PassedVetted
<1>8. CASE Compare
  <2>1. hid # NoHid /\ hid.dev \in Devices /\ ~Over
    BY <1>4, <1>8 DEF Compare, HidTypes, Over
  <2>2. origin[hid.dev] # "away"
    BY <1>2, <2>1 DEF HidRan, Running
  <2>3. hid.dev = d
    BY <1>3, <2>1, <2>2 DEF Alone
  <2>4. CASE isCorrectFirmware(hid)
    BY <1>8, <2>3, <2>4 DEF Compare
  <2>5. CASE ~isCorrectFirmware(hid)
    <3>1. UNCHANGED << profile, mode, rebooting, flashed >> /\ pc' = "refused"
      BY <1>8, <2>5 DEF Compare, bus
    <3>2. versionChecked' => versionChecked
      BY <1>8, <2>5, Zenon DEF Compare
    <3>3. Passed(d)
      BY <1>3, <3>1, <3>2 DEF Passed, InDfuUtil
    <3> QED BY <1>7, <3>3
  <2> QED BY <2>4, <2>5
<1>9. CASE Reboot
  <2>1. CASE rebooting' = rebooting
    <3>1. UNCHANGED << profile, mode, versionChecked, flashed >>
      BY <1>9 DEF Reboot, ghosts
    <3>2. pc' \in {"looks", "seeks"}
      BY <1>9 DEF Reboot
    <3>3. Passed(d)
      BY <1>3, <2>1, <3>1, <3>2 DEF Passed, InDfuUtil
    <3> QED BY <1>7, <3>3
  <2>2. CASE rebooting' # rebooting
    <3>1. hid.dev \in In("app")
      BY <1>9, <2>2 DEF Reboot
    <3>2. hid.dev = d /\ hid.dev \in vetted
      BY <1>2, <1>5, <1>9, <3>1 DEF In, RebootVetted, Reboot
    <3> QED BY <1>6, <3>2
  <2> QED BY <2>1, <2>2
<1>10. CASE Look
  <2>1. UNCHANGED << profile, mode, rebooting, versionChecked, flashed >>
    BY <1>10 DEF Look, bus, ghosts
  <2>2. CASE hasDevice /\ ~versionChecked
    <3>1. pc' = "probes" /\ call' = "upload"
      BY <1>10, <2>2 DEF Look, DfuUtil
    <3>2. Passed(d)
      BY <1>3, <2>1, <3>1 DEF Passed
    <3> QED BY <1>7, <3>2
  <2>3. CASE ~hasDevice
    <3>1. pc' = "looksAgain" /\ ~Over
      BY <1>10, <2>3 DEF Look, Over
    <3>2. origin[d] \in {"boot", "runtime"} => profile[d].ids # "stm"
      BY <1>2, <2>3, <3>1 DEF hasDevice, Stays
    <3>3. Passed(d)
      BY <1>3, <2>1, <3>1, <3>2 DEF Passed, InDfuUtil
    <3> QED BY <1>7, <3>3
  <2>4. CASE versionChecked
    BY <1>7, <2>4 DEF Passed
  <2> QED BY <2>2, <2>3, <2>4
<1>11. CASE LookAgain
  <2>1. UNCHANGED << profile, mode, rebooting, versionChecked, flashed >>
    BY <1>11 DEF LookAgain, bus, ghosts
  <2>2. CASE ~hasDevice
    <3>1. pc' = "seeks"
      BY <1>11, <2>2 DEF LookAgain
    <3>2. Passed(d)
      BY <1>3, <2>1, <3>1 DEF Passed, InDfuUtil
    <3> QED BY <1>7, <3>2
  <2>3. CASE hasDevice
    <3>1. mode[d] \notin {"away", "app"} /\ profile[d].ids = "stm"
      BY <1>5, <2>3 DEF hasDevice
    <3>2. origin[d] \in Running \union {"boot", "runtime"}
      BY <1>2, <1>3 DEF Types, GhostTypes, Alone, Running
    <3>3. Passed(d)
      BY <1>11, <3>1, <3>2 DEF Passed, LookAgain
    <3> QED BY <1>7, <3>3
  <2> QED BY <2>2, <2>3
<1>12. CASE Upload
  <2>1. CASE pc' = "looksAgain" /\ mode[dfu_root] = "boot" /\ vetted' = vetted \union {dfu_root}
    <3>1. dfu_root \in Devices
      BY <1>4, <1>12 DEF Upload, DfuTypes
    <3>2. dfu_root = d
      BY <1>5, <2>1, <3>1
    <3> QED BY <2>1, <3>2
  <2>2. CASE pc' = "refused" /\ UNCHANGED << versionChecked, vetted >>
    <3>1. UNCHANGED << profile, mode, rebooting, flashed >>
      BY <1>12 DEF Upload, bus, ghosts
    <3>2. Passed(d)
      BY <1>3, <2>2, <3>1 DEF Passed, InDfuUtil
    <3> QED BY <1>7, <3>2
  <2> QED BY <1>12, <2>1, <2>2 DEF Upload
<1>13. CASE Download
  <2>1. Passed(d)
    BY <1>13 DEF Passed, Download, InDfuUtil
  <2> QED BY <1>7, <2>1
<1>14. CASE Detach
  <2>1. /\ mode[dfu_root] = "runtime" /\ mode' \in {mode, [mode EXCEPT ![dfu_root] = "boot"]}
        /\ UNCHANGED << profile, rebooting, versionChecked, call, flashed >>
        /\ pc = "opens" /\ pc' = "probesAgain"
    BY <1>14 DEF Detach, ghosts
  <2>2. mode'[d] # "app" => mode[d] # "app"
    BY <1>4, <2>1
  <2>3. Passed(d)
    BY <1>3, <2>1, <2>2 DEF Passed, InDfuUtil
  <2> QED BY <1>7, <2>3
<1>15. CASE Begin \/ Seek \/ Probe \/ Fail \/ OpenInDfuMode \/ ProbeAgain
  <2>1. UNCHANGED << profile, mode, rebooting, versionChecked, call, flashed >>
    BY <1>15 DEF Begin, Seek, Probe, Fail, OpenInDfuMode, ProbeAgain, bus, dfu, ghosts
  <2>2. pc' # "looksAgain" /\ (pc' \in InDfuUtil => pc \in InDfuUtil)
    BY <1>15 DEF Begin, Seek, Probe, Fail, OpenInDfuMode, ProbeAgain, Select, InDfuUtil
  <2>3. Passed(d)
    BY <1>3, <2>1, <2>2 DEF Passed
  <2> QED BY <1>7, <2>3
<1>16. ASSUME NEW e \in Devices, Unplug(e) \/ Plug(e) PROVE d \in vetted'
  <2>1. origin' = [origin EXCEPT ![e] = "moved"] /\ DOMAIN origin = Devices
    BY <1>2, <1>16 DEF Unplug, Plug, Moved, Types, GhostTypes
  <2> QED BY <2>1 DEF Alone
<1>17. ASSUME NEW e \in Devices, Restart(e) PROVE d \in vetted'
  <2>1. mode[e] = "app" /\ e \in rebooting
    BY <1>4, <1>17 DEF Restart
  <2>2. e = d
    BY <1>5, <2>1
  <2>3. Passed(d)
    BY <2>1, <2>2 DEF Passed
  <2> QED BY <1>7, <2>3
<1>18. CASE UNCHANGED vars
  <2>1. Passed(d)
    BY <1>18 DEF Passed, vars, bus, dfu, ghosts
  <2> QED BY <1>7, <2>1
<1> QED BY <1>1, <1>8, <1>9, <1>10, <1>11, <1>12, <1>13, <1>14, <1>15, <1>16, <1>17, <1>18
  DEF Next, Step

\* What compares or reads a device finds what the file allows.
LEMMA RightStep == UpgradeInv /\ [Next]_vars => VettedRight'
<1> SUFFICES ASSUME UpgradeInv, [Next]_vars, NEW d \in vetted', Alone(d)'
             PROVE  Allowed(d)'
  BY DEF VettedRight
<1>0. /\ Types /\ Stays /\ HidRan /\ PassedVetted /\ VettedRight
      /\ BusTypes /\ HidTypes /\ DfuTypes /\ vetted \subseteq Devices
  BY DEF UpgradeInv, Types, GhostTypes
<1>1. ~Again
  BY DEF Again
<1>2. d \in Devices
  BY <1>0, GhostStep DEF GhostTypes
<1>3. Alone(d) /\ origin'[d] = origin[d]
  BY <1>0, <1>1, <1>2, AloneBefore
<1>4. UNCHANGED << file, profile >>
  BY <1>1 DEF Next, Step, Begin, Seek, Compare, Reboot, Look, LookAgain, Probe, Fail,
       OpenInDfuMode, Detach, ProbeAgain, Upload, Download, Unplug, Plug, Restart, vars, bus
<1>5. FileNames("revF")' = FileNames("revF")
  BY DEF FileNames
<1>6. Allowed(d) => Allowed(d)'
  BY <1>3, <1>4, <1>5 DEF Allowed
<1>7. CASE d \in vetted
  BY <1>0, <1>3, <1>6, <1>7 DEF VettedRight
<1>8. CASE Compare /\ d \notin vetted
  <2>1. isCorrectFirmware(hid) /\ d = hid.dev
    BY <1>8 DEF Compare
  <2>2. hid # NoHid /\ ~Over /\ hid \in Handles
    BY <1>0, <1>8 DEF Compare, HidTypes, Over
  <2>3. origin[d] \in Running \union {"moved"}
    BY <1>0, <2>1, <2>2 DEF HidRan
  <2>4. origin[d] \in {"old", "new"} => firmware[d] = origin[d]
    BY <1>0, <1>2, <2>2 DEF Stays, Running
  <2>5. origin[d] \in {"old", "new"} => Version(hid) \in {"old", "new"}
    BY <2>1, <2>4 DEF Version
  <2>6. Allowed(d)
    BY <2>1, <2>3, <2>5 DEF isCorrectFirmware, NamesIn, Allowed, Running
  <2> QED BY <1>6, <2>6
<1>9. CASE Upload /\ d \notin vetted
  <2>1. d = dfu_root /\ mode[d] = "boot" /\ Accepted(profile[d].marker)
    BY <1>9 DEF Upload
  <2>2. origin[d] \notin Running
    BY <1>0, <1>2, <1>3, <1>9, <2>1 DEF PassedVetted, Passed
  <2>3. Allowed(d)
    BY <2>1, <2>2 DEF Allowed, Accepted, Running
  <2> QED BY <1>6, <2>3
<1>10. CASE vetted' = vetted
  BY <1>7, <1>10
<1> QED BY <1>1, <1>7, <1>8, <1>9, <1>10 DEF Next, Step, Begin, Seek, Reboot, Look,
      LookAgain, Probe, Fail, OpenInDfuMode, Detach, ProbeAgain, Upload, Download, Compare,
      Unplug, Plug, Restart, vars, ghosts

\* The inductive invariant holds of every upgrade.
LEMMA UpgradeInvariant == Spec => []UpgradeInv
<1>1. UpgradeInv /\ [Next]_vars => UpgradeInv'
  <2>1. UpgradeInv => Types
    BY DEF UpgradeInv
  <2>2. UpgradeInv /\ [Next]_vars => Types'
    BY <2>1, TypesStep
  <2> QED BY <2>2, StaysStep, HidRanStep, RebootVettedStep, PassedStep, RightStep
      DEF UpgradeInv
<1> QED BY <1>1, UpgradeInit, PTL DEF Spec

\* However many devices there are and in whatever order they come and go: where one
\* was there alone, what dfu_util programs was compared or read.
THEOREM ProgrammedWasChecked == Spec => []FlashedIsChecked
<1>1. UpgradeInv => FlashedIsChecked
  BY DEF UpgradeInv, Types, GhostTypes, PassedVetted, Passed, FlashedIsChecked
<1> QED BY <1>1, UpgradeInvariant, PTL

\* And what passed the check stays so until it is programmed: however many devices there
\* are, a device that was there alone takes a file for revision F only, if it ran anything
\* but 6.3.0, and is left alone if it was in DFU mode with a strange marker. (That the
\* file suits the board does not follow, and is not so: BelowIsOlder.)
THEOREM ProgrammedWasRight == Spec => []FlashedIsRight
<1>1. UpgradeInv => FlashedIsRight
  BY DEF UpgradeInv, Types, GhostTypes, PassedVetted, Passed, VettedRight, Allowed,
         FlashedIsRight
<1> QED BY <1>1, UpgradeInvariant, PTL

=============================================================================
