# SCSI2SD-util V6: a TLA+ model and its proofs

SCSI2SD-util is the macOS program that configures a SCSI2SD V6 board (a SCSI disk
emulator on an SD card) over USB and upgrades its firmware. It is written in
Objective-C and C. This directory holds TLA+ modules that model the parts of it
where order, timing and failure matter, the configurations with which TLC checks
them, and the theorems that TLAPS proves about them.

Source files are named below `src/SCSI2SD-util/SCSI2SD-util/`, or, for `macos/`,
`linux/` and `scsi2sd-util-v6-cli/`, below `src/SCSI2SD-util/`.
`PROJECT.json` names, for every definition that models code, the lines it models.

## 1. The system

```
      main thread                   worker threads (load, save, upgrade)
   poll timer, panels  <-- selectors --  aLock, performSelectorOnMainThread
        |                                    |                |
        +------------- myHID ----------------+                | dfu_util(...)
                         |                                    v
     SCSI2SD_HID.m  sendHIDPacket: write loop, read loop   DFU/lib_main.c, dfuse.c
                         |                                    |
     hidpacket.c    fragments and reassembles               libusb
                         |                                    |
     hid.c          read_thread, report queue                 |
                         |                                    |
        ------------- USB: HID interface ----- or ----- DfuSe bootloader
```

| component | state it keeps | operations | what makes it correct |
|---|---|---|---|
| packet protocol, `Modules/hidpacket.c` | two static buffers, `rx` and `tx`: state, next chunk, bytes | `hidPacket_recv/getPacket`, `hidPacket_send/getHIDBytes` | what comes out of one end is a packet that went into the other, whole; buffers are not overrun |
| HID commands, `Modules/SCSI2SD_HID.m` | the open handle; a local report buffer; nothing that matches replies to commands | `open`, `ping`, `readSector`, `writeSector`, `readNewDebugData`, ..., all through `sendHIDPacket` | a call returns the reply to its command or raises; it ends |
| HID access, `macos/hid.c` and its copy `Modules/hid.c` | queue of at most 32 reports; flags; a thread with a run loop; two barriers | `hid_open_path`, `hid_write`, `hid_read_timeout`, `hid_close`; callbacks for reports, removal and shutdown | order, no lost wakeup, no deadlock, no use of the run loop outside its life |
| application object, `AppDelegate.m` | `myHID`, `pollDeviceTimer`, `aLock`, the main queue, alerts | poll (`doTimer`), load, save, upgrade | poll and jobs never use the device at once; a job does all it reports; the timer comes back |
| firmware download, `Modules/DFU/lib_main.c`, `dfuse.c`, `dfuse_mem.c`, `dfu.c` | static `last_erased_page`; the device's DFU state | `dfu_util`, `dfuse_do_dnload`, `dfuse_special_command`, `dfu_abort_to_idle` | a success means the whole image; nothing else is erased; nothing is programmed unerased |
| DFU probing, `DFU/dfu_util.c`, `DeviceFirmwareUpdate.m` | the list of DFU interfaces; global match values, reset by each call of `dfu_util` and then taken from the file | `probe_devices`, `hasDevice`, `checkVersionMarker` | the device that is programmed is the one that was compared with the file |
| configuration format, `Modules/ConfigUtil.m` | none | structure to bytes, to XML, and back; defaults | what is written is read back, as far as the format can hold it; defaults for what is missing |
| settings panels, `ViewControllers/*.m`, with `evaluate`, `autoButton`, `loadDefaults` of `AppDelegate.m` | the controls, error texts | `setTargetConfig`, `getTargetConfig`, size arithmetic, the check of all targets, automatic starts | what is shown is what is saved; targets the program places do not overlap; an error text has a cause |
| command line tool, `scsi2sd-util-v6-cli/` | the same ivars, no run loop, no lock | load, save, upgrade, and their repetition | as the application's jobs |
| plain DFU and files, `DFU/dfu_load.c`, `dfu_file.c`, `quirks.c` | a file in memory | download/upload without DfuSe, suffix and prefix | a file with a wrong suffix is refused |
| HID access on Linux, `linux/hid.c` | a file descriptor | the same interface | |
| small utilities | none | | |
| vendored code, `libs/`, `Modules/Driver`, `libusb-1.0.23` | | | external |

How they interact. The poll timer and the three jobs share the ivar `myHID`; a job
stops the timer by posting a selector to the main thread and does not wait
until it is served. Every command goes through the one pair of static buffers of
`hidpacket.c`, which have no lock and which neither a failed call nor a new handle
resets. A read takes reports from a queue that another thread fills from a
callback. An upgrade asks the firmware to reboot into its bootloader, which is a
different USB device, and hands over to `dfu_util`, a command-line program turned
into a function: errors end the process. Which device is meant is decided three times, by
`hid_enumerate`, by `hasDevice` and by `probe_devices`, and devices can be
plugged in between. A configuration is a structure in three other shapes: controls,
bytes in two sectors of the SD card, elements of an XML file; each conversion loses something else.

Hard behaviours, and where they are listed: `hazards` in `PROJECT.json` gives each
with its line. In short: retries of a write that may have been delivered; a
read that times out and goes on with the previous contents of its buffer; a reply
that comes after its call gave up; static state that survives; the two barriers and the
run loop of the HID thread; unplugging during any of it; jobs that interleave
with the poll and with each other; a configuration of two sectors written by two
calls, gathered from panels that the user goes on editing; a check of all targets whose comparisons overwrite
each other; erasing and programming pages with failing transfers and repeated attempts;
one flag, `versionChecked`, for whatever device there is.

## 2. The modules

| module | what it is |
|---|---|
| `HidPacket` | `hidpacket.c` as operators on records |
| `HidLink` | the write loop of `sendHIDPacket` and a device that runs the same reassembly |
| `CommandChannel` | abstract: only whole issued commands are executed, in order |
| `HidTransfer` | whole calls: write, read loop, the device's reply, reopening |
| `Rpc` | abstract: a call is answered by its own reply, or raises, unless commands and replies are out of step |
| `HidQueue` | one handle of `hid.c`: read thread, callbacks, queue, open, read, close |
| `DeviceSession` | `AppDelegate.m`: main thread, poll, workers, lock, selectors, alerts |
| `FlashLayout` | `dfuse_mem.c` segments and pages, and DfuSe files |
| `FlashImage` | abstract: what an upgrade promises about the flash |
| `DfuseDownload` | `dfu_util -D file -a 0 -R` against the bootloader |
| `ConfigFormat` | `ConfigUtil.m` as operators: bytes, XML, defaults |
| `TargetPanels` | the panels and what computes with all of them, as operators |
| `Settings` | the window, the card, a file, the threads and the tool that carry a configuration |
| `Upgrade` | which device an upgrade compares, restarts, reads and programs |
| `HidPacketProofs`, `HidLinkProofs`, `HidQueueProofs`, `HidTransferProofs`, `DeviceSessionProofs`, `UpgradeProofs`, `DfuseDownloadProofs`, `SettingsProofs` | the theorems about the module each is named for, and their lemmas; `DfuseDownloadProofs` also has those that relate it to `FlashImage`, `SettingsProofs` the facts about `ConfigFormat` and `TargetPanels` |
| `MC*` | the values for TLC |

They fit together along the calls of the program, by abstraction rather than by
one big product. `HidLink` and `HidTransfer` both use `HidPacket`. `HidLink`
says what the write loop can do with a command, and `HidTransfer` takes the outcomes
from it: written or given up, and in either case received once, not at all, or, if it is
one report, as often as it was tried. `HidTransfer` takes of `HidQueue` that a
read yields the oldest report or nothing. `DeviceSession` takes of `HidTransfer`
that a call is an interval that ends, with a reply or an exception. `DfuseDownload` is the
step `Flash` of `DeviceSession` and the step `Download` of `Upgrade`. `Upgrade` takes apart the
steps `CompareFirmware`, `EnterBootloader` and `LookForBootloader` of `DeviceSession`, and
leaves the lock and the main thread to it; `Settings` does the same with its two sectors. `Settings`
uses `TargetPanels`, which uses `ConfigFormat`.

Some definitions come in pairs: `Lock` and `Lock_NoLock`, `Stored` and
`Stored_KeepsOffset`. The second, called a slip where it stands, is a plausible mistake in the same code
and is used by nothing. Put in the place of the first it must make
TLC report a violation of the property that `mutants` in `PROJECT.json` names:
this shows that the property can fail.

### HidPacket and HidLink

The C pair (buffer, offset) is the sequence of the bytes up to the offset. `hidPacket_recv`
keeps the order of the C function: the overflow check, against the offset of whatever
is in the buffer, comes before the chunk number is looked at. The
write loop tries each report `MaxAttempts` times; a `hid_write` that fails may
have delivered its report (`Ambiguous`). After the last attempt the exception
leaves the rest of the packet in `tx` and part of it in the device. The
firmware's side is modelled by the same `hidpacket.c`, whose header says it is
shared; when it polls for a packet is left open (`DeviceTakes`). Each byte of
a command carries the number of its command, so that mixing two shows.

### HidTransfer

`Transfer` is the writing half of a call, `ReadReport` and `ReadNothing` are one pass of
the read loop each, `ReadFails` its exception. `ReadNothing` does what the code does when no
report came in time: it passes the old `hidBuf` to `hidPacket_recv` with the
chunk number set to 0. The loop makes twice `responseLength` reads, where the callers
give `responseLength` in different units; the real numbers are in `ResponseLength`
and `ReplyLen`. Opening a handle empties the queue, leaves `rx` as it is, and
calls `readNewDebugData`. What the wrappers read out of a reply is left out.

The write loop itself is in `HidLink`. Here `Transfer` chooses how it ends and how many
copies of the command the device has then (`Copies`): a failing `hid_write` may have
delivered its report, so a command of one report may be there several times, and it may be there
although the call raised. The device answers each copy, whenever it likes. The ghost
`doubt` is set by what can put commands and replies out of step: a command that was
written and lost, or received more than once, or received although the call raised; a read
that found nothing while a reply was there or paused or when no reads could be spared (`InTime`); a read that
failed. It is cleared by one thing, `Open` when the device has nothing left to say (`Quiet`) and
the opening command arrives once. Before the first open there is doubt.

### HidQueue

Two threads, one step for each section under the mutex and for each access to an unlocked
flag. The report callback and `hid_read_timeout` share the queue and the condition;
the two barriers are modelled with their counter and the set of
sleepers, since `pthread_barrier_wait` is built from these in `hid.c`, and a
sleeper may wake up spuriously, as POSIX allows. The device may be unplugged
at any time; the removal callback runs when the run loop does, unless hid_close
has deregistered it. One handle is modelled; a second has a record
and a thread of its own.

### DeviceSession

`pc[t]` says where each thread is. The main thread is at `idle` in its run loop, where it
may serve a selector (`Serve`), fire the timer (`PollFires`), take a click, or have an alert dismissed
(`Dismiss`); inside a poll it does not return to the run loop. Under an alert selectors
are served, the timer is not, because the two are in different run loop modes.
A job is the sequence `Lock`, `CheckHid`, then for each of two sectors `Announce`
(which waits for the main thread), `EnterSector`, `SectorReturns`, then `Apply` and
`Finish`, or `LogFailure`, `Reset`, `ResetDone` and `Finish` after an exception. An
upgrade is `StartUpgrade`, the loop of `Seek`, `CompareFirmware`, `EnterBootloader`,
`LookForBootloader`, then `Flash`, `Reset`, `Delegate` and `Restart`.

`myHID` has five values that the code tells apart: nil, a live handle, a handle
whose DEVINFO was not answered (its capacity is 0, so the sectors asked for do not
exist), a handle whose device left, and an object without a handle. A message to nil does
nothing, as in Objective-C, and that is part of `ReadSector` and `WriteSector`.

Abstractions: replies are taken to answer the call that reads them (`HidTransfer`
says when); selectors that only move the progress bar and text that only goes
to a label are left out, with their waits; the queries `showConnectInfo` makes after an
open are part of the poll's call; of a configuration only whose it is is kept. The process ends where the
code lets an exception escape (a configuration that is short, `Apply`) and where `dfu_util`
calls `errx` (`Flash`). An upgrade that refuses its file returns with the timer stopped, as in the
code.

### FlashLayout and DfuseDownload

`Layout` is what `parse_memory_layout` makes of the interface's descriptor, whose text is
abstracted to regions and groups of pages; a group without a valid type ends the parse where it
does in the code. The quirk for interfaces named "Device Feature" is left out.

One action for each control transfer. `Dnload`, `GetStatus` and `Abort` say
what the bootloader does with a request in each of its states; a request may
fail before it takes effect, or take effect and its completion be lost. Commands are
executed by `Execute`, after the status request that follows them, and may fail and
leave the page torn. `Erase`, with `EraseAddress`, `Erased` and `StepOn`, is the first pass over an element
with its two tests of the page, in the chunk and at the chunk's last byte; `SetAddress`, `PollAddress`,
`dfuse_dnload_chunk` and `PollChunk` are the second. `Unplug` is a loss of
power. A later attempt is in the same process if the one before returned, and in a new one, with
fresh statics, if it ended with `errx`.

Left out: options the program never passes; a status other than OK in a state
other than `dfuERROR` (lib_main.c:627-639), which this bootloader does not report;
`dfuMANIFEST`, which follows only a download of no bytes. A file with an
element for another alternate setting only is programmed "successfully" without a
byte written, in the code and in the model. The assumption that a transfer is no
longer than a page (`LayoutAssumption`) holds because `XferSize` is at most
`getpagesize()` and the bootloader asks for 2048, where the pages of the STM32F2 have 16 kB or more.
The promise of the whole image is for files whose elements ascend in memory:
with others the code erases a page it has programmed, because it remembers one page.

### ConfigFormat and TargetPanels

Both are operators without state, so that they can be checked and proved about alone.
`boardConfigFromBytes`, `targetCfgFromBytes` and `toBytes` are the way to the card; `boardCfgToXML`,
`targetCfgToXML`, `parseBoardConfig`, `parseTarget` and `fromXML` the way to a file and back. Each
does what the code does to a value and not what it is meant to do: of a
type `0x12` the prefix is dropped and 12 is read as decimal (`ReadHex`); clearing the terminator
assigns the other flags' word (`parseFlag`); the serial number's second half is written as blanks;
a quirk is written with a blank after it, which the reader does not expect
(`QuirkLines`, `parseQuirks`). Where the C code has no defined result (a negative number to
`uint64_t`, a quotient by zero) an operator returns the set of the results the builds can have;
members of a structure that nobody assigned are `Unset` and `AnyQuirk`.

A panel is a record of a target configuration and of the controls that are not part of one.
`evaluateSize` and `convertUnitsToSectors` are the size arithmetic with `Kilo`
in the place of 1024. `EvaluateTarget` is the body of the loop of `evaluate`, one target
compared with all others; what the last comparison says is what remains. `AssignStarts`
is the loop that `autoButton` and `loadDefaults` share, with its index into all panels.
Names and texts are abstracted to what a conversion does to them: too short for
`substringToIndex`, reserved by XML, blank.

### Settings

The window (`board`, `panels`, `marks`, `valid`), the card, one file, and one
`worker`, the thread that loads or saves. Loading reads both sectors, then shows the board and
each panel in a step of its own (`loadFromDeviceShows`); saving reads the board, then each panel
(`saveToDeviceReads`), then writes two sectors of which each may fail, before
or after it took effect (`saveToDeviceWrites`). The user edits in between. `doTimer` is the
periodic check, which runs while no thread does. The tool's `-l` and `-s` are actions of their own.
`cardOf` and `fileOf` are ghosts: the configuration that the card or the file is a whole copy of;
`touched` says that the user changed something while a thread ran, and `laidOut` which targets
stand where the program put them.

Not here: two threads at once (`DeviceSession`), how a sector travels (`HidTransfer`). The user
edits two of the three targets, each kind of field with one or two values.

### Upgrade

A device is a profile (hardware, version marker, vendor and product, whether it has the
alternate setting the marker is read from), a firmware and a mode: away, application, bootloader, or
a foreign program that can be detached into DFU mode. `Begin`, `Seek`, `Compare`, `Reboot`,
`Look` and `LookAgain` are one turn of the loop of `upgradeFirmwareThread`, which the tool
repeats almost line by line; `Probe` to `Download` are `dfu_util`, called once
for the upload of the marker and once for the download. `Plug`, `Unplug` and
`Restart` may come between any two of them.

`hid` is `myHID` with what it sees: `live`, `blind` (open, but DEVINFO was not answered,
so the version is 0), `null` (an object without a handle). `isCorrectFirmware` is the code's:
for the newest firmware it looks for a file's name in the product string. `InDfuMode` and
`MatchingRuntime` are the rules of `probe_configuration`: of a device in DFU mode the vendor is
not looked at. `Mismatch` is the check at lib_main.c:705, which compares the file's
ids with values set from them, so that it can refuse only after a device was detached. `Again` is the next click, or the
tool's `-r`. Ghosts: `vetted` are the devices whose firmware was compared or whose
marker was read, `flashed` those that took a byte, `origin` what each was when the upgrade began.

Left out: the fall-through for a run-time device that answers it is in DFU mode already; a `close` of
a file descriptor that was never opened; a marker upload that is shorter than four bytes, which the bootloader of the STM32
does not produce. Hardware of 2021 differs from that of 2020 in the name only (`FileNames`).

## 3. The runs

`hid_link` has the sizes of the code, on which boundaries depend: 62 bytes of payload,
buffers of 520, commands of 1, 5 and 517 bytes. The two runs of `HidTransfer` are scaled down to 6, 20 and
sectors of 15; `MCHidTransfer` asserts that the conditions its properties rest on (`Fits`,
`OneOrMany`, section 4) hold of the sizes of the code as they do of these.

| run | bounds | what it shows |
|---|---|---|
| `hid_link` | 3 commands of length 1, 5 or 517; 2 tries of each write instead of 10 | `WholeCommandsInv`, `InOrderWholeCommands`: whatever fails, only issued commands are executed, whole, in order. `LongCommandsAtMostOnce`: a sector is never written twice by one command. `WrittenIsReceived`: a command whose reports were all accepted arrives, with the exceptions that it names, and short ones always, which is what lets a connection recover |
| `hid_transfer` | 4 calls, 2 opens, 2 tries, three kinds of command, three leftovers in `rx`; replies at any time | as long as nothing put host and device out of step, each call returns its own reply, whole, or raises, and a clean opening restores this (`CallsAnswered`, a refinement of `Rpc`); in step nothing is left for the next call (`NothingLeftOver`) |
| `hid_transfer_late` | 3 calls, 2 opens, a queue of 2 reports for replies of 3 | results of a report's length are whole replies, though perhaps to an earlier call (`ShortResultsWhole`); every call ends (`CallReturns`) |
| `hid_queue` | 5 reports, a queue that drops from 3 on instead of 32, 3 tries | `InOrderNoneLost`, `NoMissedWakeup`, `RunLoopIsThere`, `ThreadOutlivesWakeUp`; open and close return (`BarriersPass`) |
| `session` | 2 jobs, an upgrade only on its own | `LinkExclusive`, `OneTimerAtRest`, `CompletedWholly`, `JobsEnd` |
| `dfuse` | 2 attempts, 8 files, a memory of 12 bytes with 5 pages, transfers of 2 bytes | `ErasedBeforeWritten`, `UpgradeIsImage` (a refinement of `FlashImage`), `AttemptEnds` |
| `settings` | 3 targets, 1 in the first sector; the user acts 5 times, an edit counting for 2; 3 starts | `LoadRestores`, `OpenRestores`: what was saved is what is shown again. `PlacedApart`: targets the program places share no sector. `AlarmsAreReal`, `LastTwoAreCompared`: what a warning means although comparisons overwrite each other |
| `upgrade` | 5 kinds of board beside 3 other devices, 4 files, 2 moves of a device, 2 upgrades | `FlashedIsChecked`: a device that is alone is programmed only after a check. `FlashedIsRight`: what that check lets pass is what is programmed, so any version but 6.3.0 takes only a file for revision F, and a device found in DFU mode needs a known marker. That the file suits the board does not follow (`upgrade_blind`). `UpgradeEnds`: the loop ends when a bootloader stays |

Four runs show the code contradicting what the repository says of it; each is in
`findings` with the line it quotes.

| run | property | the trace |
|---|---|---|
| `session_nil` | `SavedIsWritten` | a poll that was under way sets `myHID` to nil after a save has checked it; both writes go to nil, and the alert says the configuration was written |
| `settings_cli` | `SavesFromDevice` | `-s` appends the two sectors to a buffer that already has the size of a configuration; zeros are parsed, an empty name raises and no file is written |
| `upgrade_refused` | `RefusedOnlyWrongFile` | a board above 6.3.0 and the file made for it: the file's name is looked for in the product string, and the file is refused with "Firmware does not match hardware" |
| `upgrade_blind` | `BelowIsOlder` | DEVINFO is not answered, the version stays 0, and a board of 2020 is taken for "definitely the older hardware" |

### Why the bounds are enough

`hid_link`: a failed try differs from the next only in the counter, so two tries
show a failed one that is repeated and one that is given up. Three commands let an abandoned one, one
the device has not yet taken and a new one meet; with 517 bytes a command has
nine reports, the last one short, and ends 3 bytes below the buffer's size, so the boundary of the
overflow check is crossed. The theorems hold for any number.

`hid_transfer`: an answer can be confused only with what an earlier call left. Four calls are the opening,
one that goes wrong, the opening again, which restores order, and one that must be right; the leftovers
are initial states, so they cost no calls. Two tries make a command that is received twice; a third copy is
one more reply to be confused with. The kinds are a reply of one report to a short command, one of
three, and a command that is too long to be repeated. `hid_transfer_late` needs more replies than the
queue holds: a sector reply has three reports there, the queue two.

`hid_queue`: five reports fill a queue of three and drop two. All orders of the two
threads are explored over the whole life of a handle.

`session`: aLock and the timer are contended by two jobs; what a third would add is
an upgrade beside two others, which `Patient` excludes. `Patient` is an assumption on the
user, without which the properties of `session` do not hold: an upgrade
takes no lock. `LinkExclusive` therefore says that the program is right as long as nobody works
during an upgrade.

`dfuse`: the eight files have elements that share a page, end inside a page or
at its end, reach from one page size into another, come out of order, are for
another setting, are cut short, reach into memory that cannot be written, or have
no suffix. Two attempts put every leftover of an attempt (a command not yet executed, a busy device, an error, a
torn page, a remembered page) in front of a second one. What two do not show is a
third attempt after a second that failed because of a leftover; it begins from
the same kinds of state as the second.

`settings`: three targets are the fewest for which "the last other one" is not the only one
(`evaluate`) and the index of `autoButton` is not always the next panel; the second sector holds two of them, so
a boundary that is off by one shows. A round trip takes a save, a change and a load, and the
budget of 5 leaves an edit before it. The card of 8000 sectors is too small for two
default targets of 4095, so `evaluate` has something to complain about. `Kilo` is 128 because
TLC's integers have 32 bits: the numbers are in the same order of size to each other (a default
target is more than a "MB" and less than a "GB"), and nothing else depends on it. The starts are a
fresh card and a file that is none, the same with a file written by hand, and a card in use with a file without a board.

`upgrade`: a confusion needs two devices, one of which may also be a second board. Two moves are an
unplugged device and one that takes its place; two upgrades let the second begin with what the
first left: a torn or a new firmware, a handle, a board that has yet to restart. The loop
itself is not bounded, only what the user does is.

`CHECK_DEADLOCK FALSE` is set where the model stops at its bound. In `settings` the timer goes on,
and deadlock is checked.

### Fairness

* `HidTransfer`, `HostSpec`: a read ends, because `hid_read_timeout` gets a timeout
  (`HID_TIMEOUT_MS`). Nothing is assumed of the device, which may never answer.
* `HidQueue`, `FairSpec`: the threads are scheduled, a timed wait ends, and a run loop performs
  a source that was signalled. Nothing is assumed of the device or of the user; so
  reports, unplugging, the removal callback and the 1000 seconds of the run loop are not fair.
* `DeviceSession`, `FairSpec`: strong fairness of `Serve`, because the main run loop looks at posted
  selectors on each of its turns while the poll may take the main thread away in between
  again and again; weak fairness of a poll under way and of each worker, since calls on the HID end
  (`CallReturns`). The user owes nothing: an alert may stay for ever.
* `DfuseDownload`, `FairSpec`: a synchronous transfer returns, and the bootloader executes its
  command. A transfer the device expects is not owed a failure (`outcome' # "lost"`), so
  the check that an attempt ends does not lean on transfers that get lost.

* `Upgrade`, `Spec`: weak fairness of the thread's step, nothing of the devices and of the user. That
  a bootloader stays and no board runs is the premise of `UpgradeEnds`.
* `Settings` has no fairness and no liveness property; that its threads end is `JobsEnd` of `DeviceSession`.

## 4. The theorems

Every theorem is `Spec => ...` for all values of the constants, under the `ASSUME`s of the
module, which TLC evaluates in each run, and under the hypotheses named below where there are
any. `PROJECT.json` lists them; the modules end in `Proofs`. Each inductive invariant was first
checked by TLC, as an invariant of the runs of its module.

| module | theorem | property | hypotheses |
|---|---|---|---|
| `HidLinkProofs` | `TypeCorrect` | `TypeOK`: no chunk is stored past a buffer's end | |
| | `WholeCommands` | `WholeCommandsInv` | |
| | `LinkImplementsChannel` | `InOrderWholeCommands`: `HidLink` implements `CommandChannel` | |
| | `OnceOnly` | `LongCommandsAtMostOnce` | |
| | `WrittenArrives` | `WrittenIsReceived` | `PayloadLen < MaxLen` |
| `HidTransferProofs` | `TransferTypes` | `TypeOK` | |
| | `ShortWhole` | `ShortResultsWhole` | `OneOrMany` |
| | `NothingIsLeft` | `NothingLeftOver` | `Fits` |
| | `TransferImplementsRpc` | `CallsAnswered`: `HidTransfer` implements `Rpc` | `Fits` |
| `HidQueueProofs` | `TypeCorrect` | `TypeOK`: the queue never exceeds its capacity | |
| | `ReportsInOrder` | `InOrderNoneLost` | |
| | `WakeupsAreNotMissed` | `NoMissedWakeup` | |
| | `RunLoopBeforeOpen` | `RunLoopIsThere` | |
| | `ThreadOutlivesClose` | `ThreadOutlivesWakeUp` | |
| `DeviceSessionProofs` | `SessionTypes` | `TypeOK` | |
| | `CallsExclude` | `LinkExclusive` | `LeftAlone` |
| | `TimerRunsAtRest` | `OneTimerAtRest` | `LeftAlone` |
| | `SuccessIsWhole` | `CompletedWholly` | `LeftAlone` |
| `UpgradeProofs` | `UpgradeTypes` | `TypeOK` | |
| | `ProgrammedWasChecked` | `FlashedIsChecked` | |
| | `ProgrammedWasRight` | `FlashedIsRight`, which is less than that the file suits the board | |
| `DfuseDownloadProofs` | `NeverUnerased` | `ErasedBeforeWritten` | `Apart`, `Disjoint` |
| | `ImplementsImage` | `UpgradeIsImage`: `DfuseDownload` implements `FlashImage` | `Apart`, `Disjoint`, `Solid` |
| | `DownloadTypes` | `TypeOK` | `Apart`, `Disjoint`, `Solid` |
| `SettingsProofs` | `SettingsInvariant` | the inductive invariant `IInv` | |
| | `SettingsTypes` | `TypeOK` | |
| | `TargetsApart` | `PlacedApart` | |
| | `LoadingRestores` | `LoadRestores` | |
| | `OpeningRestores` | `OpenRestores` | |
| | `AlarmsReal` | `AlarmsAreReal` | |
| | `LastTwoCompared` | `LastTwoAreCompared` | |

### HidLink

`PacketAssumption` says that the payload is at least one byte and fits the buffer, and
`LinkAssumption` that commands are not empty and fit the buffer, with at least one try.

That only whole commands are executed is not inductive: it needs to know
what a packet under construction is. `WholeCommandsInv` is the
strengthening. `WritingInv` says that while command `c` is being written the report in
hand and `tx` are what is left of it, and that the device, if it is inside a packet after
the first report, has a prefix of `c` that ends before the report in hand or, if a failing
write delivered it, after it. The two cases are the heart of the proof: a retry is
either the next chunk, and is appended, or the same chunk, and is ignored, or overflows, and then
the buffer is empty and no later chunk is accepted. `CompleteInv` says that a complete packet is some
command, not older than any executed one; `ExecutedUpTo` is the order. Lemma
`Reception` proves the step of `hidPacket_recv`; the proof of each
action cites it. `HidPacketProofs` has the facts about the operators: what stays inside the
buffer (`RecvStaysInBuffer`, `SendStaysInBuffer`), and that a fragment and its rest are the
packet (`FragmentSplits`, from `SplitSeq`).

The refinement then takes one step: `Send` is `Issue`, `DeviceTakes` is `Execute` with the
witness of `CompleteInv`, the writes stutter.

`OnceOnly` adds `OnceInv`. If a long command arrived but its last write failed, what is
written again is the last report, its number is not zero, and the device is not inside a packet
(`LastReportInv`): it has nothing the report could continue, so the command does not arrive twice.
`WrittenArrives` adds `ArrivalInv`: whatever the device holds between reports are whole payloads
(`InChunks`), and on a receiver that was empty the next report is the next chunk (`InStep`).

### HidTransfer

What a call reads may be of an earlier call. `LateInv` says what everything that is
anywhere may be: the queue, `rx`, the leftover of the device are pieces of
replies to requests given so far (`Given`, `Fragment`, `Rest`). So a result that fits one report
is a whole reply, unless `rx` already had the beginning of one. `OneOrMany` excludes that: no reply has
exactly two reports, the second of which, alone in a new buffer, would be taken for a whole one. The
replies of the code have at most 62 bytes, one report, or 512, nine.

`Fits` compares lengths: two reports fit a buffer, a reply fits a buffer and the queue, and a part of a reply leaves
room for the first reply of a connection; without it the queue drops reports, or the overflow check throws
a reply away, and the refinement fails. Two invariants use it. `PartInv` holds whatever went wrong: `rx` never holds
more than the part of a reply before its last report (`InPart`), since every report that is queued or will be
sent is one of a reply that ends (`InReply`, `ToTheEnd`). So an opening finds room for its reply (`RoomForFirst`), whatever was
left in the static `rx`: this is why it can end a doubt. `CallInv` says where a call in step stands:
between calls everything is empty, before the answer still (`Waiting`), during it `rx`, the
queue and the device's `tx` are consecutive pieces of the one reply (`Answering`, `UpTo`, `NextChunk`). The
refinement maps `Transfer` to `Rpc`'s call, the last read to its return and everything else to a
stutter, or to a doubt that arises. Out of step nothing is left to say but that the call ends in some way
(`ReadsDoubtfully`).

### HidQueue

Any queue size, any number of reports, spurious wakeups included.
`ReportsInv`: the queue is the newest reports without a gap, what was delivered is ascending and older,
and what is neither was pushed out by `Capacity` newer ones. `WakeInv`: the thread leaves
its loop only with a flag set that is never reset. `BarrierInv` says what the barrier's counter
stands for: it is one while exactly one of the two threads has arrived, and that one sleeps there
unless it was woken spuriously (`misled`). The two barrier theorems therefore hold where the wakeup was not
spurious, as the properties say.

### DeviceSession

Any number of workers. `LeftAlone` is needed because an upgrade takes no lock: with a load or a
save beside it, `LinkExclusive` fails, as run `session` is set up not to allow
(`Patient`). It demands nothing of loads and saves. The invariant `SessionInv`
has eight parts: `Places` (a worker past the lock holds it), `Alone`
(nothing runs beside an upgrade), `Wakes` (a worker asleep until a selector is served has exactly one
entry in the run loop's queue), `Timed` (timers running, plus `startTimer`s ahead, less `stopTimer`s,
come out at one), `Calmed` (a worker past its logging knows the timer stopped and no tick under way:
this makes the lock exclude the poll, which does not take it), and `Fresh`, `CarriedOver` for the data.

### Upgrade

Any set of devices, benches, moves and rounds. Where one device was there alone and did
not move, `Stays` says which modes and firmware it can have, and `PassedVetted` that each of the things that
let `dfu_util` program it (the flag `versionChecked`, its restart, its being a
bootloader, the second look) comes with its having been compared or
read. `VettedRight` says that it was let pass: a file for revision F, unless it ran 6.3.0, or a
known marker (`Allowed`). The answer need not be right: a board above 6.3.0 that does not answer counts as an old one, and
neither 6.3.0 nor a marker constrains the file. `BenchAssumption` says that the
benches are states hardware can be in.

### DfuseDownload

Any layout, any files, any number of attempts. `Apart` and `Disjoint` are needed, and TLC shows a
violation without either. `Disjoint`: two elements of a file that share a byte program it twice. `Apart`:
a chunk that begins in memory that is written without being erased is not
looked at again, so erasable memory directly behind such a segment, within the
reach of the chunk, would be programmed as it is. The STM32F2 has no such memory behind the setting
that is programmed: all of it is erased.

`DownloadInv`: `Where` and `Scanned` say where the host is in its loops and what
`last_erased_page` is there, `Pend` what a command in the device would do. `Progress` says that an attempt whose
device is there and well (`Alive`) has either had no command accepted (`Untouched`: what is left
of an earlier attempt does no harm, because a new one starts with a device that is idle)
or has the commands of the device under control (`Under`) and the memory `Prepared`: the bytes that the first pass has
seen to are blank until the second reaches them, and the page erased
last holds nothing but blanks and bytes of this attempt, so that it need not be erased again. The lemmas on pages
(`OnPage`, `SamePage`, `PagesAreApart`, `Between`) say that a chunk, being no longer than a page,
lies in at most two.

### FlashImage

The refinement says two things, and each has its own invariants. `Solid` is needed besides: the program
looks at the last byte of an element and at the first of each chunk, so a hole in the memory
shorter than a transfer would go unnoticed, and no byte of the file could be in place there. The flash
of the STM32F2 is one piece.

Only pages of the files that were tried are touched: `Commanded` says this of the command the
device has, which may be of an earlier attempt (`Typed`, `OnRegion`, `AffectedTouched`). `Execute` and `Unplug` are
then `Touch`; `Phase` says that neither can do it once an attempt has succeeded.

An attempt that succeeds has its file in place. `Visited`: what the passes have gone through is memory that
exists. `Written`: what the second pass has left behind holds its bytes (`Wrought`). What threatens it is
the erase of a page for a later element. `Clear` says that no such page has a byte of an earlier element, and
`Tracked` is why: in ascending order a page that is behind in part and ahead in part is the one erased last, which is not
erased again. `Ascending` is the premise of the promise in `FlashImage` itself, as the program remembers one page only.
`Kept` carries the result through the abort, the status and the reset. `Moves` sums up the sixteen ways in which a step
of the host changes what these invariants speak of, whatever transfers it is made of; the steps of the
invariants are by those (`HostStep`).

### Settings

Any number of targets, any split of them between the two sectors, any card, `Kilo` and history of edits. The
assumptions say that there is a target and that a default one has sectors (`ConfigAssumption`), that `Kilo` is not zero
(`PanelsAssumption`), and that the starts are cards and files of the
right shape, with values in the width of the type that holds them on the card (`SettingsAssumption`); the numbers in a file may be any,
its types and modifiers any byte.

The loops over flags and targets (`parseFlags`, `evaluate`, `AssignStarts`) are recursive functions. `Induction`
(from the well-founded order of the naturals) shows that the function exists (`FlagsLoop`, `CheckLoop`, `StartsLoop`), and each proof then
gives the value after `k` turns in closed form. For the check that is `Checked`: the panels up to `k` have been evaluated
(`Half`), marks up to `k` are the new ones (`Patched`), and of the verdict on the whole only that of the
last enabled target so far remains (`Verdict` of `LastOf(SoFar)`). Both alarms follow from the closed form at the last
target. For automatic starts it is `InRow`: as long as all before it take part, what the loop has
placed is apart, and the sum is where the next one goes.

`PlacedApart` is not inductive. A unit that is selected again takes the size that is shown for the
number of sectors, so a row survives only if the sizes shown fit too: `Before` counts both. `Sizes`
says that the size a panel shows is at most that of its count and one sector more. `Settled` says that the check will leave a placed panel as it is: a floppy has its fixed size already.

`LoadRestores` and `OpenRestores` relate two moments, which the ghosts carry. `Copies` says that the card, read
back, and the file, parsed, give the copies they are said to be; for the file that is the round
trip of the format (`TargetRestored`, `BoardRestored`, `FileRestored`), which holds for what the format can carry
(`Portable`: no number that is misread or out of range, no flag that is lost, no reserved character).
`Loading`, `Gathering` and `Writing` say what a thread has shown, read or written after each step, as long as
nobody disturbed it (`touched`); of the two writes either may fail, and then no copy is claimed.

### What is checked by TLC only

Liveness and ENABLED are out of the prover's reach: `BarriersPass`, `JobsEnd`, `UpgradeEnds`,
`CallReturns`, `AttemptEnds` and the others stay with TLC. So do the four properties the code violates. Every
invariant and every other action property of the passing runs is also a theorem.

## 5. Known divergences

What the models showed of the code beyond the four runs. Each is in the modules as
the code has it, and a property that it touches names it as an exception.

* hidpacket.c:61: a repeat of report 7 or 8 of a sector write fails the overflow check, which comes before the check that
  would ignore it, and the packet is thrown away (`WrittenIsReceived`).
* SCSI2SD_HID.m:410: a command of one report that a failing `hid_write` delivered is delivered again by the retry, and
  answered twice; one whose last try delivered it is answered although the call raised. The next call returns the reply of
  the one before it, and so on until the device is opened again (`CallsAnswered` and `NothingLeftOver` are in `doubt`
  until then). So is a call after one whose reply was late.
* SCSI2SD_HID.m:430: after a read that timed out the command in `hidBuf` becomes chunk 0 of a
  reply; with late chunks behind it a packet is returned that was never sent (`HidTransfer`).
* hid.c:88: a spurious wakeup passes the startup barrier before the run loop is set.
* hid.c:1000: `hid_close` deregisters the removal callback first, so it may call `IOHIDDeviceClose` on a
  device that has left.
* AppDelegate.m:290: an upgrade that overlaps another job starts a second timer, which the next
  `stopTimer` does not stop; AppDelegate.m:1108 returns without starting one (`OneTimerAtRest`).
* AppDelegate.m:1330: of a target only the comparison with the last other one remains, so an
  overlap of the first two of three is not shown; of its own size nothing remains.
* AppDelegate.m:75: a target without a sector that starts at 0 ends at -1, which as an unsigned number is behind everything, so it
  is said to overlap all others (`PlacedApart` leaves it out).
* AppDelegate.m:1308: the check gives a floppy its size when it comes to it, so an earlier target is compared
  with the size it had before; the next check corrects it (`AlarmsAreReal`).
* DeviceController.m:147: modifier and quirks are saved from a structure that nobody initialised
  (`LoadRestores`, `OpenRestores` leave them out). The floppy's size controls are never enabled again.
* ConfigUtil.m: quirks and the second half of the serial number are not read back; types and modifiers
  with a hexadecimal digit, or of 16 and more, are misread (:281, :459);
  clearing the terminator clears or sets `blindWrites` (:689).
* AppDelegate.m:1285: automatic starts go to the panel at a count, which is the next one only if all before it
  take part (`PlacedApart` is for an unbroken row).
* AppDelegate.m:1117 and :1132: `hasDevice` is asked twice. A device plugged in between is
  programmed unread, as is any other device in DFU mode, whatever its
  vendor (lib_main.c:384, dfu_util.c:259); `checkVersionMarker` detaches any run-time DFU device (`FlashedIsChecked` is for
  a device that is alone).
* AppDelegate.m:1113: a board whose version was not read is told to restart; if the command is lost and it answers the next time it may be refused,
  and if it was not lost it stays in its bootloader.
* A path with a blank is cut at the blank when the arguments are split, and `dfu_util` ends the
  process. The tool's `-r` programs the same board again.

## 6. What is not modelled, and why

* Vendored code: the headers of the STM32 HAL, libusb, zlib, zipper. These are most of the
  repository's lines of C; the program's own logic, which the models are about, is a few
  thousand. libusb enters as the behaviour of transfers in `DfuseDownload` and of lists in `Upgrade`; the headers define registers
  of a firmware that is not in the repository.
* `linux/hid.c`, which the application is not built with: no thread and no queue of its own.
* `dfu_load.c` and `dfu_file.c`: a SCSI2SD board is always DfuSe; of a file only whether its suffix is
  valid, and which ids it names, enters.
* `hidPacket_peekPacket`: nothing calls it.
* What `SCSI2SD_HID.m` reads out of replies, and the wrappers' formatting: pure.
* Enumeration, feature reports and indexed strings of `hid.c`.
* Warnings, drawing, progress, the SCSI log and the argument parsing of the tool: no state that anything
  else depends on.
* Options of dfu-util that the program never passes: matching by serial number, path or name.

## 7. Plan

Done: the path of a command from the application to the device (`HidPacket`, `HidLink`, `HidTransfer`,
`HidQueue`), the application object over it (`DeviceSession`), the configuration and its copies (`ConfigFormat`,
`TargetPanels`, `Settings`), the upgrade (`Upgrade`) and the download of an image (`DfuseDownload`).

The proofs follow the same path: every invariant and action property of the passing runs is a theorem, and
the three refinements are (section 4). What could still be done:

1. The hypotheses of the theorems, one by one: whether `Solid` can be taken back to transfers that do not
   reach over a hole, and `LeftAlone` to what an upgrade beside a load still keeps.
2. How far a connection out of step recovers without being opened again, if the device answers
   within a bound.
3. The half of the liveness properties that is safety: a step that is always enabled where a thread waits.
