---------------------------- MODULE DeviceSession ----------------------------
(***************************************************************************)
(* The application object (AppDelegate.m): the main thread polls the       *)
(* device from a timer; reading the configuration, writing it and          *)
(* upgrading the firmware each run on a thread of their own, detached by a *)
(* menu or a button.  All of them use the one ivar myHID, hence the static *)
(* packet buffers of hidpacket.c.  Reading and writing take aLock, and     *)
(* what keeps the poll away from them is the timer, which they have the    *)
(* main thread stop and start with performSelectorOnMainThread.            *)
(*                                                                         *)
(* A call on the HID is an interval: the thread is at one of the places    *)
(* InCall names from entering it until it returns.  Replies are taken to   *)
(* answer the call that reads them; HidTransfer says when they do.         *)
(***************************************************************************)
EXTENDS Naturals, Sequences, FiniteSets

CONSTANTS Main,      \* the main thread
          Workers,   \* the threads that may be detached, one job each
          Kinds,     \* jobs the user starts: "load", "save", "upgrade"
          Patient,   \* does the user leave an upgrade alone until it has ended?
          Free       \* no thread

ASSUME SessionAssumption ==
  /\ Main \notin Workers
  /\ Free \notin Workers \cup {Main}
  /\ Kinds \subseteq {"load", "save", "upgrade"}
  /\ Patient \in BOOLEAN

VARIABLES running,    \* the process has not exited
          device,     \* "scsi" (HID interface), "dfu" (bootloader) or "away"
          sectors,    \* the two configuration sectors: whose configuration
          myHID,      \* "none" (nil), "live", "blind" (DEVINFO unanswered, so
                      \* that version and capacity are 0), "gone" (its device
                      \* left), or "null" (its hid_open_path failed)
          queue,      \* selectors waiting for the main thread's run loop
          timers,     \* scheduled poll timers
          pollTimer,  \* pollDeviceTimer, the timer scheduled last
          panels,     \* modal alerts on the screen, the last in front
          first,      \* the static of doTimer: no poll has passed yet
          serving,    \* on whose behalf the main thread runs reset_hid
          lock,       \* holder of aLock
          pc,         \* where each thread is
          blocked,    \* workers inside a performSelector with waitUntilDone
          job,        \* what each worker was detached for
          data,       \* cfgData of a load; what a save has got written
          error,      \* the local of the same name
          checked     \* versionChecked of an upgrade

vars == << running, device, sectors, myHID, queue, timers, pollTimer, panels,
           first, serving, lock, pc, blocked, job, data, error, checked >>

threadVars == << job, data, error, checked >>
timerVars == << timers, pollTimer >>

Threads == {Main} \cup Workers

Init ==
  /\ running = TRUE
  /\ device \in {"scsi", "dfu", "away"}
  /\ sectors = << Free, Free >>
  /\ myHID \in IF device = "scsi" THEN {"live", "blind", "null"} ELSE {"none"}
  /\ queue = << >>
  /\ timers = {1}
  /\ pollTimer = 1
  /\ panels = << >>
  /\ first = TRUE
  /\ serving = Free
  /\ lock = Free
  /\ pc = [t \in Threads |-> IF t = Main THEN "idle" ELSE "unborn"]
  /\ blocked = {}
  /\ job = [w \in Workers |-> "none"]
  /\ data = [w \in Workers |-> << >>]
  /\ error = [w \in Workers |-> FALSE]
  /\ checked = [w \in Workers |-> FALSE]

Goto(t, place) == pc' = [pc EXCEPT ![t] = place]

Entry(sel, w) == [sel |-> sel, wakes |-> w]

\* performSelectorOnMainThread:withObject:waitUntilDone:, with NO and with YES.
Post(sels) ==
  /\ queue' = queue \o [i \in DOMAIN sels |-> Entry(sels[i], Free)]
  /\ UNCHANGED blocked

\* A slip: waitUntilDone:NO.
PostAndWait_NoWait(sel, w) ==
  /\ queue' = Append(queue, Entry(sel, w))
  /\ UNCHANGED blocked

PostAndWait(sel, w) ==
  /\ queue' = Append(queue, Entry(sel, w))
  /\ blocked' = blocked \cup {w}

-----------------------------------------------------------------------------
(* [HID open], by any thread: enumeration finds no device and returns nil,  *)
(* or the thread enters hid_open_path and readNewDebugData.                 *)

OpenFindsNone == device # "scsi" /\ myHID' = "none"
OpenEnters(t, place) == device = "scsi" /\ Goto(t, place)
OpenReturns == myHID' \in IF device = "scsi" THEN {"live", "blind", "null"} ELSE {"gone", "null"}

\* What a call on myHID may do: be answered, or raise, which it cannot do
\* without a handle.  (A message to nil does neither.)
MayAnswer == myHID \in {"live", "blind"} /\ device = "scsi"
MayRaise == myHID \notin {"none", "null"}

-----------------------------------------------------------------------------
(* The main thread.                                                         *)

\* A timer fires in the default mode of the run loop only, so never under a
\* modal panel.  logScsiData goes first, if the user has switched it on.
PollFires ==
  /\ running
  /\ pc[Main] = "idle"
  /\ panels = << >>
  /\ timers # {}
  /\ \/ Goto(Main, "polled")
     \/ myHID # "none" /\ Goto(Main, "debugging")
  /\ UNCHANGED << running, device, sectors, myHID, queue, timers, pollTimer, panels,
                  first, serving, lock, blocked, threadVars >>

\* logScsiData: an exception reopens the HID.
DebugReturns ==
  /\ pc[Main] = "debugging"
  /\ \/ /\ MayAnswer \/ myHID = "null"
        /\ Goto(Main, "polled")
        /\ UNCHANGED myHID
     \/ MayRaise /\ OpenEnters(Main, "debugReset") /\ UNCHANGED myHID
     \/ MayRaise /\ OpenFindsNone /\ Goto(Main, "polled")
  /\ UNCHANGED << device, queue, panels, first, serving, blocked >>

DebugResetReturns ==
  /\ pc[Main] = "debugReset"
  /\ OpenReturns
  /\ Goto(Main, "polled")
  /\ UNCHANGED << device, queue, panels, first, serving, blocked >>

\* The first poll only reopens the HID.  Later ones ping, or look for a device.
Polled ==
  /\ pc[Main] = "polled"
  /\ first' = FALSE
  /\ IF ~first /\ myHID # "none"
     THEN Goto(Main, "pinging") /\ UNCHANGED myHID
     ELSE \/ OpenEnters(Main, IF first THEN "resetting" ELSE "opening") /\ UNCHANGED myHID
          \/ OpenFindsNone /\ Goto(Main, "idle")
  /\ UNCHANGED << device, queue, panels, serving, blocked >>

\* A ping that fails drops the HID, and a device is looked for at once.
PingReturns ==
  /\ pc[Main] = "pinging"
  /\ \/ MayAnswer /\ Goto(Main, "idle") /\ UNCHANGED myHID
     \/ OpenEnters(Main, "opening") /\ myHID' = "none"
     \/ OpenFindsNone /\ Goto(Main, "idle")
  /\ UNCHANGED << device, queue, panels, first, serving, blocked >>

\* showConnectInfo calls reset_hid if the handle it shows is NULL.
OpeningReturns ==
  /\ pc[Main] = "opening"
  /\ OpenReturns
  /\ Goto(Main, IF myHID' = "null" THEN "connecting" ELSE "idle")
  /\ UNCHANGED << device, queue, panels, first, serving, blocked >>

Connecting ==
  /\ pc[Main] = "connecting"
  /\ \/ OpenEnters(Main, "resetting") /\ UNCHANGED myHID
     \/ OpenFindsNone /\ Goto(Main, "idle")
  /\ UNCHANGED << device, queue, panels, first, serving, blocked >>

\* reset_hid returns, to the upgrade thread that waits for it if there is one.
ResetReturns ==
  /\ pc[Main] = "resetting"
  /\ OpenReturns
  /\ Goto(Main, "idle")
  /\ blocked' = blocked \ {serving}
  /\ serving' = Free
  /\ UNCHANGED << device, queue, panels, first >>

Poll ==
  /\ running
  /\ DebugReturns \/ DebugResetReturns \/ Polled \/ PingReturns \/ OpeningReturns
       \/ Connecting \/ ResetReturns
  /\ UNCHANGED << running, sectors, timers, pollTimer, lock, threadVars >>

\* A slip: the new timer is not kept.
startTimer_NotKept ==
  /\ UNCHANGED pollTimer
  /\ timers' = timers \cup {pollTimer + 1}

startTimer ==
  /\ pollTimer' = pollTimer + 1
  /\ timers' = timers \cup {pollTimer'}

stopTimer ==
  /\ timers' = timers \ {pollTimer}
  /\ UNCHANGED pollTimer

\* The run loop takes the selectors in the order they were posted, under a
\* modal panel as well.
Serve ==
  /\ running
  /\ pc[Main] = "idle"
  /\ queue # << >>
  /\ queue' = Tail(queue)
  /\ LET entry == Head(queue) IN
       \/ /\ entry.sel = "stopTimer"
          /\ stopTimer
          /\ blocked' = blocked \ {entry.wakes}
          /\ UNCHANGED << myHID, panels, serving, pc >>
       \/ /\ entry.sel = "startTimer"
          /\ startTimer
          /\ blocked' = blocked \ {entry.wakes}
          /\ UNCHANGED << myHID, panels, serving, pc >>
       \/ /\ entry.sel = "log"
          /\ blocked' = blocked \ {entry.wakes}
          /\ UNCHANGED << myHID, panels, serving, pc, timerVars >>
       \/ /\ entry.sel = "panel"
          /\ panels' = Append(panels, entry.wakes)
          /\ UNCHANGED << myHID, serving, pc, blocked, timerVars >>
       \/ /\ entry.sel = "reset_hid"
          /\ \/ /\ OpenEnters(Main, "resetting")
                /\ serving' = entry.wakes
                /\ UNCHANGED << myHID, blocked >>
             \/ /\ OpenFindsNone
                /\ blocked' = blocked \ {entry.wakes}
                /\ UNCHANGED << serving, pc >>
          /\ UNCHANGED << panels, timerVars >>
  /\ UNCHANGED << running, device, sectors, first, lock, threadVars >>

-----------------------------------------------------------------------------
(* The user and the device.                                                 *)

Ended(w) == pc[w] \in {"done", "refused"}
Upgrading == \E w \in Workers : job[w] = "upgrade" /\ ~Ended(w)
AllAtRest == \A w \in Workers : pc[w] = "unborn" \/ Ended(w)

\* detachNewThreadSelector:, from the main thread's run loop.
Click(w, kind) ==
  /\ running
  /\ pc[Main] = "idle"
  /\ panels = << >>
  /\ pc[w] = "unborn"
  /\ Patient => ~Upgrading /\ (kind = "upgrade" => AllAtRest)
  /\ job' = [job EXCEPT ![w] = kind]
  /\ Goto(w, "begins")
  /\ UNCHANGED << running, device, sectors, myHID, queue, timers, pollTimer, panels,
                  first, serving, lock, blocked, data, error, checked >>

\* runModal returns.  An upgrade waits for its panel, the other jobs do not.
Dismiss ==
  /\ running
  /\ pc[Main] = "idle"
  /\ panels # << >>
  /\ panels' = SubSeq(panels, 1, Len(panels) - 1)
  /\ blocked' = blocked \ {panels[Len(panels)]}
  /\ UNCHANGED << running, device, sectors, myHID, queue, timers, pollTimer, first,
                  serving, lock, pc, threadVars >>

\* The device is unplugged or plugged in; the handle it had is of no more use.
Replug ==
  /\ running
  /\ device' \in {"scsi", "dfu", "away"} \ {device}
  /\ myHID' = IF MayAnswer THEN "gone" ELSE myHID
  /\ UNCHANGED << running, sectors, queue, timers, pollTimer, panels, first, serving,
                  lock, pc, blocked, threadVars >>

-----------------------------------------------------------------------------
(* A job.  aLock is taken, the timer is stopped by a selector nobody waits  *)
(* for, and it is only the logging of each step that waits for the main     *)
(* thread.                                                                  *)

mainVars == << first, serving, panels, timers, pollTimer >>

\* A slip: no aLock.
Lock_NoLock(w) ==
  /\ pc[w] = "begins"
  /\ job[w] # "upgrade"
  /\ Post(<< "stopTimer" >>)
  /\ Goto(w, "checks")
  /\ UNCHANGED << device, sectors, myHID, lock, threadVars >>

\* loadFromDeviceThread, saveToDeviceThread: the lock and stopTimer.
Lock(w) ==
  /\ pc[w] = "begins"
  /\ job[w] # "upgrade"
  /\ lock = Free
  /\ lock' = w
  /\ Post(<< "stopTimer" >>)
  /\ Goto(w, "checks")
  /\ UNCHANGED << device, sectors, myHID, threadVars >>

\* goto err
Fail(w) ==
  /\ Goto(w, "fails")
  /\ error' = [error EXCEPT ![w] = TRUE]

CheckHid(w) ==
  /\ pc[w] = "checks"
  /\ \/ myHID = "none" /\ Fail(w)
     \/ myHID # "none" /\ Goto(w, "announces") /\ UNCHANGED error
  /\ UNCHANGED << device, sectors, myHID, queue, lock, blocked, job, data, checked >>

\* logStringToPanel before each sector.
Announce(w) ==
  /\ pc[w] = "announces"
  /\ PostAndWait("log", w)
  /\ Goto(w, "enters")
  /\ UNCHANGED << device, sectors, myHID, lock, threadVars >>

EnterSector(w) ==
  /\ pc[w] = "enters"
  /\ Goto(w, "transfers")
  /\ UNCHANGED << device, sectors, myHID, queue, lock, blocked, threadVars >>

\* The sector the transfer is about: capacity - 2, then capacity - 1.
Sector(w) == Len(data[w]) + 1

\* Both sectors, or on to the next.
Transferred(w, content) ==
  /\ data' = [data EXCEPT ![w] = Append(@, content)]
  /\ Goto(w, IF Sector(w) = 2 THEN "applies" ELSE "announces")

\* readSector: the sector, or nothing at all if there is no handle.  With
\* capacity 0 the sector asked for does not exist and what comes back is not
\* the configuration.
ReadSector(w) ==
  /\ job[w] = "load"
  /\ UNCHANGED sectors
  /\ \/ /\ MayAnswer
        /\ Transferred(w, IF myHID = "live" THEN sectors[Sector(w)] ELSE "alien")
        /\ UNCHANGED error
     \/ /\ myHID \in {"none", "null"}
        /\ Transferred(w, "short")
        /\ UNCHANGED error
     \/ MayRaise /\ Fail(w) /\ UNCHANGED data

\* writeSector raises without a reply, or with one that is not GOOD; the
\* sector may have been written all the same.  (Nor does one exist for
\* capacity 0.)
WriteSector(w) ==
  /\ job[w] = "save"
  /\ \/ /\ MayAnswer
        /\ myHID = "live"
        /\ sectors' = [sectors EXCEPT ![Sector(w)] = w]
        /\ Transferred(w, w)
        /\ UNCHANGED error
     \/ /\ MayAnswer
        /\ myHID = "live"
        /\ sectors' = [sectors EXCEPT ![Sector(w)] = w]
        /\ Fail(w)
        /\ UNCHANGED data
     \/ /\ myHID # "none"
        /\ Fail(w)
        /\ UNCHANGED << data, sectors >>
     \/ /\ myHID = "none"
        /\ Transferred(w, "short")
        /\ UNCHANGED << sectors, error >>

SectorReturns(w) ==
  /\ pc[w] = "transfers"
  /\ ReadSector(w) \/ WriteSector(w)
  /\ UNCHANGED << device, myHID, queue, lock, blocked, job, checked >>

Content(w) == {data[w][i] : i \in DOMAIN data[w]}

\* setConfig of the panels; subdataWithRange outside the @try raises when a
\* sector was short, and that ends the process.
Apply(w) ==
  /\ pc[w] = "applies"
  /\ running' = ~(job[w] = "load" /\ "short" \in Content(w))
  /\ Goto(w, "finishes")
  /\ UNCHANGED << device, sectors, myHID, queue, lock, blocked, threadVars >>

\* err: the failure is logged, then reset_hid runs on the worker.
LogFailure(w) ==
  /\ pc[w] = "fails"
  /\ PostAndWait("log", w)
  /\ Goto(w, "resets")
  /\ UNCHANGED << device, sectors, myHID, lock, threadVars >>

Reset(w) ==
  /\ pc[w] \in {"resets", "flashed"}
  /\ \/ OpenEnters(w, IF pc[w] = "resets" THEN "reopens" ELSE "reopensFlashed")
        /\ UNCHANGED myHID
     \/ OpenFindsNone /\ Goto(w, IF pc[w] = "resets" THEN "finishes" ELSE "delegates")
  /\ UNCHANGED << device, sectors, queue, lock, blocked, threadVars >>

ResetDone(w) ==
  /\ pc[w] \in {"reopens", "reopensFlashed"}
  /\ OpenReturns
  /\ Goto(w, IF pc[w] = "reopens" THEN "finishes" ELSE "delegates")
  /\ UNCHANGED << device, sectors, queue, lock, blocked, threadVars >>

\* Slips: a job that has failed leaves the timer stopped, or the lock taken.
Finish_TimerLost(w) ==
  /\ pc[w] = "finishes"
  /\ Post(IF error[w] THEN << "panel" >> ELSE << "startTimer", "panel" >>)
  /\ lock' = Free
  /\ Goto(w, "done")
  /\ UNCHANGED << device, sectors, myHID, threadVars >>
Finish_LockLost(w) ==
  /\ pc[w] = "finishes"
  /\ Post(<< "startTimer", "panel" >>)
  /\ lock' = IF error[w] THEN lock ELSE Free
  /\ Goto(w, "done")
  /\ UNCHANGED << device, sectors, myHID, threadVars >>

\* out: the timer is started again, an alert says how it went.
Finish(w) ==
  /\ pc[w] = "finishes"
  /\ Post(<< "startTimer", "panel" >>)
  /\ lock' = Free
  /\ Goto(w, "done")
  /\ UNCHANGED << device, sectors, myHID, threadVars >>

-----------------------------------------------------------------------------
(* upgradeFirmwareThread: no lock, and every main-thread call waits.        *)

StartUpgrade(w) ==
  /\ pc[w] = "begins"
  /\ job[w] = "upgrade"
  /\ PostAndWait("stopTimer", w)
  /\ Goto(w, "seeks")
  /\ UNCHANGED << device, sectors, myHID, lock, threadVars >>

\* The head of while (YES): if (!myHID) myHID = [HID open].
Seek(w) ==
  /\ pc[w] = "seeks"
  /\ \/ myHID # "none" /\ Goto(w, "compares") /\ UNCHANGED myHID
     \/ myHID = "none" /\ OpenEnters(w, "connects") /\ UNCHANGED myHID
     \/ myHID = "none" /\ OpenFindsNone /\ Goto(w, "looks")
  /\ UNCHANGED << device, sectors, queue, lock, blocked, threadVars >>

SeekReturns(w) ==
  /\ pc[w] = "connects"
  /\ OpenReturns
  /\ Goto(w, "compares")
  /\ UNCHANGED << device, sectors, queue, lock, blocked, threadVars >>

\* showWrongFilenamePanel, then return: the timer stays stopped.
Refuse(w) ==
  /\ PostAndWait("panel", w)
  /\ Goto(w, "refused")
  /\ UNCHANGED checked

\* isCorrectFirmware, which looks at the file's name and the product string.
CompareFirmware(w) ==
  /\ pc[w] = "compares"
  /\ \/ Refuse(w)
     \/ /\ checked' = [checked EXCEPT ![w] = TRUE]
        /\ PostAndWait("log", w)
        /\ Goto(w, "reboots")
  /\ UNCHANGED << device, sectors, myHID, lock, job, data, error >>

\* enterBootloader: whether it is answered or raises, myHID becomes nil.
EnterBootloader(w) ==
  /\ pc[w] = "reboots"
  /\ device' \in {device} \cup (IF MayAnswer THEN {"dfu"} ELSE {})
  /\ myHID' = "none"
  /\ Goto(w, "looks")
  /\ UNCHANGED << sectors, queue, lock, blocked, threadVars >>

\* hasDevice; checkVersionMarker, unless the firmware was compared before.
LookForBootloader(w) ==
  /\ pc[w] = "looks"
  /\ \/ device # "dfu" /\ Goto(w, "seeks") /\ UNCHANGED << queue, blocked, checked >>
     \/ device = "dfu" /\ ~checked[w] /\ Refuse(w)
     \/ /\ device = "dfu"
        /\ checked' = [checked EXCEPT ![w] = TRUE]
        /\ Goto(w, "flashes")
        /\ UNCHANGED << queue, blocked >>
  /\ UNCHANGED << device, sectors, myHID, lock, job, data, error >>

\* dfu_util: its result is not looked at, and some of its errors exit.
Flash(w) ==
  /\ pc[w] = "flashes"
  /\ running' \in BOOLEAN
  /\ device' \in {device, "scsi"}
  /\ Goto(w, "flashed")
  /\ UNCHANGED << sectors, myHID, queue, lock, blocked, threadVars >>

\* reset_hid, run by the worker in Reset, once more on the main thread.
Delegate(w) ==
  /\ pc[w] = "delegates"
  /\ PostAndWait("reset_hid", w)
  /\ Goto(w, "restarts")
  /\ UNCHANGED << device, sectors, myHID, lock, threadVars >>

Restart(w) ==
  /\ pc[w] = "restarts"
  /\ PostAndWait("startTimer", w)
  /\ Goto(w, "done")
  /\ UNCHANGED << device, sectors, myHID, lock, threadVars >>

Work(w) ==
  /\ running
  /\ w \notin blocked
  /\ \/ /\ Lock(w) \/ CheckHid(w) \/ Announce(w) \/ EnterSector(w) \/ SectorReturns(w)
             \/ LogFailure(w) \/ Reset(w) \/ ResetDone(w) \/ Finish(w)
             \/ StartUpgrade(w) \/ Seek(w) \/ SeekReturns(w) \/ CompareFirmware(w)
             \/ EnterBootloader(w) \/ LookForBootloader(w) \/ Delegate(w) \/ Restart(w)
        /\ UNCHANGED running
     \/ Apply(w)
     \/ Flash(w)
  /\ UNCHANGED mainVars

Next ==
  \/ PollFires
  \/ Poll
  \/ Serve
  \/ Dismiss
  \/ Replug
  \/ \E w \in Workers, kind \in Kinds : Click(w, kind)
  \/ \E w \in Workers : Work(w)

Spec == Init /\ [][Next]_vars

\* The run loop gets round to the selectors that wait, whatever the timer
\* does; a call returns; the threads run.  The user owes nothing.
FairSpec ==
  /\ Spec
  /\ SF_vars(Serve)
  /\ WF_vars(Poll)
  /\ \A w \in Workers : WF_vars(Work(w))

-----------------------------------------------------------------------------
(* Properties.                                                              *)

InCall(t) == pc[t] \in {"debugging", "debugReset", "pinging", "opening", "resetting",
                       "transfers", "reopens", "reopensFlashed", "connects", "reboots"}

TypeOK ==
  /\ running \in BOOLEAN
  /\ device \in {"scsi", "dfu", "away"}
  /\ sectors \in [1..2 -> Workers \cup {Free}]
  /\ myHID \in {"none", "live", "blind", "gone", "null"}
  /\ queue \in Seq([sel : {"stopTimer", "startTimer", "log", "panel", "reset_hid"},
                    wakes : Workers \cup {Free}])
  /\ pollTimer \in Nat \ {0}
  /\ timers \subseteq 1..pollTimer
  /\ panels \in Seq(Workers \cup {Free})
  /\ first \in BOOLEAN
  /\ serving \in Workers \cup {Free}
  /\ lock \in Workers \cup {Free}
  /\ DOMAIN pc = Threads
  /\ blocked \subseteq Workers
  /\ job \in [Workers -> Kinds \cup {"none"}]
  /\ DOMAIN data = Workers
  /\ error \in [Workers -> BOOLEAN]
  /\ checked \in [Workers -> BOOLEAN]

\* The packet buffers of hidpacket.c are static and have no lock: no two
\* threads are ever inside a call on the HID, though stopTimer is only posted
\* and a poll may be under way when a job begins.
LinkExclusive == \A t, u \in Threads : InCall(t) /\ InCall(u) => t = u

\* Whatever the jobs did, in whatever order their selectors were served: when
\* all have ended exactly one poll timer runs, unless an upgrade has refused
\* its file, which stops polling for good.
OneTimerAtRest ==
  AllAtRest /\ queue = << >> =>
    \/ timers = {pollTimer}
    \/ \E w \in Workers : pc[w] = "refused"

Completes(w) == pc[w] = "finishes" /\ pc'[w] = "done" /\ ~error[w]

\* A job that reports success has transferred both sectors, and what it wrote
\* or read is what they hold together at that moment; or it has transferred
\* neither, the HID having become nil after the check, or to no purpose, its
\* capacity being 0.  There is nothing in between, though the ivar is read
\* again for each sector.
CompletedWholly ==
  [][\A w \in Workers : Completes(w) =>
       \/ data[w] = sectors /\ (job[w] = "save" => sectors = << w, w >>)
       \/ Content(w) \in {{"short"}, {"alien"}}]_vars

\* AppDelegate.m:263, the alert after a save: "Configuration was written to
\* device".
SavedIsWritten ==
  [][\A w \in Workers : Completes(w) /\ job[w] = "save" => sectors = << w, w >>]_vars

\* A job that was started ends and gives the lock back, whatever the device
\* and the poll do, unless the process ends first.
JobsEnd ==
  \A w \in Workers : pc[w] = "begins" /\ job[w] # "upgrade" ~> Ended(w) \/ ~running

=============================================================================
