------------------------------- MODULE HidQueue -------------------------------
(***************************************************************************)
(* One open handle of the HID layer on macOS (Modules/hid.c): the thread   *)
(* read_thread runs the run loop that queues input reports, the host       *)
(* thread opens, reads (readHID of SCSI2SD_HID.m) and closes.  The         *)
(* report queue is guarded by a mutex; the flags disconnected and          *)
(* shutdown_thread are not.  The two threads meet at two barriers, which   *)
(* hid.c builds from a mutex, a counter and a condition variable.          *)
(*                                                                         *)
(* A section under the mutex is one step.  Reports are numbered in the     *)
(* order in which the device sends them.                                   *)
(***************************************************************************)
EXTENDS Integers, Sequences, FiniteSets

CONSTANTS PopAbove,     \* num_queued above which a report is popped (30)
          MaxTries,     \* hid_read_timeout calls of one readHID (3)
          MaxReports    \* bound: reports the device sends

ASSUME QueueAssumption ==
  /\ PopAbove \in Nat
  /\ MaxTries \in Nat \ {0}
  /\ MaxReports \in Nat

VARIABLES host,          \* program counter of the host thread
          reader,        \* program counter of read_thread
          input_reports, \* the queue
          disconnected, shutdown_thread,
          run_loop,      \* are dev->run_loop and dev->source set?
          registered,    \* are the report and removal callbacks registered?
          plugged,       \* is the device there?
          signalled,     \* CFRunLoopSourceSignal, not yet performed
          stop,          \* CFRunLoopStop, run loop not yet returned
          woken,         \* has dev->condition been signalled for the sleeper?
          count,         \* of each barrier
          asleep,        \* threads in the pthread_cond_wait of each barrier
          misled,        \* history: barriers a thread passed by a spurious wakeup
          tries,         \* hid_read_timeout calls readHID has left
          outcome,       \* of the last readHID
          arrived,       \* history: number of reports handed to the callback
          delivered      \* history: reports readHID returned

hostVars == << host, tries, outcome, delivered >>
barrierVars == << count, asleep, misled >>
loopVars == << run_loop, signalled, stop >>
queueVars == << input_reports, arrived, woken >>
flagVars == << disconnected, shutdown_thread, registered, plugged >>
vars == << hostVars, reader, barrierVars, loopVars, queueVars, flagVars >>

Barriers == {"start", "shutdown"}
Threads == {"host", "reader"}

Init ==
  /\ host = "new" /\ reader = "none"
  /\ tries = 0 /\ outcome = "none" /\ delivered = << >>
  /\ count = [b \in Barriers |-> 0]
  /\ asleep = [b \in Barriers |-> {}]
  /\ misled = {}
  /\ run_loop = FALSE /\ signalled = FALSE /\ stop = FALSE
  /\ input_reports = << >> /\ arrived = 0 /\ woken = FALSE
  /\ disconnected = FALSE /\ shutdown_thread = FALSE
  /\ registered = FALSE /\ plugged = TRUE

-----------------------------------------------------------------------------
(* pthread_barrier_wait: the second thread to arrive wakes the first.       *)

\* Slips: a barrier for one thread, and one that leaves the first asleep.
Arrive_One(barrier, thread) == UNCHANGED barrierVars

Arrive_NoBroadcast(barrier, thread) ==
  /\ IF count[barrier] + 1 >= Cardinality(Threads)
     THEN count' = [count EXCEPT ![barrier] = 0] /\ UNCHANGED asleep
     ELSE /\ count' = [count EXCEPT ![barrier] = @ + 1]
          /\ asleep' = [asleep EXCEPT ![barrier] = @ \cup {thread}]
  /\ UNCHANGED misled

Arrive(barrier, thread) ==
  /\ IF count[barrier] + 1 >= Cardinality(Threads)
     THEN /\ count' = [count EXCEPT ![barrier] = 0]
          /\ asleep' = [asleep EXCEPT ![barrier] = {}]
     ELSE /\ count' = [count EXCEPT ![barrier] = @ + 1]
          /\ asleep' = [asleep EXCEPT ![barrier] = @ \cup {thread}]
  /\ UNCHANGED misled

Released(barrier, thread) == thread \notin asleep[barrier]

\* pthread_cond_wait is not in a loop: a spurious wakeup passes the barrier.
SpuriousWakeup(barrier, thread) ==
  /\ thread \in asleep[barrier]
  /\ asleep' = [asleep EXCEPT ![barrier] = @ \ {thread}]
  /\ misled' = misled \cup {barrier}
  /\ UNCHANGED << hostVars, reader, count, loopVars, queueVars, flagVars >>

-----------------------------------------------------------------------------
(* The host thread.                                                         *)

\* hid_open_path: callbacks registered and thread created, then the barrier.
Open ==
  /\ host = "new"
  /\ plugged
  /\ host' = "created"
  /\ reader' = "starting"
  /\ registered' = TRUE
  /\ UNCHANGED << tries, outcome, delivered, barrierVars, loopVars, queueVars,
                  disconnected, shutdown_thread, plugged >>

OpenWaits ==
  /\ host = "created"
  /\ host' = "opening"
  /\ Arrive("start", "host")
  /\ UNCHANGED << tries, outcome, delivered, reader, loopVars, queueVars, flagVars >>

OpenReturns ==
  /\ host = "opening"
  /\ Released("start", "host")
  /\ host' = "open"
  /\ UNCHANGED << tries, outcome, delivered, reader, barrierVars, loopVars,
                  queueVars, flagVars >>

ReadHID ==
  /\ host = "open"
  /\ host' = "reading"
  /\ tries' = MaxTries
  /\ outcome' = "none"
  /\ UNCHANGED << delivered, reader, barrierVars, loopVars, queueVars, flagVars >>

\* return_data on the host thread: the oldest report, and readHID is done.
Deliver ==
  /\ delivered' = Append(delivered, Head(input_reports))
  /\ input_reports' = Tail(input_reports)
  /\ outcome' = "report"
  /\ host' = "open"
  /\ UNCHANGED tries

\* hid_read_timeout returns 0 or -1: readHID tries again, or returns on 0 and
\* raises "USB HID Read Failure" on -1.
NoData(failed) ==
  /\ \/ tries > 1 /\ host' = "reading" /\ UNCHANGED outcome
     \/ /\ tries = 1 /\ host' = "open"
        /\ outcome' = IF failed THEN "raised" ELSE "nothing"
  /\ tries' = tries - 1
  /\ UNCHANGED << delivered, input_reports >>

\* hid_read_timeout up to the point where it sleeps.
TryRead ==
  /\ host = "reading"
  /\ \/ /\ input_reports # << >>
        /\ Deliver
        /\ UNCHANGED woken
     \/ /\ input_reports = << >>
        /\ disconnected \/ shutdown_thread
        /\ NoData(TRUE)
        /\ UNCHANGED woken
     \/ /\ input_reports = << >>
        /\ ~(disconnected \/ shutdown_thread)
        /\ host' = "waiting"
        /\ woken' = FALSE
        /\ UNCHANGED << tries, outcome, delivered, input_reports >>
  /\ UNCHANGED << reader, barrierVars, loopVars, arrived, flagVars >>

\* pthread_cond_timedwait returns 0 in cond_timedwait, signalled or not: the flags
\* are looked at before the queue.
Wakes ==
  /\ host = "waiting"
  /\ woken' = FALSE
  /\ \/ /\ disconnected \/ shutdown_thread
        /\ NoData(TRUE)
     \/ /\ ~(disconnected \/ shutdown_thread)
        /\ input_reports # << >>
        /\ Deliver
     \/ /\ ~(disconnected \/ shutdown_thread)
        /\ input_reports = << >>
        /\ UNCHANGED << hostVars, input_reports >>
  /\ UNCHANGED << reader, barrierVars, loopVars, arrived, flagVars >>

\* It returns ETIMEDOUT: 0, even if a report came while it took the mutex.
TimesOut ==
  /\ host = "waiting"
  /\ NoData(FALSE)
  /\ UNCHANGED << reader, barrierVars, loopVars, arrived, woken, flagVars >>

\* hid_close, statement by statement.
CloseUnregisters ==
  /\ host = "open"
  /\ host' = "closing"
  /\ registered' = (registered /\ disconnected)
  /\ UNCHANGED << tries, outcome, delivered, reader, barrierVars, loopVars,
                  queueVars, disconnected, shutdown_thread, plugged >>

CloseSetsShutdown ==
  /\ host = "closing"
  /\ host' = "signalling"
  /\ shutdown_thread' = TRUE
  /\ UNCHANGED << tries, outcome, delivered, reader, barrierVars, loopVars,
                  queueVars, disconnected, registered, plugged >>

CloseSignals ==
  /\ host = "signalling"
  /\ host' = "stopping"
  /\ signalled' = TRUE
  /\ Arrive("shutdown", "host")
  /\ UNCHANGED << tries, outcome, delivered, reader, run_loop, stop, queueVars,
                  flagVars >>

\* pthread_join, and the handle is freed.
CloseJoins ==
  /\ host = "stopping"
  /\ Released("shutdown", "host")
  /\ reader = "ended"
  /\ host' = IF disconnected THEN "closed" ELSE "closing device"
  /\ input_reports' = << >>
  /\ UNCHANGED << tries, outcome, delivered, reader, barrierVars, loopVars,
                  arrived, woken, flagVars >>

\* IOHIDDeviceClose.
CloseDevice ==
  /\ host = "closing device"
  /\ host' = "closed"
  /\ UNCHANGED << tries, outcome, delivered, reader, barrierVars, loopVars,
                  queueVars, flagVars >>

-----------------------------------------------------------------------------
(* read_thread and its callbacks.                                           *)

Starts ==
  /\ reader = "starting"
  /\ run_loop' = TRUE
  /\ reader' = "looping"
  /\ Arrive("start", "reader")
  /\ UNCHANGED << hostVars, signalled, stop, queueVars, flagVars >>

\* The condition of the loop around CFRunLoopRunInMode.
LoopCondition ==
  /\ reader = "looping"
  /\ Released("start", "reader")
  /\ reader' = IF shutdown_thread \/ disconnected THEN "leaving" ELSE "running"
  /\ UNCHANGED << hostVars, barrierVars, loopVars, queueVars, flagVars >>

Dispatching == reader = "running" /\ ~stop

\* Slips: the queue is never shortened, or one report too early.
Queued_Grows(report) == Append(input_reports, report)

Queued_Early(report) ==
  IF Len(input_reports) > PopAbove
  THEN Append(Tail(input_reports), report)
  ELSE Append(input_reports, report)

\* num_queued is the number of links from the oldest report to the newest,
\* the new one not counted.
Queued(report) ==
  IF Len(input_reports) - 1 > PopAbove
  THEN Append(Tail(input_reports), report)
  ELSE Append(input_reports, report)

\* A slip: nobody is signalled once the device is gone.
SignalSleeper_WhileConnected == woken' = (host = "waiting" /\ ~disconnected)

\* pthread_cond_signal or _broadcast on dev->condition, mutex held.
SignalSleeper == woken' = (host = "waiting")

hid_report_callback ==
  /\ Dispatching /\ registered /\ plugged
  /\ arrived < MaxReports
  /\ arrived' = arrived + 1
  /\ input_reports' = Queued(arrived + 1)
  /\ SignalSleeper
  /\ UNCHANGED << hostVars, reader, barrierVars, loopVars, flagVars >>

hid_device_removal_callback ==
  /\ Dispatching /\ registered /\ ~plugged
  /\ disconnected' = TRUE
  /\ stop' = TRUE
  /\ UNCHANGED << hostVars, reader, barrierVars, run_loop, signalled, queueVars,
                  shutdown_thread, registered, plugged >>

perform_signal_callback ==
  /\ Dispatching /\ signalled
  /\ signalled' = FALSE
  /\ stop' = TRUE
  /\ UNCHANGED << hostVars, reader, barrierVars, run_loop, queueVars, flagVars >>

\* CFRunLoopRunInMode returns: its 1000 seconds are over, or it was stopped.
RunLoopTimesOut ==
  /\ Dispatching
  /\ reader' = "looping"
  /\ UNCHANGED << hostVars, barrierVars, loopVars, queueVars, flagVars >>

RunLoopStopped ==
  /\ reader = "running" /\ stop
  /\ stop' = FALSE
  /\ shutdown_thread' = TRUE
  /\ reader' = "leaving"
  /\ UNCHANGED << hostVars, barrierVars, run_loop, signalled, queueVars,
                  disconnected, registered, plugged >>

\* Wakes a sleeping reader of the queue and waits for hid_close.
Leaves ==
  /\ reader = "leaving"
  /\ SignalSleeper
  /\ reader' = "stopping"
  /\ Arrive("shutdown", "reader")
  /\ UNCHANGED << hostVars, loopVars, input_reports, arrived, flagVars >>

Ends ==
  /\ reader = "stopping"
  /\ Released("shutdown", "reader")
  /\ reader' = "ended"
  /\ UNCHANGED << hostVars, barrierVars, loopVars, queueVars, flagVars >>

Unplug ==
  /\ plugged
  /\ plugged' = FALSE
  /\ UNCHANGED << hostVars, reader, barrierVars, loopVars, queueVars,
                  disconnected, shutdown_thread, registered >>

Host ==
  \/ OpenWaits \/ OpenReturns \/ TryRead \/ Wakes \/ TimesOut
  \/ CloseSetsShutdown \/ CloseSignals \/ CloseJoins \/ CloseDevice

Reader ==
  \/ Starts \/ LoopCondition \/ RunLoopStopped \/ Leaves \/ Ends
  \/ hid_device_removal_callback \/ perform_signal_callback

Next ==
  \/ Open \/ ReadHID \/ CloseUnregisters \/ Host
  \/ Reader \/ hid_report_callback \/ RunLoopTimesOut \/ Unplug
  \/ \E barrier \in Barriers, thread \in Threads : SpuriousWakeup(barrier, thread)

Spec == Init /\ [][Next]_vars

\* Both threads are scheduled, timed waits end, and a source that was signalled
\* is performed by a running loop.  Nothing is assumed of the device.
FairSpec == Spec /\ WF_vars(Host) /\ WF_vars(Starts) /\ WF_vars(LoopCondition)
                 /\ WF_vars(RunLoopStopped) /\ WF_vars(Leaves) /\ WF_vars(Ends)
                 /\ WF_vars(perform_signal_callback)

-----------------------------------------------------------------------------
(* Properties.                                                              *)

\* The greatest number of reports the queue can hold.
Capacity == PopAbove + 2

\* Types; the queue never grows beyond Capacity, and readHID stays within its
\* three calls.
TypeOK ==
  /\ host \in {"new", "created", "opening", "open", "reading", "waiting", "closing",
               "signalling", "stopping", "closing device", "closed"}
  /\ reader \in {"none", "starting", "looping", "running", "leaving",
                 "stopping", "ended"}
  /\ input_reports \in Seq(1..MaxReports)
  /\ Len(input_reports) <= Capacity
  /\ disconnected \in BOOLEAN /\ shutdown_thread \in BOOLEAN
  /\ run_loop \in BOOLEAN /\ registered \in BOOLEAN /\ plugged \in BOOLEAN
  /\ signalled \in BOOLEAN /\ stop \in BOOLEAN /\ woken \in BOOLEAN
  /\ count \in [Barriers -> 0..1]
  /\ asleep \in [Barriers -> SUBSET Threads]
  /\ misled \subseteq Barriers
  /\ tries \in 0..MaxTries
  /\ outcome \in {"none", "report", "nothing", "raised"}
  /\ arrived \in 0..MaxReports
  /\ delivered \in Seq(1..MaxReports)

\* Reports are handed out in the order in which they came, and while the handle
\* is in use one is missing only if Capacity newer ones came: neither a
\* timeout nor an unplugged device takes a report away.
Seen == delivered \o input_reports

InOrderNoneLost ==
  /\ \A i, j \in DOMAIN Seen : i < j => Seen[i] < Seen[j]
  /\ host \notin {"closing device", "closed"} =>
       \A r \in 1..arrived :
         r + Capacity <= arrived \/ \E i \in DOMAIN Seen : Seen[i] = r

\* A sleeping hid_read_timeout for which there is something to do has been
\* signalled: no wakeup is missed between its checks and its sleep.
NoMissedWakeup ==
  host = "waiting" /\ ~woken =>
    input_reports = << >> /\ reader \notin {"stopping", "ended"}

\* Unless a spurious wakeup misled a thread: the run loop exists before
\* hid_open_path returns, and the thread that runs it is still there when
\* hid_close wakes it up (hid.c:675-679).
Opened == host \notin {"new", "created", "opening"}

RunLoopIsThere == "start" \notin misled /\ Opened => run_loop

ThreadOutlivesWakeUp ==
  misled = {} /\ host = "signalling" => reader # "ended"

\* hid_close and hid_open_path always return, also when the device is
\* unplugged at any moment before or meanwhile: the barriers do not deadlock.
BarriersPass ==
  /\ host = "created" ~> host = "open"
  /\ host = "closing" ~> host = "closed"

=============================================================================
