---------------------------- MODULE HidQueueProofs ----------------------------
(***************************************************************************)
(* One HID handle for every size of the queue, number of tries and number  *)
(* of reports: its types, the order and completeness of what it delivers,  *)
(* its wakeups and its two barriers.                                       *)
(***************************************************************************)
EXTENDS HidQueue, SequenceTheorems, FiniteSetTheorems, TLAPS

(* Appending and taking the head, as the proofs below use them. *)

\* What Append does to a sequence, at each of its places.
LEMMA Appended ==
  ASSUME NEW S, NEW s \in Seq(S), NEW x \in S
  PROVE  /\ Append(s, x) \in Seq(S)
         /\ Len(Append(s, x)) = Len(s) + 1
         /\ \A i \in 1..Len(s) : Append(s, x)[i] = s[i]
         /\ Append(s, x)[Len(s) + 1] = x
  BY AppendProperties

\* What Tail leaves of a sequence that is not empty.
LEMMA Rest ==
  ASSUME NEW S, NEW s \in Seq(S), s # << >>
  PROVE  /\ Head(s) \in S /\ Head(s) = s[1]
         /\ Tail(s) \in Seq(S)
         /\ Len(s) \in Nat \ {0}
         /\ Len(Tail(s)) = Len(s) - 1
         /\ \A i \in 1..Len(Tail(s)) : Tail(s)[i] = s[i + 1]
  BY HeadTailProperties, LenProperties, EmptySeq, Z3

\* What the callback makes of the queue: it never exceeds its capacity.
LEMMA QueuedFits ==
  ASSUME NEW q \in Seq(1..MaxReports), q = input_reports, Len(q) <= Capacity,
         NEW report \in 1..MaxReports
  PROVE  /\ Queued(report) \in Seq(1..MaxReports)
         /\ Len(Queued(report)) <= Capacity
         /\ \/ /\ Len(q) < Capacity
               /\ Len(Queued(report)) = Len(q) + 1
               /\ \A i \in 1..Len(q) : Queued(report)[i] = q[i]
            \/ /\ Len(q) = Capacity
               /\ Len(Queued(report)) = Len(q)
               /\ \A i \in 1..(Len(q) - 1) : Queued(report)[i] = q[i + 1]
         /\ Queued(report)[Len(Queued(report))] = report
<1>1. Len(q) \in Nat /\ PopAbove \in Nat
  BY LenProperties, QueueAssumption
<1>2. CASE Len(q) - 1 > PopAbove
  <2>1. q # << >>
    BY <1>1, <1>2, EmptySeq
  <2>2. /\ Tail(q) \in Seq(1..MaxReports) /\ Len(Tail(q)) = Len(q) - 1
        /\ \A i \in 1..Len(Tail(q)) : Tail(q)[i] = q[i + 1]
    BY <2>1, Rest
  <2> DEFINE t == Tail(q)
  <2> HIDE DEF t
  <2>3. Queued(report) = Append(t, report) /\ Len(q) = Capacity
    BY <1>1, <1>2 DEF Queued, Capacity, t
  <2>4. t \in Seq(1..MaxReports) /\ Len(t) = Len(q) - 1 /\ \A i \in 1..Len(t) : t[i] = q[i + 1]
    BY <2>2 DEF t
  <2>5. /\ Append(t, report) \in Seq(1..MaxReports)
        /\ Len(Append(t, report)) = Len(t) + 1
        /\ \A i \in 1..Len(t) : Append(t, report)[i] = t[i]
        /\ Append(t, report)[Len(t) + 1] = report
    BY <2>4, Appended
  <2> QED BY <2>3, <2>4, <2>5, <1>1
<1>3. CASE ~(Len(q) - 1 > PopAbove)
  <2>1. Queued(report) = Append(q, report) /\ Len(q) < Capacity
    BY <1>1, <1>3 DEF Queued, Capacity
  <2>2. /\ Append(q, report) \in Seq(1..MaxReports)
        /\ Len(Append(q, report)) = Len(q) + 1
        /\ \A i \in 1..Len(q) : Append(q, report)[i] = q[i]
        /\ Append(q, report)[Len(q) + 1] = report
    BY Appended
  <2> QED BY <2>1, <2>2, <1>1 DEF Capacity
<1> QED BY <1>2, <1>3

-----------------------------------------------------------------------------
(* Types. *)

\* pthread_barrier_wait sees the second of the two threads at the count of one.
LEMMA TwoThreads == Cardinality(Threads) = 2
<1>1. Cardinality({"reader"}) = 1 /\ IsFiniteSet({"reader"})
  BY FS_Singleton
<1>2. Cardinality({"reader"} \cup {"host"}) = Cardinality({"reader"}) + 1
  BY <1>1, FS_AddElement
<1>3. Threads = {"reader"} \cup {"host"}
  BY DEF Threads
<1> QED BY <1>1, <1>2, <1>3

(* The type invariant in the three parts of which the proof speaks.          *)

Places ==
  /\ host \in {"new", "created", "opening", "open", "reading", "waiting", "closing",
               "signalling", "stopping", "closing device", "closed"}
  /\ reader \in {"none", "starting", "looping", "running", "leaving",
                 "stopping", "ended"}
  /\ outcome \in {"none", "report", "nothing", "raised"}

Flags ==
  /\ disconnected \in BOOLEAN /\ shutdown_thread \in BOOLEAN
  /\ run_loop \in BOOLEAN /\ registered \in BOOLEAN /\ plugged \in BOOLEAN
  /\ signalled \in BOOLEAN /\ stop \in BOOLEAN /\ woken \in BOOLEAN

Data ==
  /\ input_reports \in Seq(1..MaxReports)
  /\ Len(input_reports) <= Capacity
  /\ count \in [Barriers -> 0..1]
  /\ asleep \in [Barriers -> SUBSET Threads]
  /\ misled \subseteq Barriers
  /\ tries \in 0..MaxTries
  /\ arrived \in 0..MaxReports
  /\ delivered \in Seq(1..MaxReports)

\* The three parts say what TypeOK says.
LEMMA TypeParts == TypeOK <=> Places /\ Flags /\ Data
  BY DEF TypeOK, Places, Flags, Data

\* A barrier's counter stays below two, and only the two threads sleep there.
LEMMA ArriveTypes ==
  ASSUME Data, NEW b \in Barriers, NEW t \in Threads, Arrive(b, t)
  PROVE  /\ count' \in [Barriers -> 0..1]
         /\ asleep' \in [Barriers -> SUBSET Threads]
         /\ misled' \subseteq Barriers
<1>1. count[b] \in 0..1 /\ asleep[b] \subseteq Threads /\ misled \subseteq Barriers
  BY DEF Data
<1>2. count[b] + 1 >= 2 => count' = [count EXCEPT ![b] = 0]
  BY TwoThreads DEF Arrive
<1>3. ~(count[b] + 1 >= 2) => count' = [count EXCEPT ![b] = @ + 1] /\ count[b] = 0
  BY <1>1, TwoThreads DEF Arrive
<1>4. count' \in [Barriers -> 0..1]
  BY <1>2, <1>3 DEF Data
<1>5. asleep' \in [Barriers -> SUBSET Threads]
  BY <1>1 DEF Arrive, Data
<1> QED BY <1>4, <1>5 DEF Arrive, Data

\* The initial state is well typed.
LEMMA TypeInit == Init => TypeOK
<1> SUFFICES ASSUME Init PROVE Places /\ Flags /\ Data
  BY TypeParts
<1>1. << >> \in Seq(1..MaxReports) /\ Len(<< >>) = 0
  BY EmptySeq
<1>2. 0 <= Capacity /\ 0 \in 0..MaxTries /\ 0 \in 0..MaxReports
  BY QueueAssumption DEF Capacity
<1>3. count \in [Barriers -> 0..1] /\ asleep \in [Barriers -> SUBSET Threads]
  BY DEF Init
<1>4. Places
  BY DEF Init, Places
<1>5. Flags
  BY DEF Init, Flags
<1>6. Data
  BY <1>1, <1>2, <1>3 DEF Init, Data
<1> QED BY <1>4, <1>5, <1>6

\* return_data moves the head of the queue to what was delivered.
LEMMA DeliverTypes ==
  ASSUME Data, input_reports # << >>, Deliver
  PROVE  /\ input_reports' \in Seq(1..MaxReports)
         /\ Len(input_reports') <= Capacity
         /\ delivered' \in Seq(1..MaxReports)
         /\ tries' = tries
<1>1. /\ Head(input_reports) \in 1..MaxReports
      /\ Tail(input_reports) \in Seq(1..MaxReports)
      /\ Len(input_reports) \in Nat
      /\ Len(Tail(input_reports)) = Len(input_reports) - 1
  BY Rest DEF Data
<1>2. Append(delivered, Head(input_reports)) \in Seq(1..MaxReports)
  BY <1>1, Appended DEF Data
<1> QED BY <1>1, <1>2, QueueAssumption DEF Deliver, Data, Capacity

\* Every step keeps the types: the queue stays within its capacity, readHID
\* within its tries, and each barrier's counter below the number of threads.
LEMMA TypeStep == TypeOK /\ [Next]_vars => TypeOK'
<1> SUFFICES ASSUME TypeOK, [Next]_vars PROVE TypeOK'
  OBVIOUS
<1>0. Places /\ Flags /\ Data
  BY TypeParts
<1> USE <1>0
<1>1. Places'
  BY DEF Places, Next, Host, Reader, Open, OpenWaits, OpenReturns, ReadHID, TryRead,
         Wakes, TimesOut, CloseUnregisters, CloseSetsShutdown, CloseSignals, CloseJoins,
         CloseDevice, Starts, LoopCondition, hid_report_callback,
         hid_device_removal_callback, perform_signal_callback, RunLoopTimesOut,
         RunLoopStopped, Leaves, Ends, Unplug, SpuriousWakeup, Deliver, NoData,
         vars, hostVars
<1>2. Flags'
  <2>1. CASE OpenWaits \/ OpenReturns \/ TryRead \/ Wakes \/ TimesOut
    BY <2>1 DEF Flags, OpenWaits, OpenReturns, TryRead, Wakes, TimesOut,
                flagVars, queueVars, loopVars
  <2>1c. CASE CloseSetsShutdown \/ CloseSignals \/ CloseJoins \/ CloseDevice
    BY <2>1c DEF Flags, CloseSetsShutdown, CloseSignals, CloseJoins, CloseDevice,
                flagVars, queueVars, loopVars
  <2>2. CASE Reader
    BY <2>2 DEF Flags, Reader, Starts, LoopCondition, hid_device_removal_callback,
                perform_signal_callback, RunLoopStopped, Leaves, Ends, SignalSleeper,
                flagVars, queueVars, loopVars
  <2>3. CASE \/ Open \/ ReadHID \/ CloseUnregisters
             \/ hid_report_callback \/ RunLoopTimesOut \/ Unplug
    BY <2>3 DEF Flags, Open, ReadHID, CloseUnregisters, hid_report_callback,
                RunLoopTimesOut, Unplug, SignalSleeper, flagVars, queueVars, loopVars
  <2>4. CASE \/ \E b \in Barriers, t \in Threads : SpuriousWakeup(b, t)
             \/ UNCHANGED vars
    BY <2>4 DEF Flags, SpuriousWakeup, vars, flagVars, queueVars, loopVars
  <2> QED BY <2>1, <2>1c, <2>2, <2>3, <2>4 DEF Next, Host
<1>3. Data'
  <2> USE QueueAssumption
  <2> DEFINE Same == UNCHANGED << tries, delivered, input_reports, arrived >>
             Still == UNCHANGED barrierVars
  <2>1. CASE Same /\ Still
    BY <2>1 DEF Data, barrierVars
  <2>2. ASSUME NEW b \in Barriers, NEW t \in Threads, Arrive(b, t), Same PROVE Data'
    BY <2>2, ArriveTypes DEF Data
  <2>3. ASSUME NEW b \in Barriers, NEW t \in Threads, SpuriousWakeup(b, t) PROVE Data'
    <3>1. asleep' \in [Barriers -> SUBSET Threads] /\ misled' \subseteq Barriers
      BY <2>3 DEF SpuriousWakeup, Data
    <3> QED BY <2>3, <3>1 DEF SpuriousWakeup, Data, hostVars, queueVars
  <2>4. CASE TryRead \/ Wakes \/ TimesOut
    <3>1. CASE input_reports # << >> /\ Deliver
      BY <2>4, <3>1, DeliverTypes DEF TryRead, Wakes, TimesOut, Data, barrierVars
    <3>2. ASSUME NEW failed \in BOOLEAN, NoData(failed) PROVE Data'
      <4>1. tries' \in 0..MaxTries
        BY <3>2 DEF NoData, Data
      <4> QED BY <2>4, <3>2, <4>1 DEF NoData, TryRead, Wakes, TimesOut, Data, barrierVars
    <3>3. CASE UNCHANGED << tries, outcome, delivered, input_reports >>
      BY <2>1, <2>4, <3>3 DEF TryRead, Wakes, TimesOut
    <3>4. CASE UNCHANGED << hostVars, input_reports >>
      BY <2>1, <2>4, <3>4 DEF TryRead, Wakes, TimesOut, hostVars
    <3> QED BY <2>4, <3>1, <3>2, <3>3, <3>4 DEF TryRead, Wakes, TimesOut
  <2>5. CASE hid_report_callback
    <3>1. arrived + 1 \in 1..MaxReports
      BY <2>5 DEF hid_report_callback, Data
    <3>2. /\ Queued(arrived + 1) \in Seq(1..MaxReports)
          /\ Len(Queued(arrived + 1)) <= Capacity
      BY <3>1, QueuedFits DEF Data
    <3> QED BY <2>5, <3>1, <3>2 DEF hid_report_callback, Data, barrierVars, hostVars
  <2>6. CASE ReadHID
    BY <2>6 DEF ReadHID, Data, barrierVars, queueVars
  <2>7. CASE CloseJoins
    <3>1. << >> \in Seq(1..MaxReports) /\ Len(<< >>) = 0 /\ 0 <= Capacity
      BY EmptySeq DEF Capacity
    <3> QED BY <2>7, <3>1 DEF CloseJoins, Data, barrierVars
  <2>8. CASE OpenWaits \/ CloseSignals \/ Starts \/ Leaves
    BY <2>2, <2>8 DEF OpenWaits, CloseSignals, Starts, Leaves, hostVars, queueVars,
                      Barriers, Threads
  <2>9. CASE \/ Open \/ OpenReturns \/ CloseUnregisters \/ CloseSetsShutdown
             \/ CloseDevice \/ LoopCondition \/ hid_device_removal_callback
             \/ perform_signal_callback \/ RunLoopTimesOut \/ RunLoopStopped
             \/ Ends \/ Unplug \/ UNCHANGED vars
    BY <2>1, <2>9 DEF Open, OpenReturns, CloseUnregisters, CloseSetsShutdown,
         CloseDevice, LoopCondition, hid_device_removal_callback,
         perform_signal_callback, RunLoopTimesOut, RunLoopStopped, Ends, Unplug,
         vars, hostVars, queueVars
  <2> QED BY <2>3, <2>4, <2>5, <2>6, <2>7, <2>8, <2>9 DEF Next, Host, Reader
<1> QED BY <1>1, <1>2, <1>3 DEF TypeOK, Places, Flags, Data

\* The queue of a handle never exceeds PopAbove + 2 reports, whatever the device
\* sends, and every variable has its type.
THEOREM TypeCorrect == Spec => []TypeOK
  BY TypeInit, TypeStep, PTL DEF Spec

-----------------------------------------------------------------------------
(* The reports. *)

\* The handle is no longer in use: hid_close has freed the queue.
Freed == host \in {"closing device", "closed"}

\* The number of the newest report that is no longer queued.
Last == arrived - Len(input_reports)

\* The queue holds the newest reports, without a gap.
NewestQueued == \A i \in 1..Len(input_reports) : input_reports[i] = Last + i

\* What was delivered is in order and older than all that is queued; of what is
\* not queued nothing is missing but what Capacity newer reports displaced.
OlderDelivered ==
  /\ \A i, j \in 1..Len(delivered) : i < j => delivered[i] < delivered[j]
  /\ \A i \in 1..Len(delivered) : delivered[i] <= Last
  /\ ~Freed => \A r \in 1..Last :
                 \/ r + Capacity <= arrived
                 \/ \E i \in 1..Len(delivered) : delivered[i] = r

ReportsInv == NewestQueued /\ OlderDelivered

\* What the types say of the two sequences of reports.
LEMMA ReportTypes ==
  ASSUME Data
  PROVE  /\ arrived \in Nat /\ Last \in Int /\ arrived = Last + Len(input_reports)
         /\ Len(input_reports) \in Nat /\ DOMAIN input_reports = 1..Len(input_reports)
         /\ Len(delivered) \in Nat /\ DOMAIN delivered = 1..Len(delivered)
         /\ \A i \in 1..Len(delivered) : delivered[i] \in Nat
<1>1. \A i \in 1..Len(delivered) : delivered[i] \in 1..MaxReports
  BY ElementOfSeq DEF Data
<1>2. arrived \in Nat /\ Len(input_reports) \in Nat
  BY LenProperties, QueueAssumption DEF Data
<1> QED BY <1>1, <1>2, LenProperties, QueueAssumption DEF Data, Last

\* A step that leaves both sequences alone keeps what is known of the reports.
LEMMA ReportsQuiet ==
  ASSUME ReportsInv, UNCHANGED << input_reports, delivered, arrived >>, Freed => Freed'
  PROVE  ReportsInv'
<1>1. UNCHANGED << Last, Capacity >>
  BY DEF Last, Capacity
<1>2. NewestQueued'
  BY <1>1 DEF ReportsInv, NewestQueued
<1>3. OlderDelivered'
  BY <1>1 DEF ReportsInv, OlderDelivered
<1> QED BY <1>2, <1>3 DEF ReportsInv

\* Handing out the oldest report keeps the order, and what is left is newer.
LEMMA ReportsDeliver ==
  ASSUME Data, ReportsInv, input_reports # << >>, ~Freed, UNCHANGED arrived,
         delivered' = Append(delivered, Head(input_reports)),
         input_reports' = Tail(input_reports)
  PROVE  ReportsInv'
<1>1. /\ arrived \in Nat /\ Last \in Int /\ arrived = Last + Len(input_reports)
      /\ Len(input_reports) \in Nat /\ Len(delivered) \in Nat
      /\ \A i \in 1..Len(delivered) : delivered[i] \in Nat
  BY ReportTypes
<1>2. /\ Head(input_reports) = input_reports[1]
      /\ Head(input_reports) \in 1..MaxReports
      /\ Len(input_reports) \in Nat \ {0}
      /\ Len(input_reports') = Len(input_reports) - 1
      /\ \A i \in 1..Len(input_reports') : input_reports'[i] = input_reports[i + 1]
  BY Rest DEF Data
<1>3. Last' = Last + 1
  BY <1>1, <1>2 DEF Last
<1>4. Head(input_reports) = Last'
  BY <1>1, <1>2, <1>3 DEF ReportsInv, NewestQueued
<1>5. /\ Len(delivered') = Len(delivered) + 1
      /\ \A i \in 1..Len(delivered) : delivered'[i] = delivered[i]
      /\ delivered'[Len(delivered) + 1] = Last'
  BY <1>2, <1>4, Appended DEF Data
<1>6. NewestQueued'
  <2>1. ASSUME NEW i \in 1..Len(input_reports') PROVE input_reports'[i] = Last' + i
    <3>1. i + 1 \in 1..Len(input_reports) /\ input_reports'[i] = input_reports[i + 1]
      BY <1>2
    <3>2. input_reports[i + 1] = Last + (i + 1)
      BY <3>1 DEF ReportsInv, NewestQueued
    <3> QED BY <1>1, <1>3, <3>1, <3>2
  <2> QED BY <2>1 DEF NewestQueued
<1>7. OlderDelivered'
  <2>0. /\ \A i, j \in 1..Len(delivered) : i < j => delivered[i] < delivered[j]
        /\ \A i \in 1..Len(delivered) : delivered[i] <= Last
        /\ \A r \in 1..Last : \/ r + Capacity <= arrived
                              \/ \E i \in 1..Len(delivered) : delivered[i] = r
    BY DEF ReportsInv, OlderDelivered
  <2>1. ASSUME NEW i \in 1..Len(delivered'), NEW j \in 1..Len(delivered'), i < j
        PROVE  delivered'[i] < delivered'[j]
    <3>1. i \in 1..Len(delivered) /\ delivered'[i] = delivered[i]
      BY <1>1, <1>5, <2>1
    <3>2. CASE j \in 1..Len(delivered)
      BY <1>1, <1>5, <2>0, <2>1, <3>1, <3>2
    <3>3. CASE j = Len(delivered) + 1
      BY <1>1, <1>3, <1>5, <2>0, <3>1, <3>3
    <3> QED BY <1>1, <1>5, <3>2, <3>3
  <2>2. \A i \in 1..Len(delivered') : delivered'[i] <= Last'
    BY <1>1, <1>3, <1>5, <2>0
  <2>3. ASSUME NEW r \in 1..Last'
        PROVE  \/ r + Capacity <= arrived
               \/ \E i \in 1..Len(delivered') : delivered'[i] = r
    <3>1. CASE r \in 1..Last
      BY <1>1, <1>5, <2>0, <3>1
    <3>2. CASE r = Last'
      BY <1>1, <1>5, <3>2
    <3> QED BY <1>1, <1>3, <3>1, <3>2
  <2>4. Capacity' = Capacity
    BY DEF Capacity
  <2> QED BY <2>1, <2>2, <2>3, <2>4 DEF OlderDelivered
<1> QED BY <1>6, <1>7 DEF ReportsInv

\* A new report goes to the end of the queue; it displaces the oldest one only
\* when the queue is full.
LEMMA ReportsArrive ==
  ASSUME Data, ReportsInv, arrived + 1 \in 1..MaxReports, arrived' = arrived + 1,
         input_reports' = Queued(arrived + 1), UNCHANGED delivered, Freed' = Freed
  PROVE  ReportsInv'
<1>1. /\ arrived \in Nat /\ Last \in Int /\ arrived = Last + Len(input_reports)
      /\ Len(input_reports) \in Nat /\ Len(delivered) \in Nat
      /\ \A i \in 1..Len(delivered) : delivered[i] \in Nat
      /\ Capacity \in Nat /\ Capacity' = Capacity
  BY ReportTypes, QueueAssumption DEF Capacity
<1>2. /\ \/ /\ Len(input_reports) < Capacity
            /\ Len(input_reports') = Len(input_reports) + 1
            /\ \A i \in 1..Len(input_reports) : input_reports'[i] = input_reports[i]
         \/ /\ Len(input_reports) = Capacity
            /\ Len(input_reports') = Len(input_reports)
            /\ \A i \in 1..(Len(input_reports) - 1) :
                 input_reports'[i] = input_reports[i + 1]
      /\ input_reports'[Len(input_reports')] = arrived + 1
  BY QueuedFits DEF Data
<1>3. \/ Len(input_reports) < Capacity /\ Last' = Last
      \/ Len(input_reports) = Capacity /\ Last' = Last + 1
  <2>1. CASE Len(input_reports') = Len(input_reports) + 1
    <3>1. Last = arrived - Len(input_reports) /\ Last' = (arrived + 1) - (Len(input_reports) + 1)
      BY <2>1 DEF Last
    <3>2. arrived \in Nat /\ Len(input_reports) \in Nat
      BY <1>1, Zenon
    <3>3. Last' = Last
      BY <3>1, <3>2
    <3>4. Len(input_reports) < Capacity
      <4>1. Len(input_reports) + 1 # Len(input_reports)
        BY <3>2
      <4> QED BY <1>2, <2>1, <4>1, Zenon
    <3> QED BY <3>3, <3>4
  <2>2. CASE Len(input_reports) = Capacity /\ Len(input_reports') = Len(input_reports)
    <3>1. Last' = (arrived + 1) - Len(input_reports)
      BY <2>2 DEF Last
    <3> QED BY <1>1, <2>2, <3>1
  <2> QED BY <1>2, <2>1, <2>2
<1>4. NewestQueued'
  <2>1. ASSUME NEW i \in 1..Len(input_reports') PROVE input_reports'[i] = Last' + i
    <3>0. \A k \in 1..Len(input_reports) : input_reports[k] = Last + k
      BY DEF ReportsInv, NewestQueued
    <3>1. CASE i = Len(input_reports')
      BY <1>1, <1>2, <3>1 DEF Last
    <3>2. CASE i < Len(input_reports') /\ Last' = Last
      <4>1. i \in 1..Len(input_reports) /\ input_reports'[i] = input_reports[i]
        BY <1>1, <1>2, <1>3, <3>2
      <4> QED BY <3>0, <3>2, <4>1
    <3>3. CASE i < Len(input_reports') /\ Last' = Last + 1
      <4>1. /\ i \in 1..(Len(input_reports) - 1) /\ i + 1 \in 1..Len(input_reports)
            /\ input_reports'[i] = input_reports[i + 1]
        BY <1>1, <1>2, <1>3, <3>3
      <4> QED BY <1>1, <3>0, <3>3, <4>1
    <3> QED BY <1>1, <1>2, <1>3, <3>1, <3>2, <3>3
  <2> QED BY <2>1 DEF NewestQueued
<1>5. OlderDelivered'
  <2>0. /\ \A i, j \in 1..Len(delivered) : i < j => delivered[i] < delivered[j]
        /\ \A i \in 1..Len(delivered) : delivered[i] <= Last
        /\ ~Freed => \A r \in 1..Last : \/ r + Capacity <= arrived
                                        \/ \E i \in 1..Len(delivered) : delivered[i] = r
    BY DEF ReportsInv, OlderDelivered
  <2>1. \A i \in 1..Len(delivered) : delivered[i] <= Last'
    BY <1>1, <1>3, <2>0
  <2>2. ASSUME ~Freed, NEW r \in 1..Last'
        PROVE  \/ r + Capacity <= arrived'
               \/ \E i \in 1..Len(delivered) : delivered[i] = r
    <3>1. CASE r \in 1..Last
      BY <1>1, <2>0, <2>2, <3>1
    <3>2. CASE r = Last + 1 /\ Len(input_reports) = Capacity
      BY <1>1, <3>2
    <3> QED BY <1>1, <1>3, <3>1, <3>2
  <2> QED BY <1>1, <2>0, <2>1, <2>2 DEF OlderDelivered
<1> QED BY <1>4, <1>5 DEF ReportsInv

\* hid_close drops what is queued; what was delivered stays older than the rest.
LEMMA ReportsDrop ==
  ASSUME Data, ReportsInv, input_reports' = << >>, UNCHANGED << arrived, delivered >>, Freed'
  PROVE  ReportsInv'
<1>1. /\ Last \in Int /\ arrived = Last + Len(input_reports) /\ Len(input_reports) \in Nat
      /\ \A i \in 1..Len(delivered) : delivered[i] \in Nat
  BY ReportTypes
<1>2. Len(input_reports') = 0 /\ Last' = arrived /\ arrived \in Nat
  BY <1>1, ReportTypes DEF Last
<1>3. NewestQueued'
  BY <1>2 DEF NewestQueued
<1>4. /\ \A i, j \in 1..Len(delivered) : i < j => delivered[i] < delivered[j]
      /\ \A i \in 1..Len(delivered) : delivered[i] <= Last'
  BY <1>1, <1>2 DEF ReportsInv, OlderDelivered
<1> QED BY <1>3, <1>4 DEF ReportsInv, OlderDelivered

\* Every step keeps what is known of the reports.
LEMMA ReportsStep == Data /\ ReportsInv /\ [Next]_vars => ReportsInv'
<1> SUFFICES ASSUME Data, ReportsInv, [Next]_vars PROVE ReportsInv'
  OBVIOUS
<1>1. CASE TryRead \/ Wakes \/ TimesOut
  <2>1. ~Freed /\ UNCHANGED arrived
    BY <1>1 DEF TryRead, Wakes, TimesOut, Freed
  <2>2. CASE input_reports # << >> /\ Deliver
    BY <2>1, <2>2, ReportsDeliver DEF Deliver
  <2>3. CASE UNCHANGED << input_reports, delivered >>
    BY <2>1, <2>3, ReportsQuiet
  <2> QED BY <1>1, <2>2, <2>3 DEF TryRead, Wakes, TimesOut, NoData, hostVars
<1>2. CASE hid_report_callback
  <2>1. arrived + 1 \in 1..MaxReports
    BY <1>2, ReportTypes, QueueAssumption DEF hid_report_callback, Data
  <2>2. /\ arrived' = arrived + 1 /\ input_reports' = Queued(arrived + 1)
        /\ UNCHANGED delivered /\ Freed' = Freed
    BY <1>2 DEF hid_report_callback, hostVars, Freed
  <2> QED BY <2>1, <2>2, ReportsArrive
<1>3. CASE CloseJoins
  BY <1>3, ReportsDrop DEF CloseJoins, Freed
<1>4. CASE \/ Open \/ OpenWaits \/ OpenReturns \/ ReadHID \/ CloseUnregisters
           \/ CloseSetsShutdown \/ CloseSignals \/ CloseDevice
  BY <1>4, ReportsQuiet DEF Open, OpenWaits, OpenReturns, ReadHID, CloseUnregisters,
       CloseSetsShutdown, CloseSignals, CloseDevice, queueVars, Freed
<1>5. CASE \/ Starts \/ LoopCondition \/ hid_device_removal_callback
           \/ perform_signal_callback \/ RunLoopTimesOut \/ RunLoopStopped
           \/ Leaves \/ Ends \/ Unplug \/ UNCHANGED vars
           \/ \E b \in Barriers, t \in Threads : SpuriousWakeup(b, t)
  BY <1>5, ReportsQuiet DEF Starts, LoopCondition, hid_device_removal_callback,
       perform_signal_callback, RunLoopTimesOut, RunLoopStopped, Leaves, Ends, Unplug,
       SpuriousWakeup, vars, hostVars, queueVars, Freed
<1> QED BY <1>1, <1>2, <1>3, <1>4, <1>5 DEF Next, Host, Reader

\* What is known of the reports gives the order and completeness of Seen.
LEMMA ReportsGiveOrder == Data /\ ReportsInv => InOrderNoneLost
<1> SUFFICES ASSUME Data, ReportsInv PROVE InOrderNoneLost
  OBVIOUS
<1>1. /\ arrived \in Nat /\ Last \in Int /\ arrived = Last + Len(input_reports)
      /\ Len(input_reports) \in Nat /\ Len(delivered) \in Nat
      /\ \A i \in 1..Len(delivered) : delivered[i] \in Nat
  BY ReportTypes
<1>2. /\ DOMAIN Seen = 1..(Len(delivered) + Len(input_reports))
      /\ \A i \in 1..Len(delivered) : Seen[i] = delivered[i]
      /\ \A i \in 1..Len(input_reports) : Seen[Len(delivered) + i] = input_reports[i]
  <2>1. delivered \in Seq(1..MaxReports) /\ input_reports \in Seq(1..MaxReports)
    BY DEF Data
  <2>2. /\ Seen \in Seq(1..MaxReports)
        /\ Len(Seen) = Len(delivered) + Len(input_reports)
        /\ \A i \in 1..(Len(delivered) + Len(input_reports)) :
             Seen[i] = IF i <= Len(delivered) THEN delivered[i]
                       ELSE input_reports[i - Len(delivered)]
    BY <2>1, ConcatProperties DEF Seen
  <2>3. \A i \in 1..Len(delivered) : Seen[i] = delivered[i]
    BY <1>1, <2>2
  <2>4. ASSUME NEW i \in 1..Len(input_reports)
        PROVE  Seen[Len(delivered) + i] = input_reports[i]
    <3>1. /\ Len(delivered) + i \in 1..(Len(delivered) + Len(input_reports))
          /\ ~(Len(delivered) + i <= Len(delivered))
          /\ (Len(delivered) + i) - Len(delivered) = i
      BY <1>1
    <3> QED BY <2>2, <3>1
  <2> QED BY <2>2, <2>3, <2>4, LenProperties
<1>3. \A i \in 1..Len(input_reports) : input_reports[i] = Last + i
  BY DEF ReportsInv, NewestQueued
<1>4. /\ \A i, j \in 1..Len(delivered) : i < j => delivered[i] < delivered[j]
      /\ \A i \in 1..Len(delivered) : delivered[i] <= Last
      /\ ~Freed => \A r \in 1..Last : \/ r + Capacity <= arrived
                                      \/ \E i \in 1..Len(delivered) : delivered[i] = r
  BY DEF ReportsInv, OlderDelivered
<1>5. \A i \in DOMAIN Seen :
        \/ i \in 1..Len(delivered) /\ Seen[i] = delivered[i]
        \/ /\ i - Len(delivered) \in 1..Len(input_reports)
           /\ Seen[i] = Last + (i - Len(delivered))
  <2>1. ASSUME NEW i \in DOMAIN Seen, i \notin 1..Len(delivered)
        PROVE  /\ i - Len(delivered) \in 1..Len(input_reports)
               /\ Seen[i] = Last + (i - Len(delivered))
    <3>1. /\ i - Len(delivered) \in 1..Len(input_reports)
          /\ Len(delivered) + (i - Len(delivered)) = i
      BY <1>1, <1>2, <2>1
    <3> QED BY <1>2, <1>3, <3>1
  <2> QED BY <1>2, <2>1
<1>6. ASSUME NEW i \in DOMAIN Seen, NEW j \in DOMAIN Seen, i < j PROVE Seen[i] < Seen[j]
  <2>1. CASE j \in 1..Len(delivered)
    BY <1>1, <1>2, <1>4, <1>6, <2>1
  <2>2. CASE i \in 1..Len(delivered) /\ j \notin 1..Len(delivered)
    <3>1. Seen[i] <= Last /\ Seen[i] \in Nat
      BY <1>1, <1>2, <1>4, <2>2
    <3>2. Seen[j] = Last + (j - Len(delivered)) /\ j - Len(delivered) \in 1..Len(input_reports)
      BY <1>5, <2>2
    <3> QED BY <1>1, <3>1, <3>2
  <2>3. CASE i \notin 1..Len(delivered)
    <3>1. /\ i \in Int /\ j \in Int /\ j \notin 1..Len(delivered)
      BY <1>1, <1>2, <1>6, <2>3
    <3>2. Seen[i] = Last + (i - Len(delivered)) /\ Seen[j] = Last + (j - Len(delivered))
      BY <1>5, <2>3, <3>1
    <3> QED BY <1>1, <1>6, <3>1, <3>2
  <2> QED BY <2>1, <2>2, <2>3
<1>7. ASSUME ~Freed, NEW r \in 1..arrived
      PROVE  r + Capacity <= arrived \/ \E i \in DOMAIN Seen : Seen[i] = r
  <2>1. CASE r <= Last
    <3>1. r + Capacity <= arrived \/ \E i \in 1..Len(delivered) : delivered[i] = r
      BY <1>1, <1>4, <1>7, <2>1
    <3>2. \A i \in 1..Len(delivered) : i \in DOMAIN Seen /\ Seen[i] = delivered[i]
      BY <1>1, <1>2
    <3> QED BY <3>1, <3>2
  <2>2. CASE r > Last
    <3>1. PICK k \in 1..Len(input_reports) : r = Last + k
      <4>1. r - Last \in 1..Len(input_reports) /\ r = Last + (r - Last)
        BY <1>1, <2>2
      <4> QED BY <4>1
    <3>2. Len(delivered) + k \in DOMAIN Seen
      BY <1>1, <1>2
    <3>3. Seen[Len(delivered) + k] = r
      BY <1>2, <1>3, <3>1
    <3> QED BY <3>2, <3>3
  <2> QED BY <1>1, <2>1, <2>2
<1> QED BY <1>6, <1>7 DEF InOrderNoneLost, Freed

\* Before the handle is open there is no report.
LEMMA ReportsInit == Init => ReportsInv
<1> SUFFICES ASSUME Init PROVE ReportsInv
  OBVIOUS
<1>1. /\ input_reports = << >> /\ delivered = << >> /\ arrived = 0
  BY DEF Init
<1>2. Len(input_reports) = 0 /\ Len(delivered) = 0
  BY <1>1, EmptySeq
<1>3. Last = 0 - 0
  BY <1>1, <1>2 DEF Last
<1> QED BY <1>2, <1>3 DEF ReportsInv, NewestQueued, OlderDelivered

\* readHID hands out the reports in the order in which they came, and of the
\* reports of a handle in use one is missing only if Capacity newer ones came:
\* for every size of the queue and every number of reports.
THEOREM ReportsInOrder == Spec => []InOrderNoneLost
<1>1. TypeOK /\ ReportsInv /\ [Next]_vars => (TypeOK /\ ReportsInv)'
  BY TypeStep, ReportsStep, TypeParts
<1>2. Init => TypeOK /\ ReportsInv
  BY TypeInit, ReportsInit
<1>3. TypeOK /\ ReportsInv => InOrderNoneLost
  BY ReportsGiveOrder, TypeParts
<1> QED BY <1>1, <1>2, <1>3, PTL DEF Spec

-----------------------------------------------------------------------------
(* Wakeups. *)

\* read_thread leaves its loop only when one of the flags is set, and nothing
\* resets them: hid_read_timeout sees a flag and does not sleep afterwards.
LeavesFlagged ==
  reader \in {"leaving", "stopping", "ended"} => shutdown_thread \/ disconnected

WakeInv == LeavesFlagged /\ NoMissedWakeup

\* Every step keeps both.
LEMMA WakeStep == WakeInv /\ [Next]_vars => WakeInv'
<1> SUFFICES ASSUME WakeInv, [Next]_vars PROVE WakeInv'
  OBVIOUS
<1> USE DEF WakeInv, LeavesFlagged, NoMissedWakeup, hostVars, queueVars, flagVars
<1>1. CASE TryRead
  BY <1>1 DEF TryRead, Deliver, NoData
<1>2. CASE Wakes
  BY <1>2 DEF Wakes, Deliver, NoData
<1>3. CASE TimesOut
  BY <1>3 DEF TimesOut, NoData
<1>4. CASE hid_report_callback
  BY <1>4 DEF hid_report_callback, SignalSleeper
<1>5. CASE Leaves
  BY <1>5 DEF Leaves, SignalSleeper
<1>6. CASE Open \/ OpenWaits \/ OpenReturns \/ ReadHID
  BY <1>6 DEF Open, OpenWaits, OpenReturns, ReadHID
<1>7. CASE \/ CloseUnregisters \/ CloseSetsShutdown \/ CloseSignals \/ CloseJoins
           \/ CloseDevice
  BY <1>7 DEF CloseUnregisters, CloseSetsShutdown, CloseSignals, CloseJoins, CloseDevice
<1>8. CASE Starts \/ LoopCondition \/ hid_device_removal_callback
           \/ perform_signal_callback
  BY <1>8 DEF Starts, LoopCondition, hid_device_removal_callback, perform_signal_callback
<1>9. CASE RunLoopTimesOut \/ RunLoopStopped \/ Ends \/ Unplug
  BY <1>9 DEF RunLoopTimesOut, RunLoopStopped, Ends, Unplug
<1>10. CASE \/ UNCHANGED vars
            \/ \E b \in Barriers, t \in Threads : SpuriousWakeup(b, t)
  BY <1>10 DEF SpuriousWakeup, vars
<1> QED BY <1>1, <1>2, <1>3, <1>4, <1>5, <1>6, <1>7, <1>8, <1>9, <1>10
  DEF Next, Host, Reader

\* A hid_read_timeout that sleeps has been signalled as soon as there is a
\* report for it or the thread that would signal it is gone.
THEOREM WakeupsAreNotMissed == Spec => []NoMissedWakeup
<1>1. Init => WakeInv
  BY DEF Init, WakeInv, LeavesFlagged, NoMissedWakeup
<1>2. WakeInv => NoMissedWakeup
  BY DEF WakeInv
<1> QED BY <1>1, <1>2, WakeStep, PTL DEF Spec

-----------------------------------------------------------------------------
(* The two barriers. *)

\* Has the thread arrived at the barrier (whether or not it left it again)?
Reached(barrier, thread) ==
  \/ barrier = "start" /\ thread = "host" /\ host \notin {"new", "created"}
  \/ barrier = "start" /\ thread = "reader" /\ reader \notin {"none", "starting"}
  \/ barrier = "shutdown" /\ thread = "host"
     /\ host \in {"stopping", "closing device", "closed"}
  \/ barrier = "shutdown" /\ thread = "reader" /\ reader \in {"stopping", "ended"}

\* Both threads have arrived.
Complete(barrier) == Reached(barrier, "host") /\ Reached(barrier, "reader")

\* The counter is one while exactly one thread has arrived, that one sleeps
\* there, unless a spurious wakeup let it pass, and nobody else does.
Meets(barrier) ==
  /\ count[barrier] = 1 <=>
       ~Complete(barrier) /\ \E t \in Threads : Reached(barrier, t)
  /\ \A t \in Threads :
       /\ t \in asleep[barrier] => Reached(barrier, t) /\ ~Complete(barrier)
       /\ barrier \notin misled /\ Reached(barrier, t) /\ ~Complete(barrier) =>
            t \in asleep[barrier]

\* Both barriers, and where the threads stand with respect to them.
BarrierInv ==
  /\ \A b \in Barriers : Meets(b)
  /\ run_loop <=> Reached("start", "reader")
  /\ reader = "none" <=> host = "new"
  /\ "start" \notin misled /\ Opened => Complete("start")
  /\ "shutdown" \notin misled /\ reader = "ended" => Complete("shutdown")

\* The host and the reader are the two threads, and they are distinct.
LEMMA TheOther ==
  ASSUME NEW t \in Threads
  PROVE  \E u \in Threads : u # t /\ Threads = {t, u}
<1>1. CASE t = "host"
  BY <1>1 DEF Threads
<1>2. CASE t = "reader"
  BY <1>2 DEF Threads
<1> QED BY <1>1, <1>2 DEF Threads

\* A step that leaves a barrier alone, and nobody's arrival there, keeps it.
LEMMA MeetsQuiet ==
  ASSUME NEW b \in Barriers, Meets(b),
         count'[b] = count[b], asleep'[b] = asleep[b], misled \subseteq misled',
         \A t \in Threads : Reached(b, t)' <=> Reached(b, t)
  PROVE  Meets(b)' /\ (Complete(b)' <=> Complete(b))
<1>1. Complete(b)' <=> Complete(b)
  BY DEF Complete, Threads
<1> QED BY <1>1 DEF Meets

\* The first thread to arrive sleeps; the second one wakes it and resets the
\* counter.
LEMMA MeetsArrival ==
  ASSUME Data, NEW b \in Barriers, NEW t \in Threads, Meets(b), Arrive(b, t),
         ~Reached(b, t), Reached(b, t)',
         \A u \in Threads \ {t} : Reached(b, u)' <=> Reached(b, u)
  PROVE  Meets(b)' /\ \A c \in Barriers \ {b} : count'[c] = count[c] /\ asleep'[c] = asleep[c]
<1>1. PICK u \in Threads : u # t /\ Threads = {t, u}
  BY TheOther
<1>2. Complete(b) <=> Reached(b, t) /\ Reached(b, u)
  BY <1>1 DEF Complete, Threads
<1>3. Complete(b)' <=> Reached(b, t)' /\ Reached(b, u)'
  BY <1>1 DEF Complete, Threads
<1>4. count[b] \in 0..1 /\ asleep[b] \subseteq {t, u}
  BY <1>1 DEF Data
<1>5. count \in [Barriers -> 0..1] /\ asleep \in [Barriers -> SUBSET Threads]
  BY DEF Data
<1>6. misled' = misled
  BY DEF Arrive
<1>7. CASE count[b] = 1
  <2>1. count' = [count EXCEPT ![b] = 0] /\ asleep' = [asleep EXCEPT ![b] = {}]
    BY <1>7, TwoThreads DEF Arrive
  <2>2. Complete(b)'
    BY <1>1, <1>2, <1>3, <1>7 DEF Meets
  <2>3. count'[b] = 0 /\ asleep'[b] = {}
    BY <1>5, <2>1
  <2>4. \A c \in Barriers \ {b} : count'[c] = count[c] /\ asleep'[c] = asleep[c]
    BY <1>5, <2>1
  <2> QED BY <2>2, <2>3, <2>4 DEF Meets
<1>8. CASE count[b] = 0
  <2>1. /\ count' = [count EXCEPT ![b] = 1]
        /\ asleep' = [asleep EXCEPT ![b] = @ \cup {t}]
    BY <1>8, TwoThreads DEF Arrive
  <2>2. ~Reached(b, u) /\ ~Reached(b, u)' /\ ~Complete(b)'
    BY <1>1, <1>2, <1>3, <1>8 DEF Meets
  <2>3. count'[b] = 1 /\ asleep'[b] = asleep[b] \cup {t}
    BY <1>5, <2>1
  <2>4. \A c \in Barriers \ {b} : count'[c] = count[c] /\ asleep'[c] = asleep[c]
    BY <1>5, <2>1
  <2>5. asleep[b] = {}
    BY <1>1, <1>4, <2>2 DEF Meets
  <2> QED BY <1>1, <2>2, <2>3, <2>4, <2>5 DEF Meets
<1> QED BY <1>4, <1>7, <1>8

\* A spurious wakeup is remembered in misled.
LEMMA MeetsMisled ==
  ASSUME Data, NEW b \in Barriers, NEW t \in Threads, SpuriousWakeup(b, t),
         \A c \in Barriers : Meets(c)
  PROVE  /\ \A c \in Barriers : Meets(c)' /\ (Complete(c)' <=> Complete(c))
         /\ misled \subseteq misled'
<1>1. asleep \in [Barriers -> SUBSET Threads]
  BY DEF Data
<1>2. \A c \in Barriers, u \in Threads : Reached(c, u)' <=> Reached(c, u)
  BY DEF SpuriousWakeup, Reached, hostVars
<1>3. \A c \in Barriers : Complete(c)' <=> Complete(c)
  BY <1>2 DEF Complete, Threads
<1>4. count' = count /\ misled' = misled \cup {b}
  BY DEF SpuriousWakeup
<1>5. asleep'[b] = asleep[b] \ {t} /\ \A c \in Barriers \ {b} : asleep'[c] = asleep[c]
  BY <1>1 DEF SpuriousWakeup
<1>6. Meets(b)'
  BY <1>2, <1>3, <1>4, <1>5 DEF Meets
<1>7. \A c \in Barriers \ {b} : Meets(c)'
  BY <1>2, <1>3, <1>4, <1>5 DEF Meets
<1> QED BY <1>3, <1>4, <1>6, <1>7

\* Every step keeps what is known of the barriers.
LEMMA BarrierStep == Data /\ BarrierInv /\ [Next]_vars => BarrierInv'
<1> SUFFICES ASSUME Data, BarrierInv, [Next]_vars PROVE BarrierInv'
  OBVIOUS
<1> DEFINE Standing == UNCHANGED << barrierVars, run_loop >>
<1>0. "start" \in Barriers /\ "shutdown" \in Barriers /\ "start" # "shutdown"
      /\ "host" \in Threads /\ "reader" \in Threads
      /\ \A b \in Barriers : b = "start" \/ b = "shutdown"
  BY DEF Barriers, Threads
<1>1. ASSUME Standing,
             \A b \in Barriers, t \in Threads : Reached(b, t)' <=> Reached(b, t),
             reader' = "none" <=> host' = "new",
             Opened' => Opened \/ Complete("start") \/ "start" \in misled,
             reader' = "ended" => reader = "ended" \/ Complete("shutdown")
                                  \/ "shutdown" \in misled
      PROVE  BarrierInv'
  <2>1. \A b \in Barriers : Meets(b)' /\ (Complete(b)' <=> Complete(b))
    BY <1>1, MeetsQuiet DEF BarrierInv, barrierVars
  <2>2. run_loop' = run_loop /\ misled' = misled
    BY <1>1 DEF barrierVars
  <2> QED BY <1>0, <1>1, <2>1, <2>2 DEF BarrierInv
<1>2. CASE OpenWaits
  <2>1. /\ ~Reached("start", "host") /\ Reached("start", "host")'
        /\ Reached("start", "reader")' <=> Reached("start", "reader")
        /\ \A t \in Threads : Reached("shutdown", t)' <=> Reached("shutdown", t)
    BY <1>2 DEF OpenWaits, Reached, Threads
  <2>2. Arrive("start", "host") /\ misled' = misled
    BY <1>2 DEF OpenWaits, Arrive
  <2>3. Meets("start")' /\ count'["shutdown"] = count["shutdown"]
        /\ asleep'["shutdown"] = asleep["shutdown"]
    BY <1>0, <2>1, <2>2, MeetsArrival DEF BarrierInv, Threads
  <2>4. Meets("shutdown")' /\ (Complete("shutdown")' <=> Complete("shutdown"))
    BY <1>0, <2>1, <2>2, <2>3, MeetsQuiet DEF BarrierInv
  <2>5. /\ run_loop' = run_loop /\ reader' = reader /\ ~Opened'
        /\ host' # "new" /\ host # "new"
    BY <1>2 DEF OpenWaits, loopVars, Opened
  <2> QED BY <1>0, <2>1, <2>2, <2>3, <2>4, <2>5 DEF BarrierInv
<1>3. CASE Starts
  <2>1. /\ ~Reached("start", "reader") /\ Reached("start", "reader")'
        /\ Reached("start", "host")' <=> Reached("start", "host")
        /\ \A t \in Threads : Reached("shutdown", t)' <=> Reached("shutdown", t)
    BY <1>3 DEF Starts, Reached, Threads, hostVars
  <2>2. Arrive("start", "reader") /\ misled' = misled
    BY <1>3 DEF Starts, Arrive
  <2>3. Meets("start")' /\ count'["shutdown"] = count["shutdown"]
        /\ asleep'["shutdown"] = asleep["shutdown"]
    BY <1>0, <2>1, <2>2, MeetsArrival DEF BarrierInv, Threads
  <2>4. Meets("shutdown")' /\ (Complete("shutdown")' <=> Complete("shutdown"))
    BY <1>0, <2>1, <2>2, <2>3, MeetsQuiet DEF BarrierInv
  <2>5. /\ run_loop' /\ reader = "starting" /\ reader' = "looping" /\ host' = host
        /\ Opened' <=> Opened
    BY <1>3 DEF Starts, hostVars, Opened
  <2>6. "start" \notin misled' /\ Opened' => Complete("start")'
    BY <2>1, <2>2, <2>5 DEF BarrierInv, Complete
  <2> QED BY <1>0, <2>1, <2>2, <2>3, <2>4, <2>5, <2>6 DEF BarrierInv
<1>4. CASE CloseSignals
  <2>1. /\ ~Reached("shutdown", "host") /\ Reached("shutdown", "host")'
        /\ Reached("shutdown", "reader")' <=> Reached("shutdown", "reader")
        /\ \A t \in Threads : Reached("start", t)' <=> Reached("start", t)
    BY <1>4 DEF CloseSignals, Reached, Threads
  <2>2. Arrive("shutdown", "host") /\ misled' = misled
    BY <1>4 DEF CloseSignals, Arrive
  <2>3. Meets("shutdown")' /\ count'["start"] = count["start"]
        /\ asleep'["start"] = asleep["start"]
    BY <1>0, <2>1, <2>2, MeetsArrival DEF BarrierInv, Threads
  <2>4. Meets("start")' /\ (Complete("start")' <=> Complete("start"))
    BY <1>0, <2>1, <2>2, <2>3, MeetsQuiet DEF BarrierInv
  <2>5. /\ run_loop' = run_loop /\ reader' = reader /\ Opened
        /\ host = "signalling" /\ host' = "stopping"
    BY <1>4 DEF CloseSignals, Opened
  <2>6. Complete("shutdown") => Complete("shutdown")'
    BY <2>1 DEF Complete
  <2> QED BY <1>0, <2>1, <2>2, <2>3, <2>4, <2>5, <2>6 DEF BarrierInv
<1>5. CASE Leaves
  <2>1. /\ ~Reached("shutdown", "reader") /\ Reached("shutdown", "reader")'
        /\ Reached("shutdown", "host")' <=> Reached("shutdown", "host")
        /\ \A t \in Threads : Reached("start", t)' <=> Reached("start", t)
    BY <1>5 DEF Leaves, Reached, Threads, hostVars
  <2>2. Arrive("shutdown", "reader") /\ misled' = misled
    BY <1>5 DEF Leaves, Arrive
  <2>3. Meets("shutdown")' /\ count'["start"] = count["start"]
        /\ asleep'["start"] = asleep["start"]
    BY <1>0, <2>1, <2>2, MeetsArrival DEF BarrierInv, Threads
  <2>4. Meets("start")' /\ (Complete("start")' <=> Complete("start"))
    BY <1>0, <2>1, <2>2, <2>3, MeetsQuiet DEF BarrierInv
  <2>5. /\ run_loop' = run_loop /\ reader = "leaving" /\ reader' = "stopping"
        /\ host' = host /\ (Opened' <=> Opened)
    BY <1>5 DEF Leaves, loopVars, hostVars, Opened
  <2> QED BY <1>0, <2>1, <2>2, <2>3, <2>4, <2>5 DEF BarrierInv
<1>6. ASSUME NEW b \in Barriers, NEW t \in Threads, SpuriousWakeup(b, t) PROVE BarrierInv'
  <2>1. /\ \A c \in Barriers : Meets(c)' /\ (Complete(c)' <=> Complete(c))
        /\ misled \subseteq misled'
    BY <1>6, MeetsMisled DEF BarrierInv
  <2>2. UNCHANGED << run_loop, host, reader >>
    BY <1>6 DEF SpuriousWakeup, loopVars, hostVars
  <2>3. (Opened' <=> Opened) /\ (Reached("start", "reader")' <=> Reached("start", "reader"))
    BY <2>2 DEF Opened, Reached
  <2> QED BY <1>0, <2>1, <2>2, <2>3 DEF BarrierInv
<1>7. CASE OpenReturns
  <2>1. Standing /\ host = "opening" /\ host' = "open" /\ reader' = reader
    BY <1>7 DEF OpenReturns, loopVars
  <2>2. \A b \in Barriers, t \in Threads : Reached(b, t)' <=> Reached(b, t)
    BY <2>1 DEF Reached
  <2>3. Complete("start") \/ "start" \in misled
    <3>1. Reached("start", "host") /\ "host" \notin asleep["start"]
      BY <1>7, <2>1 DEF OpenReturns, Released, Reached
    <3> QED BY <1>0, <3>1 DEF BarrierInv, Meets
  <2> QED BY <1>1, <2>1, <2>2, <2>3 DEF BarrierInv
<1>8. CASE Ends
  <2>1. /\ Standing /\ reader = "stopping" /\ reader' = "ended" /\ host' = host
        /\ Opened' <=> Opened
    BY <1>8 DEF Ends, loopVars, hostVars, Opened
  <2>2. \A b \in Barriers, t \in Threads : Reached(b, t)' <=> Reached(b, t)
    BY <2>1 DEF Reached
  <2>3. Complete("shutdown") \/ "shutdown" \in misled
    <3>1. Reached("shutdown", "reader") /\ "reader" \notin asleep["shutdown"]
      BY <1>8, <2>1 DEF Ends, Released, Reached
    <3> QED BY <1>0, <3>1 DEF BarrierInv, Meets
  <2> QED BY <1>1, <2>1, <2>2, <2>3 DEF BarrierInv
<1>9. CASE \/ Open \/ ReadHID \/ TryRead \/ Wakes \/ TimesOut \/ CloseUnregisters
           \/ CloseSetsShutdown \/ CloseJoins \/ CloseDevice
  <2>1. Standing
    BY <1>9 DEF Open, ReadHID, TryRead, Wakes, TimesOut, CloseUnregisters,
         CloseSetsShutdown, CloseJoins, CloseDevice, loopVars
  <2>2. \A b \in Barriers, t \in Threads : Reached(b, t)' <=> Reached(b, t)
    <3>1. /\ reader' = reader \/ (reader = "none" /\ reader' = "starting")
          /\ \/ host' = host
             \/ host = "new" /\ host' = "created"
             \/ host \notin {"new", "created", "stopping", "closing device", "closed"}
                /\ host' \notin {"new", "created", "stopping", "closing device", "closed"}
             \/ host \in {"stopping", "closing device"} /\ host' \in {"closing device", "closed"}
      BY <1>9 DEF Open, ReadHID, TryRead, Wakes, TimesOut, CloseUnregisters,
           CloseSetsShutdown, CloseJoins, CloseDevice, Deliver, NoData, hostVars,
           BarrierInv
    <3> QED BY <3>1 DEF Reached
  <2>3. /\ reader' = "none" <=> host' = "new"
        /\ Opened' => Opened
        /\ reader' = "ended" => reader = "ended"
    BY <1>9 DEF Open, ReadHID, TryRead, Wakes, TimesOut, CloseUnregisters,
         CloseSetsShutdown, CloseJoins, CloseDevice, Deliver, NoData, hostVars,
         BarrierInv, Opened
  <2> QED BY <1>1, <2>1, <2>2, <2>3
<1>10. CASE \/ LoopCondition \/ hid_device_removal_callback \/ perform_signal_callback
            \/ RunLoopTimesOut \/ RunLoopStopped \/ hid_report_callback \/ Unplug
            \/ UNCHANGED vars
  <2>1. Standing /\ host' = host /\ (Opened' <=> Opened)
    BY <1>10 DEF LoopCondition, hid_device_removal_callback, perform_signal_callback,
         RunLoopTimesOut, RunLoopStopped, hid_report_callback, Unplug, vars, loopVars,
         hostVars, Opened
  <2>2. /\ reader' = reader
        \/ /\ reader \in {"looping", "running"}
           /\ reader' \in {"looping", "running", "leaving"}
    BY <1>10 DEF LoopCondition, hid_device_removal_callback, perform_signal_callback,
         RunLoopTimesOut, RunLoopStopped, hid_report_callback, Unplug, vars, Dispatching
  <2>3. \A b \in Barriers, t \in Threads : Reached(b, t)' <=> Reached(b, t)
    <3>1. /\ reader' \in {"none", "starting"} <=> reader \in {"none", "starting"}
          /\ reader' \in {"stopping", "ended"} <=> reader \in {"stopping", "ended"}
      BY <2>2
    <3> QED BY <2>1, <3>1 DEF Reached
  <2> QED BY <1>1, <2>1, <2>2, <2>3 DEF BarrierInv
<1> QED BY <1>2, <1>3, <1>4, <1>5, <1>6, <1>7, <1>8, <1>9, <1>10 DEF Next, Host, Reader

\* Nobody is at a barrier before the handle is opened.
LEMMA BarrierInit == Init => BarrierInv
<1> SUFFICES ASSUME Init PROVE BarrierInv
  OBVIOUS
<1>1. \A b \in Barriers : count[b] = 0 /\ asleep[b] = {}
  BY DEF Init
<1>2. \A b \in Barriers, t \in Threads : ~Reached(b, t)
  BY DEF Init, Reached
<1>3. \A b \in Barriers : Meets(b)
  BY <1>1, <1>2 DEF Meets
<1> QED BY <1>2, <1>3 DEF Init, BarrierInv, Opened, Barriers, Threads

\* What is known of the barriers holds of a handle at any time.
LEMMA BarriersHold == Spec => [](Data /\ BarrierInv)
<1>1. Init => TypeOK /\ BarrierInv
  BY TypeInit, BarrierInit
<1>2. TypeOK /\ BarrierInv /\ [Next]_vars => (TypeOK /\ BarrierInv)'
  BY TypeStep, BarrierStep, TypeParts
<1>3. TypeOK /\ BarrierInv => Data /\ BarrierInv
  BY TypeParts
<1> QED BY <1>1, <1>2, <1>3, PTL DEF Spec

\* Unless a spurious wakeup lets a thread pass the barrier that hid_open_path
\* waits at, the run loop is there when hid_open_path returns.
THEOREM RunLoopBeforeOpen == Spec => []RunLoopIsThere
<1>1. Data /\ BarrierInv => RunLoopIsThere
  BY DEF BarrierInv, RunLoopIsThere, Complete
<1> QED BY <1>1, BarriersHold, PTL

\* Unless a spurious wakeup intervenes, read_thread is still there when hid_close
\* signals its run loop: it leaves the second barrier together with hid_close.
THEOREM ThreadOutlivesClose == Spec => []ThreadOutlivesWakeUp
<1>1. Data /\ BarrierInv => ThreadOutlivesWakeUp
  BY DEF BarrierInv, ThreadOutlivesWakeUp, Complete, Reached
<1> QED BY <1>1, BarriersHold, PTL

=============================================================================
