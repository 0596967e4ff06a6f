------------------------- MODULE DeviceSessionProofs -------------------------
(***************************************************************************)
(* The application object for every number of threads and every choice of  *)
(* jobs: its types; and, as long as the user leaves an upgrade alone, that *)
(* calls on the HID exclude each other, that exactly one poll timer is     *)
(* left at rest, and that a job which reports success has transferred the  *)
(* configuration as a whole.                                               *)
(***************************************************************************)
EXTENDS DeviceSession, SequenceTheorems, TLAPS

Selectors == {"stopTimer", "startTimer", "log", "panel", "reset_hid"}
Entries == [sel : Selectors, wakes : Workers \cup {Free}]

-----------------------------------------------------------------------------
(* The queue of the run loop. *)

\* A selector that is posted comes last.
LEMMA Posted ==
  ASSUME NEW q \in Seq(Entries), NEW sel \in Selectors, NEW w \in Workers \cup {Free}
  PROVE  LET p == Append(q, Entry(sel, w))
         IN /\ p \in Seq(Entries) /\ Len(p) = Len(q) + 1
            /\ \A i \in 1..Len(q) : p[i] = q[i]
            /\ p[Len(q) + 1] = Entry(sel, w)
<1>1. Entry(sel, w) \in Entries
  BY DEF Entry, Entries
<1> QED BY <1>1, AppendProperties

\* The selector that is served was the first; the others move up.
LEMMA Served ==
  ASSUME NEW S, NEW q \in Seq(S), q # << >>
  PROVE  /\ Head(q) \in S /\ Head(q) = q[1]
         /\ Tail(q) \in Seq(S)
         /\ Len(q) \in Nat \ {0}
         /\ Len(Tail(q)) = Len(q) - 1
         /\ \A i \in 1..Len(Tail(q)) : Tail(q)[i] = q[i + 1]
  BY HeadTailProperties, LenProperties, EmptySeq, Z3

\* performSelectorOnMainThread without waiting, of one selector and of two.
LEMMA PostIsAppend ==
  ASSUME queue \in Seq(Entries), NEW a \in Selectors, NEW b \in Selectors
  PROVE  /\ Post(<< a >>) => queue' = Append(queue, Entry(a, Free))
         /\ Post(<< a, b >>) =>
              queue' = Append(Append(queue, Entry(a, Free)), Entry(b, Free))
<1>1. Entry(a, Free) \in Entries /\ Entry(b, Free) \in Entries
  BY DEF Entry, Entries
<1>2. [i \in DOMAIN << a >> |-> Entry(<< a >>[i], Free)] = << Entry(a, Free) >>
  OBVIOUS
<1>3. [i \in DOMAIN << a, b >> |-> Entry(<< a, b >>[i], Free)]
        = << Entry(a, Free), Entry(b, Free) >>
  OBVIOUS
<1>4. queue \o << Entry(a, Free) >> = Append(queue, Entry(a, Free))
  BY <1>1, AppendIsConcat
<1>5. queue \o << Entry(a, Free), Entry(b, Free) >>
        = Append(Append(queue, Entry(a, Free)), Entry(b, Free))
  <2>1. << Entry(a, Free) >> \in Seq(Entries) /\ << Entry(b, Free) >> \in Seq(Entries)
    BY <1>1
  <2>2. << Entry(a, Free), Entry(b, Free) >> = << Entry(a, Free) >> \o << Entry(b, Free) >>
    BY <1>1
  <2>3. queue \o (<< Entry(a, Free) >> \o << Entry(b, Free) >>)
          = (queue \o << Entry(a, Free) >>) \o << Entry(b, Free) >>
    BY <2>1, ConcatAssociative
  <2>4. Append(queue, Entry(a, Free)) \in Seq(Entries)
    BY <1>1, AppendProperties
  <2> QED BY <1>1, <1>4, <2>2, <2>3, <2>4, AppendIsConcat
<1> QED BY <1>2, <1>3, <1>4, <1>5 DEF Post

-----------------------------------------------------------------------------
(* Types. *)

Shapes ==
  /\ device \in {"scsi", "dfu", "away"}
  /\ sectors \in [1..2 -> Workers \cup {Free}]
  /\ myHID \in {"none", "live", "blind", "gone", "null"}
  /\ lock \in Workers \cup {Free}
  /\ DOMAIN pc = Threads
  /\ job \in [Workers -> Kinds \cup {"none"}]
  /\ DOMAIN data = Workers

Waits ==
  /\ queue \in Seq(Entries)
  /\ panels \in Seq(Workers \cup {Free})
  /\ serving \in Workers \cup {Free}
  /\ blocked \subseteq Workers

Timers ==
  /\ pollTimer \in Nat \ {0}
  /\ timers \subseteq 1..pollTimer

Flags ==
  /\ running \in BOOLEAN
  /\ first \in BOOLEAN
  /\ error \in [Workers -> BOOLEAN]
  /\ checked \in [Workers -> BOOLEAN]

Types == Shapes /\ Waits /\ Timers /\ Flags

LEMMA TypesIsTypeOK == Types <=> TypeOK
  BY DEF Types, Shapes, Waits, Timers, Flags, TypeOK, Entries, Selectors

MainStep == PollFires \/ Poll
UserStep == Dismiss \/ Replug \/ \E w \in Workers, kind \in Kinds : Click(w, kind)

LEMMA ShapesStep == Shapes /\ Next => Shapes'
<1> SUFFICES ASSUME Shapes, Next PROVE Shapes'
  OBVIOUS
<1> USE SessionAssumption DEF Shapes, Threads, Goto
<1>1. ASSUME PollFires \/ Poll PROVE Shapes'
  BY <1>1 DEF PollFires, Poll, DebugReturns, DebugResetReturns, Polled, PingReturns,
     OpeningReturns, Connecting, ResetReturns, OpenEnters, OpenFindsNone, OpenReturns,
     threadVars
<1>2. ASSUME Serve PROVE Shapes'
  BY <1>2 DEF Serve, OpenEnters, OpenFindsNone, threadVars
<1>3. ASSUME UserStep PROVE Shapes'
  <2>1. CASE Dismiss
    BY <2>1 DEF Dismiss, threadVars
  <2>2. CASE Replug
    BY <2>2 DEF Replug, MayAnswer, threadVars
  <2>3. ASSUME NEW w \in Workers, NEW kind \in Kinds, Click(w, kind) PROVE Shapes'
    BY <2>3 DEF Click
  <2> QED BY <1>3, <2>1, <2>2, <2>3 DEF UserStep
<1>4. ASSUME NEW w \in Workers, Work(w) PROVE Shapes'
  <2>1. CASE Lock(w) \/ CheckHid(w) \/ Announce(w) \/ EnterSector(w)
    BY <2>1 DEF Lock, CheckHid, Fail, Announce, EnterSector, threadVars
  <2>2. CASE SectorReturns(w)
    BY <2>2 DEF SectorReturns, ReadSector, WriteSector, Transferred, Fail
  <2>3. CASE LogFailure(w) \/ Reset(w) \/ ResetDone(w) \/ Finish(w)
    BY <2>3 DEF LogFailure, Reset, ResetDone, Finish, OpenEnters, OpenFindsNone,
       OpenReturns, threadVars
  <2>4. CASE StartUpgrade(w) \/ Seek(w) \/ SeekReturns(w) \/ CompareFirmware(w)
    BY <2>4 DEF StartUpgrade, Seek, SeekReturns, CompareFirmware, Refuse, OpenEnters,
       OpenFindsNone, OpenReturns, threadVars
  <2>5. CASE EnterBootloader(w) \/ LookForBootloader(w) \/ Delegate(w) \/ Restart(w)
    BY <2>5 DEF EnterBootloader, LookForBootloader, Refuse, Delegate, Restart, threadVars
  <2>6. CASE Apply(w) \/ Flash(w)
    BY <2>6 DEF Apply, Flash, threadVars
  <2> QED BY <1>4, <2>1, <2>2, <2>3, <2>4, <2>5, <2>6 DEF Work
<1> QED BY <1>1, <1>2, <1>3, <1>4 DEF Next, UserStep

LEMMA FlagsStep == Flags /\ Next => Flags'
<1> SUFFICES ASSUME Flags, Next PROVE Flags'
  OBVIOUS
<1> USE DEF Flags
<1>1. ASSUME PollFires \/ Poll PROVE Flags'
  BY <1>1 DEF PollFires, Poll, DebugReturns, DebugResetReturns, Polled, PingReturns,
     OpeningReturns, Connecting, ResetReturns, threadVars
<1>2. ASSUME Serve PROVE Flags'
  BY <1>2 DEF Serve, threadVars
<1>3. ASSUME UserStep PROVE Flags'
  BY <1>3 DEF UserStep, Dismiss, Replug, Click, threadVars
<1>4. ASSUME NEW w \in Workers, Work(w) PROVE Flags'
  <2>1. first' \in BOOLEAN
    BY <1>4 DEF Work, mainVars
  <2>2. running' \in BOOLEAN
    BY <1>4 DEF Work, Apply, Flash
  <2>3. CASE Lock(w) \/ CheckHid(w) \/ Announce(w) \/ EnterSector(w) \/ SectorReturns(w)
    <3>1. error' = error \/ error' = [error EXCEPT ![w] = TRUE]
      BY <2>3, Zenon DEF Lock, CheckHid, Announce, EnterSector, SectorReturns, ReadSector,
         WriteSector, Fail, threadVars
    <3>2. checked' = checked
      BY <2>3, Zenon DEF Lock, CheckHid, Announce, EnterSector, SectorReturns, threadVars
    <3> QED BY <2>1, <2>2, <3>1, <3>2
  <2>4. CASE LogFailure(w) \/ Reset(w) \/ ResetDone(w) \/ Finish(w) \/ StartUpgrade(w)
             \/ Seek(w) \/ SeekReturns(w) \/ EnterBootloader(w) \/ Delegate(w) \/ Restart(w)
             \/ Apply(w) \/ Flash(w)
    <3>1. error' = error /\ checked' = checked
      BY <2>4, Zenon DEF LogFailure, Reset, ResetDone, Finish, StartUpgrade, Seek, SeekReturns,
         EnterBootloader, Delegate, Restart, Apply, Flash, threadVars
    <3> QED BY <2>1, <2>2, <3>1
  <2>5. CASE CompareFirmware(w) \/ LookForBootloader(w)
    <3>1. /\ error' = error
          /\ checked' = checked \/ checked' = [checked EXCEPT ![w] = TRUE]
      BY <2>5, Zenon DEF CompareFirmware, LookForBootloader, Refuse
    <3> QED BY <2>1, <2>2, <3>1
  <2> QED BY <1>4, <2>3, <2>4, <2>5 DEF Work
<1> QED BY <1>1, <1>2, <1>3, <1>4 DEF Next, UserStep

LEMMA TimersStep == Timers /\ Next => Timers'
<1> SUFFICES ASSUME Timers, Next PROVE Timers'
  OBVIOUS
<1>1. ASSUME UNCHANGED << timers, pollTimer >> PROVE Timers'
  BY <1>1 DEF Timers
<1>2. CASE Serve
  <2>1. startTimer \/ stopTimer \/ UNCHANGED << timers, pollTimer >>
    BY <1>2, Zenon DEF Serve, timerVars
  <2>2. CASE startTimer
    BY <2>2 DEF startTimer, Timers
  <2>3. CASE stopTimer
    BY <2>3 DEF stopTimer, Timers
  <2> QED BY <1>1, <2>1, <2>2, <2>3
<1>3. CASE MainStep \/ UserStep
  BY <1>1, <1>3 DEF MainStep, UserStep, PollFires, Poll, Dismiss, Replug, Click
<1>4. ASSUME NEW w \in Workers, Work(w) PROVE Timers'
  BY <1>1, <1>4 DEF Work, mainVars
<1> QED BY <1>2, <1>3, <1>4 DEF Next, MainStep, UserStep

-----------------------------------------------------------------------------
(* What a step of a worker does to the queue, and where it takes it. *)

Holding == {"checks", "announces", "enters", "transfers", "applies", "fails", "resets",
            "reopens", "finishes"}
Flashing == {"seeks", "connects", "compares", "reboots", "looks", "flashes", "flashed",
             "reopensFlashed", "delegates", "restarts"}
Busy(w) == pc[w] \in Holding \cup Flashing

\* It waits for nobody,
Quiet(w) ==
  /\ Busy(w) /\ pc[w] # "restarts"
  /\ Busy(w)' /\ pc'[w] # "restarts"
  /\ UNCHANGED << queue, blocked, lock >>

\* has a step logged, or its upgrade stop the timer,
Logs(w) ==
  /\ pc[w] # "restarts"
  /\ Busy(w)' /\ pc'[w] # "restarts"
  /\ \/ Busy(w) /\ queue' = Append(queue, Entry("log", w))
     \/ pc[w] = "begins" /\ queue' = Append(queue, Entry("stopTimer", w))
  /\ blocked' = blocked \cup {w}
  /\ lock' = lock

\* refuses the file of its upgrade, or hands reset_hid and the timer over to
\* the main thread,
Leaves(w, from, to, sel) ==
  /\ pc[w] \in from /\ pc'[w] = to
  /\ queue' = Append(queue, Entry(sel, w))
  /\ blocked' = blocked \cup {w}
  /\ lock' = lock

\* takes the lock, or gives it back.
Locks(w) ==
  /\ pc[w] = "begins" /\ pc'[w] = "checks"
  /\ queue' = Append(queue, Entry("stopTimer", Free))
  /\ lock = Free /\ lock' = w
  /\ UNCHANGED blocked

Unlocks(w) ==
  /\ pc[w] = "finishes" /\ pc'[w] = "done"
  /\ queue' = Append(Append(queue, Entry("startTimer", Free)), Entry("panel", Free))
  /\ lock' = Free
  /\ UNCHANGED blocked

WorkKinds(w) ==
  \/ Quiet(w)
  \/ Logs(w)
  \/ Leaves(w, {"compares", "looks"}, "refused", "panel")
  \/ Leaves(w, {"delegates"}, "restarts", "reset_hid")
  \/ Leaves(w, {"restarts"}, "done", "startTimer")
  \/ Locks(w)
  \/ Unlocks(w)

LEMMA WorkIsOfAKind ==
  ASSUME Shapes, Waits, NEW w \in Workers, Work(w)
  PROVE  /\ WorkKinds(w)
         /\ w \notin blocked
         /\ \A t \in Threads \ {w} : pc'[t] = pc[t]
<1> USE DEF Shapes, Threads
<1>1. w \notin blocked /\ w \in DOMAIN pc
  BY DEF Work
<1>2. \A place : Goto(w, place) => /\ pc'[w] = place
                                 /\ \A t \in Threads \ {w} : pc'[t] = pc[t]
  BY <1>1 DEF Goto
<1>3. CASE Lock(w)
  <2>1. Post(<< "stopTimer" >>) => queue' = Append(queue, Entry("stopTimer", Free))
    BY PostIsAppend DEF Waits, Selectors
  <2> QED BY <1>1, <1>2, <1>3, <2>1 DEF Lock, Post, WorkKinds, Locks
<1>4. CASE Finish(w)
  <2>1. Post(<< "startTimer", "panel" >>) =>
          queue' = Append(Append(queue, Entry("startTimer", Free)), Entry("panel", Free))
    BY PostIsAppend DEF Waits, Selectors
  <2> QED BY <1>1, <1>2, <1>4, <2>1 DEF Finish, Post, WorkKinds, Unlocks
<1>5. CASE CheckHid(w) \/ EnterSector(w) \/ Reset(w) \/ ResetDone(w) \/ Seek(w)
           \/ SeekReturns(w) \/ EnterBootloader(w) \/ Apply(w) \/ Flash(w)
  <2>1. Quiet(w)
    BY <1>2, <1>5 DEF CheckHid, Fail, EnterSector, Reset, ResetDone, Seek, SeekReturns,
       EnterBootloader, Apply, Flash, OpenEnters, OpenFindsNone, OpenReturns, Quiet, Busy,
       Holding, Flashing
  <2>2. \A t \in Threads \ {w} : pc'[t] = pc[t]
    BY <1>2, <1>5 DEF CheckHid, Fail, EnterSector, Reset, ResetDone, Seek, SeekReturns,
       EnterBootloader, Apply, Flash, OpenEnters
  <2> QED BY <1>1, <2>1, <2>2 DEF WorkKinds
<1>6. CASE SectorReturns(w)
  <2>1. \E place \in {"applies", "announces", "fails"} : Goto(w, place)
    BY <1>6 DEF SectorReturns, ReadSector, WriteSector, Transferred, Fail
  <2>2. Quiet(w)
    BY <1>2, <1>6, <2>1 DEF SectorReturns, Quiet, Busy, Holding, Flashing
  <2> QED BY <1>1, <1>2, <2>1, <2>2 DEF WorkKinds
<1>7. CASE Announce(w) \/ LogFailure(w) \/ StartUpgrade(w)
  <2>1. Logs(w)
    BY <1>2, <1>7 DEF Announce, LogFailure, StartUpgrade, PostAndWait, Logs, Busy, Holding,
       Flashing
  <2> QED BY <1>1, <1>2, <1>7, <2>1 DEF Announce, LogFailure, StartUpgrade, WorkKinds
<1>8. CASE Delegate(w) \/ Restart(w)
  BY <1>1, <1>2, <1>8 DEF Delegate, Restart, PostAndWait, Leaves, WorkKinds
<1>9. CASE CompareFirmware(w) \/ LookForBootloader(w)
  <2>1. CASE Refuse(w)
    <3>1. pc[w] \in {"compares", "looks"} /\ lock' = lock
      BY <1>9 DEF CompareFirmware, LookForBootloader
    <3> QED BY <1>1, <1>2, <2>1, <3>1 DEF Refuse, PostAndWait, Leaves, WorkKinds
  <2>2. CASE ~Refuse(w)
    <3>1. \/ /\ pc[w] = "compares" /\ PostAndWait("log", w) /\ Goto(w, "reboots")
             /\ lock' = lock
          \/ /\ pc[w] = "looks" /\ (Goto(w, "seeks") \/ Goto(w, "flashes"))
             /\ UNCHANGED << queue, blocked, lock >>
      BY <1>9, <2>2, Zenon DEF CompareFirmware, LookForBootloader
    <3> QED BY <1>1, <1>2, <3>1 DEF PostAndWait, Logs, Quiet, Busy, Holding, Flashing, WorkKinds
  <2> QED BY <2>1, <2>2
<1> QED BY <1>3, <1>4, <1>5, <1>6, <1>7, <1>8, <1>9 DEF Work

\* What a step of the main thread that is not a selector does: it is not made
\* while the timer is stopped and no call is under way, and it unblocks nobody
\* but the thread it serves.
MainPlaces == {"idle", "polled", "debugging", "debugReset", "pinging", "opening",
               "connecting", "resetting"}

MainKind ==
  /\ pc[Main] # "idle" \/ timers # {}
  /\ pc'[Main] \in MainPlaces
  /\ \A w \in Workers : pc'[w] = pc[w]
  /\ \/ UNCHANGED << serving, blocked >>
     \/ serving' = Free /\ blocked' = blocked \ {serving}
  /\ UNCHANGED << queue, timers, pollTimer, panels, lock, job, data, error, sectors >>

LEMMA MainIsOfAKind ==
  ASSUME Shapes, MainStep PROVE MainKind
<1> USE SessionAssumption DEF Shapes, Threads, MainKind, MainPlaces
<1>1. \A place : Goto(Main, place) => /\ pc'[Main] = place
                                    /\ \A w \in Workers : pc'[w] = pc[w]
  BY DEF Goto
<1>2. CASE PollFires
  BY <1>1, <1>2 DEF PollFires, threadVars
<1>3. CASE Poll
  <2>1. UNCHANGED << queue, timers, pollTimer, panels, lock, job, data, error, sectors >>
    BY <1>3 DEF Poll, DebugReturns, DebugResetReturns, Polled, PingReturns,
     OpeningReturns, Connecting, ResetReturns, threadVars
  <2>2. /\ pc[Main] # "idle"
        /\ pc'[Main] \in MainPlaces
        /\ \A w \in Workers : pc'[w] = pc[w]
    BY <1>1, <1>3 DEF Poll, DebugReturns, DebugResetReturns, Polled, PingReturns,
     OpeningReturns, Connecting, ResetReturns, OpenEnters, OpenFindsNone
  <2>3. \/ UNCHANGED << serving, blocked >>
        \/ serving' = Free /\ blocked' = blocked \ {serving}
    BY <1>3, Zenon DEF Poll, DebugReturns, DebugResetReturns, Polled, PingReturns,
     OpeningReturns, Connecting, ResetReturns
  <2> QED BY <2>1, <2>2, <2>3
<1> QED BY <1>2, <1>3 DEF MainStep

LEMMA WaitsStep == Shapes /\ Waits /\ Next => Waits'
<1> SUFFICES ASSUME Shapes, Waits, Next PROVE Waits'
  OBVIOUS
<1>1. CASE MainStep
  BY <1>1, MainIsOfAKind DEF MainKind, Waits
<1>2. CASE Serve
  <2>1. /\ queue # << >> /\ queue' = Tail(queue)
        /\ Head(queue) \in Entries /\ Tail(queue) \in Seq(Entries)
    BY <1>2, Served DEF Serve, Waits
  <2>2. Head(queue).wakes \in Workers \cup {Free}
    BY <2>1 DEF Entries
  <2>3. /\ panels' = panels \/ panels' = Append(panels, Head(queue).wakes)
        /\ serving' = serving \/ serving' = Head(queue).wakes
        /\ blocked' = blocked \/ blocked' = blocked \ {Head(queue).wakes}
    BY <1>2, Zenon DEF Serve
  <2>4. Append(panels, Head(queue).wakes) \in Seq(Workers \cup {Free})
    BY <2>2, AppendProperties DEF Waits
  <2> QED BY <2>1, <2>2, <2>3, <2>4 DEF Waits
<1>3. CASE Dismiss
  <2>1. SubSeq(panels, 1, Len(panels) - 1) \in Seq(Workers \cup {Free})
    BY <1>3 DEF Dismiss, Waits
  <2> QED BY <1>3, <2>1 DEF Dismiss, Waits
<1>4. CASE Replug
  BY <1>4 DEF Replug, Waits
<1>5. ASSUME NEW w \in Workers, NEW kind \in Kinds, Click(w, kind) PROVE Waits'
  BY <1>5 DEF Click, Waits
<1>6. ASSUME NEW w \in Workers, Work(w) PROVE Waits'
  <2>1. WorkKinds(w)
    BY <1>6, WorkIsOfAKind
  <2>2. panels' = panels /\ serving' = serving
    BY <1>6 DEF Work, mainVars
  <2>3. \A sel \in Selectors, v \in Workers \cup {Free} :
          Append(queue, Entry(sel, v)) \in Seq(Entries)
    BY Posted DEF Waits
  <2>4. queue' \in Seq(Entries)
    <3>1. CASE Unlocks(w)
      <4>1. Append(queue, Entry("startTimer", Free)) \in Seq(Entries)
        BY <2>3 DEF Selectors
      <4> QED BY <3>1, <4>1, Posted DEF Unlocks, Selectors
    <3>2. CASE ~Unlocks(w)
      BY <2>1, <2>3, <3>2 DEF WorkKinds, Quiet, Logs, Leaves, Locks, Selectors, Waits
    <3> QED BY <3>1, <3>2
  <2>5. blocked' = blocked \/ blocked' = blocked \cup {w}
    BY <2>1, Zenon DEF WorkKinds, Quiet, Logs, Leaves, Locks, Unlocks
  <2> QED BY <2>2, <2>4, <2>5 DEF Waits
<1> QED BY <1>1, <1>2, <1>3, <1>4, <1>5, <1>6 DEF Next, MainStep

\* The variables have their types.
THEOREM SessionTypes == Spec => []TypeOK
<1>1. Init => Types
  <2>1. ASSUME Init PROVE Shapes
    BY <2>1 DEF Init, Shapes, Threads
  <2>2. ASSUME Init PROVE Waits /\ Timers
    BY <2>2, EmptySeq DEF Init, Waits, Timers
  <2>3. ASSUME Init PROVE Flags
    BY <2>3 DEF Init, Flags
  <2> QED BY <2>1, <2>2, <2>3 DEF Types
<1>2. Types /\ [Next]_vars => Types'
  <2>1. Types /\ Next => Types'
    BY ShapesStep, WaitsStep, TimersStep, FlagsStep DEF Types
  <2>2. Types /\ UNCHANGED vars => Types'
    BY DEF Types, Shapes, Waits, Timers, Flags, vars
  <2> QED BY <2>1, <2>2
<1> QED BY <1>1, <1>2, TypesIsTypeOK, PTL DEF Spec

-----------------------------------------------------------------------------
(* Where the threads are.  A worker past the lock holds it; an upgrade takes *)
(* none, and it is the user who leaves it alone.                             *)

AtRest(w) == pc[w] = "unborn" \/ Ended(w)

Places ==
  /\ pc[Main] \in MainPlaces
  /\ \A w \in Workers :
       /\ pc[w] \in {"unborn", "begins", "done", "refused"} \cup Holding \cup Flashing
       /\ pc[w] # "unborn" => job[w] \in {"load", "save", "upgrade"}
       /\ pc[w] \in Holding => lock = w /\ job[w] # "upgrade"
       /\ pc[w] \in Flashing => job[w] = "upgrade"

\* The user does, or upgrades nothing.
LeftAlone == Patient \/ "upgrade" \notin Kinds

Alone ==
  \A w \in Workers : job[w] = "upgrade" /\ ~Ended(w) => \A v \in Workers \ {w} : AtRest(v)

\* A job keeps its kind and goes through the places of its kind.
LEMMA WorkKeepsPlaces ==
  ASSUME Shapes, NEW w \in Workers, Work(w)
  PROVE  /\ job' = job
         /\ \/ /\ pc[w] = "begins" /\ job[w] # "upgrade" /\ pc'[w] = "checks"
               /\ lock = Free /\ lock' = w
            \/ /\ pc[w] = "begins" /\ job[w] = "upgrade" /\ pc'[w] = "seeks" /\ lock' = lock
            \/ /\ pc[w] \in Holding /\ pc'[w] \in Holding /\ lock' = lock
            \/ /\ pc[w] = "finishes" /\ pc'[w] = "done" /\ lock' = Free
            \/ /\ pc[w] \in Flashing /\ pc'[w] \in Flashing \cup {"done", "refused"}
               /\ lock' = lock
<1> USE DEF Shapes, Threads
<1>1. \A place : Goto(w, place) => pc'[w] = place
  BY DEF Goto
<1>2. CASE Lock(w) \/ CheckHid(w) \/ Announce(w) \/ EnterSector(w)
  BY <1>1, <1>2 DEF Lock, CheckHid, Fail, Announce, EnterSector, threadVars, Holding
<1>3. CASE SectorReturns(w)
  BY <1>1, <1>3 DEF SectorReturns, ReadSector, WriteSector, Transferred, Fail, Holding
<1>4. CASE LogFailure(w) \/ Reset(w) \/ ResetDone(w) \/ Finish(w)
  BY <1>1, <1>4 DEF LogFailure, Reset, ResetDone, Finish, OpenEnters, OpenFindsNone,
     OpenReturns, threadVars, Holding, Flashing
<1>5. CASE StartUpgrade(w) \/ Seek(w) \/ SeekReturns(w) \/ CompareFirmware(w)
  BY <1>1, <1>5 DEF StartUpgrade, Seek, SeekReturns, CompareFirmware, Refuse, OpenEnters,
     OpenFindsNone, OpenReturns, threadVars, Flashing
<1>6. CASE EnterBootloader(w) \/ LookForBootloader(w) \/ Delegate(w) \/ Restart(w)
  BY <1>1, <1>6 DEF EnterBootloader, LookForBootloader, Refuse, Delegate, Restart, threadVars,
     Flashing
<1>7. CASE Apply(w) \/ Flash(w)
  BY <1>1, <1>7 DEF Apply, Flash, threadVars, Holding, Flashing
<1> QED BY <1>2, <1>3, <1>4, <1>5, <1>6, <1>7 DEF Work

\* No two jobs are under way at once: the lock, or the user's patience.
LEMMA OneBusy ==
  ASSUME SessionAssumption, Places, Alone, NEW v \in Workers, NEW w \in Workers,
         Busy(v), Busy(w) \/ (pc[w] = "begins" /\ (lock = Free \/ job[w] = "upgrade"))
  PROVE  v = w
<1>1. CASE job[v] = "upgrade" \/ job[w] = "upgrade"
  <2>1. ~AtRest(v) /\ ~AtRest(w) /\ ~Ended(v) /\ ~Ended(w)
    BY DEF AtRest, Ended, Busy, Holding, Flashing
  <2> QED BY <1>1, <2>1 DEF Alone
<1>2. CASE job[v] # "upgrade" /\ job[w] # "upgrade"
  BY <1>2 DEF Places, Busy
<1> QED BY <1>1, <1>2

\* So a worker that is busy is the only one that takes steps.
LEMMA BusyWorksAlone ==
  ASSUME SessionAssumption, Shapes, Places, Alone,
         NEW v \in Workers, NEW w \in Workers, Work(v), Busy(w)
  PROVE  v = w
<1>1. Busy(v) \/ (pc[v] = "begins" /\ (lock = Free \/ job[v] = "upgrade"))
  BY WorkKeepsPlaces DEF Busy, Holding
<1> QED BY <1>1, OneBusy

LEMMA PlacesStep ==
  ASSUME Shapes, Waits, Places, Next PROVE Places'
<1> USE SessionAssumption DEF Shapes, Threads
<1>1. ASSUME pc' = pc, job' = job, lock' = lock PROVE Places'
  BY <1>1 DEF Places
<1>2. CASE MainStep
  BY <1>2, MainIsOfAKind DEF MainKind, Places
<1>3. CASE Serve
  <2>1. pc' = pc \/ Goto(Main, "resetting")
    BY <1>3, Zenon DEF Serve, OpenEnters
  <2>2. job' = job /\ lock' = lock
    BY <1>3 DEF Serve, threadVars
  <2> QED BY <2>1, <2>2 DEF Goto, Places, MainPlaces
<1>4. CASE Dismiss \/ Replug
  BY <1>1, <1>4 DEF Dismiss, Replug, threadVars
<1>5. ASSUME NEW w \in Workers, NEW kind \in Kinds, Click(w, kind) PROVE Places'
  <2>1. /\ pc'[w] = "begins" /\ job'[w] = kind
        /\ \A t \in Threads \ {w} : pc'[t] = pc[t]
        /\ \A t \in Workers \ {w} : job'[t] = job[t]
        /\ lock' = lock
    BY <1>5 DEF Click, Goto
  <2> QED BY <2>1 DEF Places, Holding, Flashing
<1>6. ASSUME NEW w \in Workers, Work(w) PROVE Places'
  <2>1. job' = job /\ \A t \in Threads \ {w} : pc'[t] = pc[t]
    BY <1>6, WorkKeepsPlaces, WorkIsOfAKind
  <2>2. pc'[Main] \in MainPlaces
    BY <2>1 DEF Places
  <2>3. ASSUME NEW v \in Workers, v # w, pc[v] \in Holding PROVE lock' = v
    BY <1>6, <2>3, WorkKeepsPlaces DEF Places, Holding
  <2>4. /\ pc'[w] \in {"done", "refused"} \cup Holding \cup Flashing
        /\ pc[w] # "unborn"
        /\ pc'[w] \in Holding => lock' = w /\ job[w] # "upgrade"
        /\ pc'[w] \in Flashing => job[w] = "upgrade"
    BY <1>6, WorkKeepsPlaces DEF Places, Holding, Flashing
  <2> QED BY <2>1, <2>2, <2>3, <2>4 DEF Places
<1> QED BY <1>2, <1>3, <1>4, <1>5, <1>6 DEF Next, MainStep

LEMMA AloneStep ==
  ASSUME Shapes, Waits, Places, Alone, LeftAlone, Next PROVE Alone'
<1> USE SessionAssumption DEF Shapes, Threads
<1>1. ASSUME \A w \in Workers : pc'[w] = pc[w], job' = job PROVE Alone'
  BY <1>1 DEF Alone, AtRest, Ended
<1>2. CASE MainStep
  BY <1>1, <1>2, MainIsOfAKind DEF MainKind
<1>3. CASE Serve
  <2>1. pc' = pc \/ Goto(Main, "resetting")
    BY <1>3, Zenon DEF Serve, OpenEnters
  <2>2. job' = job
    BY <1>3 DEF Serve, threadVars
  <2> QED BY <1>1, <2>1, <2>2 DEF Goto
<1>4. CASE Dismiss \/ Replug
  BY <1>1, <1>4 DEF Dismiss, Replug, threadVars
<1>5. ASSUME NEW w \in Workers, NEW kind \in Kinds, Click(w, kind) PROVE Alone'
  <2>1. /\ pc'[w] = "begins" /\ job'[w] = kind
        /\ \A t \in Workers \ {w} : pc'[t] = pc[t] /\ job'[t] = job[t]
    BY <1>5 DEF Click, Goto
  <2>2. CASE Patient
    <3>1. ~Upgrading /\ (kind = "upgrade" => AllAtRest)
      BY <1>5, <2>2 DEF Click
    <3>2. ASSUME NEW v \in Workers, v # w PROVE job'[v] = "upgrade" => Ended(v)'
      BY <2>1, <3>1, <3>2 DEF Upgrading, Ended
    <3> QED BY <2>1, <3>1, <3>2 DEF Alone, AllAtRest, AtRest, Ended
  <2>3. CASE "upgrade" \notin Kinds
    BY <2>1, <2>3 DEF Alone
  <2> QED BY <2>2, <2>3 DEF LeftAlone
<1>6. ASSUME NEW w \in Workers, Work(w) PROVE Alone'
  <2>1. job' = job /\ \A t \in Workers \ {w} : pc'[t] = pc[t]
    BY <1>6, WorkKeepsPlaces, WorkIsOfAKind
  <2>2. ~AtRest(w)
    BY <1>6, WorkKeepsPlaces DEF AtRest, Ended, Holding, Flashing
  <2> QED BY <2>1, <2>2 DEF Alone, AtRest, Ended
<1> QED BY <1>2, <1>3, <1>4, <1>5, <1>6 DEF Next, MainStep

-----------------------------------------------------------------------------
(* Who waits for what.  A worker that has not parted from its job waits, if  *)
(* at all, for the last selector of the queue, a log or its stopTimer.       *)

Parted(w) == w = Free \/ pc[w] = "restarts" \/ Ended(w)

Awaited(i) ==
  /\ queue[i].wakes \in blocked
  /\ Busy(queue[i].wakes)
  /\ i = Len(queue)
  /\ queue[i].sel \in {"log", "stopTimer"}

Wakes ==
  /\ \A i \in 1..Len(queue) : Parted(queue[i].wakes) \/ Awaited(i)
  /\ \A i \in 1..Len(panels) : Parted(panels[i])
  /\ Parted(serving)

\* Only Click and its own steps move a worker.
LEMMA OthersKeepPlaces ==
  ASSUME Shapes, MainStep \/ Serve \/ Dismiss \/ Replug
  PROVE  job' = job /\ \A w \in Workers : pc'[w] = pc[w]
<1> USE SessionAssumption DEF Shapes, Threads
<1>1. CASE MainStep
  BY <1>1, MainIsOfAKind DEF MainKind
<1>2. CASE Serve
  <2>1. pc' = pc \/ Goto(Main, "resetting")
    BY <1>2, Zenon DEF Serve, OpenEnters
  <2>2. job' = job
    BY <1>2 DEF Serve, threadVars
  <2> QED BY <2>1, <2>2 DEF Goto
<1>3. CASE Dismiss \/ Replug
  BY <1>3 DEF Dismiss, Replug, threadVars
<1> QED BY <1>1, <1>2, <1>3

LEMMA PartedForGood ==
  ASSUME Shapes, Waits, Next, NEW w \in Workers \cup {Free}, Parted(w)
  PROVE  Parted(w)'
<1> USE SessionAssumption DEF Parted, Ended
<1>1. CASE w = Free
  BY <1>1
<1>2. CASE w \in Workers
  <2>1. CASE MainStep \/ Serve \/ Dismiss \/ Replug
    BY <1>2, <2>1, OthersKeepPlaces
  <2>2. ASSUME NEW v \in Workers, NEW kind \in Kinds, Click(v, kind) PROVE Parted(w)'
    <3>1. v # w /\ pc'[w] = pc[w]
      BY <1>1, <1>2, <2>2 DEF Click, Goto, Shapes, Threads
    <3> QED BY <3>1
  <2>3. ASSUME NEW v \in Workers, Work(v) PROVE Parted(w)'
    <3>1. CASE v # w
      BY <1>2, <2>3, <3>1, WorkIsOfAKind DEF Threads
    <3>2. CASE v = w
      <4>1. pc[w] = "restarts"
        BY <1>2, <2>3, <3>2, WorkKeepsPlaces DEF Holding, Flashing
      <4>2. pc'[w] = "done"
        BY <2>3, <3>2, <4>1, WorkIsOfAKind DEF WorkKinds, Quiet, Logs, Leaves, Locks, Unlocks
      <4> QED BY <4>2
    <3> QED BY <3>1, <3>2
  <2> QED BY <2>1, <2>2, <2>3 DEF Next, MainStep
<1> QED BY <1>1, <1>2

\* The entries of the queue, the panels and the thread served are threads.
LEMMA WaitTypes ==
  ASSUME Waits
  PROVE  /\ Len(queue) \in Nat /\ Len(panels) \in Nat
         /\ \A i \in 1..Len(queue) : /\ queue[i].wakes \in Workers \cup {Free}
                                    /\ queue[i].sel \in Selectors
         /\ \A i \in 1..Len(panels) : panels[i] \in Workers \cup {Free}
<1>1. \A i \in 1..Len(queue) : queue[i] \in Entries
  BY ElementOfSeq DEF Waits
<1>2. \A e \in Entries : e.wakes \in Workers \cup {Free} /\ e.sel \in Selectors
  BY DEF Entries
<1> QED BY <1>1, <1>2, ElementOfSeq, LenProperties DEF Waits

\* A step that leaves the queue alone and unblocks only who has parted.
LEMMA WakesKept ==
  ASSUME SessionAssumption, Shapes, Waits, Wakes, Next,
         queue' = queue, NEW x, Parted(x), blocked \ {x} \subseteq blocked',
         \A w \in Workers : Busy(w) => Busy(w)',
         panels' = panels \/ \E n \in Nat : n <= Len(panels) /\ panels' = SubSeq(panels, 1, n),
         serving' = serving \/ serving' = Free
  PROVE  Wakes'
<1>1. \A w \in Workers \cup {Free} : Parted(w) => Parted(w)'
  BY PartedForGood
<1>2. ASSUME NEW i \in 1..Len(queue') PROVE Parted(queue[i].wakes)' \/ Awaited(i)'
  <2>1. i \in 1..Len(queue) /\ queue[i].wakes \in Workers \cup {Free}
    BY <1>2, WaitTypes
  <2>2. CASE Parted(queue[i].wakes)
    BY <1>1, <2>1, <2>2 DEF Parted, Ended
  <2>3. CASE ~Parted(queue[i].wakes)
    <3>1. Awaited(i) /\ queue[i].wakes \in Workers /\ queue[i].wakes # x
      BY <2>1, <2>3 DEF Wakes, Parted
    <3> QED BY <3>1 DEF Awaited, Busy
  <2> QED BY <2>2, <2>3
<1>3. ASSUME NEW i \in 1..Len(panels') PROVE Parted(panels[i])'
  <2>1. i \in 1..Len(panels) /\ panels'[i] = panels[i]
    BY <1>3, WaitTypes DEF Waits
  <2>2. panels[i] \in Workers \cup {Free} /\ Parted(panels[i])
    BY <2>1, WaitTypes DEF Wakes
  <2> QED BY <1>1, <2>1, <2>2 DEF Parted, Ended
<1>4. Parted(serving)'
  BY <1>1 DEF Wakes, Waits, Parted, Ended
<1> QED BY <1>2, <1>3, <1>4 DEF Wakes

\* n selectors are posted, one or two.
Posts(n) ==
  /\ Len(queue') = Len(queue) + n
  /\ \A i \in 1..Len(queue) : queue'[i] = queue[i]

LEMMA PostedOne ==
  ASSUME Waits, NEW a \in Selectors, NEW w \in Workers \cup {Free},
         queue' = Append(queue, Entry(a, w))
  PROVE  Posts(1) /\ queue'[Len(queue) + 1] = Entry(a, w)
  BY Posted DEF Waits, Posts

LEMMA PostedTwo ==
  ASSUME Waits, NEW a \in Selectors, NEW b \in Selectors,
         queue' = Append(Append(queue, Entry(a, Free)), Entry(b, Free))
  PROVE  /\ Posts(2)
         /\ queue'[Len(queue) + 1] = Entry(a, Free)
         /\ queue'[Len(queue) + 2] = Entry(b, Free)
<1> DEFINE q == Append(queue, Entry(a, Free))
<1>1. /\ q \in Seq(Entries) /\ Len(q) = Len(queue) + 1
      /\ \A i \in 1..Len(queue) : q[i] = queue[i]
      /\ q[Len(queue) + 1] = Entry(a, Free)
  BY Posted DEF Waits
<1> HIDE DEF q
<1>2. /\ Len(Append(q, Entry(b, Free))) = Len(q) + 1
      /\ \A i \in 1..Len(q) : Append(q, Entry(b, Free))[i] = q[i]
      /\ Append(q, Entry(b, Free))[Len(q) + 1] = Entry(b, Free)
  BY <1>1, Posted
<1>3. queue' = Append(q, Entry(b, Free))
  BY DEF q
<1> QED BY <1>1, <1>2, <1>3, WaitTypes DEF Posts

LEMMA WakesStep ==
  ASSUME Shapes, Waits, Places, Alone, Wakes, Next PROVE Wakes'
<1> USE SessionAssumption
<1>1. \A w \in Workers \cup {Free} : Parted(w) => Parted(w)'
  BY PartedForGood
<1>2. Parted(Free) /\ Parted(Free)'
  BY DEF Parted
<1>3. CASE MainStep
  <2>1. MainKind
    BY <1>3, MainIsOfAKind
  <2>2. blocked \ {serving} \subseteq blocked' /\ Parted(serving)
    BY <2>1 DEF MainKind, Wakes
  <2>3. queue' = queue /\ panels' = panels /\ (serving' = serving \/ serving' = Free)
    BY <2>1, Zenon DEF MainKind
  <2>4. \A w \in Workers : Busy(w) => Busy(w)'
    BY <2>1 DEF MainKind, Busy
  <2> QED BY <2>2, <2>3, <2>4, WakesKept
<1>4. CASE Dismiss
  <2>1. Len(panels) - 1 \in Nat /\ Len(panels) \in 1..Len(panels)
    BY <1>4, EmptySeq, WaitTypes DEF Dismiss, Waits
  <2>2. Parted(panels[Len(panels)])
    BY <2>1 DEF Wakes
  <2>3. \E n \in Nat : n <= Len(panels) /\ panels' = SubSeq(panels, 1, n)
    BY <1>4, <2>1 DEF Dismiss
  <2>4. \A w \in Workers : Busy(w) => Busy(w)'
    BY <1>4, OthersKeepPlaces DEF Busy
  <2>5. /\ queue' = queue /\ serving' = serving
        /\ blocked \ {panels[Len(panels)]} \subseteq blocked'
    BY <1>4 DEF Dismiss
  <2> QED BY <2>2, <2>3, <2>4, <2>5, WakesKept
<1>5. CASE Replug
  <2>1. \A w \in Workers : Busy(w) => Busy(w)'
    BY <1>5, OthersKeepPlaces DEF Busy
  <2>2. queue' = queue /\ panels' = panels /\ serving' = serving /\ blocked' = blocked
    BY <1>5 DEF Replug
  <2> QED BY <1>2, <2>1, <2>2, WakesKept
<1>6. ASSUME NEW v \in Workers, NEW kind \in Kinds, Click(v, kind) PROVE Wakes'
  <2>1. \A w \in Workers : Busy(w) => Busy(w)'
    BY <1>6 DEF Click, Goto, Busy, Holding, Flashing, Shapes, Threads
  <2>2. queue' = queue /\ panels' = panels /\ serving' = serving /\ blocked' = blocked
    BY <1>6 DEF Click
  <2> QED BY <1>2, <2>1, <2>2, WakesKept
<1>7. CASE Serve
  <2>1. /\ Len(queue) \in Nat \ {0} /\ Len(queue') = Len(queue) - 1
        /\ \A i \in 1..Len(queue') : queue'[i] = queue[i + 1]
        /\ Head(queue) = queue[1]
    BY <1>7, Served DEF Serve, Waits
  <2>2. \A w \in Workers : pc'[w] = pc[w]
    BY <1>7, OthersKeepPlaces
  <2>3. /\ blocked \ {queue[1].wakes} \subseteq blocked'
        /\ panels' = panels \/ (queue[1].sel = "panel" /\ panels' = Append(panels, queue[1].wakes))
        /\ serving' = serving \/ (queue[1].sel = "reset_hid" /\ serving' = queue[1].wakes)
    BY <1>7, <2>1 DEF Serve
  <2>4. /\ 1 \in 1..Len(queue)
        /\ queue[1].sel \in {"panel", "reset_hid"} => Parted(queue[1].wakes)
    BY <2>1 DEF Wakes, Awaited
  <2>5. ASSUME NEW i \in 1..Len(queue') PROVE Parted(queue[i].wakes)' \/ Awaited(i)'
    <3>1. i + 1 \in 1..Len(queue) /\ queue'[i] = queue[i + 1]
      BY <2>1
    <3>2. CASE Parted(queue[i + 1].wakes)
      BY <1>1, <3>1, <3>2, WaitTypes DEF Parted, Ended
    <3>3. CASE ~Parted(queue[i + 1].wakes)
      <4>1. Awaited(i + 1) /\ queue[i + 1].wakes \in Workers
        BY <3>1, <3>3, WaitTypes DEF Wakes, Parted
      <4>2. queue[1].wakes # queue[i + 1].wakes
        BY <2>1, <2>4, <3>3, <4>1 DEF Wakes, Awaited
      <4>3. i = Len(queue')
        BY <2>1, <4>1 DEF Awaited
      <4> QED BY <2>2, <2>3, <3>1, <4>1, <4>2, <4>3 DEF Awaited, Busy
    <3> QED BY <3>2, <3>3
  <2>6. ASSUME NEW i \in 1..Len(panels') PROVE Parted(panels[i])'
    <3>1. \/ i \in 1..Len(panels) /\ panels'[i] = panels[i]
          \/ queue[1].sel = "panel" /\ panels'[i] = queue[1].wakes
      <4>1. CASE panels' = panels
        BY <2>6, <4>1
      <4>2. CASE panels' = Append(panels, queue[1].wakes) /\ queue[1].sel = "panel"
        <5>1. panels \in Seq(Workers \cup {Free}) /\ queue[1].wakes \in Workers \cup {Free}
          BY <2>4, WaitTypes DEF Waits
        <5>2. /\ Len(panels') = Len(panels) + 1
              /\ \A k \in 1..Len(panels) : panels'[k] = panels[k]
              /\ panels'[Len(panels) + 1] = queue[1].wakes
          BY <4>2, <5>1, AppendProperties
        <5> QED BY <2>6, <4>2, <5>2, WaitTypes
      <4> QED BY <2>3, <4>1, <4>2
    <3> QED BY <1>1, <2>4, <3>1, WaitTypes DEF Wakes, Parted, Ended
  <2>7. Parted(serving)'
    BY <1>1, <2>3, <2>4, WaitTypes DEF Wakes, Waits, Parted, Ended
  <2> QED BY <2>5, <2>6, <2>7 DEF Wakes
<1>8. ASSUME NEW v \in Workers, Work(v) PROVE Wakes'
  <2>1. /\ WorkKinds(v) /\ v \notin blocked
        /\ \A w \in Workers \ {v} : pc'[w] = pc[w]
    BY <1>8, WorkIsOfAKind DEF Threads
  <2>2. panels' = panels /\ serving' = serving
    BY <1>8 DEF Work, mainVars
  <2>3. \A i \in 1..Len(queue) : Parted(queue[i].wakes)
    BY <1>8, <2>1, BusyWorksAlone, WaitTypes DEF Wakes, Awaited, Parted
  <2>4. /\ \A i \in 1..Len(queue) : queue'[i] = queue[i]
        /\ Len(queue') \in Nat
        /\ \A i \in 1..Len(queue') : i > Len(queue) => Parted(queue[i].wakes)' \/ Awaited(i)'
    <3>1. CASE Quiet(v)
      BY <3>1, WaitTypes DEF Quiet
    <3>2. CASE Unlocks(v)
      BY <1>2, <3>2, PostedTwo, WaitTypes DEF Unlocks, Posts, Entry, Selectors
    <3>3. CASE ~Quiet(v) /\ ~Unlocks(v)
      <4>1. PICK sel \in Selectors, w \in {v, Free} :
              /\ queue' = Append(queue, Entry(sel, w))
              /\ \/ w = Free \/ Parted(v)'
                 \/ Logs(v) /\ sel \in {"log", "stopTimer"}
        BY <2>1, <3>3 DEF WorkKinds, Logs, Leaves, Locks, Selectors, Parted, Ended
      <4>2. /\ Posts(1)
            /\ queue'[Len(queue) + 1].wakes = w /\ queue'[Len(queue) + 1].sel = sel
        BY <4>1, PostedOne DEF Entry
      <4>3. (Parted(queue[Len(queue)].wakes) \/ Awaited(Len(queue)))'
        BY <1>2, <4>1, <4>2 DEF Posts, Awaited, Logs, Parted, Ended, Busy
      <4>4. /\ Len(queue) \in Nat
            /\ \A i \in 1..Len(queue') : i > Len(queue) => i = Len(queue')
        BY <4>2, WaitTypes DEF Posts
      <4> QED BY <4>2, <4>3, <4>4 DEF Posts, Awaited
    <3> QED BY <3>1, <3>2, <3>3
  <2>5. \A i \in 1..Len(queue') : Parted(queue[i].wakes)' \/ Awaited(i)'
    BY <1>1, <2>3, <2>4, WaitTypes DEF Parted, Ended
  <2> QED BY <1>1, <2>2, <2>5, WaitTypes DEF Wakes, Waits, Parted, Ended
<1> QED BY <1>3, <1>4, <1>5, <1>6, <1>7, <1>8 DEF Next, MainStep

-----------------------------------------------------------------------------
(* The poll timer, in terms of the queue: what the selectors ahead of a place *)
(* will have made of it once they are served.                                *)

Stops(i) == queue[i].sel = "stopTimer"
Starts(i) == queue[i].sel = "startTimer"

\* It will be stopped when the selector at n is served,
OffAt(n) ==
  /\ timers = {} \/ \E k \in 1..(n - 1) : Stops(k)
  /\ \A j \in 1..(n - 1) : Starts(j) => \E k \in (j + 1)..(n - 1) : Stops(k)

\* or running.
OnAt(n) ==
  \/ timers # {} /\ \A k \in 1..(n - 1) : ~Stops(k)
  \/ \E j \in 1..(n - 1) : Starts(j) /\ \A k \in (j + 1)..(n - 1) : ~Stops(k)

SomeBusy == \E w \in Workers : Busy(w)
SomeRefused == \E w \in Workers : pc[w] = "refused"

Timed ==
  /\ timers \subseteq {pollTimer}
  /\ \A i \in 1..Len(queue) : Starts(i) => OffAt(i)
  /\ SomeBusy => OffAt(Len(queue) + 1)
  /\ SomeBusy \/ SomeRefused \/ OnAt(Len(queue) + 1)

\* What is posted changes nothing for the selectors ahead of it.
LEMMA AheadKept ==
  ASSUME Len(queue) \in Nat, timers' = timers,
         \A i \in 1..Len(queue) : queue'[i] = queue[i],
         NEW n \in 1..(Len(queue) + 1)
  PROVE  (OffAt(n) => OffAt(n)') /\ (OnAt(n) => OnAt(n)')
<1>1. \A i \in 1..Len(queue) : (Stops(i)' <=> Stops(i)) /\ (Starts(i)' <=> Starts(i))
  BY DEF Stops, Starts
<1>2. /\ \A i \in 1..(n - 1) : i \in 1..Len(queue)
      /\ \A j \in 1..(n - 1) : \A k \in (j + 1)..(n - 1) : k \in 1..Len(queue)
  OBVIOUS
<1>3. /\ \A i \in 1..(n - 1) : (Stops(i)' <=> Stops(i)) /\ (Starts(i)' <=> Starts(i))
      /\ \A j \in 1..(n - 1) : \A k \in (j + 1)..(n - 1) : Stops(k)' <=> Stops(k)
  BY <1>1, <1>2
<1>4. OffAt(n) => OffAt(n)'
  BY <1>3 DEF OffAt
<1>5. OnAt(n) => OnAt(n)'
  BY <1>3 DEF OnAt
<1> QED BY <1>4, <1>5

\* A selector that is none of the two changes nothing either; a start turns
\* the timer on; a stop turns it off.
LEMMA OneMore ==
  ASSUME timers' = timers, NEW n \in Nat \ {0}, n = Len(queue) + 1, Posts(1)
  PROVE  /\ ~Starts(n)' /\ OffAt(n) => OffAt(n + 1)'
         /\ Stops(n)' /\ ~Starts(n)' => OffAt(n + 1)'
         /\ Starts(n)' => OnAt(n + 1)'
         /\ ~Stops(n)' /\ OnAt(n) => OnAt(n + 1)'
<1>1. n \in 1..(Len(queue) + 1) /\ Len(queue) \in Nat
  BY LenProperties
<1>2. (OffAt(n) => OffAt(n)') /\ (OnAt(n) => OnAt(n)')
  BY <1>1, AheadKept DEF Posts
<1>3. /\ \A k : k \in 1..n <=> (k \in 1..(n - 1) \/ k = n)
      /\ \A j \in 1..(n - 1) : \A k : k \in (j + 1)..n <=> (k \in (j + 1)..(n - 1) \/ k = n)
      /\ (n + 1) - 1 = n
      /\ (n + 1)..n = {}
  OBVIOUS
<1>4. ~Starts(n)' /\ OffAt(n)' => OffAt(n + 1)'
  BY <1>3 DEF OffAt
<1>5. Stops(n)' /\ ~Starts(n)' => OffAt(n + 1)'
  BY <1>3 DEF OffAt
<1>6. Starts(n)' => OnAt(n + 1)'
  BY <1>3 DEF OnAt
<1>7. ~Stops(n)' /\ OnAt(n)' => OnAt(n + 1)'
  BY <1>3 DEF OnAt
<1> QED BY <1>2, <1>4, <1>5, <1>6, <1>7

\* The selector at the head is served, and does what it will have done for
\* those behind it.
LEMMA OneServed ==
  ASSUME Len(queue) \in Nat \ {0}, NEW n \in 1..Len(queue),
         \A i \in 1..(Len(queue) - 1) : queue'[i] = queue[i + 1],
         Stops(1) => ~Starts(1) /\ timers' = {},
         Starts(1) => timers' # {},
         ~Stops(1) /\ ~Starts(1) => timers' = timers
  PROVE  (OffAt(n + 1) => OffAt(n)') /\ (OnAt(n + 1) => OnAt(n)')
<1>1. \A i \in 1..(n - 1) : (Stops(i)' <=> Stops(i + 1)) /\ (Starts(i)' <=> Starts(i + 1))
  BY DEF Stops, Starts
<1>2. (n + 1) - 1 = n /\ 1 \in 1..n
  OBVIOUS
<1>3. ASSUME NEW j \in 0..(n - 1), NEW k \in (j + 2)..n, Stops(k)
      PROVE  \E i \in (j + 1)..(n - 1) : Stops(i)'
  <2>1. k - 1 \in (j + 1)..(n - 1) /\ k - 1 \in 1..(n - 1) /\ (k - 1) + 1 = k
    OBVIOUS
  <2> QED BY <1>1, <1>3, <2>1
<1>4. ASSUME NEW j \in 0..(n - 1), \A k \in (j + 2)..n : ~Stops(k)
      PROVE  \A i \in (j + 1)..(n - 1) : ~Stops(i)'
  <2>1. \A i \in (j + 1)..(n - 1) : i \in 1..(n - 1) /\ i + 1 \in (j + 2)..n
    OBVIOUS
  <2> QED BY <1>1, <1>4, <2>1
<1>5. ASSUME OffAt(n + 1) PROVE OffAt(n)'
  <2>1. /\ timers = {} \/ \E k \in 1..n : Stops(k)
        /\ \A j \in 1..n : Starts(j) => \E k \in (j + 1)..n : Stops(k)
    BY <1>2, <1>5 DEF OffAt
  <2>2. timers' = {} \/ \E i \in 1..(n - 1) : Stops(i)'
    <3>1. ASSUME \E k \in 2..n : Stops(k) PROVE \E i \in 1..(n - 1) : Stops(i)'
      <4>1. 0 \in 0..(n - 1) /\ 0 + 2 = 2 /\ 0 + 1 = 1
        OBVIOUS
      <4> QED BY <1>3, <3>1, <4>1
    <3>2. CASE Starts(1)
      BY <1>2, <2>1, <3>1, <3>2
    <3>3. CASE ~Starts(1) /\ ~Stops(1)
      <4>1. \A k \in 1..n : k = 1 \/ k \in 2..n
        OBVIOUS
      <4> QED BY <2>1, <3>1, <3>3, <4>1
    <3> QED BY <3>2, <3>3
  <2>3. ASSUME NEW j \in 1..(n - 1), Starts(j)'
        PROVE  \E k \in (j + 1)..(n - 1) : Stops(k)'
    <3>1. j + 1 \in 1..n /\ Starts(j + 1) /\ j \in 0..(n - 1) /\ (j + 1) + 1 = j + 2
      BY <1>1, <2>3
    <3> QED BY <1>3, <2>1, <3>1
  <2> QED BY <2>2, <2>3 DEF OffAt
<1>6. ASSUME OnAt(n + 1) PROVE OnAt(n)'
  <2>1. \/ timers # {} /\ \A k \in 1..n : ~Stops(k)
        \/ \E j \in 1..n : Starts(j) /\ \A k \in (j + 1)..n : ~Stops(k)
    BY <1>2, <1>6 DEF OnAt
  <2>2. CASE timers # {} /\ \A k \in 1..n : ~Stops(k)
    <3>1. timers' # {}
      BY <1>2, <2>2
    <3>2. \A i \in 1..(n - 1) : ~Stops(i)'
      BY <1>1, <2>2
    <3> QED BY <3>1, <3>2 DEF OnAt
  <2>3. ASSUME NEW j \in 1..n, Starts(j), \A k \in (j + 1)..n : ~Stops(k) PROVE OnAt(n)'
    <3>1. CASE j = 1
      <4>1. timers' # {} /\ \A i \in 1..(n - 1) : ~Stops(i)'
        BY <1>1, <2>3, <3>1
      <4> QED BY <4>1 DEF OnAt
    <3>2. CASE j # 1
      <4>1. j - 1 \in 1..(n - 1) /\ (j - 1) + 1 = j /\ (j - 1) + 2 = j + 1 /\ j - 1 \in 0..(n - 1)
        BY <3>2
      <4>2. Starts(j - 1)' /\ \A i \in ((j - 1) + 1)..(n - 1) : ~Stops(i)'
        BY <1>1, <1>4, <2>3, <4>1
      <4> QED BY <4>1, <4>2 DEF OnAt
    <3> QED BY <3>1, <3>2
  <2> QED BY <2>1, <2>2, <2>3
<1> QED BY <1>5, <1>6

LEMMA TimedStep ==
  ASSUME Shapes, Waits, Timers, Places, Alone, Timed, Next PROVE Timed'
<1> USE SessionAssumption
<1>1. Len(queue) \in Nat
  BY WaitTypes
<1>2. PICK n \in Nat \ {0} : n = Len(queue) + 1
  BY <1>1
<1>3. ASSUME UNCHANGED << queue, timers, pollTimer >>, SomeBusy <=> SomeBusy',
             SomeRefused <=> SomeRefused'
      PROVE  Timed'
  BY <1>3 DEF Timed, OffAt, OnAt, Stops, Starts
<1>4. CASE MainStep \/ Dismiss \/ Replug
  <2>1. UNCHANGED << queue, timers, pollTimer >>
    BY <1>4, MainIsOfAKind DEF MainKind, Dismiss, Replug
  <2>2. \A w \in Workers : pc'[w] = pc[w]
    BY <1>4, OthersKeepPlaces
  <2> QED BY <1>3, <2>1, <2>2 DEF SomeBusy, SomeRefused, Busy
<1>5. ASSUME NEW v \in Workers, NEW kind \in Kinds, Click(v, kind) PROVE Timed'
  <2>1. UNCHANGED << queue, timers, pollTimer >>
    BY <1>5 DEF Click
  <2>2. /\ \A w \in Workers \ {v} : pc'[w] = pc[w]
        /\ pc[v] = "unborn" /\ pc'[v] = "begins"
    BY <1>5 DEF Click, Goto, Shapes, Threads
  <2> QED BY <1>3, <2>1, <2>2 DEF SomeBusy, SomeRefused, Busy, Holding, Flashing
<1>6. CASE Serve
  <2>1. /\ Len(queue) \in Nat \ {0} /\ Len(queue') = Len(queue) - 1
        /\ \A i \in 1..(Len(queue) - 1) : queue'[i] = queue[i + 1]
        /\ Head(queue) = queue[1]
    BY <1>6, Served DEF Serve, Waits
  <2>2. \/ Stops(1) /\ ~Starts(1) /\ stopTimer
        \/ Starts(1) /\ ~Stops(1) /\ startTimer
        \/ ~Stops(1) /\ ~Starts(1) /\ UNCHANGED << timers, pollTimer >>
    BY <1>6, <2>1 DEF Serve, timerVars, Stops, Starts
  <2>3. (SomeBusy <=> SomeBusy') /\ (SomeRefused <=> SomeRefused')
    <3>1. \A w \in Workers : pc'[w] = pc[w]
      BY <1>6, OthersKeepPlaces
    <3> QED BY <3>1 DEF SomeBusy, SomeRefused, Busy
  <2>4. Starts(1) => timers = {}
    <3>1. ASSUME Starts(1) PROVE OffAt(1)
      BY <2>1, <3>1 DEF Timed
    <3> QED BY <3>1 DEF OffAt
  <2>5. /\ timers' \subseteq {pollTimer'}
        /\ Stops(1) => timers' = {}
        /\ Starts(1) => timers' # {}
    BY <2>2, <2>4 DEF Timed, stopTimer, startTimer, Timers
  <2>6. \A m \in 1..Len(queue) : (OffAt(m + 1) => OffAt(m)') /\ (OnAt(m + 1) => OnAt(m)')
    BY <2>1, <2>2, <2>5, OneServed
  <2>7. ASSUME NEW i \in 1..Len(queue'), Starts(i)' PROVE OffAt(i)'
    <3>1. i \in 1..Len(queue) /\ i + 1 \in 1..Len(queue) /\ queue'[i] = queue[i + 1]
      BY <2>1
    <3> QED BY <2>6, <2>7, <3>1 DEF Timed, Starts
  <2>8. PICK m \in Nat : m = Len(queue) /\ m \in 1..Len(queue)
    BY <2>1
  <2>9. (SomeBusy => OffAt(m)') /\ (SomeBusy \/ SomeRefused \/ OnAt(m)')
    BY <2>6, <2>8 DEF Timed
  <2>10. m = Len(queue') + 1
    BY <2>1, <2>8
  <2> QED BY <2>3, <2>5, <2>7, <2>9, <2>10 DEF Timed
<1>7. ASSUME NEW v \in Workers, Work(v) PROVE Timed'
  <2>1. /\ WorkKinds(v)
        /\ \A w \in Workers \ {v} : pc'[w] = pc[w]
    BY <1>7, WorkIsOfAKind DEF Threads
  <2>2. timers' = timers /\ pollTimer' = pollTimer
    BY <1>7 DEF Work, mainVars
  <2>3. ASSUME Busy(v) PROVE OffAt(n)
    BY <1>2, <2>3 DEF Timed, SomeBusy
  <2>4. ASSUME ~Busy(v)', Busy(v) PROVE ~SomeBusy'
    <3>1. ASSUME NEW w \in Workers, Busy(w)' PROVE FALSE
      <4>1. w # v /\ Busy(w)
        BY <2>1, <2>4, <3>1 DEF Busy
      <4> QED BY <1>7, <4>1, BusyWorksAlone
    <3> QED BY <3>1 DEF SomeBusy
  <2>5. ASSUME \A i \in 1..Len(queue) : queue'[i] = queue[i]
        PROVE  /\ \A i \in 1..Len(queue) : Starts(i)' => OffAt(i)'
               /\ OffAt(n) => OffAt(n)'
    <3>1. \A m \in 1..(Len(queue) + 1) : OffAt(m) => OffAt(m)'
      BY <1>1, <2>2, <2>5, AheadKept
    <3>2. \A i \in 1..Len(queue) : Starts(i)' => Starts(i)
      BY <2>5 DEF Starts
    <3> QED BY <1>1, <1>2, <3>1, <3>2 DEF Timed
  <2>6. CASE Quiet(v)
    <3>1. SomeBusy /\ SomeBusy' /\ queue' = queue
      BY <2>6 DEF Quiet, SomeBusy
    <3> QED BY <2>2, <3>1 DEF Timed, OffAt, OnAt, Stops, Starts
  <2>7. CASE Unlocks(v)
    <3>1. /\ Posts(2)
          /\ queue'[n] = Entry("startTimer", Free) /\ queue'[n + 1] = Entry("panel", Free)
      BY <1>1, <1>2, <2>7, PostedTwo DEF Unlocks, Selectors
    <3>2. Starts(n)' /\ ~Starts(n + 1)' /\ ~Stops(n + 1)'
      BY <3>1 DEF Starts, Stops, Entry
    <3>3. Busy(v) /\ ~Busy(v)'
      BY <2>7 DEF Unlocks, Busy, Holding, Flashing
    <3>4. ASSUME NEW i \in 1..Len(queue'), Starts(i)' PROVE OffAt(i)'
      <4>1. i \in 1..Len(queue) \/ i = n \/ i = n + 1
        BY <1>1, <1>2, <3>1 DEF Posts
      <4> QED BY <2>3, <2>5, <3>1, <3>2, <3>3, <3>4, <4>1 DEF Posts
    <3>5. OnAt(n + 2)'
      <4>1. /\ n \in 1..((n + 2) - 1)
            /\ \A k \in (n + 1)..((n + 2) - 1) : k = n + 1
        OBVIOUS
      <4> QED BY <3>2, <4>1 DEF OnAt
    <3>6. n + 2 = Len(queue') + 1
      BY <1>1, <1>2, <3>1 DEF Posts
    <3> QED BY <2>2, <2>4, <3>3, <3>4, <3>5, <3>6 DEF Timed
  <2>8. ASSUME NEW sel \in Selectors, NEW w \in {v, Free}, queue' = Append(queue, Entry(sel, w)),
               sel = "startTimer" => Busy(v) /\ ~Busy(v)',
               sel = "stopTimer" => Busy(v)',
               sel \notin {"startTimer", "stopTimer"} =>
                 Busy(v) /\ (Busy(v)' \/ pc'[v] = "refused")
        PROVE  Timed'
    <3>1. /\ Posts(1) /\ queue'[n] = Entry(sel, w)
          /\ n + 1 = Len(queue') + 1
      BY <1>1, <1>2, <2>8, PostedOne DEF Posts
    <3>2. (Starts(n)' <=> sel = "startTimer") /\ (Stops(n)' <=> sel = "stopTimer")
      BY <3>1 DEF Starts, Stops, Entry
    <3>3. ASSUME NEW i \in 1..Len(queue'), Starts(i)' PROVE OffAt(i)'
      <4>1. i \in 1..Len(queue) \/ i = n
        BY <1>1, <1>2, <3>1 DEF Posts
      <4> QED BY <2>3, <2>5, <2>8, <3>1, <3>2, <3>3, <4>1 DEF Posts
    <3>4. /\ ~Starts(n)' /\ OffAt(n) => OffAt(n + 1)'
          /\ Stops(n)' /\ ~Starts(n)' => OffAt(n + 1)'
          /\ Starts(n)' => OnAt(n + 1)'
      BY <1>2, <2>2, <3>1, OneMore
    <3>5. SomeBusy' => OffAt(n + 1)'
      BY <2>3, <2>4, <2>8, <3>2, <3>4
    <3>6. SomeBusy' \/ SomeRefused' \/ OnAt(n + 1)'
      BY <2>8, <3>2, <3>4 DEF SomeBusy, SomeRefused
    <3> QED BY <2>2, <3>1, <3>3, <3>5, <3>6 DEF Timed
  <2>9. CASE Logs(v)
    <3>1. PICK sel \in {"log", "stopTimer"} : /\ queue' = Append(queue, Entry(sel, v))
                                             /\ sel = "log" => Busy(v)
      BY <2>9 DEF Logs
    <3> QED BY <2>8, <2>9, <3>1 DEF Logs, Selectors
  <2>10. CASE Leaves(v, {"compares", "looks"}, "refused", "panel")
    BY <2>8, <2>10 DEF Leaves, Busy, Holding, Flashing, Selectors
  <2>11. CASE Leaves(v, {"delegates"}, "restarts", "reset_hid")
    BY <2>8, <2>11 DEF Leaves, Busy, Holding, Flashing, Selectors
  <2>12. CASE Leaves(v, {"restarts"}, "done", "startTimer")
    BY <2>8, <2>12 DEF Leaves, Busy, Holding, Flashing, Selectors
  <2>13. CASE Locks(v)
    BY <2>8, <2>13 DEF Locks, Busy, Holding, Flashing, Selectors
  <2> QED BY <2>1, <2>6, <2>7, <2>9, <2>10, <2>11, <2>12, <2>13 DEF WorkKinds
<1> QED BY <1>4, <1>5, <1>6, <1>7 DEF Next, MainStep

-----------------------------------------------------------------------------
(* Past the first selector the main thread has served for it, a job has the  *)
(* HID for itself: the timer is stopped, no poll is under way, and nothing   *)
(* but logging is left in the queue.                                         *)

Past(w) ==
  \/ pc[w] \in {"transfers", "reopens", "connects", "compares", "reboots", "looks",
               "flashes", "flashed", "reopensFlashed", "delegates"}
  \/ pc[w] \in {"announces", "enters"} /\ data[w] # << >>
  \/ pc[w] \in {"enters", "resets", "seeks"} /\ w \notin blocked

Calm ==
  /\ pc[Main] = "idle"
  /\ timers = {}
  /\ \A i \in 1..Len(queue) : queue[i].sel = "log"

Calmed == \A w \in Workers : Past(w) => Calm

\* A job begins with no data.
Fresh == \A w \in Workers : pc[w] \in {"unborn", "begins", "checks"} => data[w] = << >>

LEMMA PastIsBusy ==
  ASSUME SessionAssumption, NEW w \in Workers, Past(w) PROVE Busy(w) /\ ~Parted(w)
  BY DEF Past, Busy, Parted, Ended, Holding, Flashing

\* What a step of a worker does to the data of the others: nothing.
LEMMA OthersKeepData ==
  ASSUME Shapes, NEW w \in Workers, Work(w)
  PROVE  \/ data' = data
         \/ /\ pc[w] = "transfers" /\ UNCHANGED << queue, blocked >>
            /\ \A v \in Workers \ {w} : data'[v] = data[v]
<1>1. CASE SectorReturns(w)
  <2>1. pc[w] = "transfers" /\ UNCHANGED << queue, blocked >>
    BY <1>1 DEF SectorReturns
  <2>2. data' = data \/ \E content : Transferred(w, content)
    BY <1>1, Zenon DEF SectorReturns, ReadSector, WriteSector
  <2>3. ASSUME NEW content, Transferred(w, content)
        PROVE  \A v \in Workers \ {w} : data'[v] = data[v]
    BY <2>3 DEF Transferred, Shapes
  <2> QED BY <2>1, <2>2, <2>3
<1>2. CASE ~SectorReturns(w)
  BY <1>2, Zenon DEF Work, Lock, CheckHid, Announce, EnterSector, LogFailure, Reset, ResetDone,
     Finish, StartUpgrade, Seek, SeekReturns, CompareFirmware, EnterBootloader,
     LookForBootloader, Delegate, Restart, Apply, Flash, threadVars
<1> QED BY <1>1, <1>2

LEMMA FreshStep ==
  ASSUME Shapes, Waits, Fresh, Next PROVE Fresh'
<1> USE SessionAssumption
<1>1. ASSUME data' = data,
             \A w \in Workers : pc'[w] \in {"unborn", "begins", "checks"} =>
                                pc[w] \in {"unborn", "begins", "checks"}
      PROVE  Fresh'
  BY <1>1 DEF Fresh
<1>2. CASE MainStep \/ Serve \/ Dismiss \/ Replug
  <2>1. data' = data
    BY <1>2, MainIsOfAKind DEF MainKind, Serve, Dismiss, Replug, threadVars
  <2> QED BY <1>1, <1>2, <2>1, OthersKeepPlaces
<1>3. ASSUME NEW v \in Workers, NEW kind \in Kinds, Click(v, kind) PROVE Fresh'
  BY <1>1, <1>3 DEF Click, Goto, Shapes, Threads
<1>4. ASSUME NEW v \in Workers, Work(v) PROVE Fresh'
  <2>1. \A w \in Workers \ {v} : pc'[w] = pc[w] /\ data'[w] = data[w]
    BY <1>4, OthersKeepData, WorkIsOfAKind DEF Threads
  <2>2. pc'[v] \in {"unborn", "begins", "checks"} => pc[v] = "begins" /\ data' = data
    <3>1. CASE Lock(v)
      BY <3>1 DEF Lock, threadVars
    <3>2. CASE SectorReturns(v)
      <4>1. \E place \in {"applies", "announces", "fails"} : Goto(v, place)
        BY <3>2 DEF SectorReturns, ReadSector, WriteSector, Transferred, Fail
      <4> QED BY <4>1 DEF Goto, Shapes, Threads
    <3>3. CASE ~Lock(v) /\ ~SectorReturns(v)
      <4>1. pc'[v] \notin {"unborn", "begins", "checks"}
        BY <1>4, <3>3 DEF Work, CheckHid, Fail, Announce, EnterSector, LogFailure, Reset, ResetDone,
           Finish, StartUpgrade, Seek, SeekReturns, CompareFirmware, Refuse, EnterBootloader,
           LookForBootloader, Delegate, Restart, Apply, Flash, OpenEnters, OpenFindsNone,
           OpenReturns, Goto, Shapes, Threads
      <4> QED BY <4>1
    <3> QED BY <3>1, <3>2, <3>3
  <2> QED BY <2>1, <2>2 DEF Fresh
<1> QED BY <1>2, <1>3, <1>4 DEF Next, MainStep

\* A worker gets past it when it is woken, not by a step of its own.
LEMMA PastBefore ==
  ASSUME Shapes, Waits, Fresh, NEW w \in Workers, Work(w), Past(w)'
  PROVE  /\ Past(w)
         /\ queue' = queue \/ queue' = Append(queue, Entry("log", w))
<1> USE DEF Shapes, Threads
<1>1. w \notin blocked /\ w \in DOMAIN pc
  BY DEF Work
<1>2. \A place : Goto(w, place) => pc'[w] = place
  BY <1>1 DEF Goto
<1>3. CASE Lock(w) \/ LogFailure(w) \/ StartUpgrade(w) \/ Finish(w) \/ Delegate(w) \/ Restart(w)
  BY <1>2, <1>3 DEF Lock, LogFailure, StartUpgrade, Finish, Delegate, Restart, PostAndWait, Past
<1>4. CASE CheckHid(w)
  <2>1. /\ pc'[w] \in {"fails", "announces"} /\ pc[w] = "checks"
        /\ data' = data
    BY <1>2, <1>4 DEF CheckHid, Fail
  <2> QED BY <2>1 DEF Past, Fresh
<1>5. CASE Announce(w)
  BY <1>2, <1>5 DEF Announce, PostAndWait, Past, threadVars
<1>6. CASE EnterSector(w) \/ Seek(w) \/ SeekReturns(w) \/ EnterBootloader(w) \/ LookForBootloader(w)
           \/ Flash(w) \/ Apply(w)
  <2>1. CASE LookForBootloader(w)
    <3>1. pc[w] = "looks" /\ (queue' = queue \/ pc'[w] = "refused")
      BY <1>2, <2>1, Zenon DEF LookForBootloader, Refuse
    <3> QED BY <3>1 DEF Past
  <2> QED BY <1>1, <1>2, <1>6, <2>1 DEF EnterSector, Seek, SeekReturns, EnterBootloader, Flash,
      Apply, OpenEnters, OpenFindsNone, OpenReturns, Past
<1>7. CASE SectorReturns(w)
  BY <1>7 DEF SectorReturns, Past
<1>8. CASE Reset(w) \/ ResetDone(w)
  BY <1>1, <1>8 DEF Reset, ResetDone, Past
<1>9. CASE CompareFirmware(w)
  <2>1. pc[w] = "compares" /\ (queue' = Append(queue, Entry("log", w)) \/ pc'[w] = "refused")
    BY <1>2, <1>9, Zenon DEF CompareFirmware, Refuse, PostAndWait
  <2> QED BY <2>1 DEF Past
<1> QED BY <1>3, <1>4, <1>5, <1>6, <1>7, <1>8, <1>9 DEF Work

LEMMA CalmedStep ==
  ASSUME Shapes, Waits, Timers, Places, Alone, Wakes, Timed, Fresh, Calmed, Next PROVE Calmed'
<1> USE SessionAssumption
<1>1. Len(queue) \in Nat
  BY WaitTypes
<1>2. ASSUME NEW w \in Workers, Past(w)', data' = data, pc'[w] = pc[w]
      PROVE  \/ Past(w)
             \/ w \in blocked /\ w \notin blocked' /\ Busy(w) /\ ~Parted(w)
  BY <1>2 DEF Past, Busy, Holding, Flashing, Parted, Ended
<1>3. CASE MainStep
  <2>1. MainKind
    BY <1>3, MainIsOfAKind
  <2>2. ASSUME NEW w \in Workers, Past(w)' PROVE FALSE
    <3>1. Past(w) \/ (w = serving /\ ~Parted(w))
      BY <1>2, <2>1, <2>2 DEF MainKind
    <3> QED BY <2>1, <3>1 DEF MainKind, Calmed, Calm, Wakes
  <2> QED BY <2>2 DEF Calmed
<1>4. CASE Dismiss
  <2>1. Len(panels) \in 1..Len(panels)
    BY <1>4, EmptySeq, WaitTypes DEF Dismiss, Waits
  <2>2. ASSUME NEW w \in Workers, Past(w)' PROVE Calm
    <3>1. Past(w) \/ (w = panels[Len(panels)] /\ ~Parted(w))
      BY <1>2, <1>4, <2>2 DEF Dismiss, threadVars
    <3> QED BY <2>1, <3>1 DEF Calmed, Wakes
  <2>3. Calm => Calm'
    BY <1>4 DEF Dismiss, Calm
  <2> QED BY <2>2, <2>3 DEF Calmed
<1>5. CASE Replug
  <2>1. Calm => Calm'
    BY <1>5 DEF Replug, Calm
  <2>2. ASSUME NEW w \in Workers, Past(w)' PROVE Past(w)
    BY <1>2, <1>5, <2>2 DEF Replug, threadVars
  <2> QED BY <2>1, <2>2 DEF Calmed
<1>6. ASSUME NEW v \in Workers, NEW kind \in Kinds, Click(v, kind) PROVE Calmed'
  <2>1. Calm => Calm'
    BY <1>6 DEF Click, Calm, Goto, Shapes, Threads
  <2>2. /\ \A w \in Workers \ {v} : pc'[w] = pc[w]
        /\ pc'[v] = "begins" /\ blocked' = blocked /\ data' = data
    BY <1>6 DEF Click, Goto, Shapes, Threads
  <2>3. ASSUME NEW w \in Workers, Past(w)' PROVE Past(w)
    <3>1. w # v
      BY <2>2, <2>3 DEF Past
    <3> QED BY <1>2, <2>2, <2>3, <3>1
  <2> QED BY <2>1, <2>3 DEF Calmed
<1>7. CASE Serve
  <2>1. /\ Len(queue) \in Nat \ {0} /\ Len(queue') = Len(queue) - 1
        /\ \A i \in 1..(Len(queue) - 1) : queue'[i] = queue[i + 1]
        /\ Head(queue) = queue[1]
        /\ pc[Main] = "idle"
    BY <1>7, Served DEF Serve, Waits
  <2>2. ASSUME Calm PROVE Calm'
    <3>1. queue[1].sel = "log"
      BY <2>1, <2>2 DEF Calm
    <3>2. pc' = pc /\ timers' = timers
      BY <1>7, <2>1, <3>1 DEF Serve, timerVars
    <3> QED BY <2>1, <2>2, <3>2 DEF Calm
  <2>3. ASSUME NEW w \in Workers, Past(w)', ~Past(w) PROVE Calm'
    <3>1. w \in blocked /\ w \notin blocked' /\ Busy(w) /\ ~Parted(w)
      <4>1. data' = data /\ pc'[w] = pc[w]
        BY <1>7, OthersKeepPlaces DEF Serve, threadVars
      <4> QED BY <1>2, <2>3, <4>1
    <3>2. w = queue[1].wakes
      BY <1>7, <2>1, <3>1 DEF Serve
    <3>3. Len(queue) = 1 /\ queue[1].sel \in {"log", "stopTimer"}
      BY <2>1, <3>1, <3>2 DEF Wakes, Awaited
    <3>4. OffAt(2)
      BY <3>1, <3>3 DEF Timed, SomeBusy
    <3>5. timers = {} \/ Stops(1)
      BY <3>4 DEF OffAt
    <3>6. pc' = pc /\ timers' = {}
      BY <1>7, <2>1, <3>3, <3>5 DEF Serve, timerVars, Stops, stopTimer, Timed
    <3> QED BY <2>1, <3>3, <3>6 DEF Calm
  <2> QED BY <2>2, <2>3 DEF Calmed
<1>8. ASSUME NEW v \in Workers, Work(v) PROVE Calmed'
  <2>1. /\ \A w \in Workers \ {v} : pc'[w] = pc[w]
        /\ pc'[Main] = pc[Main] /\ timers' = timers
    BY <1>8, WorkIsOfAKind DEF Threads, Work, mainVars
  <2>2. ASSUME NEW w \in Workers, Past(w)' PROVE w = v
    <3>1. Busy(w)'
      BY <2>2 DEF Past, Busy, Holding, Flashing
    <3>2. w # v => Busy(w)
      BY <2>1, <3>1 DEF Busy
    <3> QED BY <1>8, <3>2, BusyWorksAlone
  <2>3. ASSUME Past(v)' PROVE Calm'
    <3>1. Calm /\ (queue' = queue \/ queue' = Append(queue, Entry("log", v)))
      BY <1>8, <2>3, PastBefore DEF Calmed
    <3>2. \A i \in 1..Len(queue') : queue'[i].sel = "log"
      <4>1. CASE queue' = queue
        BY <3>1, <4>1 DEF Calm
      <4>2. CASE queue' = Append(queue, Entry("log", v))
        <5>1. /\ Posts(1)
              /\ queue'[Len(queue) + 1].sel = "log"
          BY <4>2, PostedOne DEF Selectors, Entry
        <5>2. \A i \in 1..Len(queue') : i \in 1..Len(queue) \/ i = Len(queue) + 1
          BY <1>1, <5>1 DEF Posts
        <5> QED BY <3>1, <5>1, <5>2 DEF Calm, Posts
      <4> QED BY <3>1, <4>1, <4>2
    <3> QED BY <2>1, <3>1, <3>2 DEF Calm
  <2> QED BY <2>2, <2>3 DEF Calmed
<1> QED BY <1>3, <1>4, <1>5, <1>6, <1>7, <1>8 DEF Next, MainStep

-----------------------------------------------------------------------------
(* What a job has transferred: while it is half done, nothing or the one     *)
(* sector that the HID as it now is has given or taken.                      *)

Half(w) ==
  \/ data[w] = << >>
  \/ data[w] = << "short" >> /\ myHID \in {"none", "null"}
  \/ data[w] = << "alien" >> /\ myHID \in {"blind", "gone"} /\ job[w] = "load"
  \/ /\ data[w] = << sectors[1] >> /\ myHID \in {"live", "gone"}
     /\ job[w] = "save" => sectors[1] = w

Whole(w) ==
  \/ data[w] = sectors /\ (job[w] = "save" => sectors = << w, w >>)
  \/ Content(w) \in {{"short"}, {"alien"}}

Carried(w) ==
  /\ pc[w] \in {"checks", "announces", "enters", "transfers"} => Half(w)
  /\ pc[w] = "applies" => Whole(w)
  /\ pc[w] = "finishes" => error[w] \/ Whole(w)
  /\ pc[w] \in {"fails", "resets", "reopens"} => error[w]

CarriedOver == \A w \in Workers : Carried(w)

\* Sequences of no more than two sectors.
LEMMA TwoSectors ==
  /\ Len(<< >>) = 0
  /\ \A x : Len(<< x >>) = 1 /\ Append(<< >>, x) = << x >>
  /\ \A x, y : Append(<< x >>, y) = << x, y >>
  /\ \A x : {<< x >>[i] : i \in DOMAIN << x >>} = {x}
  /\ \A x : {<< x, x >>[i] : i \in DOMAIN << x, x >>} = {x}
  /\ \A f : DOMAIN f = 1..2 /\ f = [i \in 1..2 |-> f[i]] => f = << f[1], f[2] >>
<1>1. Len(<< >>) = 0
  BY EmptySeq
<1>2. \A x : Len(<< x >>) = 1 /\ Append(<< >>, x) = << x >>
  OBVIOUS
<1>3. ASSUME NEW x, NEW y PROVE Append(<< x >>, y) = << x, y >>
  <2>1. << x >> \in Seq({x, y}) /\ y \in {x, y}
    OBVIOUS
  <2>2. Append(<< x >>, y) \in Seq({x, y}) /\ << x, y >> \in Seq({x, y})
    BY <2>1, AppendProperties
  <2>3. /\ Len(Append(<< x >>, y)) = 2
        /\ Append(<< x >>, y)[1] = x /\ Append(<< x >>, y)[2] = y
    BY <2>1, AppendProperties
  <2>4. Len(<< x, y >>) = 2 /\ << x, y >>[1] = x /\ << x, y >>[2] = y
    OBVIOUS
  <2> DEFINE s == Append(<< x >>, y)
             t == << x, y >>
             S == {x, y}
  <2>5. /\ s \in Seq(S) /\ t \in Seq(S) /\ Len(s) = 2 /\ Len(t) = 2
        /\ s[1] = t[1] /\ s[2] = t[2]
    BY <2>2, <2>3, <2>4
  <2> HIDE DEF s, t, S
  <2>6. \A i \in 1..Len(s) : s[i] = t[i]
    BY <2>5
  <2>7. s = t
    BY <2>5, <2>6, SeqEqual
  <2> QED BY <2>7 DEF s, t
<1>4. \A x : {<< x >>[i] : i \in DOMAIN << x >>} = {x}
  OBVIOUS
<1>5. \A x : {<< x, x >>[i] : i \in DOMAIN << x, x >>} = {x}
  OBVIOUS
<1>6. \A f : DOMAIN f = 1..2 /\ f = [i \in 1..2 |-> f[i]] => f = << f[1], f[2] >>
  OBVIOUS
<1> QED BY <1>1, <1>2, <1>3, <1>4, <1>5, <1>6

\* A step that leaves the job and its data alone carries them over if it leaves
\* the sectors alone and a half of them has the HID it had, or lost it.
LEMMA CarriedKept ==
  ASSUME Shapes, NEW w \in Workers, Carried(w),
         pc'[w] = pc[w], data'[w] = data[w], job'[w] = job[w], error'[w] = error[w],
         sectors' = sectors,
         \/ data[w] = << >>
         \/ pc[w] \notin {"checks", "announces", "enters", "transfers"}
         \/ myHID' = myHID
         \/ myHID \in {"live", "blind"} /\ myHID' = "gone"
  PROVE  Carried(w)'
<1>1. Whole(w) => Whole(w)'
  BY DEF Whole, Content
<1>2. pc[w] \in {"checks", "announces", "enters", "transfers"} /\ Half(w) => Half(w)'
  BY DEF Half
<1> QED BY <1>1, <1>2 DEF Carried

LEMMA HalfIsPast ==
  ASSUME Fresh, Calmed, NEW w \in Workers,
         pc[w] \in {"checks", "announces", "enters", "transfers"}, data[w] # << >>
  PROVE  Calm
  BY DEF Fresh, Calmed, Past

\* A transfer that returns: there was nothing, or the first half.
LEMMA SectorCarried ==
  ASSUME Shapes, Flags, NEW w \in Workers, Half(w), SectorReturns(w) PROVE Carried(w)'
<1> USE DEF Shapes, Threads
<1>1. pc[w] = "transfers" /\ myHID' = myHID /\ job' = job
  BY DEF SectorReturns
<1>2. ASSUME Fail(w) PROVE Carried(w)'
  <2>1. pc'[w] = "fails" /\ error'[w] = TRUE
    BY <1>2 DEF Fail, Goto, Flags
  <2> QED BY <2>1 DEF Carried
<1>3. ASSUME NEW content, Transferred(w, content),
             \/ /\ content = "short" /\ myHID \in {"none", "null"}
             \/ /\ content = "alien" /\ myHID = "blind" /\ job[w] = "load"
                /\ sectors' = sectors
             \/ /\ content = sectors[Sector(w)] /\ myHID = "live" /\ job[w] = "load"
                /\ sectors' = sectors
             \/ /\ content = w /\ myHID = "live" /\ job[w] = "save"
                /\ sectors' = [sectors EXCEPT ![Sector(w)] = w]
      PROVE  Carried(w)'
  <2>1. /\ data'[w] = Append(data[w], content)
        /\ pc'[w] = IF Sector(w) = 2 THEN "applies" ELSE "announces"
    BY <1>3 DEF Transferred, Goto
  <2>2. sectors = << sectors[1], sectors[2] >>
    BY TwoSectors
  <2>3. CASE data[w] = << >>
    <3>1. /\ Sector(w) = 1 /\ data'[w] = << content >>
          /\ pc'[w] = "announces"
      BY <2>1, <2>3, TwoSectors DEF Sector
    <3>2. Half(w)'
      BY <1>1, <1>3, <3>1 DEF Half
    <3> QED BY <3>1, <3>2 DEF Carried
  <2>4. ASSUME NEW x, data[w] = << x >>,
               \/ x = "short" /\ myHID \in {"none", "null"}
               \/ x = "alien" /\ myHID \in {"blind", "gone"} /\ job[w] = "load"
               \/ /\ x = sectors[1] /\ myHID \in {"live", "gone"}
                  /\ job[w] = "save" => sectors[1] = w
        PROVE  Carried(w)'
    <3>1. /\ Sector(w) = 2 /\ data'[w] = << x, content >>
          /\ pc'[w] = "applies"
      BY <2>1, <2>4, TwoSectors DEF Sector
    <3>2. CASE x = content /\ content \in {"short", "alien"}
      <4>1. Content(w)' = {content}
        BY <3>1, <3>2, TwoSectors DEF Content
      <4> QED BY <3>1, <3>2, <4>1 DEF Carried, Whole
    <3>3. CASE content = sectors[2] /\ x = sectors[1] /\ job[w] = "load" /\ sectors' = sectors
      <4>1. data'[w] = sectors'
        BY <2>2, <3>1, <3>3
      <4> QED BY <1>1, <3>1, <3>3, <4>1 DEF Carried, Whole
    <3>4. CASE content = w /\ x = sectors[1] /\ sectors[1] = w /\ sectors' = [sectors EXCEPT ![2] = w]
      <4>1. sectors' = << sectors'[1], sectors'[2] >>
        BY <3>4, TwoSectors
      <4>2. sectors' = << w, w >> /\ data'[w] = << w, w >>
        BY <3>1, <3>4, <4>1
      <4> QED BY <3>1, <4>2 DEF Carried, Whole
    <3> QED BY <1>3, <2>4, <3>1, <3>2, <3>3, <3>4
  <2> QED BY <2>3, <2>4 DEF Half
<1>4. \/ Fail(w)
      \/ \E content :
           /\ Transferred(w, content)
           /\ \/ /\ content = "short" /\ myHID \in {"none", "null"}
              \/ /\ content = "alien" /\ myHID = "blind" /\ job[w] = "load"
                 /\ sectors' = sectors
              \/ /\ content = sectors[Sector(w)] /\ myHID = "live" /\ job[w] = "load"
                 /\ sectors' = sectors
              \/ /\ content = w /\ myHID = "live" /\ job[w] = "save"
                 /\ sectors' = [sectors EXCEPT ![Sector(w)] = w]
  <2>1. CASE ReadSector(w)
    BY <2>1 DEF ReadSector, MayAnswer
  <2>2. CASE WriteSector(w)
    BY <2>2 DEF WriteSector
  <2> QED BY <2>1, <2>2 DEF SectorReturns
<1> QED BY <1>2, <1>3, <1>4

\* A step of the job itself.
LEMMA OwnCarried ==
  ASSUME Shapes, Flags, Fresh, CarriedOver, NEW v \in Workers, Work(v) PROVE Carried(v)'
<1>1. Carried(v) /\ v \in DOMAIN pc /\ v \in DOMAIN error
  BY DEF CarriedOver, Shapes, Flags, Threads
<1>2. \A place : Goto(v, place) => pc'[v] = place
  BY <1>1 DEF Goto
<1>3. CASE SectorReturns(v)
  BY <1>1, <1>3, SectorCarried DEF SectorReturns, Carried
<1>4. CASE Lock(v)
  <2>1. pc'[v] = "checks" /\ data'[v] = << >>
    BY <1>2, <1>4 DEF Lock, threadVars, Fresh
  <2> QED BY <2>1 DEF Carried, Half
<1>5. CASE CheckHid(v)
  <2>1. \/ pc'[v] = "fails" /\ error'[v] = TRUE
        \/ pc'[v] = "announces"
    BY <1>1, <1>2, <1>5 DEF CheckHid, Fail
  <2>2. data'[v] = << >>
    BY <1>5 DEF CheckHid, Fresh
  <2> QED BY <2>1, <2>2 DEF Carried, Half
<1>6. CASE Announce(v) \/ EnterSector(v)
  <2>1. /\ pc[v] \in {"announces", "enters"} /\ pc'[v] \in {"enters", "transfers"}
        /\ UNCHANGED << data, job, sectors, myHID >>
    BY <1>2, <1>6 DEF Announce, EnterSector, threadVars
  <2>2. Half(v)'
    BY <1>1, <2>1 DEF Carried, Half
  <2> QED BY <2>1, <2>2 DEF Carried
<1>7. CASE Apply(v)
  <2>1. /\ pc[v] = "applies" /\ pc'[v] = "finishes"
        /\ UNCHANGED << data, job, sectors >>
    BY <1>2, <1>7 DEF Apply, threadVars
  <2>2. Whole(v)'
    BY <1>1, <2>1 DEF Carried, Whole, Content
  <2> QED BY <2>1, <2>2 DEF Carried
<1>8. CASE LogFailure(v) \/ Reset(v) \/ ResetDone(v)
  <2>1. /\ pc[v] \in {"fails", "resets", "flashed", "reopens", "reopensFlashed"}
        /\ pc[v] \in {"flashed", "reopensFlashed"} => pc'[v] \in {"reopensFlashed", "delegates"}
        /\ pc'[v] \in {"resets", "reopens", "finishes", "reopensFlashed", "delegates"}
    BY <1>2, <1>8 DEF LogFailure, Reset, ResetDone, OpenEnters, OpenFindsNone, OpenReturns
  <2>2. error' = error
    BY <1>8, Zenon DEF LogFailure, Reset, ResetDone, threadVars
  <2> QED BY <1>1, <2>1, <2>2 DEF Carried
<1>9. CASE Finish(v)
  BY <1>2, <1>9 DEF Finish, Carried
<1>10. CASE StartUpgrade(v) \/ Seek(v) \/ SeekReturns(v) \/ CompareFirmware(v)
            \/ EnterBootloader(v) \/ LookForBootloader(v) \/ Delegate(v) \/ Restart(v) \/ Flash(v)
  <2>1. pc'[v] \in Flashing \cup {"done", "refused"}
    BY <1>2, <1>10 DEF StartUpgrade, Seek, SeekReturns, CompareFirmware, Refuse,
       EnterBootloader, LookForBootloader, Delegate, Restart, Flash, OpenEnters, Flashing
  <2> QED BY <2>1 DEF Carried, Flashing
<1> QED BY <1>3, <1>4, <1>5, <1>6, <1>7, <1>8, <1>9, <1>10 DEF Work

LEMMA CarriedStep ==
  ASSUME Shapes, Waits, Flags, Places, Alone, Wakes, Fresh, Calmed, CarriedOver, Next
  PROVE  CarriedOver'
<1> USE SessionAssumption
<1>1. CASE MainStep
  <2>1. /\ MainKind
        /\ \A w \in Workers : pc'[w] = pc[w]
    BY <1>1, MainIsOfAKind, OthersKeepPlaces
  <2>2. ASSUME NEW w \in Workers PROVE Carried(w)'
    <3>1. \/ data[w] = << >>
          \/ pc[w] \notin {"checks", "announces", "enters", "transfers"}
      BY <2>1, HalfIsPast DEF MainKind, Calm
    <3> QED BY <2>1, <2>2, <3>1, CarriedKept DEF MainKind, CarriedOver
  <2> QED BY <2>2 DEF CarriedOver
<1>2. CASE Serve
  <2>1. /\ \A w \in Workers : pc'[w] = pc[w]
        /\ Len(queue) \in Nat \ {0} /\ Head(queue) = queue[1]
        /\ UNCHANGED << data, job, error, sectors >>
    BY <1>2, OthersKeepPlaces, Served DEF Serve, Waits, threadVars
  <2>2. ASSUME NEW w \in Workers PROVE Carried(w)'
    <3>1. Calm => myHID' = myHID
      <4>1. ASSUME Calm PROVE Head(queue).sel = "log"
        BY <2>1, <4>1 DEF Calm
      <4> QED BY <1>2, <4>1 DEF Serve
    <3>2. \/ data[w] = << >>
          \/ pc[w] \notin {"checks", "announces", "enters", "transfers"}
          \/ myHID' = myHID
      BY <3>1, HalfIsPast
    <3> QED BY <2>1, <2>2, <3>2, CarriedKept DEF CarriedOver
  <2> QED BY <2>2 DEF CarriedOver
<1>3. CASE Dismiss \/ Replug
  <2>1. /\ \A w \in Workers : pc'[w] = pc[w]
        /\ UNCHANGED << data, job, error, sectors >>
        /\ \/ myHID' = myHID
           \/ myHID \in {"live", "blind"} /\ myHID' = "gone"
    BY <1>3, OthersKeepPlaces DEF Dismiss, Replug, threadVars, MayAnswer
  <2>2. ASSUME NEW w \in Workers PROVE Carried(w)'
    BY <2>1, <2>2, CarriedKept DEF CarriedOver
  <2> QED BY <2>2 DEF CarriedOver
<1>4. ASSUME NEW v \in Workers, NEW kind \in Kinds, Click(v, kind) PROVE CarriedOver'
  <2>1. /\ pc'[v] = "begins"
        /\ \A w \in Workers \ {v} : pc'[w] = pc[w] /\ job'[w] = job[w]
        /\ UNCHANGED << data, error, sectors, myHID >>
    BY <1>4 DEF Click, Goto, Shapes, Threads
  <2>2. Carried(v)'
    BY <2>1 DEF Carried
  <2>3. ASSUME NEW w \in Workers \ {v} PROVE Carried(w)'
    BY <2>1, <2>3, CarriedKept DEF CarriedOver
  <2> QED BY <2>2, <2>3 DEF CarriedOver
<1>5. ASSUME NEW v \in Workers, Work(v) PROVE CarriedOver'
  <2>1. ASSUME NEW w \in Workers, w # v PROVE Carried(w)'
    <3>1. ~Busy(w) /\ pc'[w] = pc[w]
      BY <1>5, <2>1, BusyWorksAlone, WorkIsOfAKind DEF Threads
    <3> QED BY <3>1 DEF Carried, Busy, Holding
  <2>2. Carried(v)'
    BY <1>5, OwnCarried
  <2> QED BY <2>1, <2>2 DEF CarriedOver
<1> QED BY <1>1, <1>2, <1>3, <1>4, <1>5 DEF Next, MainStep

-----------------------------------------------------------------------------
(* The inductive invariant, for a user who leaves an upgrade alone. *)

SessionInv ==
  /\ Types
  /\ Places /\ Alone /\ Wakes
  /\ Timed /\ Fresh /\ Calmed /\ CarriedOver

LEMMA SessionInit == Init => SessionInv
<1> SUFFICES ASSUME Init PROVE SessionInv
  OBVIOUS
<1> USE SessionAssumption
<1>1. \A w \in Workers : pc[w] = "unborn" /\ data[w] = << >>
  BY DEF Init, Threads
<1>2. Places
  BY <1>1 DEF Init, Threads, Places, MainPlaces, Holding, Flashing
<1>3. Alone /\ Fresh /\ Calmed /\ CarriedOver
  BY <1>1 DEF Alone, AtRest, Fresh, Calmed, Past, CarriedOver, Carried
<1>4. Len(queue) = 0 /\ Len(panels) = 0 /\ serving = Free /\ timers = {1} /\ pollTimer = 1
  BY EmptySeq DEF Init
<1>5. Wakes
  BY <1>4 DEF Wakes, Parted
<1>6. Timed
  <2>1. ~SomeBusy
    BY <1>1 DEF SomeBusy, Busy, Holding, Flashing
  <2>2. OnAt(1)
    BY <1>4 DEF OnAt
  <2> QED BY <1>4, <2>1, <2>2 DEF Timed
<1>7. Types
  <2>1. Shapes
    BY DEF Init, Shapes, Threads
  <2>2. Waits /\ Timers
    BY EmptySeq DEF Init, Waits, Timers
  <2>3. Flags
    BY DEF Init, Flags
  <2> QED BY <2>1, <2>2, <2>3 DEF Types
<1> QED BY <1>2, <1>3, <1>5, <1>6, <1>7 DEF SessionInv

LEMMA SessionStep == LeftAlone /\ SessionInv /\ [Next]_vars => SessionInv'
<1>1. ASSUME LeftAlone, SessionInv, Next PROVE SessionInv'
  <2>1. Types'
    BY <1>1, ShapesStep, WaitsStep, TimersStep, FlagsStep DEF SessionInv, Types
  <2>2. Places' /\ Alone' /\ Wakes' /\ Fresh'
    BY <1>1, PlacesStep, AloneStep, WakesStep, FreshStep DEF SessionInv, Types
  <2>3. Timed' /\ Calmed' /\ CarriedOver'
    BY <1>1, TimedStep, CalmedStep, CarriedStep DEF SessionInv, Types
  <2> QED BY <2>1, <2>2, <2>3 DEF SessionInv
<1>2. ASSUME SessionInv, UNCHANGED vars PROVE SessionInv'
  <2>1. Types'
    <3>1. Types
      BY <1>2 DEF SessionInv
    <3> QED BY <1>2, <3>1 DEF Types, Shapes, Waits, Timers, Flags, vars
  <2>2. Places' /\ Alone'
    BY <1>2 DEF SessionInv, Places, Alone, AtRest, Ended, vars
  <2>3. Wakes'
    BY <1>2 DEF SessionInv, Wakes, Parted, Awaited, Busy, Ended, vars
  <2>4. Timed'
    BY <1>2 DEF SessionInv, Timed, SomeBusy, SomeRefused, Busy, OffAt, OnAt, Stops, Starts, vars
  <2>5. Fresh' /\ Calmed'
    BY <1>2 DEF SessionInv, Fresh, Calmed, Calm, Past, vars
  <2>6. CarriedOver'
    <3>1. ASSUME NEW w \in Workers PROVE Carried(w)'
      <4>1. Shapes /\ Carried(w)
        BY <1>2, <3>1 DEF SessionInv, Types, CarriedOver
      <4>2. UNCHANGED << pc, data, job, error, sectors, myHID >>
        BY <1>2 DEF vars, threadVars
      <4> QED BY <3>1, <4>1, <4>2, CarriedKept
    <3> QED BY <3>1 DEF CarriedOver
  <2> QED BY <2>1, <2>2, <2>3, <2>4, <2>5, <2>6 DEF SessionInv
<1> QED BY <1>1, <1>2

LEMMA SessionInvariant == ASSUME LeftAlone PROVE Spec => []SessionInv
<1>1. LeftAlone /\ SessionInv /\ [Next]_vars => SessionInv'
  BY SessionStep
<1> QED BY <1>1, SessionInit, PTL DEF Spec

\* No two threads are ever inside a call on the HID, so that the packet
\* buffers of hidpacket.c, which are static, are never shared.
THEOREM CallsExclude == ASSUME LeftAlone PROVE Spec => []LinkExclusive
<1>1. SessionInv => LinkExclusive
  <2> SUFFICES ASSUME SessionInv, NEW t \in Threads, NEW u \in Threads, InCall(t), InCall(u)
               PROVE  t = u
    BY DEF LinkExclusive
  <2> USE SessionAssumption DEF SessionInv
  <2>1. \A w \in Workers : InCall(w) => Past(w) /\ Busy(w) /\ Calm
    <3> SUFFICES ASSUME NEW w \in Workers, InCall(w) PROVE Past(w)
      BY PastIsBusy DEF Calmed
    <3>1. pc[w] \in {"unborn", "begins", "done", "refused"} \cup Holding \cup Flashing
      BY DEF Places
    <3> QED BY <3>1 DEF InCall, Past, Holding, Flashing
  <2>2. InCall(Main) => ~Calm
    BY DEF InCall, Calm
  <2>3. CASE t \in Workers /\ u \in Workers
    BY <2>1, <2>3, OneBusy
  <2>4. CASE t = Main \/ u = Main
    BY <2>1, <2>2, <2>4 DEF Threads
  <2> QED BY <2>3, <2>4 DEF Threads
<1> QED BY <1>1, SessionInvariant, PTL

\* However the selectors of the jobs were served, exactly one poll timer runs
\* when all have ended, unless an upgrade has refused its file.
THEOREM TimerRunsAtRest == ASSUME LeftAlone PROVE Spec => []OneTimerAtRest
<1>1. SessionInv => OneTimerAtRest
  <2> SUFFICES ASSUME SessionInv, AllAtRest, queue = << >>, ~SomeRefused
               PROVE  timers = {pollTimer}
    BY DEF OneTimerAtRest, SomeRefused
  <2>1. ~SomeBusy
    BY DEF AllAtRest, SomeBusy, Busy, Ended, Holding, Flashing
  <2>2. OnAt(1) /\ timers \subseteq {pollTimer}
    BY <2>1, EmptySeq DEF SessionInv, Timed
  <2> QED BY <2>2 DEF OnAt
<1> QED BY <1>1, SessionInvariant, PTL

\* A job that reports success has transferred both sectors of one
\* configuration, or neither sector at all.
THEOREM SuccessIsWhole == ASSUME LeftAlone PROVE Spec => CompletedWholly
<1>1. SessionInv /\ [Next]_vars =>
        [\A w \in Workers : Completes(w) =>
           \/ data[w] = sectors /\ (job[w] = "save" => sectors = << w, w >>)
           \/ Content(w) \in {{"short"}, {"alien"}}]_vars
  BY DEF SessionInv, CarriedOver, Carried, Whole, Completes
<1> QED BY <1>1, SessionInvariant, PTL DEF Spec, CompletedWholly

=============================================================================
