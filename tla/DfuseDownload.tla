---------------------------- MODULE DfuseDownload ----------------------------
(****************************************************************************)
(* dfu_util -D <file> -a 0 -R (lib_main.c) on the DfuSe bootloader of the   *)
(* STM32: the status loop, dfuse_do_dnload with its two passes over every   *)
(* element (dfuse.c), dfu_abort_to_idle (dfu.c) and the final reset, one    *)
(* action per USB control transfer.  Any transfer may fail, before or after *)
(* the device has acted on it, the device may be unplugged at any moment,   *)
(* and the upgrade may be tried again, in the same process after a success, *)
(* in a new one after a failure: errx ends the process.                     *)
(* The bootloader is external: it follows the DFU state diagram, executes a *)
(* command after the GETSTATUS that follows it, and may fail.  Left out:    *)
(* the options the program never passes (force, leave, mass-erase,          *)
(* unprotect, -s on a download), devices that are not DfuSe, poll timeouts, *)
(* progress and texts.                                                      *)
(****************************************************************************)
EXTENDS FlashLayout

CONSTANTS
  MaxAttempts   \* bound: runs of dfu_util

VARIABLES
  \* the host
  pc,                 \* where dfu_util is
  file,               \* the file of this attempt
  elem,               \* the element in hand
  p,                  \* offset of the chunk in hand
  scan,               \* offset in the chunk of the next page to erase
  firstpoll,          \* dfuse_special_command: no status was read yet
  last_erased_page,   \* static, so it survives an attempt that returns
  linked,             \* the device handle is of the device attached now
  attempts,           \* attempts so far
  \* the device
  dstate,             \* its DFU state; "executed": done, to be reported
  pending,            \* the command of the last DFU_DNLOAD
  pointer,            \* its address pointer
  flash,              \* what each byte of memory holds
  \* history
  outcome, tried

loopVars == << elem, p, scan >>
hostVars == << loopVars, firstpoll, last_erased_page, attempts >>
historyVars == << file, tried >>
vars == << pc, hostVars, historyVars, linked, dstate, pending, pointer, flash, outcome >>

Command(name, at, bytes) == [name |-> name, at |-> at, bytes |-> bytes]
None == Command("none", 0, << >>)
NoPage == 1   \* "non-aligned value, won't match"

e == Element(file, elem)
address == e.address + p

\* Slip: the last chunk is as long as the others.
chunk_size_Whole == XferSize
chunk_size == IF p + XferSize > e.size THEN e.size - p ELSE XferSize

Init ==
  /\ pc = "closed" /\ file = 0 /\ elem = 0 /\ p = 0 /\ scan = 0
  /\ firstpoll = FALSE
  /\ last_erased_page = NoPage
  /\ linked = FALSE
  /\ attempts = 0
  /\ dstate = "idle" /\ pending = None /\ pointer = 0
  /\ flash = [a \in Addresses |-> Old]
  /\ outcome = "none"
  /\ tried = {}

-----------------------------------------------------------------------------
(* Control transfers.                                                       *)

\* errx, because of what the file or the device says; or because a transfer
\* failed.
Quit(why) == pc' = "exited" /\ outcome' = why /\ linked' = FALSE
Exit == Quit("failed")

Proceed(next) == pc' = next /\ UNCHANGED << outcome, linked >>

\* A request that never takes effect: the device stalls it, unless it expects
\* it, or is gone.
Refused(expected) ==
  /\ Quit(IF linked /\ expected THEN "lost" ELSE "failed")
  /\ dstate' \in {dstate} \cup (IF linked THEN {"error"} ELSE {})
  /\ pending' = IF dstate' = "error" THEN None ELSE pending

\* A request that takes effect; its completion may be lost all the same.
Answered(next) == linked /\ (Proceed(next) \/ Quit("lost"))

\* DFU_DNLOAD
Dnload(command, next) ==
  \/ /\ dstate \in {"idle", "dnIdle"}
     /\ dstate' = "dnSync"
     /\ pending' = command
     /\ Answered(next)
  \/ Refused(dstate \in {"idle", "dnIdle"})

\* DFU_GETSTATUS, which begins the execution of a command and notices its end.
Reported ==
  CASE dstate = "dnSync" -> {"dnBusy", "error"}
    [] dstate = "executed" -> {"dnIdle"}
    [] OTHER -> {dstate}

GetStatus(state) ==
  /\ linked
  /\ state \in Reported
  /\ dstate' = state
  /\ pending' = IF state \in {"dnBusy", "dnSync"} THEN pending ELSE None

\* DFU_ABORT
Abort(next) ==
  \/ /\ dstate \in {"idle", "dnIdle"}
     /\ dstate' \in {"idle", "error"}
     /\ UNCHANGED pending
     /\ Answered(next)
  \/ Refused(dstate \in {"idle", "dnIdle"})

-----------------------------------------------------------------------------
(* dfu_util up to dfuse_do_dnload.                                          *)

\* A process that is new has its statics fresh.
Start(n) ==
  /\ pc \in {"closed", "exited"}
  /\ attempts < MaxAttempts
  /\ attempts' = attempts + 1
  /\ pc' = "status"
  /\ file' = n
  /\ tried' = tried \cup {n}
  /\ outcome' = "running"
  /\ linked' = TRUE
  /\ last_erased_page' = IF pc = "exited" THEN NoPage ELSE last_erased_page
  /\ UNCHANGED << loopVars, firstpoll, dstate, pending, pointer, flash >>

\* Slip: an error is not cleared before the status is asked for again.
AfterStatus_Uncleared(state) ==
  CASE state = "error" -> "status"
    [] state = "dnIdle" -> "aborts"
    [] OTHER -> "downloads"

\* status_again.  A device that is busy is taken to be ready.
AfterStatus(state) ==
  CASE state = "error" -> "clears"
    [] state = "dnIdle" -> "aborts"
    [] OTHER -> "downloads"

AskStatus ==
  /\ pc = "status"
  /\ \/ \E state \in Reported : GetStatus(state) /\ Proceed(AfterStatus(state))
     \/ Refused(TRUE)
  /\ UNCHANGED << hostVars, historyVars, pointer, flash >>

ClearStatus ==
  /\ pc = "clears"
  /\ \/ /\ dstate = "error"
        /\ dstate' = "idle"
        /\ UNCHANGED pending
        /\ Answered("status")
     \/ Refused(dstate = "error")
  /\ UNCHANGED << hostVars, historyVars, pointer, flash >>

AbortPrevious ==
  /\ pc = "aborts"
  /\ Abort("status")
  /\ UNCHANGED << hostVars, historyVars, pointer, flash >>


\* Slip: the page erased last is remembered from one attempt to the next.
reset_dfuse_globals_Kept == UNCHANGED last_erased_page
reset_dfuse_globals == last_erased_page' = NoPage

dfuse_do_dnload ==
  /\ pc = "downloads"
  /\ reset_dfuse_globals
  /\ elem' = 1
  /\ \/ Files[file].dfuse /\ Proceed("element")
     \/ ~Files[file].dfuse /\ Exit
  /\ UNCHANGED << p, scan, firstpoll, attempts, historyVars, dstate, pending, pointer, flash >>

-----------------------------------------------------------------------------
(* dfuse_do_dfuse_dnload and dfuse_dnload_element.                          *)

NextElement ==
  /\ pc = "element"
  /\ \/ /\ elem > Len(Files[file].elements)
        /\ Proceed("leaves") /\ UNCHANGED loopVars
     \/ /\ elem <= Len(Files[file].elements)
        /\ \/ ~e.whole /\ Exit /\ UNCHANGED loopVars
           \/ /\ e.whole /\ e.alt # 0
              /\ elem' = elem + 1
              /\ UNCHANGED << pc, outcome, linked, p, scan >>
           \/ /\ e.whole /\ e.alt = 0
              /\ ~Writeable(e.address + e.size - 1)
              /\ Exit /\ UNCHANGED loopVars
           \/ /\ e.whole /\ e.alt = 0
              /\ Writeable(e.address + e.size - 1)
              /\ p' = 0 /\ scan' = 0
              /\ Proceed("erases")
              /\ UNCHANGED elem
  /\ UNCHANGED << firstpoll, last_erased_page, attempts, historyVars, dstate, pending, pointer, flash >>

\* Slip: one past the end of the chunk.
EraseAddress_Past == IF scan < chunk_size THEN address + scan ELSE address + chunk_size

\* The first pass steps through the chunk by pages, then looks at its end.
EraseAddress == IF scan < chunk_size THEN address + scan ELSE address + chunk_size - 1

Erased == PageStart(EraseAddress, find_segment(address).pagesize) = last_erased_page

StepOn ==
  IF scan < chunk_size
  THEN scan' = scan + find_segment(address).pagesize /\ UNCHANGED p
  ELSE scan' = 0 /\ p' = p + XferSize

ErasePage ==
  LET a == EraseAddress
  IN  \/ /\ Erasable(a)
         /\ last_erased_page' = PageStart(a, find_segment(a).pagesize)
         /\ firstpoll' = TRUE
         /\ Dnload(Command("erase", a, << >>), "erasing")
      \/ /\ ~Erasable(a)
         /\ Exit
         /\ UNCHANGED << last_erased_page, firstpoll, dstate, pending >>

Erase ==
  /\ pc = "erases"
  /\ \/ /\ p >= e.size
        /\ p' = 0 /\ Proceed("writes")
        /\ UNCHANGED << scan, last_erased_page, firstpoll, dstate, pending >>
     \/ /\ p < e.size /\ ~Writeable(address)
        /\ Exit
        /\ UNCHANGED << p, scan, last_erased_page, firstpoll, dstate, pending >>
     \/ /\ p < e.size /\ Writeable(address) /\ ~Erasable(address)
        /\ p' = p + XferSize
        /\ UNCHANGED << pc, outcome, linked, scan, last_erased_page, firstpoll, dstate, pending >>
     \/ /\ p < e.size /\ Writeable(address) /\ Erasable(address)
        /\ \/ /\ Erased /\ StepOn
              /\ UNCHANGED << pc, outcome, linked, last_erased_page, firstpoll, dstate, pending >>
           \/ /\ ~Erased /\ ErasePage
              /\ UNCHANGED << p, scan >>
  /\ UNCHANGED << elem, attempts, historyVars, pointer, flash >>

\* dfuse_special_command, after its download.
Poll(done) ==
  \/ \E state \in Reported :
       /\ GetStatus(state)
       /\ firstpoll' = FALSE
       /\ \/ state = "dnBusy" /\ UNCHANGED << pc, outcome, linked >>
          \/ state # "dnBusy" /\ ~firstpoll /\ state # "error" /\ Proceed(done)
          \/ state # "dnBusy" /\ (firstpoll \/ state = "error") /\ Exit
  \/ Refused(TRUE) /\ UNCHANGED firstpoll

PollErase ==
  /\ pc = "erasing"
  /\ Poll("erases")
  /\ IF pc' = "erases" THEN StepOn ELSE UNCHANGED << p, scan >>
  /\ UNCHANGED << elem, last_erased_page, attempts, historyVars, pointer, flash >>

SetAddress ==
  /\ pc = "writes"
  /\ \/ /\ p >= e.size
        /\ elem' = elem + 1
        /\ Proceed("element")
        /\ UNCHANGED << firstpoll, dstate, pending >>
     \/ /\ p < e.size
        /\ firstpoll' = TRUE
        /\ Dnload(Command("address", address, << >>), "addressing")
        /\ UNCHANGED elem
  /\ UNCHANGED << p, scan, last_erased_page, attempts, historyVars, pointer, flash >>

PollAddress ==
  /\ pc = "addressing"
  /\ Poll("chunk")
  /\ UNCHANGED << loopVars, last_erased_page, attempts, historyVars, pointer, flash >>

Chunk == [k \in 1 .. chunk_size |-> ByteFor(file, elem, address + k - 1)]

dfuse_dnload_chunk ==
  /\ pc = "chunk"
  /\ Dnload(Command("data", 0, Chunk), "writing")
  /\ UNCHANGED << hostVars, historyVars, pointer, flash >>

\* Polls until dfuDNLOAD-IDLE or dfuERROR (or dfuMANIFEST, which only a
\* download of no bytes brings about).
PollChunk ==
  /\ pc = "writing"
  /\ \/ \E state \in Reported :
          /\ GetStatus(state)
          /\ \/ state \notin {"dnIdle", "error"} /\ UNCHANGED << pc, outcome, linked, p >>
             \/ state = "dnIdle" /\ Proceed("writes") /\ p' = p + XferSize
             \/ state = "error" /\ Exit /\ UNCHANGED p
     \/ Refused(TRUE) /\ UNCHANGED p
  /\ UNCHANGED << elem, scan, firstpoll, last_erased_page, attempts, historyVars, pointer, flash >>

-----------------------------------------------------------------------------
(* The end of dfuse_do_dnload and of dfu_util.                              *)

AbortToIdle ==
  /\ pc = "leaves"
  /\ Abort("idling")
  /\ UNCHANGED << hostVars, historyVars, pointer, flash >>

CheckIdle ==
  /\ pc = "idling"
  /\ \/ \E state \in Reported :
          /\ GetStatus(state)
          /\ \/ state = "idle" /\ Proceed("resets") /\ reset_dfuse_globals
             \/ state # "idle" /\ Exit /\ UNCHANGED last_erased_page
     \/ Refused(TRUE) /\ UNCHANGED last_erased_page
  /\ UNCHANGED << loopVars, firstpoll, attempts, historyVars, pointer, flash >>

\* -R: a detach that may fail, then a USB reset that may not.
FinalReset ==
  /\ pc = "resets"
  /\ \/ /\ pc' = "closed"
        /\ outcome' = "done"
        /\ linked' = FALSE
     \/ Quit(IF linked THEN "lost" ELSE "failed")
  /\ dstate' = "idle" /\ pending' = None
  /\ UNCHANGED << hostVars, historyVars, pointer, flash >>

-----------------------------------------------------------------------------
(* The bootloader.                                                          *)

Affected ==
  CASE pending.name = "erase" -> Page(pending.at)
    [] pending.name = "data" -> Addresses \cap (pointer .. pointer + Len(pending.bytes) - 1)
    [] OTHER -> {}

\* Flash takes data only when it is erased.
Stored(a) ==
  CASE pending.name = "erase" -> Blank
    [] pending.name = "data" /\ (flash[a] = Blank \/ ~Erasable(a)) -> pending.bytes[a - pointer + 1]
    [] OTHER -> Garbled

Done == [a \in Addresses |-> IF a \in Affected THEN Stored(a) ELSE flash[a]]
Torn == [a \in Addresses |-> IF a \in Affected THEN TornByte ELSE flash[a]]

Execute ==
  /\ dstate = "dnBusy" /\ pending # None
  /\ \/ /\ flash' = Done
        /\ pointer' = IF pending.name = "address" THEN pending.at ELSE pointer
        /\ dstate' = "executed"
     \/ flash' = Torn /\ dstate' = "error" /\ UNCHANGED pointer
  /\ pending' = None
  /\ UNCHANGED << pc, hostVars, historyVars, linked, outcome >>

\* Power is lost; the user brings the bootloader back.
Unplug ==
  /\ linked \/ dstate # "idle"
  /\ linked' = FALSE
  /\ dstate' = "idle" /\ pending' = None /\ pointer' = 0
  /\ flash' \in {flash} \cup (IF dstate = "dnBusy" THEN {Torn, Done} ELSE {})
  /\ UNCHANGED << pc, hostVars, historyVars, outcome >>

Host ==
  \/ AskStatus \/ ClearStatus \/ AbortPrevious \/ dfuse_do_dnload
  \/ NextElement \/ Erase \/ PollErase \/ SetAddress \/ PollAddress
  \/ dfuse_dnload_chunk \/ PollChunk
  \/ AbortToIdle \/ CheckIdle \/ FinalReset

Next == (\E n \in DOMAIN Files : Start(n)) \/ Host \/ Execute \/ Unplug

Spec == Init /\ [][Next]_vars

\* A synchronous transfer returns, and the bootloader executes its command; no
\* transfer that the device expects is owed a failure.
FairSpec ==
  /\ Spec
  /\ WF_vars(Host /\ outcome' # "lost")
  /\ WF_vars(Execute)
-----------------------------------------------------------------------------
(* Properties.                                                              *)

TypeOK ==
  /\ pc \in {"closed", "exited", "status", "clears", "aborts", "downloads", "element",
             "erases", "erasing", "writes", "addressing", "chunk", "writing",
             "leaves", "idling", "resets"}
  /\ file \in DOMAIN Files \cup {0}
  /\ elem \in Nat /\ p \in Nat /\ scan \in Nat
  /\ firstpoll \in BOOLEAN /\ linked \in BOOLEAN
  /\ last_erased_page \in {NoPage} \cup Addresses
  /\ dstate \in {"idle", "dnSync", "dnBusy", "executed", "dnIdle", "error"}
  /\ pending.name \in {"none", "erase", "address", "data"}
  /\ pending.at \in Addresses \cup {0}
  /\ Len(pending.bytes) <= XferSize
  /\ \A k \in DOMAIN pending.bytes :
       \E n \in tried : \E i \in Targets(n) : \E a \in Bytes(Element(n, i)) :
         pending.bytes[k] = ByteFor(n, i, a)
  /\ pointer \in Addresses \cup {0}
  /\ DOMAIN flash = Addresses
  /\ outcome \in {"none", "running", "done", "failed", "lost"}
  /\ tried \subseteq DOMAIN Files

\* dfuse.c:408, "taking care of page erases": no byte of flash is ever
\* programmed that is not blank, whatever the erases of this element, of an
\* earlier element on the same page, of an earlier attempt, or a command left
\* over in the device have done.
ErasedBeforeWritten == \A a \in Addresses : flash[a] # Garbled

\* What the user is promised, in FlashImage: a success means the whole file,
\* and nothing beyond the file's pages is ever touched.
Image ==
  INSTANCE FlashImage WITH outcome <- IF outcome = "lost" THEN "failed" ELSE outcome
UpgradeIsImage == Image!Spec

\* dfu_util ends, though it waits for the device in loops that count nothing:
\* status_again and the two polls.
AttemptEnds == pc = "status" ~> pc \in {"closed", "exited"}
=============================================================================
