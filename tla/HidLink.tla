------------------------------- MODULE HidLink -------------------------------
(***************************************************************************)
(* The command direction of one HID connection: the write loop of          *)
(* sendHIDPacket (Modules/SCSI2SD_HID.m) on the host, and on the device    *)
(* the same reassembly code, which hidpacket.h offers to both ends.        *)
(*                                                                         *)
(* hid_write may report failure; the loop then writes the same report      *)
(* again, ten times in all.  A failing hid_write may or may not have       *)
(* reached the device (an OS-level timeout says nothing about delivery):   *)
(* Ambiguous says whether the first case is considered.                    *)
(***************************************************************************)
EXTENDS HidPacket

CONSTANTS CommandLens,   \* lengths of the commands the host issues
          MaxAttempts,   \* hid_write calls per report (10)
          MaxCommands,   \* bound: commands issued in one behaviour
          Ambiguous      \* may a failing hid_write have been delivered?

ASSUME LinkAssumption ==
  /\ CommandLens \subseteq 1..MaxLen
  /\ MaxAttempts \in Nat \ {0}
  /\ MaxCommands \in Nat
  /\ Ambiguous \in BOOLEAN

VARIABLES pc,         \* "idle", or "writing" inside the write loop
          tx,         \* the host's static tx
          report,     \* the report in reportBuf, the one being written
          attempts,   \* failing calls of hid_write for it
          devRx,      \* the device's rx
          commands,   \* history: packets handed to sendHIDPacket
          executed,   \* history: packets the device took from devRx
          outcome,    \* of the last finished command
          found,      \* history: devRx.state when it was issued
          repeated    \* history: did a failing hid_write deliver one of its reports?

vars == << pc, tx, report, attempts, devRx, commands, executed, outcome, found,
           repeated >>

Bytes == Nat \X Nat

\* The n-th command: its bytes differ from those of every other command.
Command(n, len) == [i \in 1..len |-> << n, i >>]

NoReport == Report(0, FALSE, << >>)

Init ==
  /\ pc = "idle"
  /\ tx = ResetState
  /\ report = NoReport
  /\ attempts = 0
  /\ devRx = ResetState
  /\ commands = << >>
  /\ executed = << >>
  /\ outcome = "none"
  /\ found = "IDLE"
  /\ repeated = FALSE

\* hidPacket_send and the first hidPacket_getHIDBytes.
Send(len) ==
  LET packet == Command(Len(commands) + 1, len)
      loaded == hidPacket_send(packet)
  IN  /\ pc = "idle"
      /\ Len(commands) < MaxCommands
      /\ commands' = Append(commands, packet)
      /\ report' = NextReport(loaded)
      /\ tx' = hidPacket_getHIDBytes(loaded)
      /\ attempts' = 0
      /\ pc' = "writing"
      /\ outcome' = "none"
      /\ found' = devRx.state
      /\ repeated' = FALSE
      /\ UNCHANGED << devRx, executed >>

\* hid_write succeeds; the loop fetches the next report, or is done.
WriteSucceeds ==
  /\ pc = "writing"
  /\ devRx' = hidPacket_recv(devRx, report)
  /\ \/ /\ HasReport(tx)
        /\ report' = NextReport(tx)
        /\ tx' = hidPacket_getHIDBytes(tx)
        /\ attempts' = 0
        /\ UNCHANGED << pc, outcome >>
     \/ /\ ~HasReport(tx)
        /\ pc' = "idle"
        /\ outcome' = "written"
        /\ UNCHANGED << tx, report, attempts >>
  /\ UNCHANGED << commands, executed, found, repeated >>

\* hid_write fails, with or without delivering; after the last attempt
\* "USB HID write failure" is raised and the rest of the packet stays in tx.
WriteFails(delivered) ==
  /\ pc = "writing"
  /\ devRx' = IF delivered THEN hidPacket_recv(devRx, report) ELSE devRx
  /\ \/ /\ attempts + 1 < MaxAttempts
        /\ attempts' = attempts + 1
        /\ UNCHANGED << pc, outcome >>
     \/ /\ attempts + 1 = MaxAttempts
        /\ pc' = "idle"
        /\ outcome' = "raised"
        /\ UNCHANGED attempts
  /\ repeated' = (repeated \/ delivered)
  /\ UNCHANGED << tx, report, commands, executed, found >>

\* The firmware polls hidPacket_getPacket and executes what it returns.
DeviceTakes ==
  /\ HasPacket(devRx)
  /\ executed' = Append(executed, Packet(devRx))
  /\ devRx' = hidPacket_getPacket(devRx)
  /\ UNCHANGED << pc, tx, report, attempts, commands, outcome, found,
                  repeated >>

Next ==
  \/ \E len \in CommandLens : Send(len)
  \/ WriteSucceeds
  \/ \E delivered \in {FALSE, Ambiguous} : WriteFails(delivered)
  \/ DeviceTakes

Spec == Init /\ [][Next]_vars

-----------------------------------------------------------------------------
(***************************************************************************)
(* Properties.                                                             *)
(***************************************************************************)

\* Both static buffers hold at most MaxLen bytes (hidpacket.c copies without
\* any other check), and a report is never tried more than MaxAttempts times.
TypeOK ==
  /\ pc \in {"idle", "writing"}
  /\ tx \in Buffers(Bytes)
  /\ report \in Reports64(Bytes)
  /\ Len(report.payload) <= PayloadLen
  /\ attempts \in 0 .. MaxAttempts - 1
  /\ devRx \in Buffers(Bytes)
  /\ commands \in Seq(Seq(Bytes))
  /\ executed \in Seq(Seq(Bytes))
  /\ outcome \in {"none", "written", "raised"}
  /\ found \in States
  /\ repeated \in BOOLEAN

\* The command that is being written or was written last.
Current == commands[Len(commands)]

\* Abandoned packets, repeated reports and packets the device has not yet
\* taken never make it execute anything but whole issued commands, in order.
Channel == INSTANCE CommandChannel
             WITH Packets <- { Command(n, len) : n \in 1..MaxCommands,
                                                 len \in CommandLens }
InOrderWholeCommands == Channel!Spec

\* Why that holds.  While a command is being written: the report in reportBuf
\* and tx are what is left of it; and if the device is in the middle of a packet
\* although the first report went out, it is this packet, complete up to the
\* report being written or, when a failing hid_write delivered it, including it.
WritingInv ==
  pc = "writing" =>
    /\ commands # << >>
    /\ tx.chunk = report.chunk + 1
    /\ report.final <=> ~HasReport(tx)
    /\ report.final <=> tx.data = << >>
    /\ report.chunk = 0 => report.payload \o tx.data = Current
    /\ report.chunk > 0 /\ devRx.state = "PARTIAL" =>
         \/ /\ devRx.chunk + 1 = report.chunk
            /\ devRx.data \o (report.payload \o tx.data) = Current
         \/ /\ devRx.chunk = report.chunk
            /\ devRx.data \o tx.data = Current

\* Everything executed is command k or an earlier one.
ExecutedUpTo(k) ==
  \A i \in DOMAIN executed : \E j \in 1..k : executed[i] = commands[j]

\* A complete packet is one of the commands, not older than any executed one.
CompleteInv ==
  HasPacket(devRx) =>
    \E k \in 1..Len(commands) : Packet(devRx) = commands[k] /\ ExecutedUpTo(k)

WholeCommandsInv == TypeOK /\ WritingInv /\ CompleteInv /\ ExecutedUpTo(Len(commands))

\* A repeated report is recognised by its chunk number, so a command of
\* several reports (every sector write) is executed at most once, however
\* often its reports are repeated by the retry loop.
LongCommandsAtMostOnce ==
  \A i, j \in DOMAIN executed :
    executed[i] = executed[j] => i = j \/ Len(executed[i]) <= PayloadLen

\* The current command was executed or is ready to be.
Received ==
  \/ HasPacket(devRx) /\ Packet(devRx) = Current
  \/ \E i \in DOMAIN executed : executed[i] = Current

\* Whatever an abandoned packet left in the receiver, the first report of a
\* command this short still passes the overflow check (24 bytes in the code).
ShortLen == MaxLen - ((MaxLen - 1) \div PayloadLen) * PayloadLen

\* A command all of whose reports were accepted reaches the device: one that
\* starts on an empty receiver unless a report of it is delivered twice, and a
\* short one (those that open and poll a connection) also after an abandoned
\* packet and with repeated reports, which is what lets a connection recover.
\* Only a command the device has not yet taken can still be in its way.
WrittenIsReceived ==
  outcome = "written" =>
    \/ Received
    \/ Len(Current) > ShortLen /\ (repeated \/ found = "PARTIAL")
    \/ found = "COMPLETE"

=============================================================================
