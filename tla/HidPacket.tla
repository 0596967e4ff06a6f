------------------------------ MODULE HidPacket ------------------------------
(***************************************************************************)
(* Reassembly and fragmentation of packets over 64-byte HID reports        *)
(* (Modules/hidpacket.c).  The two static HIDPacketState variables of the  *)
(* C file, rx and tx, are records here; every function that changes one is *)
(* an operator from the old record to the new one.                         *)
(*                                                                         *)
(* A byte is any value.  The C pair (buffer, offset) is the sequence of    *)
(* the first `offset' bytes of the buffer: nothing ever looks beyond       *)
(* offset.  Constants, so that a small buffer can be checked:              *)
(*   PayloadLen   USBHID_LEN - 2, payload bytes of one report      (62)    *)
(*   MaxLen       HIDPACKET_MAX_LEN, the size of both buffers     (520)    *)
(***************************************************************************)
EXTENDS Integers, Sequences

CONSTANTS PayloadLen, MaxLen

\* The last chunk number of a full buffer fits the seven bits of the header
\* (520 / 62 is far below), and a buffer holds at least one whole report.
ASSUME PacketAssumption ==
  /\ PayloadLen \in Nat \ {0}
  /\ MaxLen \in Nat
  /\ PayloadLen <= MaxLen

States == {"IDLE", "PARTIAL", "COMPLETE"}

\* One HID report: header byte split into chunk number and final flag, and
\* the payload its length byte announces.
Report(chunk, final, payload) ==
  [chunk |-> chunk, final |-> final, payload |-> payload]

\* The reports and buffer states over a set of bytes.
Reports64(Bytes) == [chunk : Nat, final : BOOLEAN, payload : Seq(Bytes)]

Buffers(Bytes) ==
  { s \in [state : States, chunk : Nat, data : Seq(Bytes)] : Len(s.data) <= MaxLen }

\* rxReset, txReset and the static initialisers.
ResetState == [state |-> "IDLE", chunk |-> 0, data |-> << >>]

(***************************************************************************)
(* Receiving.                                                              *)
(***************************************************************************)

\* "short packet": the length byte announces more than the report holds.
TooLong(report) == Len(report.payload) > PayloadLen

\* A slip: every report counted as a full one.
Overflows_FullReport(rx, report) == PayloadLen + Len(rx.data) > MaxLen

\* "buffer overflow": judged against the offset of whatever is in the buffer,
\* also for an initial chunk, which would be stored at offset 0.
Overflows(rx, report) == Len(report.payload) + Len(rx.data) > MaxLen

\* A slip: an initial chunk appended to what is there.
Stored_KeepsOffset(rx, report) ==
  IF report.chunk = 0 \/ (rx.state = "PARTIAL" /\ report.chunk = rx.chunk + 1)
  THEN [state |-> "PARTIAL", chunk |-> report.chunk, data |-> rx.data \o report.payload]
  ELSE IF report.chunk = rx.chunk THEN rx ELSE ResetState

\* What the four branches on the chunk number leave in rx.
Stored(rx, report) ==
  IF report.chunk = 0
  THEN [state |-> "PARTIAL", chunk |-> 0, data |-> report.payload]
  ELSE IF rx.state = "PARTIAL" /\ report.chunk = rx.chunk + 1
  THEN [state |-> "PARTIAL", chunk |-> rx.chunk + 1, data |-> rx.data \o report.payload]
  ELSE IF report.chunk = rx.chunk
  THEN rx                                \* "duplicated packet. ignore."
  ELSE ResetState                        \* "Maybe we missed some data."

\* A slip: the final flag is not looked at.
Completed_Early(rx, final) ==
  IF rx.state = "PARTIAL" THEN [rx EXCEPT !.state = "COMPLETE"] ELSE rx

Completed(rx, final) ==
  IF rx.state = "PARTIAL" /\ final THEN [rx EXCEPT !.state = "COMPLETE"] ELSE rx

hidPacket_recv(rx, report) ==
  IF TooLong(report) \/ Overflows(rx, report)
  THEN ResetState
  ELSE Completed(Stored(rx, report), report.final)

\* hidPacket_getPacket: a packet is returned only when one is complete, and
\* returning it empties rx.
HasPacket(rx) == rx.state = "COMPLETE"
Packet(rx) == rx.data

\* A slip: rxReset forgotten.
hidPacket_getPacket_Keeps(rx) == rx

hidPacket_getPacket(rx) == IF HasPacket(rx) THEN ResetState ELSE rx

(***************************************************************************)
(* Sending.                                                                *)
(***************************************************************************)

hidPacket_send(packet) ==
  IF Len(packet) <= MaxLen
  THEN [state |-> "PARTIAL", chunk |-> 0, data |-> packet]
  ELSE ResetState

\* hidPacket_getHIDBytes: NULL unless a report is left to send; the report it
\* fills; and what it leaves in tx.
HasReport(tx) == tx.state = "PARTIAL" /\ Len(tx.data) > 0

IsLastReport(tx) == Len(tx.data) <= PayloadLen

\* A slip: the two header bytes forgotten.
ReportLen_NoHeader(tx) == IF IsLastReport(tx) THEN Len(tx.data) ELSE PayloadLen + 2

ReportLen(tx) == IF IsLastReport(tx) THEN Len(tx.data) ELSE PayloadLen

NextReport(tx) ==
  Report(tx.chunk, IsLastReport(tx), SubSeq(tx.data, 1, ReportLen(tx)))

hidPacket_getHIDBytes(tx) ==
  [state |-> IF IsLastReport(tx) THEN "IDLE" ELSE "PARTIAL",
   chunk |-> tx.chunk + 1,
   data |-> SubSeq(tx.data, ReportLen(tx) + 1, Len(tx.data))]

\* The number of reports a packet of this length takes.
Reports(len) == (len + PayloadLen - 1) \div PayloadLen

=============================================================================
