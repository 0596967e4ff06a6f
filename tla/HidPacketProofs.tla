--------------------------- MODULE HidPacketProofs ---------------------------
(***************************************************************************)
(* Lemmas about the operators of HidPacket: no call leaves more than       *)
(* MaxLen bytes in a buffer, and fragmenting a packet loses nothing.       *)
(***************************************************************************)
EXTENDS HidPacket, SequenceTheorems, TLAPS

\* An empty buffer is a buffer.
LEMMA ResetIsBuffer ==
  ASSUME NEW Bytes
  PROVE  ResetState \in Buffers(Bytes)
  BY PacketAssumption DEF ResetState, Buffers, States

\* hidPacket_recv never stores beyond the end of rx.buffer, whatever the report
\* claims and whatever rx holds: the one check it makes is enough for both
\* copies (hidpacket.c:61-81).
LEMMA RecvStaysInBuffer ==
  ASSUME NEW Bytes,
         NEW rx \in Buffers(Bytes),
         NEW report \in Reports64(Bytes)
  PROVE  hidPacket_recv(rx, report) \in Buffers(Bytes)
<1>1. CASE TooLong(report) \/ Overflows(rx, report)
  BY <1>1, ResetIsBuffer DEF hidPacket_recv
<1>2. CASE ~(TooLong(report) \/ Overflows(rx, report))
  <2>1. /\ rx \in [state : States, chunk : Nat, data : Seq(Bytes)]
        /\ report \in [chunk : Nat, final : BOOLEAN, payload : Seq(Bytes)]
    BY DEF Buffers, Reports64
  <2>2. Len(report.payload) + Len(rx.data) <= MaxLen
    <3>1. ~(Len(report.payload) + Len(rx.data) > MaxLen)
      BY <1>2 DEF Overflows
    <3>2. MaxLen \in Nat
      BY PacketAssumption
    <3> QED BY <2>1, <3>1, <3>2
  <2>3. /\ rx.data \o report.payload \in Seq(Bytes)
        /\ Len(rx.data \o report.payload) <= MaxLen
    <3>1. /\ rx.data \o report.payload \in Seq(Bytes)
          /\ Len(rx.data \o report.payload) = Len(rx.data) + Len(report.payload)
      BY <2>1, ConcatProperties
    <3> QED BY <2>1, <2>2, <3>1
  <2>4. Stored(rx, report) \in Buffers(Bytes)
    <3>1. CASE report.chunk = 0
      BY <3>1, <2>1, <2>2, PacketAssumption DEF Stored, Buffers, States
    <3>2. CASE report.chunk # 0 /\ rx.state = "PARTIAL" /\ report.chunk = rx.chunk + 1
      <4>1. Stored(rx, report) = [state |-> "PARTIAL", chunk |-> rx.chunk + 1,
                                  data |-> rx.data \o report.payload]
        BY <3>2 DEF Stored
      <4> QED BY <4>1, <2>1, <2>3 DEF Buffers, States
    <3>3. CASE report.chunk # 0 /\ ~(rx.state = "PARTIAL" /\ report.chunk = rx.chunk + 1)
      BY <3>3, ResetIsBuffer DEF Stored
    <3> QED BY <3>1, <3>2, <3>3
  <2>5. Completed(Stored(rx, report), report.final) \in Buffers(Bytes)
    BY <2>4 DEF Completed, Buffers, States
  <2> QED BY <1>2, <2>5 DEF hidPacket_recv
<1> QED BY <1>1, <1>2

\* Taking a packet leaves an empty buffer or an incomplete one.
LEMMA GetPacketEmpties ==
  ASSUME NEW Bytes, NEW rx \in Buffers(Bytes)
  PROVE  /\ hidPacket_getPacket(rx) \in Buffers(Bytes)
         /\ ~HasPacket(hidPacket_getPacket(rx))
  BY ResetIsBuffer DEF hidPacket_getPacket, HasPacket, ResetState

\* hidPacket_send accepts a packet that fits, or leaves nothing to send.
LEMMA SendStaysInBuffer ==
  ASSUME NEW Bytes, NEW packet \in Seq(Bytes)
  PROVE  hidPacket_send(packet) \in Buffers(Bytes)
  BY ResetIsBuffer DEF hidPacket_send, Buffers, States

\* A sequence is its first k elements followed by the others.
LEMMA SplitSeq ==
  ASSUME NEW S, NEW s \in Seq(S), NEW k \in 0..Len(s)
  PROVE  /\ SubSeq(s, 1, k) \in Seq(S)
         /\ Len(SubSeq(s, 1, k)) = k
         /\ SubSeq(s, k + 1, Len(s)) \in Seq(S)
         /\ Len(SubSeq(s, k + 1, Len(s))) = Len(s) - k
         /\ SubSeq(s, 1, k) \o SubSeq(s, k + 1, Len(s)) = s
<1>1. Len(s) \in Nat /\ k \in Nat /\ k <= Len(s)
  BY LenProperties
<1>2. \A i \in 1..Len(s) : s[i] \in S
  BY ElementOfSeq
<1>3. SubSeq(s, 1, k) \in Seq(S) /\ Len(SubSeq(s, 1, k)) = k
  BY <1>1, <1>2, SubSeqProperties
<1>4. /\ SubSeq(s, k + 1, Len(s)) \in Seq(S)
      /\ Len(SubSeq(s, k + 1, Len(s))) = Len(s) - k
  BY <1>1, <1>2, SubSeqProperties
<1>5. SubSeq(s, 1, k) \o SubSeq(s, k + 1, Len(s)) = SubSeq(s, 1, Len(s))
  <2>1. 1 \in 1 .. Len(s)+1 /\ k \in 1-1 .. Len(s) /\ Len(s) \in k .. Len(s)
    BY <1>1
  <2> QED BY <2>1, ConcatAdjacentSubSeq
<1>6. SubSeq(s, 1, Len(s)) = s
  BY SubSeqFull
<1> QED BY <1>3, <1>4, <1>5, <1>6

\* One report of hidPacket_getHIDBytes carries at most PayloadLen bytes, and
\* what it carries and what remains in tx are together what tx held.
LEMMA FragmentSplits ==
  ASSUME NEW Bytes, NEW tx \in Buffers(Bytes)
  PROVE  /\ NextReport(tx) \in Reports64(Bytes)
         /\ Len(NextReport(tx).payload) <= PayloadLen
         /\ hidPacket_getHIDBytes(tx) \in Buffers(Bytes)
         /\ NextReport(tx).payload \o hidPacket_getHIDBytes(tx).data = tx.data
         /\ NextReport(tx).final <=> hidPacket_getHIDBytes(tx).data = << >>
         /\ NextReport(tx).final <=> hidPacket_getHIDBytes(tx).state = "IDLE"
<1> DEFINE n == Len(tx.data)
           k == ReportLen(tx)
           first == SubSeq(tx.data, 1, k)
           rest == SubSeq(tx.data, k + 1, n)
           last == IsLastReport(tx)
<1>1. /\ tx \in [state : States, chunk : Nat, data : Seq(Bytes)]
      /\ tx.data \in Seq(Bytes) /\ n \in Nat /\ n <= MaxLen /\ tx.chunk \in Nat
  BY LenProperties DEF Buffers
<1>2. k \in 0..n /\ k <= PayloadLen
  BY <1>1, PacketAssumption DEF ReportLen, IsLastReport
<1>3. /\ first \in Seq(Bytes) /\ Len(first) = k
      /\ rest \in Seq(Bytes) /\ Len(rest) = n - k
      /\ first \o rest = tx.data
  BY <1>1, <1>2, SplitSeq
<1>4. last <=> rest = << >>
  <2>1. last <=> n - k = 0
    BY <1>1, PacketAssumption DEF ReportLen, IsLastReport
  <2> QED BY <2>1, <1>3, EmptySeq
<1>5. last \in BOOLEAN
  BY DEF IsLastReport
<1>6. NextReport(tx) = [chunk |-> tx.chunk, final |-> last, payload |-> first]
  BY DEF NextReport, Report
<1>7. hidPacket_getHIDBytes(tx) =
        [state |-> IF last THEN "IDLE" ELSE "PARTIAL", chunk |-> tx.chunk + 1, data |-> rest]
  BY DEF hidPacket_getHIDBytes
<1>8. Len(rest) <= MaxLen
  BY <1>1, <1>2, <1>3, PacketAssumption
<1> HIDE DEF first, rest, n, k, last
<1>9. NextReport(tx) \in Reports64(Bytes) /\ Len(NextReport(tx).payload) <= PayloadLen
  BY <1>1, <1>2, <1>3, <1>5, <1>6 DEF Reports64
<1>10. hidPacket_getHIDBytes(tx) \in Buffers(Bytes)
  <2>1. (IF last THEN "IDLE" ELSE "PARTIAL") \in States
    BY DEF States
  <2>2. tx.chunk + 1 \in Nat
    BY <1>1
  <2> QED BY <2>1, <2>2, <1>3, <1>7, <1>8 DEF Buffers
<1> QED BY <1>3, <1>4, <1>5, <1>6, <1>7, <1>9, <1>10

=============================================================================
