---------------------------- MODULE HidLinkProofs ----------------------------
(***************************************************************************)
(* HidLink for every buffer size, set of commands and number of attempts:  *)
(* its types; that it implements CommandChannel; that a long command is    *)
(* executed at most once, and that one that was written arrives.           *)
(***************************************************************************)
EXTENDS HidLink, HidPacketProofs

\* A command is a sequence of bytes that fits the buffer and is not empty.
LEMMA CommandType ==
  ASSUME NEW n \in Nat, NEW len \in CommandLens
  PROVE  /\ Command(n, len) \in Seq(Bytes)
         /\ Len(Command(n, len)) = len
         /\ len \in 1..MaxLen
<1>1. len \in 1..MaxLen /\ len \in Nat
  BY LinkAssumption, PacketAssumption
<1>2. Command(n, len) \in [1..len -> Bytes]
  BY <1>1 DEF Command, Bytes
<1>3. Command(n, len) \in Seq(Bytes)
  BY <1>1, <1>2
<1> QED BY <1>1, <1>2, <1>3

\* hidPacket_send takes every command, so the write loop has a first report.
LEMMA SendLoads ==
  ASSUME NEW n \in Nat, NEW len \in CommandLens
  PROVE  /\ hidPacket_send(Command(n, len)) \in Buffers(Bytes)
         /\ hidPacket_send(Command(n, len)).data = Command(n, len)
         /\ hidPacket_send(Command(n, len)).chunk = 0
<1>1. Len(Command(n, len)) <= MaxLen
  BY CommandType, PacketAssumption
<1> QED BY <1>1, CommandType, SendStaysInBuffer DEF hidPacket_send

\* The initial state is well typed.
LEMMA TypeInit == Init => TypeOK
<1> USE PacketAssumption, LinkAssumption
<1> SUFFICES ASSUME Init PROVE TypeOK
  OBVIOUS
<1>1. ResetState \in Buffers(Bytes)
  BY ResetIsBuffer
<1>2. << >> \in Seq(Bytes) /\ << >> \in Seq(Seq(Bytes)) /\ Len(<< >>) = 0
  BY EmptySeq
<1>3. NoReport \in Reports64(Bytes) /\ Len(NoReport.payload) <= PayloadLen
  BY <1>2 DEF NoReport, Report, Reports64
<1>4. 0 \in 0 .. MaxAttempts - 1
  OBVIOUS
<1>5. /\ tx \in Buffers(Bytes) /\ devRx \in Buffers(Bytes)
      /\ report \in Reports64(Bytes) /\ Len(report.payload) <= PayloadLen
  BY <1>1, <1>3 DEF Init
<1> QED BY <1>2, <1>4, <1>5 DEF Init, TypeOK, States

\* Every step keeps the types: no report overruns the device's buffer, every
\* fragment is well formed and the retry counter stays below its limit.
LEMMA TypeStep == TypeOK /\ [Next]_vars => TypeOK'
<1> USE PacketAssumption, LinkAssumption
<1> SUFFICES ASSUME TypeOK, [Next]_vars PROVE TypeOK'
  OBVIOUS
<1> DEFINE received == hidPacket_recv(devRx, report)
<1>r. received \in Buffers(Bytes)
  BY RecvStaysInBuffer DEF TypeOK
<1>n. /\ NextReport(tx) \in Reports64(Bytes)
      /\ Len(NextReport(tx).payload) <= PayloadLen
      /\ hidPacket_getHIDBytes(tx) \in Buffers(Bytes)
  BY FragmentSplits DEF TypeOK
<1> HIDE DEF received
<1>1. ASSUME NEW len \in CommandLens, Send(len) PROVE TypeOK'
  <2> DEFINE packet == Command(Len(commands) + 1, len)
             loaded == hidPacket_send(packet)
  <2>1. Len(commands) + 1 \in Nat
    BY LenProperties DEF TypeOK
  <2>2. packet \in Seq(Bytes) /\ loaded \in Buffers(Bytes)
    BY <2>1, CommandType, SendLoads
  <2>3. /\ NextReport(loaded) \in Reports64(Bytes)
        /\ Len(NextReport(loaded).payload) <= PayloadLen
        /\ hidPacket_getHIDBytes(loaded) \in Buffers(Bytes)
    BY <2>2, FragmentSplits
  <2>4. Append(commands, packet) \in Seq(Seq(Bytes))
    BY <2>2, AppendProperties DEF TypeOK
  <2>5. devRx.state \in States
    BY DEF TypeOK, Buffers
  <2> HIDE DEF packet, loaded
  <2>6. /\ commands' = Append(commands, packet)
        /\ report' = NextReport(loaded)
        /\ tx' = hidPacket_getHIDBytes(loaded)
        /\ attempts' = 0 /\ pc' = "writing" /\ outcome' = "none"
        /\ found' = devRx.state /\ repeated' = FALSE
        /\ devRx' = devRx /\ executed' = executed
    BY <1>1 DEF Send, packet, loaded
  <2>7. /\ report' \in Reports64(Bytes) /\ Len(report'.payload) <= PayloadLen
        /\ tx' \in Buffers(Bytes)
    BY <2>3, <2>6
  <2>8. attempts' \in 0 .. MaxAttempts - 1
    BY <2>6
  <2> QED BY <2>4, <2>5, <2>6, <2>7, <2>8 DEF TypeOK
<1>2. CASE WriteSucceeds
  BY <1>2, <1>r, <1>n DEF WriteSucceeds, TypeOK, received
<1>3. ASSUME NEW delivered \in {FALSE, Ambiguous}, WriteFails(delivered) PROVE TypeOK'
  BY <1>3, <1>r DEF WriteFails, TypeOK, received
<1>4. CASE DeviceTakes
  <2>1. Packet(devRx) \in Seq(Bytes)
    BY DEF Packet, TypeOK, Buffers
  <2>2. Append(executed, Packet(devRx)) \in Seq(Seq(Bytes))
    BY <2>1, AppendProperties DEF TypeOK
  <2>3. hidPacket_getPacket(devRx) \in Buffers(Bytes)
    BY GetPacketEmpties DEF TypeOK
  <2> QED BY <1>4, <2>2, <2>3 DEF DeviceTakes, TypeOK
<1>5. CASE UNCHANGED vars
  BY <1>5 DEF vars, TypeOK
<1> QED BY <1>1, <1>2, <1>3, <1>4, <1>5 DEF Next

\* Type correctness of the whole link, for every buffer size: what arrives
\* never overruns a buffer (hidpacket.c copies without any check but :61-62).
THEOREM TypeCorrect == Spec => []TypeOK
<1> QED BY TypeInit, TypeStep, PTL DEF Spec

\* Concatenation of byte sequences is associative.
LEMMA Reassociate ==
  ASSUME NEW a \in Seq(Bytes), NEW b \in Seq(Bytes), NEW c \in Seq(Bytes)
  PROVE  a \o (b \o c) = (a \o b) \o c
<1>1. (a \o b) \o c = a \o (b \o c)
  BY ONLY ConcatAssociative
<1> QED BY <1>1, Zenon

\* What the device's receiver holds after the report being written reached it:
\* this command up to that report, or all of the command, or what it held.
LEMMA Reception ==
  ASSUME TypeOK, WritingInv, pc = "writing"
  PROVE  LET d == hidPacket_recv(devRx, report) IN
         /\ d.state = "PARTIAL" => /\ d.chunk = report.chunk
                                  /\ d.data \o tx.data = Current
         /\ HasPacket(d) => d = devRx \/ d.data = Current
<1> DEFINE stored == Stored(devRx, report)
           d == hidPacket_recv(devRx, report)
<1>1. /\ devRx \in [state : States, chunk : Nat, data : Seq(Bytes)]
      /\ tx \in [state : States, chunk : Nat, data : Seq(Bytes)]
      /\ report \in [chunk : Nat, final : BOOLEAN, payload : Seq(Bytes)]
  BY DEF TypeOK, Buffers, Reports64
<1>2. stored.state = "PARTIAL" => /\ stored.chunk = report.chunk
                                  /\ stored.data \o tx.data = Current
  <2>1. CASE report.chunk = 0
    BY <2>1, <1>1 DEF WritingInv, Stored
  <2>2. CASE report.chunk # 0 /\ devRx.state = "PARTIAL" /\ report.chunk = devRx.chunk + 1
    <3>1. stored = [state |-> "PARTIAL", chunk |-> devRx.chunk + 1,
                    data |-> devRx.data \o report.payload]
      BY <2>2 DEF Stored
    <3>2. devRx.data \o (report.payload \o tx.data) = Current
      <4>1. devRx.chunk \in Nat /\ report.chunk \in Nat
        BY <1>1, Zenon
      <4>2. report.chunk > 0 /\ devRx.chunk # report.chunk
        BY <2>2, <4>1
      <4> QED BY <2>2, <4>2, Zenon DEF WritingInv
    <3>3. devRx.data \o (report.payload \o tx.data)
            = (devRx.data \o report.payload) \o tx.data
      <4>1. devRx.data \in Seq(Bytes) /\ report.payload \in Seq(Bytes) /\ tx.data \in Seq(Bytes)
        BY <1>1
      <4> QED BY <4>1, Reassociate
    <3> HIDE DEF stored
    <3>4. stored.chunk = report.chunk /\ stored.data = devRx.data \o report.payload
      BY <2>2, <3>1
    <3> QED BY <3>2, <3>3, <3>4
  <2>3. CASE /\ report.chunk # 0
             /\ ~(devRx.state = "PARTIAL" /\ report.chunk = devRx.chunk + 1)
             /\ report.chunk = devRx.chunk
    <3>1. stored = devRx
      BY <2>3 DEF Stored
    <3>2. devRx.state = "PARTIAL" => devRx.data \o tx.data = Current
      BY <1>1, <2>3 DEF WritingInv
    <3> QED BY <2>3, <3>1, <3>2
  <2>4. CASE /\ report.chunk # 0
             /\ ~(devRx.state = "PARTIAL" /\ report.chunk = devRx.chunk + 1)
             /\ report.chunk # devRx.chunk
    BY <2>4 DEF Stored, ResetState
  <2> QED BY <2>1, <2>2, <2>3, <2>4
<1>3. HasPacket(stored) => stored = devRx
  BY DEF Stored, HasPacket, ResetState
<1>4. stored \in [state : States, chunk : Nat, data : Seq(Bytes)]
  BY <1>1 DEF Stored, ResetState, States
<1>5. \/ d = ResetState
      \/ d = stored /\ ~(stored.state = "PARTIAL" /\ report.final)
      \/ /\ stored.state = "PARTIAL" /\ report.final
         /\ d = [stored EXCEPT !.state = "COMPLETE"]
  BY DEF hidPacket_recv, Completed
<1> HIDE DEF stored, d
<1>6. CASE d = ResetState
  BY <1>6 DEF ResetState, HasPacket, d
<1>7. CASE d = stored /\ ~(stored.state = "PARTIAL" /\ report.final)
  BY <1>2, <1>3, <1>7 DEF d
<1>8. CASE /\ stored.state = "PARTIAL" /\ report.final
           /\ d = [stored EXCEPT !.state = "COMPLETE"]
  <2>1. tx.data = << >>
    BY <1>8 DEF WritingInv
  <2>2. stored.data \o << >> = stored.data
    BY <1>4, ConcatEmptySeq
  <2>3. d.data = stored.data /\ d.state = "COMPLETE"
    BY <1>4, <1>8
  <2> QED BY <1>2, <1>8, <2>1, <2>2, <2>3 DEF d
<1> QED BY <1>5, <1>6, <1>7, <1>8
\* The inductive step of WholeCommandsInv, beyond types.
LEMMA WholeCommandsStep == WholeCommandsInv /\ [Next]_vars => WholeCommandsInv'
<1> SUFFICES ASSUME WholeCommandsInv, [Next]_vars PROVE WholeCommandsInv'
  OBVIOUS
<1> USE PacketAssumption, LinkAssumption
<1>t. TypeOK /\ TypeOK'
  BY TypeStep DEF WholeCommandsInv
<1>i. WritingInv /\ CompleteInv /\ ExecutedUpTo(Len(commands))
  BY DEF WholeCommandsInv
<1>l. Len(commands) \in Nat
  BY <1>t, LenProperties DEF TypeOK
\* Reception when the device's buffer is the only thing that changes.
<1>r. ASSUME pc = "writing", devRx' = hidPacket_recv(devRx, report),
             UNCHANGED << commands, executed >>
      PROVE  CompleteInv'
  <2>1. HasPacket(devRx') => devRx' = devRx \/ devRx'.data = Current
    BY <1>r, <1>t, <1>i, Reception
  <2>2. CASE devRx' = devRx
    <3>1. UNCHANGED << devRx, commands, executed >>
      BY <2>2, <1>r
    <3>2. CompleteInv
      BY <1>i, Zenon
    <3> QED BY ONLY <3>1, <3>2 DEF CompleteInv, HasPacket, Packet, ExecutedUpTo
  <2>3. CASE devRx'.data = Current
    <3>1. Len(commands) \in 1..Len(commands)
      <4>1. commands # << >>
        BY <1>r, <1>i DEF WritingInv
      <4>2. Len(commands) # 0
        BY <4>1, <1>t, EmptySeq DEF TypeOK
      <4> QED BY <4>2, <1>l
    <3> QED BY <2>3, <3>1, <1>r, <1>i DEF CompleteInv, Packet, Current, ExecutedUpTo
  <2>4. CASE ~HasPacket(devRx')
    BY <2>4 DEF CompleteInv, HasPacket
  <2> QED BY <2>1, <2>2, <2>3, <2>4
<1>1. ASSUME NEW len \in CommandLens, Send(len) PROVE WholeCommandsInv'
  <2> DEFINE packet == Command(Len(commands) + 1, len)
             loaded == hidPacket_send(packet)
  <2>1. /\ packet \in Seq(Bytes) /\ loaded \in Buffers(Bytes)
        /\ loaded.data = packet /\ loaded.chunk = 0
    BY <1>l, CommandType, SendLoads
  <2>2. /\ NextReport(loaded).payload \o hidPacket_getHIDBytes(loaded).data = packet
        /\ NextReport(loaded).final <=> hidPacket_getHIDBytes(loaded).data = << >>
        /\ NextReport(loaded).final <=> hidPacket_getHIDBytes(loaded).state = "IDLE"
        /\ hidPacket_getHIDBytes(loaded) \in Buffers(Bytes)
        /\ NextReport(loaded) \in Reports64(Bytes)
    BY <2>1, FragmentSplits
  <2>3. /\ NextReport(loaded).chunk = 0
        /\ hidPacket_getHIDBytes(loaded).chunk = 1
    BY <2>1 DEF NextReport, Report, hidPacket_getHIDBytes
  <2> HIDE DEF packet, loaded
  <2>4. /\ commands' = Append(commands, packet)
        /\ report' = NextReport(loaded)
        /\ tx' = hidPacket_getHIDBytes(loaded)
        /\ devRx' = devRx /\ executed' = executed
    BY <1>1 DEF Send, packet, loaded
  <2>5. /\ Len(commands') = Len(commands) + 1
        /\ \A k \in 1..Len(commands) : commands'[k] = commands[k]
        /\ commands'[Len(commands) + 1] = packet
    BY <2>1, <2>4, <1>t, AppendProperties DEF TypeOK
  <2>6. Current' = packet /\ commands' # << >>
    <3>1. Current' = packet
      BY <2>5 DEF Current
    <3>2. commands' # << >>
      BY <2>5, <1>l, EmptySeq
    <3> QED BY <3>1, <3>2
  <2>7. WritingInv'
    <3>1. report'.final <=> tx'.data = << >>
      BY <2>2, <2>4
    <3>2. report'.final <=> ~HasReport(tx')
      <4>1. /\ tx'.state \in States /\ tx'.data \in Seq(Bytes)
            /\ tx' = hidPacket_getHIDBytes(loaded)
        BY <2>2, <2>4 DEF Buffers
      <4>2. tx'.state # "IDLE" => tx'.state = "PARTIAL"
        BY <2>4 DEF hidPacket_getHIDBytes
      <4>3. tx'.data # << >> => Len(tx'.data) > 0
        BY <4>1, EmptySeq, LenProperties
      <4> QED BY <2>2, <2>4, <3>1, <4>2, <4>3 DEF HasReport
    <3>3. report'.chunk = 0 /\ tx'.chunk = report'.chunk + 1
      BY <2>3, <2>4
    <3>4. report'.payload \o tx'.data = Current'
      BY <2>2, <2>4, <2>6
    <3> QED BY <2>6, <3>1, <3>2, <3>3, <3>4 DEF WritingInv
  <2>8. CompleteInv' /\ ExecutedUpTo(Len(commands))'
    BY <1>i, <1>l, <2>4, <2>5 DEF CompleteInv, ExecutedUpTo, HasPacket, Packet
  <2> QED BY <1>t, <2>7, <2>8 DEF WholeCommandsInv
<1>2. CASE WriteSucceeds
  <2>1. pc = "writing" /\ devRx' = hidPacket_recv(devRx, report)
        /\ UNCHANGED << commands, executed >>
    BY <1>2 DEF WriteSucceeds
  <2>2. CompleteInv' /\ ExecutedUpTo(Len(commands))'
    BY <1>r, <1>i, <2>1 DEF ExecutedUpTo
  <2>3. CASE pc' = "idle"
    BY <2>3, <2>2, <1>t DEF WholeCommandsInv, WritingInv
  <2>4. CASE /\ HasReport(tx)
             /\ report' = NextReport(tx)
             /\ tx' = hidPacket_getHIDBytes(tx)
    <3>1. /\ NextReport(tx).payload \o hidPacket_getHIDBytes(tx).data = tx.data
          /\ NextReport(tx).final <=> hidPacket_getHIDBytes(tx).data = << >>
          /\ NextReport(tx).final <=> hidPacket_getHIDBytes(tx).state = "IDLE"
          /\ hidPacket_getHIDBytes(tx) \in Buffers(Bytes)
      BY <1>t, FragmentSplits DEF TypeOK
    <3>2. /\ report'.chunk = tx.chunk /\ tx'.chunk = tx.chunk + 1
          /\ tx.chunk = report.chunk + 1 /\ report.chunk \in Nat
      BY <2>1, <2>4, <1>i, <1>t
      DEF NextReport, Report, hidPacket_getHIDBytes, WritingInv, TypeOK, Reports64
    <3>3. report'.final <=> tx'.data = << >>
      BY <3>1, <2>4
    <3>4. report'.final <=> ~HasReport(tx')
      <4>1. tx'.data \in Seq(Bytes)
        BY <3>1, <2>4 DEF Buffers
      <4>2. tx'.state # "IDLE" => tx'.state = "PARTIAL"
        BY <2>4 DEF hidPacket_getHIDBytes
      <4>3. tx'.data # << >> => Len(tx'.data) > 0
        BY <4>1, EmptySeq, LenProperties
      <4> QED BY <3>1, <2>4, <3>3, <4>2, <4>3 DEF HasReport
    <3>5. Current' = Current /\ commands' # << >>
      BY <2>1, <1>i DEF Current, WritingInv
    <3>6. devRx'.state = "PARTIAL" =>
             /\ devRx'.chunk + 1 = report'.chunk
             /\ devRx'.data \o (report'.payload \o tx'.data) = Current'
      BY <1>t, <1>i, <2>1, <2>4, <3>1, <3>2, <3>5, Reception
    <3>7. report'.chunk # 0
      BY <3>2
    <3>8. WritingInv'
      BY <3>2, <3>3, <3>4, <3>5, <3>6, <3>7 DEF WritingInv
    <3> QED BY <3>8, <2>2, <1>t DEF WholeCommandsInv
  <2> QED BY <1>2, <2>3, <2>4 DEF WriteSucceeds
<1>3. ASSUME NEW delivered \in {FALSE, Ambiguous}, WriteFails(delivered)
      PROVE  WholeCommandsInv'
  <2>1. /\ pc = "writing"
        /\ UNCHANGED << tx, report, commands, executed >>
    BY <1>3 DEF WriteFails
  <2>2. CASE devRx' = devRx
    <3>1. WritingInv'
      BY <2>1, <2>2, <1>i DEF WritingInv, Current
    <3>2. CompleteInv' /\ ExecutedUpTo(Len(commands))'
      BY <2>1, <2>2, <1>i DEF CompleteInv, ExecutedUpTo, HasPacket, Packet
    <3> QED BY <3>1, <3>2, <1>t DEF WholeCommandsInv
  <2>3. CASE devRx' = hidPacket_recv(devRx, report)
    <3>1. devRx'.state = "PARTIAL" => /\ devRx'.chunk = report.chunk
                                      /\ devRx'.data \o tx.data = Current
      BY <1>t, <1>i, <2>1, <2>3, Reception
    <3>2. WritingInv'
      BY <3>1, <2>1, <1>i DEF WritingInv, Current
    <3>3. CompleteInv' /\ ExecutedUpTo(Len(commands))'
      BY <1>r, <1>i, <2>1, <2>3 DEF ExecutedUpTo
    <3> QED BY <3>2, <3>3, <1>t DEF WholeCommandsInv
  <2> QED BY <1>3, <2>2, <2>3 DEF WriteFails
<1>4. CASE DeviceTakes
  <2>1. /\ HasPacket(devRx) /\ devRx' = ResetState
        /\ executed' = Append(executed, Packet(devRx))
        /\ UNCHANGED << pc, tx, report, commands >>
    BY <1>4 DEF DeviceTakes, hidPacket_getPacket
  <2>2. WritingInv' /\ CompleteInv'
    BY <2>1, <1>i DEF WritingInv, CompleteInv, HasPacket, ResetState, Current
  <2>3. ExecutedUpTo(Len(commands))'
    <3>1. PICK k \in 1..Len(commands) : Packet(devRx) = commands[k]
      BY <2>1, <1>i DEF CompleteInv
    <3>2. /\ Len(executed') = Len(executed) + 1 /\ Len(executed) \in Nat
          /\ \A i \in 1..Len(executed) : executed'[i] = executed[i]
          /\ executed'[Len(executed) + 1] = Packet(devRx)
          /\ DOMAIN executed = 1..Len(executed) /\ DOMAIN executed' = 1..Len(executed')
      <4>1. Packet(devRx) \in Seq(Bytes)
        BY <1>t DEF TypeOK, Buffers, Packet
      <4> QED BY <4>1, <2>1, <1>t, AppendProperties, LenProperties DEF TypeOK
    <3> QED BY <3>1, <3>2, <2>1, <1>i DEF ExecutedUpTo
  <2> QED BY <2>2, <2>3, <1>t DEF WholeCommandsInv
<1>5. CASE UNCHANGED vars
  <2>1. WritingInv'
    BY <1>5, <1>i DEF vars, WritingInv, Current
  <2>2. CompleteInv' /\ ExecutedUpTo(Len(commands))'
    BY <1>5, <1>i DEF vars, CompleteInv, ExecutedUpTo, HasPacket, Packet
  <2> QED BY <2>1, <2>2, <1>t DEF WholeCommandsInv
<1> QED BY <1>1, <1>2, <1>3, <1>4, <1>5 DEF Next

\* At every moment the device's buffer holds a prefix of one command, or one
\* whole command that is not older than anything executed: whatever reports
\* are lost, repeated, or left behind by an abandoned packet.
THEOREM WholeCommands == Spec => []WholeCommandsInv
<1>1. Init => WholeCommandsInv
  BY TypeInit DEF Init, WholeCommandsInv, WritingInv, CompleteInv, ExecutedUpTo,
                  HasPacket, ResetState
<1> QED BY <1>1, WholeCommandsStep, PTL DEF Spec
\* The link implements CommandChannel: sending is Issue, the device's taking a
\* packet is Execute, and everything the USB stack does to reports is invisible.
THEOREM LinkImplementsChannel == Spec => InOrderWholeCommands
<1> DEFINE Packets == { Command(n, len) : n \in 1..MaxCommands, len \in CommandLens }
<1>1. Init => Channel!Init
  BY DEF Init, Channel!Init
<1>2. WholeCommandsInv /\ [Next]_vars => [Channel!Next]_(Channel!vars)
  <2> SUFFICES ASSUME WholeCommandsInv, [Next]_vars
               PROVE  Channel!Next \/ UNCHANGED Channel!vars
    OBVIOUS
  <2>t. TypeOK /\ CompleteInv
    BY DEF WholeCommandsInv
  <2>1. ASSUME NEW len \in CommandLens, Send(len) PROVE Channel!Next
    <3>1. Len(commands) + 1 \in 1..MaxCommands
      BY <2>1, <2>t, LinkAssumption, LenProperties DEF Send, TypeOK
    <3>2. Command(Len(commands) + 1, len) \in Packets
      BY <3>1
    <3> QED BY <2>1, <3>2 DEF Send, Channel!Next, Channel!Issue
  <2>2. CASE DeviceTakes
    <3>1. PICK k \in 1..Len(commands) : Packet(devRx) = commands[k] /\ ExecutedUpTo(k)
      BY <2>2, <2>t DEF DeviceTakes, CompleteInv
    <3>2. k \in DOMAIN commands
      BY <3>1, <2>t, LenProperties DEF TypeOK
    <3>3. Channel!NothingAfter(k)
      BY <3>1 DEF ExecutedUpTo, Channel!NothingAfter
    <3> QED BY <2>2, <3>1, <3>2, <3>3 DEF DeviceTakes, Channel!Next, Channel!Execute
  <2>3. ASSUME WriteSucceeds \/ (\E delivered \in {FALSE, Ambiguous} : WriteFails(delivered))
        PROVE  UNCHANGED Channel!vars
    BY <2>3 DEF WriteSucceeds, WriteFails, Channel!vars
  <2>4. CASE UNCHANGED vars
    BY <2>4 DEF vars, Channel!vars
  <2> QED BY <2>1, <2>2, <2>3, <2>4 DEF Next
<1> QED BY <1>1, <1>2, WholeCommands, PTL DEF Spec, InOrderWholeCommands, Channel!Spec

-----------------------------------------------------------------------------
(* Commands of several reports are executed at most once.                   *)

\* The k-th command is numbered k, so no two commands are equal.
Numbered ==
  \A k \in DOMAIN commands : \E len \in CommandLens : commands[k] = Command(k, len)

Long(packet) == Len(packet) > PayloadLen

\* A long packet that waits to be taken was not executed before.
FreshInv ==
  HasPacket(devRx) /\ Long(Packet(devRx)) =>
    \A i \in DOMAIN executed : executed[i] # Packet(devRx)

\* When a long command has arrived although it is still being written, what is
\* written again is its last report, and the device is not inside a packet: it
\* has nothing to which that report could be the next chunk.
LastReportInv ==
  pc = "writing" /\ Received /\ Long(Current) =>
    report.final /\ report.chunk # 0 /\ devRx.state # "PARTIAL"

OnceInv == Numbered /\ FreshInv /\ LastReportInv /\ LongCommandsAtMostOnce

-----------------------------------------------------------------------------
(* A written command arrives.                                               *)

\* Between the reports of a packet the device holds whole payloads, and
\* less than a full buffer.
InChunks ==
  /\ devRx.state = "IDLE" => devRx.data = << >>
  /\ devRx.state = "PARTIAL" =>
       /\ Len(devRx.data) = (devRx.chunk + 1) * PayloadLen
       /\ Len(devRx.data) < MaxLen

\* The reports of the command in hand: all but the last are full, and a
\* command no longer than a payload takes one.
Cut ==
  pc = "writing" =>
    /\ outcome = "none"
    /\ ~report.final => Len(report.payload) = PayloadLen
    /\ Len(Current) <= PayloadLen => report.final /\ report.chunk = 0

\* Unless the device had not taken an earlier command, what it has complete
\* is the command in hand.
Own ==
  pc = "writing" /\ found # "COMPLETE" /\ HasPacket(devRx) => Packet(devRx) = Current

\* On a receiver that was empty, with no report delivered twice, the next
\* report is the next chunk.
InStep ==
  pc = "writing" /\ found = "IDLE" /\ ~repeated =>
    IF report.chunk = 0
    THEN devRx.state = "IDLE"
    ELSE devRx.state = "PARTIAL" /\ devRx.chunk + 1 = report.chunk

ArrivalInv == InChunks /\ Cut /\ Own /\ InStep /\ WrittenIsReceived
-----------------------------------------------------------------------------
(* One report at the receiver.                                              *)

\* What hidPacket_recv makes of a buffer, in the three states it can leave.
LEMMA Receiving ==
  ASSUME NEW rx \in Buffers(Bytes), NEW r \in Reports64(Bytes)
  PROVE  LET d == hidPacket_recv(rx, r) IN
         /\ d.state = "IDLE" => d = ResetState \/ d = rx
         /\ d.state = "PARTIAL" =>
              /\ ~r.final
              /\ \/ r.chunk = 0 /\ d.chunk = 0 /\ d.data = r.payload
                 \/ /\ rx.state = "PARTIAL" /\ r.chunk = rx.chunk + 1
                    /\ d.chunk = rx.chunk + 1 /\ d.data = rx.data \o r.payload
                 \/ d = rx
         /\ d.state = "COMPLETE" =>
              d = rx \/ (r.final /\ (r.chunk = 0 \/ rx.state = "PARTIAL"))
<1> DEFINE d == hidPacket_recv(rx, r)
           stored == Stored(rx, r)
<1>1. /\ rx \in [state : States, chunk : Nat, data : Seq(Bytes)]
      /\ r \in [chunk : Nat, final : BOOLEAN, payload : Seq(Bytes)]
  BY DEF Buffers, Reports64
<1>2. \/ stored = [state |-> "PARTIAL", chunk |-> 0, data |-> r.payload] /\ r.chunk = 0
      \/ /\ stored = [state |-> "PARTIAL", chunk |-> rx.chunk + 1,
                      data |-> rx.data \o r.payload]
         /\ rx.state = "PARTIAL" /\ r.chunk = rx.chunk + 1
      \/ stored = rx
      \/ stored = ResetState
  BY DEF Stored
<1>3. \/ d = ResetState
      \/ d = stored /\ ~(stored.state = "PARTIAL" /\ r.final)
      \/ /\ stored.state = "PARTIAL" /\ r.final
         /\ d = [stored EXCEPT !.state = "COMPLETE"]
  BY DEF hidPacket_recv, Completed
<1>4. ResetState.state = "IDLE"
  BY DEF ResetState
<1> HIDE DEF stored, d
<1>5. CASE d = ResetState
  BY <1>4, <1>5 DEF d
<1>6. CASE d = stored /\ ~(stored.state = "PARTIAL" /\ r.final)
  <2>1. CASE stored = [state |-> "PARTIAL", chunk |-> 0, data |-> r.payload] /\ r.chunk = 0
    BY <1>6, <2>1 DEF d
  <2>2. CASE /\ stored = [state |-> "PARTIAL", chunk |-> rx.chunk + 1,
                          data |-> rx.data \o r.payload]
             /\ rx.state = "PARTIAL" /\ r.chunk = rx.chunk + 1
    <3>1. /\ d.state = "PARTIAL" /\ d.chunk = rx.chunk + 1
          /\ d.data = rx.data \o r.payload /\ ~r.final
      BY <1>6, <2>2
    <3> QED BY <2>2, <3>1 DEF d
  <2>3. CASE stored = rx
    <3>1. d = rx
      BY <1>6, <2>3
    <3>2. d.state = "PARTIAL" => ~r.final
      BY <1>6
    <3> QED BY <3>1, <3>2 DEF d
  <2>4. CASE stored = ResetState
    BY <1>4, <1>6, <2>4 DEF d
  <2> QED BY <1>2, <2>1, <2>2, <2>3, <2>4
<1>7. CASE /\ stored.state = "PARTIAL" /\ r.final
           /\ d = [stored EXCEPT !.state = "COMPLETE"]
  <2>1. r.chunk = 0 \/ rx.state = "PARTIAL"
    BY <1>2, <1>4, <1>7
  <2>2. d.state = "COMPLETE"
    <3>1. stored \in [state : States, chunk : Nat, data : Seq(Bytes)]
      BY <1>1 DEF stored, Stored, ResetState, States
    <3> QED BY <3>1, <1>7
  <2> QED BY <1>7, <2>1, <2>2 DEF d
<1> QED BY <1>3, <1>5, <1>6, <1>7

\* A report that fits begins a packet, if it is chunk 0, or goes on with it.
LEMMA Accepting ==
  ASSUME NEW rx \in Buffers(Bytes), NEW r \in Reports64(Bytes),
         Len(r.payload) <= PayloadLen, Len(rx.data) + Len(r.payload) <= MaxLen,
         r.chunk = 0 \/ (rx.state = "PARTIAL" /\ r.chunk = rx.chunk + 1)
  PROVE  LET d == hidPacket_recv(rx, r) IN
         /\ d.state = IF r.final THEN "COMPLETE" ELSE "PARTIAL"
         /\ d.chunk = r.chunk
<1> DEFINE d == hidPacket_recv(rx, r)
           stored == Stored(rx, r)
<1>1. /\ rx \in [state : States, chunk : Nat, data : Seq(Bytes)]
      /\ r \in [chunk : Nat, final : BOOLEAN, payload : Seq(Bytes)]
      /\ Len(r.payload) \in Nat /\ Len(rx.data) \in Nat
  BY LenProperties DEF Buffers, Reports64
<1>2. stored.state = "PARTIAL" /\ stored.chunk = r.chunk
  BY DEF Stored
<1>3. ~TooLong(r) /\ ~Overflows(rx, r)
  BY <1>1, PacketAssumption DEF TooLong, Overflows
<1>4. d = IF r.final THEN [stored EXCEPT !.state = "COMPLETE"] ELSE stored
  BY <1>2, <1>3 DEF hidPacket_recv, Completed
<1>5. stored \in [state : States, chunk : Nat, data : Seq(Bytes)]
  BY <1>1 DEF Stored, ResetState, States
<1> HIDE DEF stored, d
<1>6. /\ d.state = IF r.final THEN "COMPLETE" ELSE "PARTIAL"
      /\ d.chunk = r.chunk
  BY <1>2, <1>4, <1>5
<1> QED BY <1>6 DEF d

\* No two commands are equal.
LEMMA Distinct ==
  ASSUME NEW j \in Nat, NEW k \in Nat, NEW a \in CommandLens, NEW b \in CommandLens,
         Command(j, a) = Command(k, b)
  PROVE  j = k
<1>1. a \in Nat /\ a >= 1 /\ b \in Nat /\ b >= 1
  BY LinkAssumption, PacketAssumption
<1>2. Command(j, a)[1] = << j, 1 >> /\ Command(k, b)[1] = << k, 1 >>
  BY <1>1 DEF Command
<1>3. << j, 1 >> = << k, 1 >>
  BY <1>2
<1> QED BY <1>3

-----------------------------------------------------------------------------
(* OnceInv.                                                                 *)

\* A command was issued when one is being written, or the receiver has one.
LEMMA CurrentIssued ==
  ASSUME TypeOK, Numbered, commands # << >>
  PROVE  /\ Len(commands) \in DOMAIN commands /\ Len(commands) \in Nat
         /\ Current \in Seq(Bytes)
         /\ Len(Current) \in 1..MaxLen
         /\ \E len \in CommandLens : Current = Command(Len(commands), len)
<1>1. Len(commands) \in DOMAIN commands /\ Len(commands) \in Nat
  BY EmptySeq, LenProperties DEF TypeOK
<1>2. PICK len \in CommandLens : Current = Command(Len(commands), len)
  BY <1>1 DEF Numbered, Current
<1> QED BY <1>1, <1>2, CommandType

\* The next command is not among those issued.
LEMMA NewCommand ==
  ASSUME TypeOK, Numbered, NEW len \in CommandLens, Send(len)
  PROVE  /\ Numbered' /\ commands' # << >>
         /\ Current' = Command(Len(commands) + 1, len)
         /\ \A k \in DOMAIN commands : commands[k] # Current'
<1> DEFINE packet == Command(Len(commands) + 1, len)
<1>1. /\ Len(commands) \in Nat /\ DOMAIN commands = 1..Len(commands)
      /\ commands \in Seq(Seq(Bytes))
  BY LenProperties DEF TypeOK
<1>2. packet \in Seq(Bytes)
  BY <1>1, CommandType
<1> HIDE DEF packet
<1>3. commands' = Append(commands, packet)
  BY DEF Send, packet
<1>4. /\ Len(commands') = Len(commands) + 1
      /\ DOMAIN commands' = 1 .. Len(commands) + 1
      /\ \A k \in 1..Len(commands) : commands'[k] = commands[k]
      /\ commands'[Len(commands) + 1] = packet
  BY <1>1, <1>2, <1>3, AppendProperties
<1>5. Current' = packet /\ commands' # << >>
  BY <1>1, <1>4, EmptySeq DEF Current
<1>6. Numbered'
  <2> SUFFICES ASSUME NEW k \in DOMAIN commands'
               PROVE  \E b \in CommandLens : commands'[k] = Command(k, b)
    BY DEF Numbered
  <2>1. CASE k \in 1..Len(commands)
    BY <1>1, <1>4, <2>1 DEF Numbered
  <2>2. CASE k = Len(commands) + 1
    BY <1>4, <2>2 DEF packet
  <2> QED BY <1>1, <1>4, <2>1, <2>2
<1>7. ASSUME NEW k \in DOMAIN commands, commands[k] = packet PROVE FALSE
  <2>1. PICK b \in CommandLens : commands[k] = Command(k, b)
    BY DEF Numbered
  <2>2. k \in Nat /\ k # Len(commands) + 1
    BY <1>1
  <2> QED BY <1>1, <1>7, <2>1, <2>2, Distinct DEF packet
<1> QED BY <1>5, <1>6, <1>7 DEF packet

\* A report written or written again: what the device then holds was there
\* before, or is the current command, which the report has completed.
LEMMA Completing ==
  ASSUME TypeOK, WritingInv, pc = "writing"
  PROVE  LET d == hidPacket_recv(devRx, report) IN
         HasPacket(d) /\ d # devRx =>
           /\ d.data = Current
           /\ report.final /\ (report.chunk = 0 \/ devRx.state = "PARTIAL")
<1>1. devRx \in Buffers(Bytes) /\ report \in Reports64(Bytes)
  BY DEF TypeOK
<1> QED BY <1>1, Reception, Receiving DEF HasPacket

\* A long command is not completed by its first report.
LEMMA LongTakesMore ==
  ASSUME TypeOK, WritingInv, pc = "writing", Long(Current), report.final
  PROVE  report.chunk # 0
<1> SUFFICES ASSUME report.chunk = 0 PROVE FALSE
  OBVIOUS
<1>1. tx.data = << >> /\ report.payload \o tx.data = Current
  BY DEF WritingInv
<1>2. report.payload \in Seq(Bytes) /\ Len(report.payload) <= PayloadLen
  BY DEF TypeOK, Reports64
<1>3. Current = report.payload
  BY <1>1, <1>2, ConcatEmptySeq
<1> QED BY <1>2, <1>3, LenProperties, PacketAssumption DEF Long

\* What one more report does to a long command that may have arrived.
LEMMA OnceMore ==
  ASSUME TypeOK, WritingInv, FreshInv, LastReportInv, pc = "writing",
         devRx' = hidPacket_recv(devRx, report),
         UNCHANGED << commands, executed >>
  PROVE  /\ FreshInv'
         /\ Long(Current) /\ Received' =>
              report.final /\ report.chunk # 0 /\ devRx'.state # "PARTIAL"
<1>1. devRx \in Buffers(Bytes) /\ report \in Reports64(Bytes)
  BY DEF TypeOK
<1>2. HasPacket(devRx') /\ devRx' # devRx =>
        /\ devRx'.data = Current
        /\ report.final /\ (report.chunk = 0 \/ devRx.state = "PARTIAL")
  BY Completing
<1>3. devRx'.state = "PARTIAL" => ~report.final
  BY <1>1, Receiving
<1>4. Current' = Current
  BY DEF Current
<1>5. ASSUME Long(Current), HasPacket(devRx'), devRx' # devRx
      PROVE  report.final /\ report.chunk # 0 /\ ~Received
  <2>1. report.chunk # 0
    BY <1>2, <1>5, LongTakesMore
  <2> QED BY <1>2, <1>5, <2>1 DEF LastReportInv
<1>6. FreshInv'
  <2>1. CASE devRx' = devRx
    BY <2>1 DEF FreshInv, HasPacket, Packet
  <2>2. CASE devRx' # devRx
    <3> SUFFICES ASSUME HasPacket(devRx'), Long(Packet(devRx'))
                 PROVE  \A i \in DOMAIN executed : executed[i] # Packet(devRx')
      BY DEF FreshInv
    <3>1. Packet(devRx') = Current /\ Long(Current)
      BY <1>2, <2>2 DEF Packet
    <3> QED BY <1>5, <2>2, <3>1 DEF Received
  <2> QED BY <2>1, <2>2
<1>7. ASSUME Long(Current), Received'
      PROVE  report.final /\ report.chunk # 0 /\ devRx'.state # "PARTIAL"
  <2>1. CASE Received
    BY <1>3, <1>7, <2>1 DEF LastReportInv
  <2>2. CASE ~Received
    <3>1. HasPacket(devRx') /\ Packet(devRx') = Current
      BY <1>4, <1>7, <2>2 DEF Received
    <3>2. devRx' # devRx
      BY <2>2, <3>1 DEF Received
    <3> QED BY <1>3, <1>5, <1>7, <3>1, <3>2
  <2> QED BY <2>1, <2>2
<1> QED BY <1>6, <1>7

\* The inductive step of OnceInv.
LEMMA OnceStep == WholeCommandsInv /\ OnceInv /\ [Next]_vars => OnceInv'
<1> SUFFICES ASSUME WholeCommandsInv, OnceInv, [Next]_vars PROVE OnceInv'
  OBVIOUS
<1>t. /\ TypeOK /\ WritingInv /\ CompleteInv /\ ExecutedUpTo(Len(commands))
      /\ Numbered /\ FreshInv /\ LastReportInv /\ LongCommandsAtMostOnce
  BY DEF WholeCommandsInv, OnceInv
<1>1. ASSUME NEW len \in CommandLens, Send(len) PROVE OnceInv'
  <2>1. /\ Numbered' /\ \A k \in DOMAIN commands : commands[k] # Current'
    BY <1>1, <1>t, NewCommand
  <2>2. devRx' = devRx /\ executed' = executed
    BY <1>1 DEF Send
  <2>3. DOMAIN commands = 1..Len(commands)
    BY <1>t, LenProperties DEF TypeOK
  <2>4. ~Received'
    <3>1. ~(HasPacket(devRx) /\ Packet(devRx) = Current')
      BY <1>t, <2>1, <2>3 DEF CompleteInv
    <3>2. \A i \in DOMAIN executed : executed[i] # Current'
      BY <1>t, <2>1, <2>3 DEF ExecutedUpTo
    <3> QED BY <2>2, <3>1, <3>2 DEF Received
  <2>5. FreshInv' /\ LongCommandsAtMostOnce'
    BY <1>t, <2>2 DEF FreshInv, LongCommandsAtMostOnce
  <2> QED BY <2>1, <2>4, <2>5 DEF OnceInv, LastReportInv
<1>2. CASE WriteSucceeds
  <2>1. /\ pc = "writing" /\ devRx' = hidPacket_recv(devRx, report)
        /\ UNCHANGED << commands, executed >>
        /\ pc' = "idle" \/ HasReport(tx)
    BY <1>2 DEF WriteSucceeds
  <2>2. /\ FreshInv'
        /\ Long(Current) /\ Received' => report.final
    BY <1>t, <2>1, OnceMore
  <2>3. Numbered' /\ LongCommandsAtMostOnce' /\ Current' = Current
    BY <1>t, <2>1 DEF Numbered, LongCommandsAtMostOnce, Current
  <2>4. pc' # "idle" => ~report.final
    BY <1>t, <2>1 DEF WritingInv
  <2> QED BY <2>2, <2>3, <2>4 DEF OnceInv, LastReportInv
<1>3. ASSUME NEW delivered \in {FALSE, Ambiguous}, WriteFails(delivered)
      PROVE  OnceInv'
  <2>1. pc = "writing" /\ UNCHANGED << tx, report, commands, executed >>
    BY <1>3 DEF WriteFails
  <2>2. Numbered' /\ LongCommandsAtMostOnce' /\ Current' = Current
    BY <1>t, <2>1 DEF Numbered, LongCommandsAtMostOnce, Current
  <2>3. CASE devRx' = devRx
    <3>1. FreshInv'
      BY <1>t, <2>1, <2>3 DEF FreshInv
    <3>2. Received' <=> Received
      BY <2>1, <2>2, <2>3 DEF Received
    <3> QED BY <1>t, <2>1, <2>2, <2>3, <3>1, <3>2 DEF OnceInv, LastReportInv
  <2>4. CASE devRx' = hidPacket_recv(devRx, report)
    <3>1. /\ FreshInv'
          /\ Long(Current) /\ Received' =>
               report.final /\ report.chunk # 0 /\ devRx'.state # "PARTIAL"
      BY <1>t, <2>1, <2>4, OnceMore
    <3> QED BY <2>1, <2>2, <3>1 DEF OnceInv, LastReportInv
  <2> QED BY <1>3, <2>3, <2>4 DEF WriteFails
<1>4. CASE DeviceTakes
  <2> DEFINE packet == Packet(devRx)
  <2>1. /\ HasPacket(devRx) /\ devRx' = ResetState
        /\ executed' = Append(executed, packet)
        /\ UNCHANGED << pc, report, commands >>
    BY <1>4 DEF DeviceTakes, hidPacket_getPacket
  <2>2. packet \in Seq(Bytes)
    BY <1>t DEF TypeOK, Buffers, Packet
  <2>3. /\ DOMAIN executed = 1..Len(executed) /\ Len(executed) \in Nat
        /\ DOMAIN executed' = 1 .. Len(executed) + 1
        /\ \A i \in DOMAIN executed : executed'[i] = executed[i]
        /\ executed'[Len(executed) + 1] = packet
    BY <1>t, <2>1, <2>2, AppendProperties, LenProperties DEF TypeOK
  <2>4. ~HasPacket(devRx') /\ devRx'.state = "IDLE"
    BY <2>1 DEF HasPacket, ResetState
  <2>5. Current' = Current /\ Numbered' /\ FreshInv'
    BY <1>t, <2>1, <2>4 DEF Current, Numbered, FreshInv
  <2>6. Received' => Received
    <3> SUFFICES ASSUME NEW i \in DOMAIN executed', executed'[i] = Current PROVE Received
      BY <2>4, <2>5 DEF Received
    <3>1. CASE i \in DOMAIN executed
      BY <2>3, <3>1 DEF Received
    <3>2. CASE i = Len(executed) + 1
      BY <2>1, <2>3, <3>2 DEF Received
    <3> QED BY <2>3, <3>1, <3>2
  <2>7. LastReportInv'
    BY <1>t, <2>1, <2>4, <2>5, <2>6 DEF LastReportInv
  <2>8. LongCommandsAtMostOnce'
    <3>1. Len(packet) \in Nat /\ \A i \in DOMAIN executed : Len(executed[i]) \in Nat
      BY <1>t, <2>2, LenProperties, ElementOfSeq DEF TypeOK
    <3>2. Long(packet) => \A i \in DOMAIN executed : executed[i] # packet
      BY <1>t, <2>1 DEF FreshInv
    <3> HIDE DEF packet
    <3> SUFFICES ASSUME NEW i \in DOMAIN executed', NEW j \in DOMAIN executed',
                        executed'[i] = executed'[j], i # j
                 PROVE  Len(executed'[i]) <= PayloadLen
      BY DEF LongCommandsAtMostOnce
    <3>3. CASE i \in DOMAIN executed /\ j \in DOMAIN executed
      BY <1>t, <2>3, <3>3 DEF LongCommandsAtMostOnce
    <3>4. CASE i = Len(executed) + 1 \/ j = Len(executed) + 1
      <4>1. /\ executed'[i] = packet
            /\ \E n \in DOMAIN executed : executed[n] = packet
        BY <2>3, <3>4
      <4>2. ~Long(packet)
        BY <3>2, <4>1
      <4> QED BY <3>1, <4>1, <4>2, PacketAssumption DEF Long
    <3> QED BY <2>3, <3>3, <3>4
  <2> QED BY <2>5, <2>7, <2>8 DEF OnceInv
<1>5. CASE UNCHANGED vars
  <2>1. Received' <=> Received
    BY <1>5 DEF vars, Received, Current
  <2> QED BY <1>5, <1>t, <2>1 DEF vars, OnceInv, Numbered, FreshInv, LastReportInv, Current,
                            LongCommandsAtMostOnce
<1> QED BY <1>1, <1>2, <1>3, <1>4, <1>5 DEF Next

\* The retry loop cannot make the device execute a sector write twice: a
\* repeated report of a command of several reports is recognised by its chunk
\* number, or finds nothing it could continue (SCSI2SD_HID.m, the write loop;
\* hidpacket.c:64-92).
THEOREM OnceOnly == Spec => []LongCommandsAtMostOnce
<1>1. Init => OnceInv
  BY EmptySeq DEF Init, OnceInv, Numbered, FreshInv, LastReportInv,
     LongCommandsAtMostOnce, HasPacket, ResetState
<1>2. OnceInv => LongCommandsAtMostOnce
  BY DEF OnceInv
<1> QED BY <1>1, <1>2, WholeCommands, OnceStep, PTL DEF Spec

-----------------------------------------------------------------------------
(* ArrivalInv.                                                              *)

\* Whole numbers keep their order when they are multiplied.
LEMMA Multiples ==
  ASSUME NEW a \in Nat, NEW b \in Nat, NEW n \in Nat, a <= b
  PROVE  a * n <= b * n /\ a * n \in Nat /\ b * n \in Nat
<1>1. PICK k \in Nat : b = a + k
  <2>1. b - a \in Nat /\ b = a + (b - a)
    OBVIOUS
  <2> QED BY <2>1
<1>2. b * n = a * n + k * n
  BY <1>1
<1>3. a * n \in Nat /\ k * n \in Nat
  OBVIOUS
<1> QED BY <1>2, <1>3

\* A short command fits behind every number of whole payloads that leave room
\* for a byte, and is no longer than a payload; two of them fit a buffer that
\* is larger than a payload.
LEMMA ShortFits ==
  /\ ShortLen \in Nat /\ ShortLen <= PayloadLen /\ ShortLen <= MaxLen
  /\ PayloadLen < MaxLen => ShortLen + ShortLen <= MaxLen
  /\ \A c \in Nat : c * PayloadLen < MaxLen => c * PayloadLen + ShortLen <= MaxLen
<1> DEFINE q == (MaxLen - 1) \div PayloadLen
<1>1. /\ PayloadLen \in Nat /\ PayloadLen > 0 /\ MaxLen \in Nat /\ MaxLen >= 1
      /\ PayloadLen <= MaxLen
  BY PacketAssumption
<1>2. q \in Nat /\ q * PayloadLen <= MaxLen - 1 /\ MaxLen - 1 < q * PayloadLen + PayloadLen
  BY <1>1
<1>3. ShortLen = MaxLen - q * PayloadLen
  BY DEF ShortLen
<1> HIDE DEF q
<1>4. q * PayloadLen \in Nat
  BY <1>1, <1>2
<1>5. PayloadLen < MaxLen => PayloadLen <= q * PayloadLen
  <2> SUFFICES ASSUME PayloadLen < MaxLen PROVE PayloadLen <= q * PayloadLen
    OBVIOUS
  <2>1. q # 0
    <3> SUFFICES ASSUME q = 0 PROVE FALSE
      OBVIOUS
    <3>1. q * PayloadLen = 0
      BY <1>1
    <3> QED BY <1>1, <1>2, <3>1
  <2>2. 1 <= q
    BY <1>2, <2>1
  <2>3. 1 * PayloadLen <= q * PayloadLen
    BY <1>1, <1>2, <2>2, Multiples
  <2> QED BY <1>1, <2>3
<1>6. ASSUME NEW c \in Nat, c * PayloadLen < MaxLen PROVE c * PayloadLen + ShortLen <= MaxLen
  <2>1. c <= q
    <3> SUFFICES ASSUME q + 1 <= c PROVE FALSE
      BY <1>2
    <3>1. (q + 1) * PayloadLen <= c * PayloadLen
      BY <1>1, <1>2, Multiples
    <3>2. (q + 1) * PayloadLen = q * PayloadLen + PayloadLen
      BY <1>1, <1>2
    <3>3. c * PayloadLen \in Nat
      BY <1>1
    <3> QED BY <1>1, <1>2, <1>4, <1>6, <3>1, <3>2, <3>3
  <2>2. c * PayloadLen <= q * PayloadLen /\ c * PayloadLen \in Nat
    BY <1>1, <1>2, <2>1, Multiples
  <2> QED BY <1>1, <1>3, <1>4, <2>2
<1>7. ShortLen \in Nat /\ ShortLen <= PayloadLen /\ ShortLen <= MaxLen
  BY <1>1, <1>2, <1>3, <1>4
<1>8. PayloadLen < MaxLen => ShortLen + ShortLen <= MaxLen
  BY <1>1, <1>3, <1>4, <1>5, <1>7
<1> QED BY <1>6, <1>7, <1>8

\* The lengths of byte sequences add up.
LEMMA Lengths ==
  ASSUME NEW a \in Seq(Bytes), NEW b \in Seq(Bytes)
  PROVE  /\ a \o b \in Seq(Bytes) /\ Len(a) \in Nat /\ Len(b) \in Nat
         /\ Len(a \o b) = Len(a) + Len(b)
  BY ConcatProperties, LenProperties

\* What begins a sequence is no longer than the sequence.
LEMMA Beginnings ==
  ASSUME NEW a \in Seq(Bytes), NEW b \in Seq(Bytes), NEW c \in Seq(Bytes), NEW whole,
         NEW m \in Nat, Len(whole) <= m
  PROVE  /\ a \o (b \o c) = whole => Len(a) + Len(b) <= m
         /\ a \o c = whole /\ c # << >> => Len(a) < m
<1>1. /\ Len(a) \in Nat /\ Len(b) \in Nat /\ Len(c) \in Nat
      /\ b \o c \in Seq(Bytes)
      /\ Len(b \o c) = Len(b) + Len(c)
      /\ Len(a \o c) = Len(a) + Len(c)
  BY Lengths
<1>2. Len(a \o (b \o c)) = Len(a) + Len(b \o c)
  BY <1>1, Lengths
<1>3. c # << >> => Len(c) # 0
  BY EmptySeq
<1> QED BY <1>1, <1>2, <1>3

\* One more report leaves whole payloads in a receiver that is inside a packet.
LEMMA ChunksKept ==
  ASSUME TypeOK, Numbered, WritingInv, InChunks, Cut, pc = "writing",
         devRx' = hidPacket_recv(devRx, report)
  PROVE  InChunks'
<1>1. /\ devRx \in Buffers(Bytes) /\ report \in Reports64(Bytes)
      /\ devRx.data \in Seq(Bytes) /\ devRx.chunk \in Nat
      /\ report.payload \in Seq(Bytes) /\ tx.data \in Seq(Bytes)
      /\ PayloadLen \in Nat
  BY PacketAssumption DEF TypeOK, Buffers, Reports64
<1>2. devRx'.state = "IDLE" => devRx'.data = << >>
  <2>1. devRx'.state = "IDLE" => devRx' = ResetState \/ devRx' = devRx
    BY <1>1, Receiving
  <2> QED BY <2>1 DEF InChunks, ResetState
<1>3. ASSUME devRx'.state = "PARTIAL"
      PROVE  Len(devRx'.data) = (devRx'.chunk + 1) * PayloadLen /\ Len(devRx'.data) < MaxLen
  <2>1. /\ ~report.final
        /\ \/ report.chunk = 0 /\ devRx'.chunk = 0 /\ devRx'.data = report.payload
           \/ /\ devRx.state = "PARTIAL" /\ report.chunk = devRx.chunk + 1
              /\ devRx'.chunk = devRx.chunk + 1 /\ devRx'.data = devRx.data \o report.payload
           \/ devRx' = devRx
    BY <1>1, <1>3, Receiving
  <2>2. Len(report.payload) = PayloadLen
    BY <2>1 DEF Cut
  <2>3. Len(devRx'.data) = (devRx'.chunk + 1) * PayloadLen
    <3>1. CASE devRx'.chunk = 0 /\ devRx'.data = report.payload
      <4>1. (0 + 1) * PayloadLen = PayloadLen
        BY <1>1
      <4> QED BY <2>2, <3>1, <4>1
    <3>2. CASE /\ devRx.state = "PARTIAL"
               /\ devRx'.chunk = devRx.chunk + 1 /\ devRx'.data = devRx.data \o report.payload
      <4>1. Len(devRx'.data) = Len(devRx.data) + PayloadLen
        BY <1>1, <2>2, <3>2, Lengths
      <4>2. Len(devRx.data) = (devRx.chunk + 1) * PayloadLen
        BY <3>2 DEF InChunks
      <4>3. (devRx.chunk + 1 + 1) * PayloadLen = (devRx.chunk + 1) * PayloadLen + PayloadLen
        BY <1>1
      <4> QED BY <3>2, <4>1, <4>2, <4>3
    <3>3. CASE devRx' = devRx
      BY <1>3, <3>3 DEF InChunks
    <3> QED BY <2>1, <3>1, <3>2, <3>3
  <2>4. Len(devRx'.data) < MaxLen
    <3>1. devRx'.data \o tx.data = Current /\ tx.data # << >>
      BY <1>3, <2>1, Reception DEF WritingInv
    <3>2. devRx'.data \in Seq(Bytes)
      BY <1>1, RecvStaysInBuffer DEF Buffers
    <3>3. Len(Current) <= MaxLen
      <4>1. commands # << >>
        BY DEF WritingInv
      <4> QED BY <4>1, CurrentIssued, PacketAssumption
    <3> QED BY <1>1, <3>1, <3>2, <3>3, Beginnings, PacketAssumption
  <2> QED BY <2>3, <2>4
<1> QED BY <1>2, <1>3 DEF InChunks

\* On a receiver in step the report is accepted: it fits, and is the next.
LEMMA InStepAccepts ==
  ASSUME TypeOK, Numbered, WritingInv, InChunks, InStep, pc = "writing",
         found = "IDLE", ~repeated
  PROVE  LET d == hidPacket_recv(devRx, report) IN
         /\ d.state = IF report.final THEN "COMPLETE" ELSE "PARTIAL"
         /\ d.chunk = report.chunk
<1>1. /\ devRx \in Buffers(Bytes) /\ report \in Reports64(Bytes)
      /\ devRx.data \in Seq(Bytes) /\ devRx.chunk \in Nat
      /\ report.payload \in Seq(Bytes) /\ tx.data \in Seq(Bytes)
      /\ Len(report.payload) <= PayloadLen /\ report.chunk \in Nat
  BY DEF TypeOK, Buffers, Reports64
<1>2. report.chunk = 0 \/ (devRx.state = "PARTIAL" /\ report.chunk = devRx.chunk + 1)
  BY <1>1 DEF InStep
<1>3. Len(devRx.data) + Len(report.payload) <= MaxLen
  <2>1. CASE report.chunk = 0
    <3>1. Len(devRx.data) = 0
      BY <2>1, EmptySeq DEF InStep, InChunks
    <3> QED BY <1>1, <3>1, LenProperties, PacketAssumption
  <2>2. CASE report.chunk # 0
    <3>1. devRx.data \o (report.payload \o tx.data) = Current
      <4>1. report.chunk > 0 /\ devRx.state = "PARTIAL" /\ devRx.chunk # report.chunk
        BY <1>1, <2>2 DEF InStep
      <4> QED BY <4>1 DEF WritingInv
    <3>2. Len(Current) <= MaxLen
      <4>1. commands # << >>
        BY DEF WritingInv
      <4> QED BY <4>1, CurrentIssued, PacketAssumption
    <3> QED BY <1>1, <3>1, <3>2, Beginnings, PacketAssumption
  <2> QED BY <2>1, <2>2
<1> QED BY <1>1, <1>2, <1>3, Accepting

\* A short command is accepted whatever an abandoned packet or its own repeat
\* has left in the receiver.
LEMMA ShortAccepts ==
  ASSUME PayloadLen < MaxLen,
         TypeOK, Numbered, WritingInv, InChunks, Cut, Own, pc = "writing",
         found # "COMPLETE", Len(Current) <= ShortLen
  PROVE  /\ HasPacket(hidPacket_recv(devRx, report))
         /\ Packet(hidPacket_recv(devRx, report)) = Current
<1> DEFINE d == hidPacket_recv(devRx, report)
<1>1. /\ devRx \in Buffers(Bytes) /\ report \in Reports64(Bytes)
      /\ devRx.data \in Seq(Bytes) /\ devRx.chunk \in Nat
      /\ report.payload \in Seq(Bytes) /\ tx.data \in Seq(Bytes)
      /\ Len(report.payload) <= PayloadLen
  BY DEF TypeOK, Buffers, Reports64
<1>2. /\ Len(Current) \in Nat /\ Len(Current) <= PayloadLen
  <2>1. commands # << >>
    BY DEF WritingInv
  <2>2. Len(Current) \in Nat
    BY <2>1, CurrentIssued, LenProperties
  <2> QED BY <2>2, ShortFits, PacketAssumption
<1>3. report.final /\ report.chunk = 0
  BY <1>2 DEF Cut
<1>4. report.payload = Current
  <2>1. tx.data = << >> /\ report.payload \o tx.data = Current
    BY <1>3 DEF WritingInv
  <2> QED BY <1>1, <2>1, ConcatEmptySeq
<1>5. Len(devRx.data) + Len(report.payload) <= MaxLen
  <2>1. CASE devRx.state = "IDLE"
    <3>1. Len(devRx.data) = 0
      BY <2>1, EmptySeq DEF InChunks
    <3> QED BY <1>2, <1>4, <3>1, PacketAssumption
  <2>2. CASE devRx.state = "PARTIAL"
    <3> DEFINE held == (devRx.chunk + 1) * PayloadLen
    <3>1. Len(devRx.data) = held /\ held < MaxLen
      BY <2>2 DEF InChunks
    <3>2. held + ShortLen <= MaxLen /\ held \in Nat
      <4>1. PICK c \in Nat : c = devRx.chunk + 1
        BY <1>1
      <4>2. held = c * PayloadLen /\ c * PayloadLen \in Nat
        BY <4>1, PacketAssumption
      <4> QED BY <3>1, <4>2, ShortFits
    <3> HIDE DEF held
    <3> QED BY <1>2, <1>4, <3>1, <3>2, ShortFits, PacketAssumption
  <2>3. CASE HasPacket(devRx)
    <3>1. devRx.data = Current
      BY <2>3 DEF Own, Packet
    <3> QED BY <1>2, <1>4, <3>1, ShortFits, PacketAssumption
  <2> QED BY <1>1, <2>1, <2>2, <2>3 DEF Buffers, States, HasPacket
<1>6. d.state = "COMPLETE"
  BY <1>1, <1>3, <1>5, Accepting
<1>7. d.data = Current
  <2>1. HasPacket(d) => d = devRx \/ d.data = Current
    BY Reception
  <2>2. CASE d = devRx
    BY <1>6, <2>2 DEF Own, HasPacket, Packet
  <2> QED BY <1>6, <2>1, <2>2 DEF HasPacket
<1> QED BY <1>6, <1>7 DEF HasPacket, Packet

\* What one more report does, whether it was written or failed.
LEMMA ArrivesMore ==
  ASSUME TypeOK, Numbered, WritingInv, ArrivalInv, pc = "writing",
         devRx' = hidPacket_recv(devRx, report),
         UNCHANGED << commands, found >>
  PROVE  /\ InChunks'
         /\ found # "COMPLETE" /\ HasPacket(devRx') => Packet(devRx') = Current
<1>1. InChunks /\ Cut /\ Own
  BY DEF ArrivalInv
<1>2. InChunks'
  BY <1>1, ChunksKept
<1>3. HasPacket(devRx') => devRx' = devRx \/ devRx'.data = Current
  BY Reception
<1> QED BY <1>1, <1>2, <1>3 DEF Own, Packet

\* The inductive step of ArrivalInv.
LEMMA ArrivalStep ==
  ASSUME PayloadLen < MaxLen
  PROVE  WholeCommandsInv /\ Numbered /\ ArrivalInv /\ [Next]_vars => ArrivalInv'
<1> SUFFICES ASSUME WholeCommandsInv, Numbered, ArrivalInv, [Next]_vars PROVE ArrivalInv'
  OBVIOUS
<1>t. /\ TypeOK /\ WritingInv /\ Numbered
      /\ InChunks /\ Cut /\ Own /\ InStep /\ WrittenIsReceived
  BY DEF WholeCommandsInv, ArrivalInv
<1>1. ASSUME NEW len \in CommandLens, Send(len) PROVE ArrivalInv'
  <2> DEFINE packet == Command(Len(commands) + 1, len)
             loaded == hidPacket_send(packet)
  <2>1. /\ loaded \in Buffers(Bytes) /\ loaded.data = packet /\ loaded.chunk = 0
        /\ packet \in Seq(Bytes) /\ Len(packet) \in Nat
        /\ Current' = packet
    <3>1. Len(commands) + 1 \in Nat
      BY <1>t, LenProperties DEF TypeOK
    <3>2. packet \in Seq(Bytes)
      BY <3>1, CommandType
    <3>3. Len(packet) \in Nat
      BY <3>2, LenProperties
    <3> QED BY <1>1, <1>t, <3>1, <3>2, <3>3, SendLoads, NewCommand
  <2> HIDE DEF packet, loaded
  <2>2. /\ report' = NextReport(loaded) /\ pc' = "writing" /\ outcome' = "none"
        /\ found' = devRx.state /\ devRx' = devRx /\ repeated' = FALSE
    BY <1>1 DEF Send, packet, loaded
  <2>3. /\ report'.chunk = 0 /\ (report'.final <=> Len(packet) <= PayloadLen)
        /\ report'.payload = SubSeq(packet, 1, ReportLen(loaded))
        /\ ReportLen(loaded) = IF Len(packet) <= PayloadLen THEN Len(packet) ELSE PayloadLen
    BY <2>1, <2>2 DEF NextReport, Report, ReportLen, IsLastReport
  <2>4. ~report'.final => Len(report'.payload) = PayloadLen
    <3> SUFFICES ASSUME ~report'.final PROVE Len(report'.payload) = PayloadLen
      OBVIOUS
    <3>1. PayloadLen \in 0..Len(packet) /\ report'.payload = SubSeq(packet, 1, PayloadLen)
      BY <2>1, <2>3, PacketAssumption
    <3> QED BY <2>1, <3>1, SplitSeq
  <2>5. Cut'
    BY <2>1, <2>2, <2>3, <2>4 DEF Cut
  <2>6. Own' /\ InStep' /\ WrittenIsReceived' /\ InChunks'
    BY <1>t, <2>2, <2>3 DEF Own, InStep, WrittenIsReceived, InChunks, HasPacket
  <2> QED BY <2>5, <2>6 DEF ArrivalInv
<1>2. CASE WriteSucceeds
  <2>1. /\ pc = "writing" /\ devRx' = hidPacket_recv(devRx, report)
        /\ UNCHANGED << commands, executed, found, repeated >>
    BY <1>2 DEF WriteSucceeds
  <2>2. Current' = Current
    BY <2>1 DEF Current
  <2>3. InChunks' /\ Own'
    BY <1>t, <2>1, <2>2, ArrivesMore DEF Own, ArrivalInv
  <2>4. found = "IDLE" /\ ~repeated =>
          /\ devRx'.state = IF report.final THEN "COMPLETE" ELSE "PARTIAL"
          /\ devRx'.chunk = report.chunk
    BY <1>t, <2>1, InStepAccepts
  <2>5. CASE /\ HasReport(tx)
             /\ report' = NextReport(tx)
             /\ UNCHANGED << pc, outcome >>
    <3>1. /\ tx \in Buffers(Bytes) /\ tx.data \in Seq(Bytes) /\ Len(tx.data) \in Nat
          /\ tx.chunk = report.chunk + 1 /\ report.chunk \in Nat /\ ~report.final
      BY <1>t, <2>1, <2>5, LenProperties DEF TypeOK, Buffers, Reports64, WritingInv
    <3>2. /\ report'.chunk = tx.chunk /\ (report'.final <=> Len(tx.data) <= PayloadLen)
          /\ report'.payload = SubSeq(tx.data, 1, ReportLen(tx))
          /\ ReportLen(tx) = IF Len(tx.data) <= PayloadLen THEN Len(tx.data) ELSE PayloadLen
      BY <2>5 DEF NextReport, Report, ReportLen, IsLastReport
    <3>3. ~report'.final => Len(report'.payload) = PayloadLen
      <4> SUFFICES ASSUME ~report'.final PROVE Len(report'.payload) = PayloadLen
        OBVIOUS
      <4>1. PayloadLen \in 0..Len(tx.data) /\ report'.payload = SubSeq(tx.data, 1, PayloadLen)
        BY <3>1, <3>2, PacketAssumption
      <4> QED BY <3>1, <4>1, SplitSeq
    <3>4. Cut'
      BY <1>t, <2>1, <2>2, <2>5, <3>1, <3>3 DEF Cut
    <3>5. InStep'
      BY <2>1, <2>4, <2>5, <3>1, <3>2 DEF InStep
    <3>6. WrittenIsReceived'
      BY <1>t, <2>1, <2>5 DEF Cut, WrittenIsReceived
    <3> QED BY <2>3, <3>4, <3>5, <3>6 DEF ArrivalInv
  <2>6. CASE ~HasReport(tx) /\ pc' = "idle" /\ outcome' = "written"
    <3>1. report.final
      BY <1>t, <2>1, <2>6 DEF WritingInv
    <3>2. Received' <=> \/ HasPacket(devRx') /\ Packet(devRx') = Current
                        \/ \E i \in DOMAIN executed : executed[i] = Current
      BY <2>1, <2>2 DEF Received
    <3>3. ASSUME found # "COMPLETE", Len(Current) <= ShortLen PROVE Received'
      BY <1>t, <2>1, <3>2, <3>3, ShortAccepts
    <3>4. ASSUME found = "IDLE", ~repeated PROVE Received'
      <4>1. HasPacket(devRx')
        BY <2>4, <3>1, <3>4 DEF HasPacket
      <4> QED BY <1>t, <2>1, <3>2, <3>4, <4>1, ArrivesMore
    <3>5. Len(Current) \in Nat /\ ShortLen \in Nat
      <4>1. commands # << >>
        BY <1>t, <2>1 DEF WritingInv
      <4> QED BY <1>t, <4>1, CurrentIssued, LenProperties, ShortFits
    <3>6. found \in {"IDLE", "PARTIAL", "COMPLETE"}
      BY <1>t DEF TypeOK, States
    <3>7. WrittenIsReceived'
      BY <2>1, <2>2, <3>3, <3>4, <3>5, <3>6 DEF WrittenIsReceived
    <3> QED BY <2>3, <2>6, <3>7 DEF ArrivalInv, Cut, InStep
  <2> QED BY <1>2, <2>5, <2>6 DEF WriteSucceeds
<1>3. ASSUME NEW delivered \in {FALSE, Ambiguous}, WriteFails(delivered)
      PROVE  ArrivalInv'
  <2>1. /\ pc = "writing" /\ UNCHANGED << tx, report, commands, executed, found >>
        /\ \/ pc' = "idle" /\ outcome' = "raised"
           \/ UNCHANGED << pc, outcome >>
    BY <1>3 DEF WriteFails
  <2>2. Current' = Current
    BY <2>1 DEF Current
  <2>3. /\ Cut' /\ outcome = "none" /\ outcome' # "written"
    BY <1>t, <2>1, <2>2 DEF Cut
  <2>4. WrittenIsReceived'
    BY <2>3 DEF WrittenIsReceived
  <2>5. InChunks' /\ Own' /\ InStep'
    <3>1. CASE ~delivered
      <4>1. devRx' = devRx /\ repeated' = repeated
        <5>1. delivered \in BOOLEAN /\ repeated \in BOOLEAN
          BY <1>t, LinkAssumption DEF TypeOK
        <5> QED BY <1>3, <3>1, <5>1 DEF WriteFails
      <4> QED BY <1>t, <2>1, <2>2, <4>1 DEF InChunks, Own, InStep
    <3>2. CASE delivered
      <4>1. devRx' = hidPacket_recv(devRx, report) /\ repeated'
        BY <1>3, <3>2 DEF WriteFails
      <4>2. InChunks' /\ Own'
        BY <1>t, <2>1, <2>2, <4>1, ArrivesMore DEF Own, ArrivalInv
      <4> QED BY <4>1, <4>2 DEF InStep
    <3> QED BY <3>1, <3>2
  <2> QED BY <2>3, <2>4, <2>5 DEF ArrivalInv
<1>4. CASE DeviceTakes
  <2>1. /\ HasPacket(devRx) /\ devRx' = ResetState
        /\ executed' = Append(executed, Packet(devRx))
        /\ UNCHANGED << pc, report, commands, outcome, found, repeated >>
    BY <1>4 DEF DeviceTakes, hidPacket_getPacket
  <2>2. Current' = Current /\ ~HasPacket(devRx') /\ InChunks'
    BY <2>1 DEF Current, HasPacket, ResetState, InChunks
  <2>3. Cut' /\ Own'
    BY <1>t, <2>1, <2>2 DEF Cut, Own
  <2>4. InStep'
    <3>1. devRx.state = "COMPLETE"
      BY <2>1 DEF HasPacket
    <3>2. pc = "writing" /\ found = "IDLE" /\ ~repeated => FALSE
      BY <1>t, <3>1 DEF InStep
    <3> QED BY <2>1, <3>2 DEF InStep
  <2>5. Received => Received'
    <3>1. /\ \A i \in DOMAIN executed : i \in DOMAIN executed' /\ executed'[i] = executed[i]
          /\ Len(executed) + 1 \in DOMAIN executed'
          /\ executed'[Len(executed) + 1] = Packet(devRx)
      <4>1. Packet(devRx) \in Seq(Bytes)
        BY <1>t DEF TypeOK, Buffers, Packet
      <4> QED BY <1>t, <2>1, <4>1, AppendProperties, LenProperties DEF TypeOK
    <3> QED BY <2>2, <3>1 DEF Received
  <2>6. WrittenIsReceived'
    BY <1>t, <2>1, <2>2, <2>5 DEF WrittenIsReceived
  <2> QED BY <2>2, <2>3, <2>4, <2>6 DEF ArrivalInv
<1>5. CASE UNCHANGED vars
  BY <1>5, <1>t DEF vars, ArrivalInv, InChunks, Cut, Own, InStep, WrittenIsReceived,
                  Received, Current
<1> QED BY <1>1, <1>2, <1>3, <1>4, <1>5 DEF Next

\* A command whose reports were all accepted has reached the device: one that
\* found its receiver empty and had no report delivered twice, and a short one
\* after whatever an abandoned command left behind.  In a buffer that holds more
\* than one report, as the 520 bytes do.
THEOREM WrittenArrives ==
  ASSUME PayloadLen < MaxLen
  PROVE  Spec => []WrittenIsReceived
<1>1. Init => ArrivalInv
  BY DEF Init, ArrivalInv, InChunks, Cut, Own, InStep, WrittenIsReceived, ResetState
<1>2. ArrivalInv => WrittenIsReceived
  BY DEF ArrivalInv
<1>3. Init => OnceInv
  BY EmptySeq DEF Init, OnceInv, Numbered, FreshInv, LastReportInv,
     LongCommandsAtMostOnce, HasPacket, ResetState
<1>4. OnceInv => Numbered
  BY DEF OnceInv
<1>5. WholeCommandsInv /\ Numbered /\ ArrivalInv /\ [Next]_vars => ArrivalInv'
  BY ArrivalStep
<1> QED BY <1>1, <1>2, <1>3, <1>4, <1>5, WholeCommands, OnceStep, PTL DEF Spec

=============================================================================
