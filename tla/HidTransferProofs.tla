-------------------------- MODULE HidTransferProofs --------------------------
(****************************************************************************)
(* HidTransfer for every size of report, buffer, sector and queue, and for  *)
(* every number of calls: its types; what a short result holds whatever the *)
(* device does; and, while nothing went wrong since the connection was last *)
(* opened, that a call returns its reply and leaves nothing over.           *)
(****************************************************************************)
EXTENDS HidTransfer, HidPacketProofs

-----------------------------------------------------------------------------
(* Lengths.                                                                 *)

\* The reports of a packet: the last begins within the packet, and ends it.
LEMMA ReportCount ==
  ASSUME NEW len \in Nat \ {0}
  PROVE  /\ Reports(len) \in Nat \ {0}
         /\ (Reports(len) - 1) * PayloadLen \in Nat
         /\ (Reports(len) - 1) * PayloadLen < len
         /\ len <= (Reports(len) - 1) * PayloadLen + PayloadLen
<1> DEFINE m == PayloadLen
           n == len + m - 1
           q == n \div m
           r == n % m
<1>1. m \in Nat /\ m > 0
  BY PacketAssumption
<1>2. n \in Nat
  BY <1>1
<1>3. Reports(len) = q
  BY DEF Reports
<1> HIDE DEF n
<1>4. q \in Nat
  BY <1>1, <1>2
<1>5. r \in Nat
  BY <1>1, <1>2
<1>6. r < m
  BY <1>1, <1>2
<1>7. n = q * m + r
  BY <1>1, <1>2
<1> HIDE DEF q, r, m
<1>8. len + m - 1 = q * m + r
  BY <1>7 DEF n, m
<1>9. q # 0
  <2> SUFFICES ASSUME q = 0 PROVE FALSE
    OBVIOUS
  <2>1. q * m = 0
    BY <1>1
  <2> QED BY <1>1, <1>5, <1>6, <1>8, <2>1
<1>10. PICK k \in Nat : q = k + 1
  <2>1. q - 1 \in Nat /\ q = (q - 1) + 1
    BY <1>4, <1>9
  <2> QED BY <2>1
<1>11. q * m = k * m + m /\ k * m \in Nat
  BY <1>1, <1>10
<1>12. k * m < len /\ len <= k * m + m
  <2> DEFINE km == k * m
  <2>1. km \in Nat /\ len + m - 1 = km + m + r
    BY <1>8, <1>11
  <2> HIDE DEF km
  <2>2. km < len /\ len <= km + m
    BY <1>1, <1>5, <1>6, <2>1
  <2> QED BY <2>2 DEF km
<1>13. q - 1 = k
  BY <1>10
<1> QED BY <1>3, <1>4, <1>9, <1>11, <1>12, <1>13 DEF m

\* A buffer holds at least one report.
LEMMA BufferReports == MaxLen \div PayloadLen \in Nat \ {0}
<1> DEFINE q == MaxLen \div PayloadLen
           r == MaxLen % PayloadLen
<1>1. PayloadLen \in Nat /\ PayloadLen > 0 /\ MaxLen \in Nat /\ PayloadLen <= MaxLen
  BY PacketAssumption
<1>2. q \in Nat
  BY <1>1
<1>3. r < PayloadLen
  BY <1>1
<1>4. MaxLen = q * PayloadLen + r
  BY <1>1
<1>5. r \in Nat
  BY <1>1
<1> HIDE DEF q, r
<1>6. q # 0
  <2> SUFFICES ASSUME q = 0 PROVE FALSE
    OBVIOUS
  <2>1. q * PayloadLen = 0
    BY <1>1
  <2> QED BY <1>1, <1>3, <1>4, <1>5, <2>1
<1> QED BY <1>2, <1>6 DEF q

\* No command, reply or expected answer is empty.
LEMMA Lens ==
  ASSUME NEW kind \in Kinds
  PROVE  /\ CommandLen(kind) \in Nat \ {0}
         /\ ResponseLength(kind) \in Nat \ {0}
         /\ ReplyLen(kind) \in Nat \ {0}
<1>1. SectorLen \in Nat \ {0}
  BY TransferAssumption, PacketAssumption
<1>2. CommandLen(kind) \in Nat \ {0}
  BY <1>1 DEF CommandLen
<1>3. ResponseLength(kind) \in Nat \ {0}
  BY BufferReports DEF ResponseLength
<1>4. ReplyLen(kind) \in Nat \ {0}
  BY <1>1, PacketAssumption DEF ReplyLen
<1> QED BY <1>2, <1>3, <1>4

\* Commands and replies are sequences of bytes of their lengths.
LEMMA Packets ==
  ASSUME NEW req \in [num : Nat, kind : Kinds]
  PROVE  /\ CommandOf(req) \in Seq(Bytes) /\ Len(CommandOf(req)) = CommandLen(req.kind)
         /\ ReplyTo(req) \in Seq(Bytes) /\ Len(ReplyTo(req)) = ReplyLen(req.kind)
         /\ LastPayload(CommandOf(req)) \in Seq(Bytes)
         /\ Len(LastPayload(CommandOf(req))) <= PayloadLen
<1>1. /\ req.num \in Nat /\ req.kind \in Kinds
      /\ CommandLen(req.kind) \in Nat \ {0} /\ ReplyLen(req.kind) \in Nat
  BY Lens
<1>2. CommandOf(req) \in [1..CommandLen(req.kind) -> Bytes]
  BY <1>1 DEF CommandOf, Byte, Bytes
<1>3. ReplyTo(req) \in [1..ReplyLen(req.kind) -> Bytes]
  BY <1>1 DEF ReplyTo, Byte, Bytes
<1>4. CommandOf(req) \in Seq(Bytes) /\ Len(CommandOf(req)) = CommandLen(req.kind)
  BY <1>1, <1>2
<1>5. ReplyTo(req) \in Seq(Bytes) /\ Len(ReplyTo(req)) = ReplyLen(req.kind)
  BY <1>1, <1>3
<1> DEFINE s == CommandOf(req)
           k == (Reports(Len(s)) - 1) * PayloadLen
<1>6. k \in Nat /\ k < Len(s) /\ Len(s) <= k + PayloadLen /\ PayloadLen \in Nat
  BY <1>1, <1>4, ReportCount, PacketAssumption
<1>7. LastPayload(s) = SubSeq(s, k + 1, Len(s))
  BY DEF LastPayload
<1> HIDE DEF s, k
<1>8. s \in Seq(Bytes) /\ Len(s) \in Nat
  BY <1>4, LenProperties DEF s
<1>9. k \in 0..Len(s)
  BY <1>6, <1>8
<1>10. LastPayload(s) \in Seq(Bytes) /\ Len(LastPayload(s)) = Len(s) - k
  BY <1>7, <1>8, <1>9, SplitSeq
<1>11. Len(LastPayload(s)) <= PayloadLen
  BY <1>6, <1>8, <1>10
<1> QED BY <1>4, <1>5, <1>10, <1>11 DEF s

-----------------------------------------------------------------------------
(* Types.                                                                   *)

\* A call that is reading has a read left.
TypeInv == TypeOK /\ (pc = "reading" => reads >= 1)

\* What a request is, and a result.
Results == [status : {"pending", "raised", "ok"}, data : Seq(Bytes)]

LEMMA Outcomes ==
  /\ API!Pending \in Results /\ API!Raised \in Results
  /\ API!Pending.status = "pending" /\ API!Raised.status = "raised"
  BY DEF API!Pending, API!Raised, Results

\* A command received n times more.
Again(req, n) == todo \o [i \in 1..n |-> req]

LEMMA Repeats ==
  ASSUME NEW S, todo \in Seq(S), NEW req \in S, NEW n \in Nat
  PROVE  /\ Again(req, n) \in Seq(S)
         /\ \A i \in 1..Len(Again(req, n)) :
              Again(req, n)[i] = req \/ (i \in 1..Len(todo) /\ Again(req, n)[i] = todo[i])
         /\ n = 0 => Again(req, n) = todo
         /\ n = 1 /\ todo = << >> => Again(req, n) = << req >>
<1> DEFINE more == [i \in 1..n |-> req]
<1>1. more \in Seq(S) /\ Len(more) = n
  OBVIOUS
<1>2. Again(req, n) = todo \o more
  BY DEF Again
<1>3. \A i \in 1..n : more[i] = req
  OBVIOUS
<1>4. Len(todo) \in Nat
  BY LenProperties
<1> HIDE DEF more
<1>5. /\ Again(req, n) \in Seq(S)
      /\ Len(Again(req, n)) = Len(todo) + n
      /\ \A i \in 1 .. Len(todo) + n :
           Again(req, n)[i] = IF i <= Len(todo) THEN todo[i] ELSE more[i - Len(todo)]
  <2>1. /\ todo \o more \in Seq(S)
        /\ Len(todo \o more) = Len(todo) + Len(more)
        /\ \A i \in 1 .. Len(todo) + Len(more) :
             (todo \o more)[i] = IF i <= Len(todo) THEN todo[i] ELSE more[i - Len(todo)]
    BY <1>1, ConcatProperties
  <2> QED BY <1>1, <1>2, <2>1
<1>6. ASSUME NEW i \in 1..Len(Again(req, n))
      PROVE  Again(req, n)[i] = req \/ (i \in 1..Len(todo) /\ Again(req, n)[i] = todo[i])
  <2>1. CASE i <= Len(todo)
    <3>1. i \in 1..Len(todo) /\ i \in 1 .. Len(todo) + n
      BY <1>4, <1>5, <2>1
    <3> QED BY <1>5, <2>1, <3>1
  <2>2. CASE ~(i <= Len(todo))
    <3>1. i - Len(todo) \in 1..n /\ i \in 1 .. Len(todo) + n
      BY <1>4, <1>5, <2>2
    <3> QED BY <1>3, <1>5, <2>2, <3>1
  <2> QED BY <2>1, <2>2
<1>7. n = 0 => Again(req, n) = todo
  <2> SUFFICES ASSUME n = 0 PROVE Again(req, n) = todo
    OBVIOUS
  <2>1. more = << >>
    BY <1>1, EmptySeq
  <2> QED BY <1>2, <2>1, ConcatEmptySeq
<1>8. n = 1 /\ todo = << >> => Again(req, n) = << req >>
  <2> SUFFICES ASSUME n = 1, todo = << >> PROVE Again(req, n) = << req >>
    OBVIOUS
  <2>1. Again(req, n) = more
    BY <1>1, <1>2, ConcatEmptySeq
  <2>2. more = << req >>
    BY DEF more
  <2> QED BY <2>1, <2>2
<1> QED BY <1>5, <1>6, <1>7, <1>8

\* The write loop ended, and the device received the command n times.
Wrote(kind, unsure, n) ==
  /\ pc' = "reading" /\ result' = API!Pending
  /\ hidBuf' = LastPayload(CommandOf(request'))
  /\ reads' = 2 * ResponseLength(kind)
  /\ todo' = Again(request', n)
  /\ doubt' \in BOOLEAN /\ (~doubt' => n = 1 /\ ~unsure)

\* It gave up.
GaveUp(n) ==
  /\ pc' = "idle" /\ result' = API!Raised
  /\ UNCHANGED << hidBuf, reads >>
  /\ todo' = Again(request', n)
  /\ doubt' \in BOOLEAN /\ (~doubt' => n = 0 /\ ~doubt)

\* A call enters the loop, or raises; no packet is there before.
LEMMA TransferStep ==
  ASSUME TypeInv, NEW kind \in Kinds, NEW unsure \in BOOLEAN, Transfer(kind, unsure)
  PROVE  /\ request' = [num |-> request.num + 1, kind |-> kind]
         /\ request' \in [num : Nat, kind : Kinds]
         /\ rx' = rx
         /\ \E n \in Nat : Wrote(kind, unsure, n) \/ GaveUp(n)
<1>1. request' = [num |-> request.num + 1, kind |-> kind]
  BY DEF Transfer
<1>2. request.num \in Nat
  BY DEF TypeInv, TypeOK, Requests
<1>3. request' \in [num : Nat, kind : Kinds]
  BY <1>1, <1>2
<1>4. ~HasPacket(rx) /\ doubt \in BOOLEAN
  BY DEF TypeInv, TypeOK
<1>5. PICK n \in 0..Copies(kind) :
        /\ todo' = todo \o [i \in 1..n |-> request']
        /\ \/ /\ Written(request', CommandOf(request'))
              /\ doubt' = (n # 1 \/ unsure)
           \/ /\ result' = API!Raised
              /\ pc' = "idle"
              /\ doubt' = (n # 0 \/ doubt)
              /\ UNCHANGED << rx, hidBuf, reads >>
  BY <1>1, Zenon DEF Transfer
<1>6. n \in Nat
  <2>1. Copies(kind) \in Nat
    BY TransferAssumption DEF Copies
  <2> QED BY <2>1
<1>7. todo' = Again(request', n)
  BY <1>5, Zenon DEF Again
<1>8. request'.kind = kind
  BY <1>1
<1>9. CASE Written(request', CommandOf(request')) /\ doubt' = (n # 1 \/ unsure)
  <2>1. /\ pc' = "reading" /\ result' = API!Pending /\ rx' = rx
        /\ hidBuf' = LastPayload(CommandOf(request'))
        /\ reads' = 2 * ResponseLength(kind)
    BY <1>4, <1>8, <1>9 DEF Written
  <2>2. doubt' \in BOOLEAN /\ (~doubt' => n = 1 /\ ~unsure)
    BY <1>9, Zenon
  <2> QED BY <1>1, <1>3, <1>6, <1>7, <2>1, <2>2 DEF Wrote
<1>10. CASE /\ result' = API!Raised /\ pc' = "idle" /\ doubt' = (n # 0 \/ doubt)
            /\ UNCHANGED << rx, hidBuf, reads >>
  <2>1. doubt' \in BOOLEAN /\ (~doubt' => n = 0 /\ ~doubt)
    BY <1>10, Zenon
  <2> QED BY <1>1, <1>3, <1>6, <1>7, <1>10, <2>1 DEF GaveUp
<1> QED BY <1>5, <1>9, <1>10

LEMMA TransferTypesStep ==
  ASSUME TypeInv, NEW kind \in Kinds, NEW unsure \in BOOLEAN, Transfer(kind, unsure)
  PROVE  /\ pc' \in {"idle", "reading"} /\ request' \in Requests
         /\ rx' \in Buffers(Bytes) /\ ~HasPacket(rx)'
         /\ hidBuf' \in Seq(Bytes) /\ reads' \in Nat /\ (pc' = "reading" => reads' >= 1)
         /\ result' \in Results /\ todo' \in Seq(Requests) /\ doubt' \in BOOLEAN
<1>1. request' \in [num : Nat, kind : Kinds] /\ rx' = rx
  BY TransferStep
<1>2. request' \in Requests
  BY <1>1 DEF Requests
<1>4. rx' \in Buffers(Bytes) /\ ~HasPacket(rx)'
  BY <1>1 DEF TypeInv, TypeOK, HasPacket
<1>5. LastPayload(CommandOf(request')) \in Seq(Bytes)
  BY <1>1, Packets
<1>6. ASSUME NEW n \in Nat PROVE Again(request', n) \in Seq(Requests)
  <2>1. todo \in Seq(Requests)
    BY DEF TypeInv, TypeOK
  <2> QED BY <1>2, <2>1, Repeats
<1>7. ResponseLength(kind) \in Nat \ {0}
  BY Lens
<1>8. hidBuf \in Seq(Bytes) /\ reads \in Nat
  BY DEF TypeInv, TypeOK
<1>9. ASSUME NEW n \in Nat, Wrote(kind, unsure, n)
      PROVE  /\ pc' = "reading" /\ hidBuf' \in Seq(Bytes) /\ reads' \in Nat /\ reads' >= 1
             /\ result' \in Results /\ todo' \in Seq(Requests) /\ doubt' \in BOOLEAN
  <2>1. reads' \in Nat /\ reads' >= 1
    BY <1>7, <1>9 DEF Wrote
  <2> QED BY <1>5, <1>6, <1>9, <2>1, Outcomes DEF Wrote
<1>10. ASSUME NEW n \in Nat, GaveUp(n)
       PROVE  /\ pc' = "idle" /\ hidBuf' \in Seq(Bytes) /\ reads' \in Nat
              /\ result' \in Results /\ todo' \in Seq(Requests) /\ doubt' \in BOOLEAN
  BY <1>6, <1>8, <1>10, Outcomes DEF GaveUp
<1>11. \E n \in Nat : Wrote(kind, unsure, n) \/ GaveUp(n)
  BY TransferStep
<1> QED BY <1>2, <1>4, <1>9, <1>10, <1>11

\* A read goes on, or ends the call with a packet or without one.
LEMMA AfterRecvStep ==
  ASSUME TypeInv, pc = "reading", NEW received \in Buffers(Bytes), AfterRecv(received)
  PROVE  /\ rx' \in Buffers(Bytes) /\ ~HasPacket(rx)'
         /\ reads' \in Nat /\ (pc' = "reading" => reads' >= 1)
         /\ pc' \in {"idle", "reading"} /\ result' \in Results
         /\ \/ HasPacket(received) /\ result' = [status |-> "ok", data |-> Packet(received)]
            \/ result' \in {result, API!Raised}
<1>1. reads \in Nat /\ reads >= 1 /\ result \in Results
  BY DEF TypeInv, TypeOK, Results
<1>2. rx' = hidPacket_getPacket(received) /\ reads' = reads - 1
  BY DEF AfterRecv
<1>3. rx' \in Buffers(Bytes) /\ ~HasPacket(rx)'
  <2>1. hidPacket_getPacket(received) \in Buffers(Bytes) /\ ~HasPacket(hidPacket_getPacket(received))
    BY GetPacketEmpties
  <2> QED BY <1>2, <2>1 DEF HasPacket
<1>4. Packet(received) \in Seq(Bytes)
  BY DEF Packet, Buffers
<1>5. CASE HasPacket(received) /\ result' = [status |-> "ok", data |-> Packet(received)] /\ pc' = "idle"
  BY <1>1, <1>2, <1>3, <1>4, <1>5 DEF Results
<1>6. CASE reads = 1 /\ result' = API!Raised /\ pc' = "idle"
  BY <1>1, <1>2, <1>3, <1>6, Outcomes
<1>7. CASE reads > 1 /\ UNCHANGED << result, pc >>
  BY <1>1, <1>2, <1>3, <1>7
<1> QED BY <1>5, <1>6, <1>7 DEF AfterRecv

\* What is taken from a sequence, and what is added.
LEMMA QueueEnds ==
  ASSUME NEW S, NEW s \in Seq(S), s # << >>
  PROVE  /\ Head(s) \in S /\ Tail(s) \in Seq(S) /\ Len(s) \in Nat \ {0}
         /\ Len(Tail(s)) = Len(s) - 1
         /\ Head(s) = s[1]
         /\ \A i \in 1 .. Len(s) - 1 : Tail(s)[i] = s[i + 1]
<1>1. Len(s) \in Nat /\ Len(s) # 0
  BY LenProperties, EmptySeq
<1> QED BY <1>1, HeadTailProperties

LEMMA EnqueueStep ==
  ASSUME TypeInv, NEW report \in Reports64(Bytes)
  PROVE  /\ Enqueue(report) \in Seq(Reports64(Bytes))
         /\ Len(Enqueue(report)) <= QueueCap
         /\ \A i \in 1..Len(Enqueue(report)) :
              Enqueue(report)[i] = report \/ \E j \in 1..Len(queue) : Enqueue(report)[i] = queue[j]
<1>1. queue \in Seq(Reports64(Bytes)) /\ Len(queue) <= QueueCap /\ QueueCap \in Nat \ {0}
  BY TransferAssumption DEF TypeInv, TypeOK
<1>2. Len(queue) \in Nat
  BY <1>1, LenProperties
<1>3. CASE Len(queue) >= QueueCap
  <2>1. queue # << >>
    BY <1>1, <1>3, EmptySeq
  <2>2. /\ Tail(queue) \in Seq(Reports64(Bytes)) /\ Len(Tail(queue)) = Len(queue) - 1
        /\ \A i \in 1 .. Len(queue) - 1 : Tail(queue)[i] = queue[i + 1]
    BY <1>1, <2>1, QueueEnds
  <2>3. Enqueue(report) = Append(Tail(queue), report)
    BY <1>3 DEF Enqueue
  <2>4. /\ Enqueue(report) \in Seq(Reports64(Bytes))
        /\ Len(Enqueue(report)) = Len(queue)
        /\ \A i \in 1 .. Len(queue) - 1 : Enqueue(report)[i] = Tail(queue)[i]
        /\ Enqueue(report)[Len(queue)] = report
    BY <1>2, <2>2, <2>3, AppendProperties
  <2>5. ASSUME NEW i \in 1..Len(queue), i # Len(queue)
        PROVE  \E j \in 1..Len(queue) : Enqueue(report)[i] = queue[j]
    <3>1. i \in 1 .. Len(queue) - 1 /\ i + 1 \in 1..Len(queue)
      BY <1>2, <2>5
    <3> QED BY <2>2, <2>4, <3>1
  <2> QED BY <1>1, <2>4, <2>5
<1>4. CASE ~(Len(queue) >= QueueCap)
  <2>1. Enqueue(report) = Append(queue, report)
    BY <1>4 DEF Enqueue
  <2>2. /\ Enqueue(report) \in Seq(Reports64(Bytes))
        /\ Len(Enqueue(report)) = Len(queue) + 1
        /\ \A i \in 1..Len(queue) : Enqueue(report)[i] = queue[i]
        /\ Enqueue(report)[Len(queue) + 1] = report
    BY <1>1, <2>1, AppendProperties
  <2>3. ASSUME NEW i \in 1 .. Len(queue) + 1, i # Len(queue) + 1
        PROVE  \E j \in 1..Len(queue) : Enqueue(report)[i] = queue[j]
    <3>1. i \in 1..Len(queue)
      BY <1>2, <2>3
    <3> QED BY <2>2, <3>1
  <2>4. Len(queue) + 1 <= QueueCap
    BY <1>1, <1>2, <1>4
  <2> QED BY <2>2, <2>3, <2>4
<1> QED BY <1>3, <1>4

LEMMA TypeInit == Init => TypeInv
<1> SUFFICES ASSUME Init PROVE TypeInv
  OBVIOUS
<1>1. << >> \in Seq(Bytes) /\ << >> \in Seq(Requests) /\ << >> \in Seq(Reports64(Bytes))
      /\ Len(<< >>) = 0
  BY EmptySeq
<1>2. ResetState \in Buffers(Bytes)
  BY ResetIsBuffer
<1>3. rx \in Buffers(Bytes) /\ ~HasPacket(rx)
  BY TransferAssumption DEF Init
<1>4. request \in Requests
  BY DEF Init, Requests
<1>5. result \in [status : {"pending", "raised", "ok"}, data : Seq(Bytes)]
  BY Outcomes DEF Init, Results
<1>6. opens \in 0..MaxOpens /\ Len(queue) <= QueueCap
  BY <1>1, TransferAssumption DEF Init
<1> QED BY <1>1, <1>2, <1>3, <1>4, <1>5, <1>6 DEF Init, TypeInv, TypeOK

LEMMA TypeStep == TypeInv /\ [Next]_vars => TypeInv'
<1> SUFFICES ASSUME TypeInv, [Next]_vars PROVE TypeInv'
  OBVIOUS
<1>t. /\ rx \in Buffers(Bytes) /\ hidBuf \in Seq(Bytes) /\ devTx \in Buffers(Bytes)
      /\ queue \in Seq(Reports64(Bytes)) /\ Len(queue) <= QueueCap
      /\ todo \in Seq(Requests) /\ opens \in 0..MaxOpens /\ doubt \in BOOLEAN
  BY DEF TypeInv, TypeOK
<1>q. Len(queue) \in Nat /\ QueueCap \in Nat /\ MaxOpens \in Nat
  BY <1>t, LenProperties, TransferAssumption
<1>1. ASSUME NEW kind \in Kinds, Call(kind) PROVE TypeInv'
  <2>1. Transfer(kind, doubt) /\ doubt \in BOOLEAN /\ UNCHANGED << opens, queue, devTx >>
    BY <1>1 DEF Call, TypeInv, TypeOK
  <2> QED BY <1>t, <2>1, TransferTypesStep DEF TypeInv, TypeOK, Results
<1>2. CASE Open
  <2>1. /\ "devinfo" \in Kinds /\ Transfer("devinfo", ~Quiet) /\ (~Quiet) \in BOOLEAN
        /\ opens' = opens + 1 /\ opens < MaxOpens
        /\ queue' = << >> /\ devTx' = devTx
    BY <1>2, TransferAssumption DEF Open
  <2>2. opens' \in 0..MaxOpens
    BY <1>t, <1>q, <2>1
  <2>3. queue' \in Seq(Reports64(Bytes)) /\ Len(queue') <= QueueCap
    BY <1>q, <2>1, EmptySeq
  <2> QED BY <1>t, <2>1, <2>2, <2>3, TransferTypesStep DEF TypeInv, TypeOK, Results
<1>3. CASE ReadReport
  <2> DEFINE received == hidPacket_recv(rx, Head(queue))
  <2>1. /\ pc = "reading" /\ queue # << >>
        /\ hidBuf' = Head(queue).payload /\ queue' = Tail(queue)
        /\ AfterRecv(received)
        /\ UNCHANGED << opens, request, todo, devTx, doubt >>
    BY <1>3 DEF ReadReport
  <2>2. /\ Head(queue) \in Reports64(Bytes) /\ Tail(queue) \in Seq(Reports64(Bytes))
        /\ Len(Tail(queue)) = Len(queue) - 1
    BY <1>t, <2>1, QueueEnds
  <2>3. received \in Buffers(Bytes)
    BY <1>t, <2>2, RecvStaysInBuffer
  <2>4. hidBuf' \in Seq(Bytes)
    BY <2>1, <2>2 DEF Reports64
  <2> HIDE DEF received
  <2>5. Len(queue') <= QueueCap
    BY <1>t, <1>q, <2>1, <2>2
  <2> QED BY <1>t, <2>1, <2>2, <2>3, <2>4, <2>5, AfterRecvStep DEF TypeInv, TypeOK, Results
<1>4. CASE ReadNothing
  <2> DEFINE received == hidPacket_recv(rx, Report(0, FALSE, hidBuf))
  <2>1. /\ pc = "reading" /\ AfterRecv(received)
        /\ UNCHANGED << opens, hidBuf, request, queue, todo, devTx >>
        /\ doubt' \in BOOLEAN
    BY <1>4 DEF ReadNothing
  <2>2. Report(0, FALSE, hidBuf) \in Reports64(Bytes)
    BY <1>t DEF Report, Reports64
  <2>3. received \in Buffers(Bytes)
    BY <1>t, <2>2, RecvStaysInBuffer
  <2> HIDE DEF received
  <2> QED BY <1>t, <2>1, <2>3, AfterRecvStep DEF TypeInv, TypeOK, Results
<1>5. CASE ReadFails
  BY <1>5, <1>t, Outcomes DEF ReadFails, TypeInv, TypeOK, Results
<1>6. CASE Answer
  <2>1. todo # << >> /\ devTx' = hidPacket_send(ReplyTo(Head(todo))) /\ todo' = Tail(todo)
        /\ UNCHANGED << pc, opens, rx, hidBuf, reads, request, result, queue, doubt >>
    BY <1>6 DEF Answer
  <2>2. Head(todo) \in Requests /\ Tail(todo) \in Seq(Requests)
    BY <1>t, <2>1, QueueEnds
  <2>3. ReplyTo(Head(todo)) \in Seq(Bytes)
    <3>1. Head(todo).num \in Nat
      BY <2>2 DEF Requests
    <3>2. ReplyLen(Head(todo).kind) \in Nat
      <4>1. SectorLen \in Nat
        BY TransferAssumption, PacketAssumption
      <4> QED BY <4>1, PacketAssumption DEF ReplyLen
    <3>3. ReplyTo(Head(todo)) \in [1..ReplyLen(Head(todo).kind) -> Bytes]
      BY <3>1 DEF ReplyTo, Byte, Bytes
    <3> QED BY <3>2, <3>3
  <2>4. devTx' \in Buffers(Bytes)
    BY <2>1, <2>3, SendStaysInBuffer
  <2> QED BY <1>t, <2>1, <2>2, <2>4 DEF TypeInv, TypeOK, HasPacket
<1>7. CASE Transmit
  <2>1. /\ queue' = IF pc = "closed" THEN queue ELSE Enqueue(NextReport(devTx))
        /\ devTx' = hidPacket_getHIDBytes(devTx)
        /\ UNCHANGED << pc, opens, rx, hidBuf, reads, request, result, todo, doubt >>
    BY <1>7 DEF Transmit
  <2>2. NextReport(devTx) \in Reports64(Bytes) /\ devTx' \in Buffers(Bytes)
    BY <1>t, <2>1, FragmentSplits
  <2>3. queue' \in Seq(Reports64(Bytes)) /\ Len(queue') <= QueueCap
    BY <1>t, <2>1, <2>2, EnqueueStep
  <2> QED BY <1>t, <2>1, <2>2, <2>3 DEF TypeInv, TypeOK, HasPacket
<1>8. CASE UNCHANGED vars
  BY <1>8 DEF vars, TypeInv, TypeOK, HasPacket
<1> QED BY <1>1, <1>2, <1>3, <1>4, <1>5, <1>6, <1>7, <1>8 DEF Next

\* Whatever arrives and however often a stale buffer is fed to hidPacket_recv
\* (SCSI2SD_HID.m:192-206), both static buffers keep within HIDPACKET_MAX_LEN and
\* no packet outlives the call that completed it.
THEOREM TransferTypes == Spec => []TypeOK
<1>1. TypeInv => TypeOK
  BY DEF TypeInv
<1> QED BY <1>1, TypeInit, TypeStep, PTL DEF Spec

-----------------------------------------------------------------------------
(* Whatever the device answers, and whenever.                               *)

\* The requests so far.
Given == [num : 1..request.num, kind : Kinds]

\* A report of a reply: the only one; or one of at least three, full unless it
\* is the last.
Fragment(r) ==
  /\ r.final /\ r.chunk = 0 => \E req \in Given : r.payload = ReplyTo(req)
  /\ r.final /\ r.chunk # 0 => r.chunk >= 2 /\ Len(r.payload) >= 1
  /\ ~r.final /\ r.chunk # 0 => Len(r.payload) = PayloadLen

\* What the device has still to send of a reply.
Rest ==
  HasReport(devTx) =>
    \E req \in Given :
      /\ devTx.chunk = 0 => devTx.data = ReplyTo(req)
      /\ devTx.chunk * PayloadLen + Len(devTx.data) = ReplyLen(req.kind)

\* An incomplete packet holds a full report for each chunk before its last.
Filled == rx.state = "PARTIAL" => Len(rx.data) >= rx.chunk * PayloadLen

LateInv ==
  /\ TypeInv
  /\ \A i \in 1..Len(todo) : todo[i] \in Given
  /\ Rest
  /\ \A i \in 1..Len(queue) : Fragment(queue[i])
  /\ Filled
  /\ ShortResultsWhole

\* What is kept when a call begins.
LEMMA GivenGrows ==
  ASSUME TypeInv, NEW kind \in Kinds, request' = [num |-> request.num + 1, kind |-> kind]
  PROVE  /\ Given \subseteq Given' /\ request' \in Given'
         /\ Rest /\ UNCHANGED devTx => Rest'
         /\ \A r : Fragment(r) => Fragment(r)'
<1>1. request.num \in Nat
  BY DEF TypeInv, TypeOK, Requests
<1>2. request'.num = request.num + 1 /\ request'.kind = kind
  OBVIOUS
<1>3. 1..request.num \subseteq 1..request'.num /\ request'.num \in 1..request'.num
  BY <1>1, <1>2
<1>4. Given \subseteq Given' /\ request' \in Given'
  BY <1>2, <1>3 DEF Given
<1>5. Rest /\ UNCHANGED devTx => Rest'
  BY <1>4 DEF Rest
<1>6. \A r : Fragment(r) => Fragment(r)'
  BY <1>4 DEF Fragment
<1> QED BY <1>4, <1>5, <1>6

LEMMA Sums ==
  ASSUME NEW a \in Nat, NEW b \in Nat, NEW full \in Nat, NEW m \in Nat, a >= full
  PROVE  /\ full >= m /\ b >= 1 => ~(a + b <= m)
         /\ b = m => a + b >= full + m
  OBVIOUS

LEMMA AddBoth ==
  ASSUME NEW a \in Nat, NEW b \in Nat, NEW p \in Nat, NEW m \in Nat, a <= p, b <= m
  PROVE  a + b <= p + m
  OBVIOUS

\* A packet that completes with one report's length came in one report.
LEMMA RecvShort ==
  ASSUME TypeInv, Filled, NEW r \in Reports64(Bytes), Fragment(r)
  PROVE  LET d == hidPacket_recv(rx, r) IN
         /\ d.state = "PARTIAL" => Len(d.data) >= d.chunk * PayloadLen
         /\ HasPacket(d) /\ Len(d.data) <= PayloadLen => \E req \in Given : d.data = ReplyTo(req)
<1> DEFINE d == hidPacket_recv(rx, r)
           s == Stored(rx, r)
<1>1. /\ rx.data \in Seq(Bytes) /\ rx.chunk \in Nat /\ rx.state # "COMPLETE"
      /\ r.payload \in Seq(Bytes) /\ r.chunk \in Nat /\ r.final \in BOOLEAN
      /\ PayloadLen \in Nat \ {0}
  BY PacketAssumption DEF TypeInv, TypeOK, Buffers, HasPacket, Reports64
<1>2. Len(rx.data) \in Nat /\ Len(r.payload) \in Nat
  BY <1>1, LenProperties
<1>3. CASE d = ResetState
  BY <1>3 DEF ResetState, HasPacket
<1>4. CASE d = Completed(s, r.final) /\ r.chunk = 0
  <2>1. s = [state |-> "PARTIAL", chunk |-> 0, data |-> r.payload]
    BY <1>4 DEF Stored
  <2>2. CASE r.final
    BY <1>4, <2>1, <2>2 DEF Completed, HasPacket, Fragment
  <2>3. CASE ~r.final
    <3>1. d = s
      BY <1>4, <2>1, <2>3 DEF Completed
    <3>2. 0 * PayloadLen = 0
      BY <1>1
    <3> QED BY <1>2, <2>1, <3>1, <3>2 DEF HasPacket
  <2> QED BY <2>2, <2>3
<1>5. CASE d = Completed(s, r.final) /\ r.chunk # 0 /\ rx.state = "PARTIAL" /\ r.chunk = rx.chunk + 1
  <2>1. s = [state |-> "PARTIAL", chunk |-> rx.chunk + 1, data |-> rx.data \o r.payload]
    BY <1>5 DEF Stored
  <2>2. Len(s.data) = Len(rx.data) + Len(r.payload)
    BY <1>1, <2>1, ConcatProperties
  <2>3. Len(rx.data) >= rx.chunk * PayloadLen
    BY <1>5 DEF Filled
  <2> DEFINE full == rx.chunk * PayloadLen
             more == (rx.chunk + 1) * PayloadLen
             total == Len(s.data)
  <2>4. full \in Nat
    BY <1>1
  <2>m. more = full + PayloadLen
    BY <1>1
  <2>5. rx.chunk >= 1 => full >= PayloadLen
    <3> SUFFICES ASSUME rx.chunk >= 1 PROVE full >= PayloadLen
      OBVIOUS
    <3>1. PICK k \in Nat : rx.chunk = k + 1
      <4>1. rx.chunk - 1 \in Nat /\ rx.chunk = (rx.chunk - 1) + 1
        BY <1>1
      <4> QED BY <4>1
    <3>2. full = k * PayloadLen + PayloadLen /\ k * PayloadLen \in Nat
      BY <1>1, <3>1
    <3> QED BY <1>1, <3>2
  <2>t. total = Len(rx.data) + Len(r.payload)
    BY <2>2
  <2>6. Len(rx.data) >= full
    BY <2>3
  <2> HIDE DEF full, more, total, s
  <2>7. CASE r.final
    <3>1. r.chunk >= 2 /\ Len(r.payload) >= 1
      BY <1>5, <2>7 DEF Fragment
    <3>2. rx.chunk >= 1
      BY <1>1, <1>5, <3>1
    <3>3. full >= PayloadLen
      BY <2>5, <3>2
    <3>4. ~(total <= PayloadLen)
      BY <1>1, <1>2, <2>4, <2>t, <2>6, <3>1, <3>3, Sums
    <3>5. d.state = "COMPLETE" /\ d.data = s.data
      BY <1>5, <2>1, <2>7 DEF Completed
    <3> QED BY <3>4, <3>5 DEF total
  <2>8. CASE ~r.final
    <3>1. d = s
      BY <1>5, <2>1, <2>8 DEF Completed
    <3>2. Len(r.payload) = PayloadLen
      BY <1>5, <2>8 DEF Fragment
    <3>3. total >= more
      BY <1>1, <1>2, <2>4, <2>m, <2>t, <2>6, <3>2, Sums
    <3>4. Len(d.data) = total
      BY <3>1 DEF total
    <3>5. d.state = "PARTIAL" /\ d.chunk = rx.chunk + 1
      BY <2>1, <3>1
    <3>6. d.chunk * PayloadLen = more
      BY <3>5 DEF more
    <3>7. Len(d.data) >= d.chunk * PayloadLen
      BY <3>3, <3>4, <3>6
    <3> QED BY <3>5, <3>7 DEF HasPacket
  <2> QED BY <1>1, <2>7, <2>8
<1>6. CASE /\ d = Completed(s, r.final) /\ r.chunk # 0
           /\ ~(rx.state = "PARTIAL" /\ r.chunk = rx.chunk + 1) /\ r.chunk = rx.chunk
  <2>1. s = rx
    BY <1>6 DEF Stored
  <2>2. CASE rx.state = "PARTIAL" /\ r.final
    <3>1. rx.chunk >= 2
      BY <1>6, <2>2 DEF Fragment
    <3>2. Len(rx.data) >= rx.chunk * PayloadLen
      BY <2>2 DEF Filled
    <3>3. PICK k \in Nat : rx.chunk = k + 2
      <4>1. rx.chunk - 2 \in Nat /\ rx.chunk = (rx.chunk - 2) + 2
        BY <1>1, <3>1
      <4> QED BY <4>1
    <3>4. rx.chunk * PayloadLen = k * PayloadLen + 2 * PayloadLen /\ k * PayloadLen \in Nat
      BY <1>1, <3>3
    <3>5. ~(Len(rx.data) <= PayloadLen)
      BY <1>1, <1>2, <3>2, <3>4
    <3>6. d.state = "COMPLETE" /\ d.data = rx.data
      BY <1>6, <2>1, <2>2 DEF Completed
    <3> QED BY <3>5, <3>6
  <2>3. CASE ~(rx.state = "PARTIAL" /\ r.final)
    <3>1. d = rx
      BY <1>6, <2>1, <2>3 DEF Completed
    <3> QED BY <1>1, <3>1 DEF Filled, HasPacket
  <2> QED BY <2>2, <2>3
<1>7. CASE /\ d = Completed(s, r.final) /\ r.chunk # 0
           /\ ~(rx.state = "PARTIAL" /\ r.chunk = rx.chunk + 1) /\ r.chunk # rx.chunk
  <2>1. s = ResetState
    BY <1>7 DEF Stored
  <2>2. d = ResetState
    BY <1>7, <2>1 DEF Completed, ResetState
  <2> QED BY <1>3, <2>2
<1>8. d = ResetState \/ d = Completed(s, r.final)
  BY DEF hidPacket_recv
<1> QED BY <1>3, <1>4, <1>5, <1>6, <1>7, <1>8

\* What a read makes of that.
LEMMA ReadShort ==
  ASSUME LateInv, pc = "reading", NEW r \in Reports64(Bytes), Fragment(r),
         AfterRecv(hidPacket_recv(rx, r)), UNCHANGED request
  PROVE  Filled' /\ ShortResultsWhole'
<1> DEFINE d == hidPacket_recv(rx, r)
<1>1. TypeInv /\ Filled /\ ShortResultsWhole
  BY DEF LateInv
<1>2. /\ d.state = "PARTIAL" => Len(d.data) >= d.chunk * PayloadLen
      /\ HasPacket(d) /\ Len(d.data) <= PayloadLen => \E req \in Given : d.data = ReplyTo(req)
  BY <1>1, RecvShort
<1>3. AfterRecv(d) /\ d \in Buffers(Bytes)
  BY <1>1, RecvStaysInBuffer DEF TypeInv, TypeOK
<1> HIDE DEF d
<1>4. rx' = hidPacket_getPacket(d)
  BY <1>3 DEF AfterRecv
<1>5. Filled'
  BY <1>2, <1>4 DEF Filled, hidPacket_getPacket, ResetState
<1>6. \/ HasPacket(d) /\ result' = [status |-> "ok", data |-> Packet(d)]
      \/ result' \in {result, API!Raised}
  BY <1>1, <1>3, AfterRecvStep
<1>7. CASE HasPacket(d) /\ result' = [status |-> "ok", data |-> Packet(d)]
  <2> SUFFICES ASSUME Len(d.data) <= PayloadLen PROVE ShortResultsWhole'
    BY <1>5, <1>7 DEF ShortResultsWhole, Packet
  <2>1. PICK req \in Given : d.data = ReplyTo(req)
    BY <1>2, <1>7
  <2>2. /\ req.num \in 1..request'.num /\ req.kind \in Kinds
        /\ req = [num |-> req.num, kind |-> req.kind]
    BY DEF Given
  <2>3. result'.data = ReplyTo([num |-> req.num, kind |-> req.kind])
    BY <1>7, <2>1, <2>2 DEF Packet
  <2> QED BY <2>2, <2>3 DEF ShortResultsWhole
<1>8. CASE result' \in {result, API!Raised}
  BY <1>1, <1>5, <1>8, Outcomes DEF ShortResultsWhole
<1> QED BY <1>5, <1>6, <1>7, <1>8

\* A report the device sends, and what it keeps.
LEMMA SendShort ==
  ASSUME OneOrMany, TypeInv, Rest, HasReport(devTx)
  PROVE  /\ Fragment(NextReport(devTx))
         /\ devTx' = hidPacket_getHIDBytes(devTx) /\ UNCHANGED request => Rest'
<1> DEFINE n == Len(devTx.data)
           last == IsLastReport(devTx)
           next == hidPacket_getHIDBytes(devTx)
           full == devTx.chunk * PayloadLen
<1>1. PICK req \in Given : /\ devTx.chunk = 0 => devTx.data = ReplyTo(req)
                           /\ full + n = ReplyLen(req.kind)
  BY DEF Rest
<1>2. req.kind \in Kinds
  BY DEF Given
<1>3. /\ devTx \in Buffers(Bytes) /\ devTx.data \in Seq(Bytes) /\ devTx.chunk \in Nat
      /\ n \in Nat /\ n > 0 /\ PayloadLen \in Nat \ {0}
  BY PacketAssumption, LenProperties DEF TypeInv, TypeOK, Buffers, HasReport
<1>4. full \in Nat /\ ReplyLen(req.kind) \in Nat
  BY <1>2, <1>3, Lens
<1>5. ReplyLen(req.kind) <= PayloadLen \/ ReplyLen(req.kind) > 2 * PayloadLen
  BY <1>2 DEF OneOrMany
<1>6. last <=> n <= PayloadLen
  BY DEF IsLastReport
<1>7. CASE last
  <2>1. ReportLen(devTx) = n
    BY <1>7 DEF ReportLen
  <2>2. SubSeq(devTx.data, 1, n) = devTx.data
    BY <1>3, SubSeqFull
  <2>3. NextReport(devTx) = [chunk |-> devTx.chunk, final |-> TRUE, payload |-> devTx.data]
    BY <1>7, <2>1, <2>2 DEF NextReport, Report
  <2>4. devTx.chunk # 0 => devTx.chunk >= 2
    <3> SUFFICES ASSUME devTx.chunk = 1 PROVE FALSE
      BY <1>3
    <3>1. full = PayloadLen
      BY <1>3
    <3> HIDE DEF full, n
    <3> QED BY <1>1, <1>3, <1>4, <1>5, <1>6, <1>7, <3>1
  <2>5. Fragment(NextReport(devTx))
    BY <1>1, <1>3, <2>3, <2>4 DEF Fragment
  <2>6. next.state = "IDLE"
    BY <1>7 DEF hidPacket_getHIDBytes
  <2> QED BY <2>5, <2>6 DEF Rest, HasReport
<1>8. CASE ~last
  <2>1. ReportLen(devTx) = PayloadLen /\ n > PayloadLen
    BY <1>3, <1>6, <1>8 DEF ReportLen
  <2>2. PayloadLen \in 0..n
    BY <1>3, <2>1
  <2>3. /\ Len(SubSeq(devTx.data, 1, PayloadLen)) = PayloadLen
        /\ Len(SubSeq(devTx.data, PayloadLen + 1, n)) = n - PayloadLen
    BY <1>3, <2>2, SplitSeq
  <2>4. ~NextReport(devTx).final /\ NextReport(devTx).payload = SubSeq(devTx.data, 1, PayloadLen)
    BY <1>8, <2>1 DEF NextReport, Report
  <2>5. Fragment(NextReport(devTx))
    BY <2>3, <2>4 DEF Fragment
  <2>6. next.chunk = devTx.chunk + 1 /\ next.data = SubSeq(devTx.data, PayloadLen + 1, n)
    BY <1>8, <2>1 DEF hidPacket_getHIDBytes
  <2>7. (devTx.chunk + 1) * PayloadLen = full + PayloadLen
    BY <1>3
  <2>8. next.chunk # 0 /\ next.chunk * PayloadLen + Len(next.data) = ReplyLen(req.kind)
    <3>1. next.chunk = devTx.chunk + 1 /\ Len(next.data) = n - PayloadLen
      BY <2>3, <2>6
    <3>2. next.chunk * PayloadLen = full + PayloadLen
      BY <2>7, <3>1
    <3> HIDE DEF full, n, next
    <3> QED BY <1>1, <1>3, <1>4, <3>1, <3>2
  <2>9. devTx' = next /\ UNCHANGED request => Rest'
    BY <2>8 DEF Rest, Given
  <2> QED BY <2>5, <2>9
<1> QED BY <1>7, <1>8

LEMMA LateInit == OneOrMany /\ Init => LateInv
<1> SUFFICES ASSUME OneOrMany, Init PROVE LateInv
  OBVIOUS
<1>1. TypeInv
  BY TypeInit
<1>2. Filled
  BY DEF Init, OneOrMany, Filled
<1>3. ShortResultsWhole
  BY Outcomes DEF Init, ShortResultsWhole
<1>4. ~HasReport(devTx) /\ Len(todo) = 0 /\ Len(queue) = 0
  BY EmptySeq DEF Init, HasReport, ResetState
<1> QED BY <1>1, <1>2, <1>3, <1>4 DEF LateInv, Rest

LEMMA LateStep == OneOrMany /\ LateInv /\ [Next]_vars => LateInv'
<1> SUFFICES ASSUME OneOrMany, LateInv, [Next]_vars PROVE LateInv'
  OBVIOUS
<1>i. /\ TypeInv /\ Rest /\ Filled /\ ShortResultsWhole
      /\ \A i \in 1..Len(todo) : todo[i] \in Given
      /\ \A i \in 1..Len(queue) : Fragment(queue[i])
  BY DEF LateInv
<1>t. TypeInv'
  BY <1>i, TypeStep
<1>s. todo \in Seq(Requests) /\ queue \in Seq(Reports64(Bytes)) /\ Len(todo) \in Nat
      /\ hidBuf \in Seq(Bytes)
  BY <1>i, LenProperties DEF TypeInv, TypeOK
<1>1. ASSUME NEW kind \in Kinds, NEW unsure \in BOOLEAN, Transfer(kind, unsure),
             UNCHANGED devTx, queue' \in {queue, << >>}
      PROVE  LateInv'
  <2>1. /\ request' = [num |-> request.num + 1, kind |-> kind] /\ rx' = rx
        /\ request' \in Requests
        /\ result' \in {API!Pending, API!Raised}
        /\ \E n \in Nat : todo' = Again(request', n)
    BY <1>i, <1>1, TransferStep DEF Requests, Wrote, GaveUp
  <2>2. /\ Given \subseteq Given' /\ request' \in Given' /\ Rest'
        /\ \A r : Fragment(r) => Fragment(r)'
    BY <1>i, <1>1, <2>1, GivenGrows
  <2>3. (\A i \in 1..Len(queue) : Fragment(queue[i]))'
    <3>1. CASE queue' = queue
      BY <1>i, <2>2, <3>1
    <3>2. CASE queue' = << >>
      BY <3>2, EmptySeq
    <3> QED BY <1>1, <3>1, <3>2
  <2>4. ASSUME NEW i \in 1..Len(todo') PROVE todo'[i] \in Given'
    <3>1. PICK n \in Nat : todo' = Again(request', n)
      BY <2>1
    <3>2. todo'[i] = request' \/ (i \in 1..Len(todo) /\ todo'[i] = todo[i])
      BY <1>s, <2>1, <2>4, <3>1, Repeats
    <3> QED BY <1>i, <2>2, <3>2
  <2>5. Filled'
    BY <1>i, <2>1 DEF Filled
  <2>6. ShortResultsWhole'
    BY <2>1, Outcomes DEF ShortResultsWhole
  <2> QED BY <1>t, <2>2, <2>3, <2>4, <2>5, <2>6 DEF LateInv
<1>2. ASSUME NEW r \in Reports64(Bytes), Fragment(r), pc = "reading",
             AfterRecv(hidPacket_recv(rx, r)), UNCHANGED << request, todo, devTx >>,
             \A i \in 1..Len(queue') : Fragment(queue'[i])
      PROVE  LateInv'
  <2>1. Filled' /\ ShortResultsWhole'
    BY <1>2, ReadShort
  <2>2. Given' = Given /\ Rest' /\ \A x : Fragment(x) => Fragment(x)'
    BY <1>2, <1>i DEF Given, Rest, Fragment
  <2> QED BY <1>t, <1>i, <1>2, <2>1, <2>2 DEF LateInv
<1>3. ASSUME NEW kind \in Kinds, Call(kind) PROVE LateInv'
  <2>1. doubt \in BOOLEAN
    BY <1>i DEF TypeInv, TypeOK
  <2> QED BY <1>1, <1>3, <2>1 DEF Call
<1>4. CASE Open
  <2>1. (~Quiet) \in BOOLEAN
    OBVIOUS
  <2> QED BY <1>1, <1>4, <2>1, TransferAssumption DEF Open
<1>5. CASE ReadReport
  <2>1. /\ pc = "reading" /\ queue # << >> /\ queue' = Tail(queue)
        /\ AfterRecv(hidPacket_recv(rx, Head(queue)))
        /\ UNCHANGED << request, todo, devTx >>
    BY <1>5 DEF ReadReport
  <2>2. /\ Head(queue) \in Reports64(Bytes) /\ Head(queue) = queue[1]
        /\ Len(queue) \in Nat \ {0} /\ Len(Tail(queue)) = Len(queue) - 1
        /\ \A i \in 1 .. Len(queue) - 1 : Tail(queue)[i] = queue[i + 1]
    BY <1>s, <2>1, QueueEnds
  <2>3. 1 \in 1..Len(queue) /\ \A i \in 1 .. Len(queue) - 1 : i + 1 \in 1..Len(queue)
    BY <2>2
  <2>4. Fragment(Head(queue)) /\ \A i \in 1..Len(queue') : Fragment(queue'[i])
    BY <1>i, <2>1, <2>2, <2>3
  <2> QED BY <1>2, <2>1, <2>2, <2>4
<1>6. CASE ReadNothing
  <2> DEFINE r == Report(0, FALSE, hidBuf)
  <2>1. /\ pc = "reading" /\ AfterRecv(hidPacket_recv(rx, r))
        /\ UNCHANGED << request, queue, todo, devTx >>
    BY <1>6 DEF ReadNothing
  <2>2. r \in Reports64(Bytes) /\ Fragment(r)
    BY <1>s DEF Report, Reports64, Fragment
  <2> HIDE DEF r
  <2> QED BY <1>2, <1>i, <2>1, <2>2
<1>7. CASE ReadFails
  <2>1. /\ result' = API!Raised
        /\ UNCHANGED << rx, request, queue, todo, devTx >>
    BY <1>7 DEF ReadFails
  <2>2. ShortResultsWhole'
    BY <2>1, Outcomes DEF ShortResultsWhole
  <2> QED BY <1>t, <1>i, <2>1, <2>2 DEF LateInv, Given, Rest, Fragment, Filled
<1>8. CASE Answer
  <2>1. todo # << >> /\ devTx' = hidPacket_send(ReplyTo(Head(todo))) /\ todo' = Tail(todo)
        /\ UNCHANGED << rx, request, result, queue >>
    BY <1>8 DEF Answer
  <2>2. /\ Head(todo) = todo[1] /\ Len(todo) \in Nat \ {0} /\ Len(Tail(todo)) = Len(todo) - 1
        /\ \A i \in 1 .. Len(todo) - 1 : Tail(todo)[i] = todo[i + 1]
    BY <1>s, <2>1, QueueEnds
  <2>3. 1 \in 1..Len(todo) /\ \A i \in 1 .. Len(todo) - 1 : i + 1 \in 1..Len(todo)
    BY <2>2
  <2>4. Head(todo) \in Given /\ \A i \in 1..Len(todo') : todo'[i] \in Given'
    BY <1>i, <2>1, <2>2, <2>3 DEF Given
  <2>5. Rest'
    <3> SUFFICES ASSUME HasReport(devTx)'
                 PROVE  \E req \in Given : /\ devTx'.chunk = 0 => devTx'.data = ReplyTo(req)
                                           /\ devTx'.chunk * PayloadLen + Len(devTx'.data) = ReplyLen(req.kind)
      BY <2>1 DEF Rest, Given
    <3>1. devTx' = [state |-> "PARTIAL", chunk |-> 0, data |-> ReplyTo(Head(todo))]
      BY <2>1 DEF HasReport, hidPacket_send, ResetState
    <3>2. Head(todo) \in [num : Nat, kind : Kinds]
      BY <2>4 DEF Given
    <3>3. Len(ReplyTo(Head(todo))) = ReplyLen(Head(todo).kind)
      BY <3>2, Packets
    <3>4. ReplyLen(Head(todo).kind) \in Nat
      BY <3>2, Lens
    <3>5. 0 * PayloadLen + ReplyLen(Head(todo).kind) = ReplyLen(Head(todo).kind)
      BY <3>4, PacketAssumption
    <3> QED BY <2>4, <3>1, <3>3, <3>5
  <2> QED BY <1>t, <1>i, <2>1, <2>4, <2>5 DEF LateInv, Given, Fragment, Filled, ShortResultsWhole
<1>9. CASE Transmit
  <2>1. /\ HasReport(devTx)
        /\ queue' = IF pc = "closed" THEN queue ELSE Enqueue(NextReport(devTx))
        /\ devTx' = hidPacket_getHIDBytes(devTx)
        /\ UNCHANGED << rx, request, result, todo >>
    BY <1>9 DEF Transmit
  <2>2. Fragment(NextReport(devTx)) /\ Rest'
    BY <1>i, <2>1, SendShort
  <2>3. NextReport(devTx) \in Reports64(Bytes)
    BY <1>i, FragmentSplits DEF TypeInv, TypeOK
  <2>4. \A i \in 1..Len(queue') : Fragment(queue'[i])
    BY <1>i, <2>1, <2>2, <2>3, EnqueueStep
  <2> QED BY <1>t, <1>i, <2>1, <2>2, <2>4 DEF LateInv, Given, Fragment, Filled, ShortResultsWhole
<1>10. CASE UNCHANGED vars
  BY <1>t, <1>i, <1>10 DEF vars, LateInv, Given, Rest, Fragment, Filled, ShortResultsWhole
<1> QED BY <1>3, <1>4, <1>5, <1>6, <1>7, <1>8, <1>9, <1>10 DEF Next

\* Whatever the device answers and whenever, a result that is no longer than one
\* report is one of its replies, whole and unmixed: neither stale buffers fed to
\* hidPacket_recv (SCSI2SD_HID.m:192-206), nor reports that a full queue lost, nor
\* a second [HID open] spoil it.
THEOREM ShortWhole == ASSUME OneOrMany PROVE Spec => []ShortResultsWhole
<1>1. Init => LateInv
  BY LateInit
<1>2. LateInv /\ [Next]_vars => LateInv'
  BY LateStep
<1>3. LateInv => ShortResultsWhole
  BY DEF LateInv
<1> QED BY <1>1, <1>2, <1>3, PTL DEF Spec

-----------------------------------------------------------------------------
(* Room for the first reply of a connection, whatever happened before.      *)

\* A report is no longer than a report, and is the last or can be followed.
InReply(r) == Len(r.payload) <= PayloadLen /\ (~r.final => Inner(r.chunk))

\* What the device has still to send ends where a reply ends.
ToTheEnd ==
  HasReport(devTx) =>
    \E kind \in Kinds : devTx.chunk * PayloadLen + Len(devTx.data) = ReplyLen(kind)

PartInv ==
  /\ TypeInv
  /\ InPart(rx)
  /\ Len(hidBuf) <= PayloadLen
  /\ \A i \in 1..Len(queue) : InReply(queue[i])
  /\ ToTheEnd
  /\ \A i \in 1..Len(todo) : todo[i].kind \in Kinds

\* What is left in rx when a report has been received: nothing, or a part.
LEMMA RecvPart ==
  ASSUME TypeInv, InPart(rx), NEW r \in Reports64(Bytes), InReply(r)
  PROVE  InPart(hidPacket_getPacket(hidPacket_recv(rx, r)))
<1> DEFINE d == hidPacket_recv(rx, r)
           s == Stored(rx, r)
<1>1. /\ rx.data \in Seq(Bytes) /\ rx.chunk \in Nat /\ rx.state # "COMPLETE"
      /\ r.payload \in Seq(Bytes) /\ r.chunk \in Nat /\ r.final \in BOOLEAN
      /\ PayloadLen \in Nat \ {0}
  BY PacketAssumption DEF TypeInv, TypeOK, Buffers, HasPacket, Reports64
<1>2. Len(rx.data) \in Nat /\ Len(r.payload) \in Nat /\ Len(r.payload) <= PayloadLen
  BY <1>1, LenProperties DEF InReply
<1>3. InPart(ResetState)
  BY DEF InPart, ResetState
<1>4. hidPacket_getPacket(d) = d \/ hidPacket_getPacket(d) = ResetState
  BY DEF hidPacket_getPacket
<1>5. HasPacket(d) => hidPacket_getPacket(d) = ResetState
  BY DEF hidPacket_getPacket
<1>6. SUFFICES ASSUME ~HasPacket(d) PROVE InPart(d)
  BY <1>3, <1>4, <1>5
<1>7. CASE d = ResetState
  BY <1>3, <1>7
<1>8. CASE d = Completed(s, r.final) /\ r.chunk = 0
  <2>1. s = [state |-> "PARTIAL", chunk |-> 0, data |-> r.payload]
    BY <1>8 DEF Stored
  <2>2. d = s
    BY <1>6, <1>8, <2>1 DEF Completed, HasPacket
  <2>3. (0 + 1) * PayloadLen = PayloadLen
    BY <1>1
  <2> QED BY <1>2, <2>1, <2>2, <2>3 DEF InPart, Inner
<1>9. CASE d = Completed(s, r.final) /\ r.chunk # 0 /\ rx.state = "PARTIAL" /\ r.chunk = rx.chunk + 1
  <2>1. s = [state |-> "PARTIAL", chunk |-> rx.chunk + 1, data |-> rx.data \o r.payload]
    BY <1>9 DEF Stored
  <2>2. d = s /\ ~r.final
    BY <1>1, <1>6, <1>9, <2>1 DEF Completed, HasPacket
  <2>3. Len(s.data) = Len(rx.data) + Len(r.payload)
    BY <1>1, <2>1, ConcatProperties
  <2>4. Len(rx.data) <= (rx.chunk + 1) * PayloadLen
    BY <1>9 DEF InPart
  <2> DEFINE part == (rx.chunk + 1) * PayloadLen
             more == (rx.chunk + 1 + 1) * PayloadLen
  <2>5. part \in Nat /\ more = part + PayloadLen
    BY <1>1
  <2>6. Len(rx.data) <= part
    BY <2>4
  <2> HIDE DEF part, more
  <2>7. Len(rx.data) + Len(r.payload) <= more
    <3>1. PayloadLen \in Nat
      BY <1>1
    <3>2. Len(rx.data) + Len(r.payload) <= part + PayloadLen
      BY <1>2, <2>5, <2>6, <3>1, AddBoth
    <3> QED BY <2>5, <3>2
  <2>8. Inner(rx.chunk + 1)
    BY <1>9, <2>2 DEF InReply
  <2>9. d.state = "PARTIAL" /\ d.chunk = rx.chunk + 1 /\ Len(d.data) = Len(rx.data) + Len(r.payload)
    BY <2>1, <2>2, <2>3
  <2> HIDE DEF d
  <2> QED BY <2>7, <2>8, <2>9 DEF InPart, more
<1>10. CASE /\ d = Completed(s, r.final) /\ r.chunk # 0
            /\ ~(rx.state = "PARTIAL" /\ r.chunk = rx.chunk + 1) /\ r.chunk = rx.chunk
  <2>1. s = rx
    BY <1>10 DEF Stored
  <2>2. d = rx
    BY <1>6, <1>10, <2>1 DEF Completed, HasPacket
  <2> QED BY <2>2
<1>11. CASE /\ d = Completed(s, r.final) /\ r.chunk # 0
            /\ ~(rx.state = "PARTIAL" /\ r.chunk = rx.chunk + 1) /\ r.chunk # rx.chunk
  <2>1. s = ResetState
    BY <1>11 DEF Stored
  <2>2. d = ResetState
    BY <1>11, <2>1 DEF Completed, ResetState
  <2> QED BY <1>3, <2>2
<1>12. d = ResetState \/ d = Completed(s, r.final)
  BY DEF hidPacket_recv
<1> QED BY <1>7, <1>8, <1>9, <1>10, <1>11, <1>12

\* Whole numbers keep their order when they are multiplied.
LEMMA Multiples ==
  ASSUME NEW a \in Nat, NEW b \in Nat, NEW n \in Nat, a <= b
  PROVE  a * n <= b * n /\ a * n \in Nat /\ b * n \in Nat
<1>1. PICK k \in Nat : b = a + k
  <2>1. b - a \in Nat /\ b = a + (b - a)
    OBVIOUS
  <2> QED BY <2>1
<1>2. b * n = a * n + k * n
  BY <1>1
<1>3. a * n \in Nat /\ k * n \in Nat
  OBVIOUS
<1> QED BY <1>2, <1>3

\* A chunk that ends before its reply does can be followed.
LEMMA Followed ==
  ASSUME NEW kind \in Kinds, NEW c \in Nat, (c + 1) * PayloadLen < ReplyLen(kind)
  PROVE  Inner(c)
<1> DEFINE n == Reports(ReplyLen(kind))
<1>1. ReplyLen(kind) \in Nat \ {0} /\ PayloadLen \in Nat
  BY Lens, PacketAssumption
<1>2. /\ n \in Nat \ {0} /\ (n - 1) * PayloadLen \in Nat
      /\ ReplyLen(kind) <= (n - 1) * PayloadLen + PayloadLen
  BY <1>1, ReportCount
<1>3. SUFFICES ASSUME n <= c + 1 PROVE FALSE
  <2>1. c + 1 < n
    BY <1>2, <1>3
  <2> QED BY <2>1 DEF Inner
<1> HIDE DEF n
<1>4. n - 1 \in Nat /\ c \in Nat /\ n - 1 <= c
  BY <1>2, <1>3
<1>5. (n - 1) * PayloadLen <= c * PayloadLen /\ c * PayloadLen \in Nat
  BY <1>1, <1>4, Multiples
<1>6. (c + 1) * PayloadLen = c * PayloadLen + PayloadLen
  BY <1>1
<1> DEFINE x == (n - 1) * PayloadLen
           y == c * PayloadLen
           z == (c + 1) * PayloadLen
<1>7. /\ x \in Nat /\ y \in Nat /\ x <= y /\ z = y + PayloadLen
      /\ z < ReplyLen(kind) /\ ReplyLen(kind) <= x + PayloadLen
  BY <1>2, <1>5, <1>6
<1> HIDE DEF x, y, z
<1> QED BY <1>1, <1>7

\* A report the device sends, and what it keeps.
LEMMA SendPart ==
  ASSUME TypeInv, ToTheEnd, HasReport(devTx)
  PROVE  /\ InReply(NextReport(devTx))
         /\ devTx' = hidPacket_getHIDBytes(devTx) => ToTheEnd'
<1> DEFINE n == Len(devTx.data)
           last == IsLastReport(devTx)
           next == hidPacket_getHIDBytes(devTx)
           full == devTx.chunk * PayloadLen
<1>1. PICK kind \in Kinds : full + n = ReplyLen(kind)
  BY DEF ToTheEnd
<1>2. /\ devTx.data \in Seq(Bytes) /\ devTx.chunk \in Nat
      /\ n \in Nat /\ PayloadLen \in Nat \ {0}
  BY PacketAssumption, LenProperties DEF TypeInv, TypeOK, Buffers
<1>3. full \in Nat /\ (devTx.chunk + 1) * PayloadLen = full + PayloadLen
  BY <1>2
<1>4. last <=> n <= PayloadLen
  BY DEF IsLastReport
<1>5. CASE last
  <2>1. SubSeq(devTx.data, 1, n) = devTx.data
    BY <1>2, SubSeqFull
  <2>2. NextReport(devTx) = [chunk |-> devTx.chunk, final |-> TRUE, payload |-> devTx.data]
    BY <1>5, <2>1 DEF NextReport, Report, ReportLen
  <2>3. InReply(NextReport(devTx))
    BY <1>4, <1>5, <2>2 DEF InReply
  <2>4. next.state = "IDLE"
    BY <1>5 DEF hidPacket_getHIDBytes
  <2> QED BY <2>3, <2>4 DEF ToTheEnd, HasReport
<1>6. CASE ~last
  <2>1. ReportLen(devTx) = PayloadLen /\ n > PayloadLen
    BY <1>2, <1>4, <1>6 DEF ReportLen
  <2>2. PayloadLen \in 0..n
    BY <1>2, <2>1
  <2>3. /\ Len(SubSeq(devTx.data, 1, PayloadLen)) = PayloadLen
        /\ Len(SubSeq(devTx.data, PayloadLen + 1, n)) = n - PayloadLen
    BY <1>2, <2>2, SplitSeq
  <2>4. /\ NextReport(devTx).chunk = devTx.chunk
        /\ NextReport(devTx).payload = SubSeq(devTx.data, 1, PayloadLen)
    BY <2>1 DEF NextReport, Report
  <2>5. (devTx.chunk + 1) * PayloadLen < ReplyLen(kind)
    <3> HIDE DEF n, full
    <3> QED BY <1>1, <1>2, <1>3, <2>1
  <2>6. Inner(devTx.chunk)
    BY <1>2, <2>5, Followed
  <2>7. InReply(NextReport(devTx))
    BY <1>2, <2>3, <2>4, <2>6 DEF InReply
  <2>8. next.chunk = devTx.chunk + 1 /\ next.data = SubSeq(devTx.data, PayloadLen + 1, n)
    BY <1>6, <2>1 DEF hidPacket_getHIDBytes
  <2>9. next.chunk * PayloadLen + Len(next.data) = ReplyLen(kind)
    <3>1. next.chunk * PayloadLen = full + PayloadLen /\ Len(next.data) = n - PayloadLen
      BY <1>3, <2>3, <2>8
    <3> HIDE DEF full, n, next
    <3> QED BY <1>1, <1>2, <1>3, <3>1
  <2> QED BY <2>7, <2>9 DEF ToTheEnd
<1> QED BY <1>5, <1>6

LEMMA PartInit == Fits /\ Init => PartInv
<1> SUFFICES ASSUME Fits, Init PROVE PartInv
  OBVIOUS
<1>1. TypeInv
  BY TypeInit
<1>2. InPart(rx)
  BY DEF Init, Fits
<1>3. Len(hidBuf) = 0 /\ Len(queue) = 0 /\ Len(todo) = 0 /\ ~HasReport(devTx)
  BY EmptySeq DEF Init, HasReport, ResetState
<1>4. 0 <= PayloadLen
  BY PacketAssumption
<1> QED BY <1>1, <1>2, <1>3, <1>4 DEF PartInv, ToTheEnd

LEMMA PartStep == PartInv /\ [Next]_vars => PartInv'
<1> SUFFICES ASSUME PartInv, [Next]_vars PROVE PartInv'
  OBVIOUS
<1>i. /\ TypeInv /\ InPart(rx) /\ Len(hidBuf) <= PayloadLen /\ ToTheEnd
      /\ \A i \in 1..Len(queue) : InReply(queue[i])
      /\ \A i \in 1..Len(todo) : todo[i].kind \in Kinds
  BY DEF PartInv
<1>t. TypeInv'
  BY <1>i, TypeStep
<1>s. todo \in Seq(Requests) /\ queue \in Seq(Reports64(Bytes)) /\ hidBuf \in Seq(Bytes)
      /\ doubt \in BOOLEAN
  BY <1>i DEF TypeInv, TypeOK
<1>1. ASSUME NEW kind \in Kinds, NEW unsure \in BOOLEAN, Transfer(kind, unsure),
             UNCHANGED devTx, queue' \in {queue, << >>}
      PROVE  PartInv'
  <2>1. request' \in [num : Nat, kind : Kinds] /\ rx' = rx
    BY <1>i, <1>1, TransferStep
  <2>2. PICK n \in Nat : Wrote(kind, unsure, n) \/ GaveUp(n)
    BY <1>i, <1>1, TransferStep
  <2>3. Len(hidBuf') <= PayloadLen
    BY <1>i, <2>1, <2>2, Packets DEF Wrote, GaveUp
  <2>4. \A i \in 1..Len(queue') : InReply(queue'[i])
    BY <1>i, <1>1, EmptySeq
  <2>5. ASSUME NEW i \in 1..Len(todo') PROVE todo'[i].kind \in Kinds
    <3>1. todo' = Again(request', n) /\ request' \in Requests
      BY <2>1, <2>2 DEF Wrote, GaveUp, Requests
    <3>2. todo'[i] = request' \/ (i \in 1..Len(todo) /\ todo'[i] = todo[i])
      BY <1>s, <2>5, <3>1, Repeats
    <3> QED BY <1>i, <2>1, <3>2
  <2> QED BY <1>t, <1>i, <1>1, <2>1, <2>3, <2>4, <2>5 DEF PartInv, ToTheEnd, HasReport
<1>2. ASSUME NEW r \in Reports64(Bytes), InReply(r), pc = "reading",
             AfterRecv(hidPacket_recv(rx, r)), UNCHANGED << todo, devTx >>,
             Len(hidBuf') <= PayloadLen, \A i \in 1..Len(queue') : InReply(queue'[i])
      PROVE  PartInv'
  <2>1. InPart(rx')
    <3>1. rx' = hidPacket_getPacket(hidPacket_recv(rx, r))
      BY <1>2 DEF AfterRecv
    <3> QED BY <1>i, <1>2, <3>1, RecvPart
  <2> QED BY <1>t, <1>i, <1>2, <2>1 DEF PartInv, ToTheEnd, HasReport
<1>3. ASSUME NEW kind \in Kinds, Call(kind) PROVE PartInv'
  BY <1>1, <1>3, <1>s DEF Call
<1>4. CASE Open
  <2>1. (~Quiet) \in BOOLEAN
    OBVIOUS
  <2> QED BY <1>1, <1>4, <2>1, TransferAssumption DEF Open
<1>5. CASE ReadReport
  <2>1. /\ pc = "reading" /\ queue # << >> /\ queue' = Tail(queue) /\ hidBuf' = Head(queue).payload
        /\ AfterRecv(hidPacket_recv(rx, Head(queue)))
        /\ UNCHANGED << todo, devTx >>
    BY <1>5 DEF ReadReport
  <2>2. /\ Head(queue) \in Reports64(Bytes) /\ Head(queue) = queue[1]
        /\ Len(queue) \in Nat \ {0} /\ Len(Tail(queue)) = Len(queue) - 1
        /\ \A i \in 1 .. Len(queue) - 1 : Tail(queue)[i] = queue[i + 1]
    BY <1>s, <2>1, QueueEnds
  <2>3. 1 \in 1..Len(queue) /\ \A i \in 1 .. Len(queue) - 1 : i + 1 \in 1..Len(queue)
    BY <2>2
  <2>4. InReply(Head(queue)) /\ \A i \in 1..Len(queue') : InReply(queue'[i])
    BY <1>i, <2>1, <2>2, <2>3
  <2>5. Len(hidBuf') <= PayloadLen
    BY <2>1, <2>4 DEF InReply
  <2> QED BY <1>2, <2>1, <2>2, <2>4, <2>5
<1>6. CASE ReadNothing
  <2> DEFINE r == Report(0, FALSE, hidBuf)
  <2>1. /\ pc = "reading" /\ AfterRecv(hidPacket_recv(rx, r))
        /\ UNCHANGED << hidBuf, queue, todo, devTx >>
    BY <1>6 DEF ReadNothing
  <2>2. r \in Reports64(Bytes) /\ InReply(r)
    BY <1>i, <1>s DEF Report, Reports64, InReply, Inner
  <2> HIDE DEF r
  <2> QED BY <1>2, <1>i, <2>1, <2>2
<1>7. CASE ReadFails
  BY <1>7, <1>t, <1>i DEF ReadFails, PartInv, ToTheEnd, HasReport
<1>8. CASE Answer
  <2>1. todo # << >> /\ devTx' = hidPacket_send(ReplyTo(Head(todo))) /\ todo' = Tail(todo)
        /\ UNCHANGED << rx, hidBuf, queue >>
    BY <1>8 DEF Answer
  <2>2. /\ Head(todo) = todo[1] /\ Head(todo) \in Requests
        /\ Len(todo) \in Nat \ {0} /\ Len(Tail(todo)) = Len(todo) - 1
        /\ \A i \in 1 .. Len(todo) - 1 : Tail(todo)[i] = todo[i + 1]
    BY <1>s, <2>1, QueueEnds
  <2>3. 1 \in 1..Len(todo) /\ \A i \in 1 .. Len(todo) - 1 : i + 1 \in 1..Len(todo)
    BY <2>2
  <2>4. Head(todo).kind \in Kinds /\ \A i \in 1..Len(todo') : todo'[i].kind \in Kinds
    BY <1>i, <2>1, <2>2, <2>3
  <2>5. ToTheEnd'
    <3> SUFFICES ASSUME HasReport(devTx)'
                 PROVE  \E kind \in Kinds :
                          devTx'.chunk * PayloadLen + Len(devTx'.data) = ReplyLen(kind)
      BY DEF ToTheEnd
    <3>1. devTx' = [state |-> "PARTIAL", chunk |-> 0, data |-> ReplyTo(Head(todo))]
      BY <2>1 DEF HasReport, hidPacket_send, ResetState
    <3>2. Head(todo) \in [num : Nat, kind : Kinds]
      BY <2>2, <2>4 DEF Requests
    <3>3. Len(ReplyTo(Head(todo))) = ReplyLen(Head(todo).kind)
      BY <3>2, Packets
    <3>4. ReplyLen(Head(todo).kind) \in Nat
      BY <3>2, Lens
    <3>5. 0 * PayloadLen + ReplyLen(Head(todo).kind) = ReplyLen(Head(todo).kind)
      BY <3>4, PacketAssumption
    <3> QED BY <2>4, <3>1, <3>3, <3>5
  <2> QED BY <1>t, <1>i, <2>1, <2>4, <2>5 DEF PartInv
<1>9. CASE Transmit
  <2>1. /\ HasReport(devTx)
        /\ queue' = IF pc = "closed" THEN queue ELSE Enqueue(NextReport(devTx))
        /\ devTx' = hidPacket_getHIDBytes(devTx)
        /\ UNCHANGED << rx, hidBuf, todo >>
    BY <1>9 DEF Transmit
  <2>2. InReply(NextReport(devTx)) /\ ToTheEnd'
    BY <1>i, <2>1, SendPart
  <2>3. NextReport(devTx) \in Reports64(Bytes)
    BY <1>i, FragmentSplits DEF TypeInv, TypeOK
  <2>4. \A i \in 1..Len(queue') : InReply(queue'[i])
    BY <1>i, <2>1, <2>2, <2>3, EnqueueStep
  <2> QED BY <1>t, <1>i, <2>1, <2>2, <2>4 DEF PartInv
<1>10. CASE UNCHANGED vars
  BY <1>t, <1>i, <1>10 DEF vars, PartInv, ToTheEnd, HasReport
<1> QED BY <1>3, <1>4, <1>5, <1>6, <1>7, <1>8, <1>9, <1>10 DEF Next

\* So rx always has room for the first reply of a connection.
LEMMA RoomForFirst ==
  ASSUME Fits, PartInv
  PROVE  Len(rx.data) + ReplyLen("devinfo") <= MaxLen
<1>1. /\ PayloadLen \in Nat /\ MaxLen \in Nat /\ ReplyLen("devinfo") \in Nat
      /\ PayloadLen + ReplyLen("devinfo") <= MaxLen
  BY PacketAssumption DEF Fits, ReplyLen
<1>2. rx.data \in Seq(Bytes) /\ Len(rx.data) \in Nat /\ rx.chunk \in Nat
  BY LenProperties DEF PartInv, TypeInv, TypeOK, Buffers
<1>3. CASE rx.data = << >>
  <2>1. Len(rx.data) = 0
    BY <1>3, EmptySeq
  <2> QED BY <1>1, <2>1
<1>4. CASE rx.data # << >>
  <2>1. Inner(rx.chunk) /\ Len(rx.data) <= (rx.chunk + 1) * PayloadLen
    BY <1>4 DEF PartInv, InPart
  <2>2. CASE rx.chunk = 0
    <3>1. (0 + 1) * PayloadLen = PayloadLen
      BY <1>1
    <3> QED BY <1>1, <1>2, <2>1, <2>2, <3>1
  <2>3. CASE rx.chunk # 0
    <3>1. PICK kind \in Kinds : rx.chunk + 1 < Reports(ReplyLen(kind))
      BY <2>1, <2>3 DEF Inner
    <3> DEFINE n == Reports(ReplyLen(kind))
    <3>2. ReplyLen(kind) \in Nat \ {0}
      BY Lens
    <3>3. n \in Nat \ {0}
      BY <3>2, ReportCount
    <3>4. (n - 1) * PayloadLen + ReplyLen("devinfo") <= MaxLen
      BY DEF Fits
    <3>5. rx.chunk + 1 < n
      BY <3>1
    <3> HIDE DEF n
    <3>6. rx.chunk + 1 \in Nat /\ n - 1 \in Nat /\ rx.chunk + 1 <= n - 1
      BY <1>2, <3>3, <3>5
    <3>7. (rx.chunk + 1) * PayloadLen <= (n - 1) * PayloadLen /\ (n - 1) * PayloadLen \in Nat
          /\ (rx.chunk + 1) * PayloadLen \in Nat
      BY <1>1, <3>6, Multiples
    <3> DEFINE x == (rx.chunk + 1) * PayloadLen
               y == (n - 1) * PayloadLen
    <3>8. Len(rx.data) <= x /\ x <= y /\ y + ReplyLen("devinfo") <= MaxLen /\ x \in Nat /\ y \in Nat
      BY <2>1, <3>4, <3>7
    <3> HIDE DEF x, y
    <3> QED BY <1>1, <1>2, <3>8
  <2> QED BY <2>2, <2>3
<1> QED BY <1>3, <1>4

-----------------------------------------------------------------------------
(* In step: the reports of a reply.                                         *)

reply == ReplyTo(request)
replyLen == ReplyLen(request.kind)
replyReports == Reports(replyLen)

\* What is left of the reply from chunk c on, chunk c of it, and what a receiver
\* has after c chunks.
From(c) == SubSeq(reply, c * PayloadLen + 1, replyLen)
Piece(c) ==
  IF c + 1 = replyReports THEN From(c)
  ELSE SubSeq(reply, c * PayloadLen + 1, c * PayloadLen + PayloadLen)
UpTo(c) == IF c = replyReports THEN reply ELSE SubSeq(reply, 1, c * PayloadLen)

ReplyReport(c) == Report(c, c + 1 = replyReports, Piece(c))

\* A sequence cut at a and at a + m.
LEMMA Slices ==
  ASSUME NEW s \in Seq(Bytes), NEW a \in Nat, NEW m \in Nat \ {0}, a + m < Len(s)
  PROVE  /\ SubSeq(s, a + 1, a + m) \in Seq(Bytes) /\ Len(SubSeq(s, a + 1, a + m)) = m
         /\ SubSeq(s, 1, a) \o SubSeq(s, a + 1, a + m) = SubSeq(s, 1, a + m)
<1>1. Len(s) \in Nat
  BY LenProperties
<1>2. \A i \in a + 1 .. a + m : s[i] \in Bytes
  <2> SUFFICES ASSUME NEW i \in a + 1 .. a + m PROVE s[i] \in Bytes
    OBVIOUS
  <2>1. i \in 1..Len(s)
    BY <1>1
  <2> QED BY <2>1, ElementOfSeq
<1>3. a + 1 \in Int /\ a + m \in Int /\ a + 1 <= a + m /\ (a + m) - (a + 1) + 1 = m
  OBVIOUS
<1>4. SubSeq(s, a + 1, a + m) \in Seq(Bytes) /\ Len(SubSeq(s, a + 1, a + m)) = m
  BY <1>2, <1>3, SubSeqProperties
<1>5. 1 \in 1 .. Len(s) + 1 /\ a \in 1 - 1 .. Len(s) /\ a + m \in a .. Len(s)
  BY <1>1
<1>6. SubSeq(s, 1, a) \o SubSeq(s, a + 1, a + m) = SubSeq(s, 1, a + m)
  BY <1>5, ConcatAdjacentSubSeq
<1> QED BY <1>4, <1>6

\* What is left from a on, cut at m.
LEMMA RestSlices ==
  ASSUME NEW s \in Seq(Bytes), NEW a \in Nat, NEW m \in Nat \ {0}, NEW n, n = Len(s), a + m < n
  PROVE  /\ SubSeq(SubSeq(s, a + 1, n), 1, m) = SubSeq(s, a + 1, a + m)
         /\ SubSeq(SubSeq(s, a + 1, n), m + 1, n - a) = SubSeq(s, a + m + 1, n)
<1>1. n \in Nat
  BY LenProperties
<1>2. /\ a + 1 \in 1..Len(s) /\ n \in 1..Len(s)
      /\ 1 \in 1 .. n - (a + 1) + 1 /\ m \in 1 .. n - (a + 1) + 1
      /\ m + 1 \in 1 .. n - (a + 1) + 1 /\ n - a \in 1 .. n - (a + 1) + 1
  BY <1>1
<1>3. SubSeq(SubSeq(s, a + 1, n), 1, m) = SubSeq(s, (a + 1) + 1 - 1, (a + 1) + m - 1)
  BY <1>2, SubSeqOfSubSeq
<1>4. SubSeq(SubSeq(s, a + 1, n), m + 1, n - a)
        = SubSeq(s, (a + 1) + (m + 1) - 1, (a + 1) + (n - a) - 1)
  BY <1>2, SubSeqOfSubSeq
<1>5. /\ (a + 1) + 1 - 1 = a + 1 /\ (a + 1) + m - 1 = a + m
      /\ (a + 1) + (m + 1) - 1 = a + m + 1 /\ (a + 1) + (n - a) - 1 = n
  BY <1>1
<1> QED BY <1>3, <1>4, <1>5

\* Where the chunks of the reply begin and end.
LEMMA Offsets ==
  ASSUME request \in Given
  PROVE  /\ replyLen \in Nat \ {0} /\ replyReports \in Nat \ {0}
         /\ reply \in Seq(Bytes) /\ Len(reply) = replyLen
         /\ \A c \in 0 .. replyReports - 1 :
              /\ c * PayloadLen \in Nat /\ c * PayloadLen < replyLen
              /\ (c + 1) * PayloadLen = c * PayloadLen + PayloadLen
              /\ c + 1 = replyReports => replyLen <= c * PayloadLen + PayloadLen
              /\ c + 1 # replyReports => c * PayloadLen + PayloadLen < replyLen
<1>1. request \in [num : Nat, kind : Kinds] /\ request.kind \in Kinds
  BY DEF Given
<1>2. replyLen \in Nat \ {0} /\ reply \in Seq(Bytes) /\ Len(reply) = replyLen
  BY <1>1, Lens, Packets DEF replyLen, reply
<1>3. /\ replyReports \in Nat \ {0}
      /\ (replyReports - 1) * PayloadLen \in Nat
      /\ (replyReports - 1) * PayloadLen < replyLen
      /\ replyLen <= (replyReports - 1) * PayloadLen + PayloadLen
  BY <1>2, ReportCount DEF replyReports
<1>4. PayloadLen \in Nat
  BY PacketAssumption
<1>5. ASSUME NEW c \in 0 .. replyReports - 1
      PROVE  /\ c * PayloadLen \in Nat /\ c * PayloadLen < replyLen
             /\ (c + 1) * PayloadLen = c * PayloadLen + PayloadLen
             /\ c + 1 = replyReports => replyLen <= c * PayloadLen + PayloadLen
             /\ c + 1 # replyReports => c * PayloadLen + PayloadLen < replyLen
  <2>1. c \in Nat /\ c <= replyReports - 1 /\ replyReports - 1 \in Nat
    BY <1>3
  <2>2. c * PayloadLen <= (replyReports - 1) * PayloadLen /\ c * PayloadLen \in Nat
    BY <1>4, <2>1, Multiples
  <2>3. (c + 1) * PayloadLen = c * PayloadLen + PayloadLen
    BY <1>4, <2>1
  <2>4. c * PayloadLen < replyLen
    BY <1>2, <1>3, <2>2
  <2>5. c + 1 = replyReports => replyLen <= c * PayloadLen + PayloadLen
    <3>1. c + 1 = replyReports => c = replyReports - 1
      BY <1>3, <2>1
    <3> QED BY <1>3, <3>1
  <2>6. ASSUME c + 1 # replyReports PROVE c * PayloadLen + PayloadLen < replyLen
    <3>1. c + 1 \in Nat /\ c + 1 <= replyReports - 1
      BY <1>3, <2>1, <2>6
    <3>2. (c + 1) * PayloadLen <= (replyReports - 1) * PayloadLen /\ (c + 1) * PayloadLen \in Nat
      BY <1>4, <2>1, <3>1, Multiples
    <3>3. (c + 1) * PayloadLen < replyLen
      BY <1>2, <1>3, <3>2
    <3> QED BY <2>3, <3>3
  <2> QED BY <2>2, <2>3, <2>4, <2>5, <2>6
<1> QED BY <1>2, <1>3, <1>5

\* Chunk c of the reply: no longer than a report or the reply, and it continues
\* what was received before.
LEMMA Pieces ==
  ASSUME request \in Given, NEW c \in 0 .. replyReports - 1
  PROVE  /\ Piece(c) \in Seq(Bytes) /\ UpTo(c) \in Seq(Bytes)
         /\ Len(Piece(c)) \in Nat /\ Len(Piece(c)) <= PayloadLen /\ Len(Piece(c)) <= replyLen
         /\ Len(UpTo(c)) \in Nat
         /\ UpTo(c) \o Piece(c) = UpTo(c + 1)
         /\ Len(UpTo(c)) + Len(Piece(c)) <= replyLen
         /\ c = 0 => UpTo(c + 1) = Piece(c)
<1> DEFINE a == c * PayloadLen
           m == PayloadLen
           n == replyLen
<1>1. /\ n \in Nat \ {0} /\ replyReports \in Nat \ {0}
      /\ reply \in Seq(Bytes) /\ n = Len(reply)
      /\ a \in Nat /\ a < n
      /\ (c + 1) * PayloadLen = a + m
      /\ c + 1 = replyReports => n <= a + m
      /\ c + 1 # replyReports => a + m < n
  BY Offsets
<1>2. m \in Nat \ {0} /\ c # replyReports /\ c \in Nat
  BY <1>1, PacketAssumption
<1>3. /\ From(c) = SubSeq(reply, a + 1, n)
      /\ Piece(c) = IF c + 1 = replyReports THEN SubSeq(reply, a + 1, n) ELSE SubSeq(reply, a + 1, a + m)
      /\ UpTo(c) = SubSeq(reply, 1, a)
      /\ UpTo(c + 1) = IF c + 1 = replyReports THEN reply ELSE SubSeq(reply, 1, a + m)
  BY <1>1, <1>2 DEF From, Piece, UpTo
<1>4. c = 0 => a = 0
  BY <1>2
<1> HIDE DEF a, m, n
<1>5. /\ SubSeq(reply, a + 1, n) \in Seq(Bytes) /\ Len(SubSeq(reply, a + 1, n)) = n - a
      /\ SubSeq(reply, 1, a) \in Seq(Bytes) /\ Len(SubSeq(reply, 1, a)) = a
      /\ SubSeq(reply, 1, a) \o SubSeq(reply, a + 1, n) = reply
      /\ a + m < n =>
           /\ SubSeq(reply, a + 1, a + m) \in Seq(Bytes) /\ Len(SubSeq(reply, a + 1, a + m)) = m
           /\ SubSeq(reply, 1, a) \o SubSeq(reply, a + 1, a + m) = SubSeq(reply, 1, a + m)
  <2>1. a \in 0..Len(reply) /\ reply \in Seq(Bytes) /\ n = Len(reply)
    BY <1>1
  <2>2. /\ SubSeq(reply, a + 1, n) \in Seq(Bytes) /\ Len(SubSeq(reply, a + 1, n)) = n - a
        /\ SubSeq(reply, 1, a) \in Seq(Bytes) /\ Len(SubSeq(reply, 1, a)) = a
        /\ SubSeq(reply, 1, a) \o SubSeq(reply, a + 1, n) = reply
    BY <2>1, SplitSeq
  <2>3. ASSUME a + m < n
        PROVE  /\ SubSeq(reply, a + 1, a + m) \in Seq(Bytes) /\ Len(SubSeq(reply, a + 1, a + m)) = m
               /\ SubSeq(reply, 1, a) \o SubSeq(reply, a + 1, a + m) = SubSeq(reply, 1, a + m)
    BY <1>1, <1>2, <2>3, Slices
  <2> QED BY <2>2, <2>3
<1>6. UpTo(c) \in Seq(Bytes) /\ Len(UpTo(c)) = a
  BY <1>3, <1>5
<1>7. CASE c + 1 = replyReports
  <2>1. Piece(c) \in Seq(Bytes) /\ Len(Piece(c)) = n - a /\ UpTo(c) \o Piece(c) = UpTo(c + 1)
    BY <1>3, <1>5, <1>7
  <2>2. Len(Piece(c)) \in Nat /\ Len(Piece(c)) <= m /\ Len(Piece(c)) <= n /\ a + Len(Piece(c)) <= n
    BY <1>1, <1>2, <1>7, <2>1
  <2>3. c = 0 => UpTo(c + 1) = Piece(c)
    <3> SUFFICES ASSUME c = 0 PROVE UpTo(c + 1) = Piece(c)
      OBVIOUS
    <3>1. SubSeq(reply, 0 + 1, n) = reply
      BY <1>1, SubSeqFull
    <3> QED BY <1>3, <1>4, <1>7, <3>1
  <2> QED BY <1>1, <1>6, <2>1, <2>2, <2>3 DEF m, n
<1>8. CASE c + 1 # replyReports
  <2>1. Piece(c) \in Seq(Bytes) /\ Len(Piece(c)) = m /\ UpTo(c) \o Piece(c) = UpTo(c + 1)
    BY <1>1, <1>3, <1>5, <1>8
  <2>2. Len(Piece(c)) \in Nat /\ Len(Piece(c)) <= m /\ Len(Piece(c)) <= n /\ a + Len(Piece(c)) <= n
    BY <1>1, <1>2, <1>8, <2>1
  <2>3. c = 0 => UpTo(c + 1) = Piece(c)
    <3> SUFFICES ASSUME c = 0 PROVE UpTo(c + 1) = Piece(c)
      OBVIOUS
    <3>1. 0 + 1 = 1 /\ 0 + m = m
      BY <1>2
    <3> QED BY <1>3, <1>4, <1>8, <3>1
  <2> QED BY <1>1, <1>6, <2>1, <2>2, <2>3 DEF m, n
<1> QED BY <1>7, <1>8

\* What the device sends of a reply, and what it keeps.
LEMMA Sending ==
  ASSUME request \in Given, NEW tx, NEW c \in 0 .. replyReports - 1,
         tx.chunk = c, tx.data = From(c)
  PROVE  /\ tx.state = "PARTIAL" => HasReport(tx)
         /\ NextReport(tx) = ReplyReport(c)
         /\ hidPacket_getHIDBytes(tx).chunk = c + 1
         /\ hidPacket_getHIDBytes(tx).state = IF c + 1 = replyReports THEN "IDLE" ELSE "PARTIAL"
         /\ c + 1 # replyReports => hidPacket_getHIDBytes(tx).data = From(c + 1)
<1> DEFINE a == c * PayloadLen
           m == PayloadLen
           n == replyLen
           len == Len(tx.data)
<1>1. /\ n \in Nat \ {0} /\ replyReports \in Nat \ {0}
      /\ reply \in Seq(Bytes) /\ n = Len(reply)
      /\ a \in Nat /\ a < n
      /\ (c + 1) * PayloadLen = a + m
      /\ c + 1 = replyReports => n <= a + m
      /\ c + 1 # replyReports => a + m < n
  BY Offsets
<1>2. m \in Nat \ {0}
  BY PacketAssumption
<1>3. /\ tx.data = SubSeq(reply, a + 1, n)
      /\ Piece(c) = IF c + 1 = replyReports THEN SubSeq(reply, a + 1, n) ELSE SubSeq(reply, a + 1, a + m)
      /\ From(c + 1) = SubSeq(reply, a + m + 1, n)
  BY <1>1 DEF From, Piece
<1>4. /\ HasReport(tx) <=> tx.state = "PARTIAL" /\ len > 0
      /\ IsLastReport(tx) <=> len <= m
      /\ IsLastReport(tx) \in BOOLEAN
      /\ ReportLen(tx) = IF IsLastReport(tx) THEN len ELSE m
      /\ hidPacket_getHIDBytes(tx).chunk = c + 1
      /\ hidPacket_getHIDBytes(tx).state = IF IsLastReport(tx) THEN "IDLE" ELSE "PARTIAL"
      /\ hidPacket_getHIDBytes(tx).data = SubSeq(tx.data, ReportLen(tx) + 1, len)
  <2>1. HasReport(tx) <=> tx.state = "PARTIAL" /\ len > 0
    BY DEF HasReport
  <2>2. (IsLastReport(tx) <=> len <= m) /\ IsLastReport(tx) \in BOOLEAN
    BY DEF IsLastReport
  <2>3. ReportLen(tx) = IF IsLastReport(tx) THEN len ELSE m
    BY DEF ReportLen
  <2>4. /\ hidPacket_getHIDBytes(tx).chunk = c + 1
        /\ hidPacket_getHIDBytes(tx).state = IF IsLastReport(tx) THEN "IDLE" ELSE "PARTIAL"
        /\ hidPacket_getHIDBytes(tx).data = SubSeq(tx.data, ReportLen(tx) + 1, len)
    BY DEF hidPacket_getHIDBytes
  <2> QED BY <2>1, <2>2, <2>3, <2>4
<1> HIDE DEF a, m, n, len
<1>5. /\ SubSeq(reply, a + 1, n) \in Seq(Bytes) /\ Len(SubSeq(reply, a + 1, n)) = n - a
      /\ a + m < n =>
           /\ SubSeq(SubSeq(reply, a + 1, n), 1, m) = SubSeq(reply, a + 1, a + m)
           /\ SubSeq(SubSeq(reply, a + 1, n), m + 1, n - a) = SubSeq(reply, a + m + 1, n)
  <2>1. a \in 0..Len(reply)
    BY <1>1
  <2>2. SubSeq(reply, a + 1, n) \in Seq(Bytes) /\ Len(SubSeq(reply, a + 1, n)) = n - a
    BY <1>1, <2>1, SplitSeq
  <2>3. ASSUME a + m < n
        PROVE  /\ SubSeq(SubSeq(reply, a + 1, n), 1, m) = SubSeq(reply, a + 1, a + m)
               /\ SubSeq(SubSeq(reply, a + 1, n), m + 1, n - a) = SubSeq(reply, a + m + 1, n)
    BY <1>1, <1>2, <2>3, RestSlices
  <2> QED BY <2>2, <2>3
<1>6. len = n - a /\ tx.data \in Seq(Bytes)
  BY <1>3, <1>5 DEF len
<1>7. len > 0
  BY <1>1, <1>6
<1>8. IsLastReport(tx) <=> c + 1 = replyReports
  BY <1>1, <1>2, <1>4, <1>6
<1>9. IsLastReport(tx) = (c + 1 = replyReports)
  <2>1. IsLastReport(tx) \in BOOLEAN
    BY <1>4
  <2> QED BY <1>8, <2>1
<1>10. SubSeq(tx.data, 1, ReportLen(tx)) = Piece(c)
  <2>1. CASE c + 1 = replyReports
    <3>1. SubSeq(tx.data, 1, len) = tx.data
      BY <1>6, SubSeqFull DEF len
    <3> QED BY <1>3, <1>4, <1>8, <2>1, <3>1
  <2>2. CASE c + 1 # replyReports
    <3>1. ReportLen(tx) = m /\ a + m < n
      BY <1>1, <1>4, <1>8, <2>2
    <3>2. SubSeq(tx.data, 1, m) = SubSeq(reply, a + 1, a + m)
      BY <1>3, <1>5, <3>1
    <3> QED BY <1>3, <2>2, <3>1, <3>2
  <2> QED BY <2>1, <2>2
<1>11. NextReport(tx) = ReplyReport(c)
  <2>1. NextReport(tx) = Report(c, IsLastReport(tx), SubSeq(tx.data, 1, ReportLen(tx)))
    BY DEF NextReport
  <2> QED BY <1>9, <1>10, <2>1 DEF ReplyReport
<1>12. ASSUME c + 1 # replyReports PROVE hidPacket_getHIDBytes(tx).data = From(c + 1)
  <2>1. ReportLen(tx) = m /\ a + m < n
    BY <1>1, <1>4, <1>8, <1>12
  <2>2. SubSeq(tx.data, m + 1, len) = SubSeq(reply, a + m + 1, n)
    BY <1>3, <1>5, <1>6, <2>1
  <2> QED BY <1>3, <1>4, <2>1, <2>2
<1> QED BY <1>4, <1>7, <1>8, <1>11, <1>12

\* Before the first report of the reply is read, rx has room for it.
Room ==
  \/ Len(rx.data) + PayloadLen <= MaxLen
  \/ Len(rx.data) + replyLen <= MaxLen

\* The device has the command and has not answered it.
Waiting ==
  /\ todo = << request >> /\ queue = << >> /\ ~HasReport(devTx)
  /\ Room
  /\ reads >= replyReports

\* The report of the reply that is read next.
NextChunk == devTx.chunk - Len(queue)

\* The device has sent a part of the reply, and of that the end is in the queue.
Answering ==
  /\ todo = << >>
  /\ devTx.chunk \in 0..replyReports
  /\ devTx.state = IF devTx.chunk < replyReports THEN "PARTIAL" ELSE "IDLE"
  /\ devTx.chunk < replyReports => devTx.data = From(devTx.chunk)
  /\ NextChunk \in 0 .. replyReports - 1
  /\ \A i \in 1..Len(queue) : queue[i] = ReplyReport(NextChunk + i - 1)
  /\ reads >= replyReports - NextChunk
  /\ IF NextChunk = 0 THEN Room
     ELSE rx = [state |-> "PARTIAL", chunk |-> NextChunk - 1, data |-> UpTo(NextChunk)]

\* In step, nothing is on its way between two calls and rx is empty, and during a
\* call the command is waiting for its answer or the answer is arriving.
CallInv ==
  /\ pc = "reading" <=> result = API!Pending
  /\ pc = "closed" => doubt
  /\ pc = "idle" /\ ~doubt => rx = ResetState /\ queue = << >> /\ Quiet
  /\ pc = "reading" /\ ~doubt => request \in Given /\ (Waiting \/ Answering)

\* The retries suffice for the reports of the reply: twice the responseLength of
\* the wrapper, which for a sector is the number of reports of a full buffer.
LEMMA EnoughReads ==
  ASSUME NEW kind \in Kinds
  PROVE  2 * ResponseLength(kind) >= Reports(ReplyLen(kind))
<1> DEFINE b == 2 * ResponseLength(kind)
           n == ReplyLen(kind)
           r == Reports(n)
<1>1. PayloadLen \in Nat /\ PayloadLen >= 1 /\ MaxLen \in Nat
      /\ SectorLen \in Nat /\ SectorLen <= MaxLen - 5
  BY PacketAssumption, TransferAssumption
<1>2. kind \in AllKinds
  BY TransferAssumption
<1>3. b \in Nat /\ n \in Nat \ {0}
  BY Lens
<1>4. /\ r \in Nat \ {0} /\ (r - 1) * PayloadLen \in Nat /\ (r - 1) * PayloadLen < n
  BY <1>3, ReportCount
<1>5. n <= b * PayloadLen
  <2>1. CASE kind = "read"
    <3> DEFINE q == MaxLen \div PayloadLen
               f == q * PayloadLen
    <3>1. q \in Nat \ {0} /\ b = 2 * q /\ n = SectorLen
      BY <2>1, BufferReports DEF ResponseLength, ReplyLen
    <3>2. MaxLen < f + PayloadLen
      <4>1. (MaxLen % PayloadLen) < PayloadLen
        BY <1>1
      <4>2. (MaxLen % PayloadLen) \in Nat
        BY <1>1
      <4>3. MaxLen = q * PayloadLen + (MaxLen % PayloadLen)
        BY <1>1
      <4> DEFINE rest == MaxLen % PayloadLen
      <4>4. f \in Nat
        BY <1>1, <3>1
      <4> HIDE DEF rest, q
      <4>5. MaxLen = f + rest /\ rest < PayloadLen /\ rest \in Nat
        BY <4>1, <4>2, <4>3 DEF rest
      <4> HIDE DEF f
      <4> QED BY <1>1, <4>4, <4>5
    <3>3. 1 * PayloadLen <= q * PayloadLen /\ q * PayloadLen \in Nat
      <4>1. q \in Nat /\ 1 <= q
        BY <3>1
      <4> HIDE DEF q
      <4> QED BY <1>1, <4>1, Multiples
    <3>4. b * PayloadLen = f + f
      <4> HIDE DEF q
      <4>1. 2 * q = q + q
        BY <3>1
      <4>2. (q + q) * PayloadLen = q * PayloadLen + q * PayloadLen
        BY <1>1, <3>1
      <4> QED BY <3>1, <4>1, <4>2
    <3>5. PayloadLen <= f /\ f \in Nat
      BY <1>1, <3>3
    <3> HIDE DEF f, q
    <3> QED BY <1>1, <3>1, <3>2, <3>4, <3>5
  <2>2. CASE kind = "debug"
    <3>1. b = 2 /\ n = PayloadLen
      BY <2>2 DEF ResponseLength, ReplyLen
    <3> QED BY <1>1, <3>1
  <2>3. CASE kind = "devinfo"
    <3>1. b = 12 /\ n = 6
      BY <2>3 DEF ResponseLength, ReplyLen
    <3> QED BY <1>1, <3>1
  <2>4. CASE kind \in {"sdinfo", "selftest"}
    <3>1. b = 32 /\ n <= 32
      BY <2>4 DEF ResponseLength, ReplyLen
    <3>2. b * PayloadLen = 32 * PayloadLen
      BY <3>1
    <3>3. 32 <= 32 * PayloadLen
      BY <1>1
    <3> HIDE DEF b, n
    <3> QED BY <1>1, <1>3, <3>1, <3>2, <3>3
  <2>5. CASE kind \in {"ping", "write"}
    <3>1. b = 2 /\ n = 1
      BY <2>5 DEF ResponseLength, ReplyLen
    <3> QED BY <1>1, <3>1
  <2> QED BY <1>2, <2>1, <2>2, <2>3, <2>4, <2>5 DEF AllKinds
<1> HIDE DEF b, n, r
<1>6. SUFFICES ASSUME b <= r - 1 PROVE FALSE
  <2>1. b >= r
    BY <1>3, <1>4, <1>6
  <2> QED BY <2>1 DEF b, n, r
<1>7. b * PayloadLen <= (r - 1) * PayloadLen /\ b * PayloadLen \in Nat
  <2>1. r - 1 \in Nat
    BY <1>4
  <2> QED BY <1>1, <1>3, <1>6, <2>1, Multiples
<1> DEFINE x == b * PayloadLen
           y == (r - 1) * PayloadLen
<1>8. x <= y /\ y < n /\ n <= x /\ x \in Nat /\ y \in Nat
  BY <1>4, <1>5, <1>7
<1> HIDE DEF x, y
<1> QED BY <1>3, <1>8

\* As long as the request is the same, so is everything about its reply.
LEMMA SameReply ==
  ASSUME UNCHANGED request
  PROVE  /\ reply' = reply /\ replyLen' = replyLen /\ replyReports' = replyReports
         /\ \A c : From(c)' = From(c) /\ UpTo(c)' = UpTo(c) /\ ReplyReport(c)' = ReplyReport(c)
         /\ Given' = Given
BY DEF reply, replyLen, replyReports, From, UpTo, ReplyReport, Piece, Given

\* Receiving the next report of the reply.
LEMMA RecvReply ==
  ASSUME TypeInv, Fits, request \in Given, NEW k \in 0 .. replyReports - 1,
         IF k = 0 THEN Room ELSE rx = [state |-> "PARTIAL", chunk |-> k - 1, data |-> UpTo(k)]
  PROVE  hidPacket_recv(rx, ReplyReport(k))
           = [state |-> IF k + 1 = replyReports THEN "COMPLETE" ELSE "PARTIAL",
              chunk |-> k, data |-> UpTo(k + 1)]
<1> DEFINE p == Piece(k)
           r == ReplyReport(k)
           stored == [state |-> "PARTIAL", chunk |-> k, data |-> UpTo(k + 1)]
<1>1. /\ p \in Seq(Bytes) /\ UpTo(k) \in Seq(Bytes)
      /\ Len(p) \in Nat /\ Len(p) <= PayloadLen /\ Len(p) <= replyLen
      /\ Len(UpTo(k)) \in Nat
      /\ UpTo(k) \o p = UpTo(k + 1)
      /\ Len(UpTo(k)) + Len(p) <= replyLen
      /\ k = 0 => UpTo(k + 1) = p
  BY Pieces
<1>2. replyLen \in Nat /\ replyLen <= MaxLen /\ PayloadLen \in Nat /\ MaxLen \in Nat
  <2>1. request.kind \in Kinds
    BY DEF Given
  <2>2. ReplyLen(request.kind) \in Nat
    BY <2>1, Lens
  <2> QED BY <2>1, <2>2, PacketAssumption DEF Fits, replyLen
<1>3. r.chunk = k /\ r.payload = p /\ r.final = (k + 1 = replyReports)
  BY DEF ReplyReport, Report
<1>4. k \in Nat
  <2>1. replyReports \in Nat
    BY Offsets
  <2> QED BY <2>1
<1>5. Len(rx.data) \in Nat
  BY LenProperties DEF TypeInv, TypeOK, Buffers
<1> HIDE DEF p, r
<1>6. ~TooLong(r)
  BY <1>1, <1>2, <1>3 DEF TooLong
<1>7. ~Overflows(rx, r) /\ Stored(rx, r) = stored
  <2>1. CASE k = 0
    <3>1. Len(p) + Len(rx.data) <= MaxLen
      BY <1>1, <1>2, <1>5, <2>1 DEF Room
    <3>2. ~Overflows(rx, r)
      BY <1>1, <1>2, <1>3, <1>5, <3>1 DEF Overflows
    <3>3. Stored(rx, r) = [state |-> "PARTIAL", chunk |-> 0, data |-> p]
      BY <1>3, <2>1 DEF Stored
    <3> QED BY <1>1, <2>1, <3>2, <3>3
  <2>2. CASE k # 0
    <3>1. rx = [state |-> "PARTIAL", chunk |-> k - 1, data |-> UpTo(k)]
      BY <2>2
    <3>2. rx.state = "PARTIAL" /\ rx.chunk = k - 1 /\ rx.data = UpTo(k)
      BY <3>1
    <3>3. Len(p) + Len(rx.data) <= MaxLen
      BY <1>1, <1>2, <3>2
    <3>4. ~Overflows(rx, r)
      BY <1>1, <1>2, <1>3, <1>5, <3>3 DEF Overflows
    <3>5. rx.chunk + 1 = k
      BY <1>4, <3>2
    <3>6. Stored(rx, r) = [state |-> "PARTIAL", chunk |-> k, data |-> UpTo(k) \o p]
      BY <1>3, <2>2, <3>2, <3>5 DEF Stored
    <3> QED BY <1>1, <3>4, <3>6
  <2> QED BY <2>1, <2>2
<1>8. hidPacket_recv(rx, r) = Completed(stored, r.final)
  BY <1>6, <1>7 DEF hidPacket_recv
<1>9. Completed(stored, r.final)
        = [state |-> IF k + 1 = replyReports THEN "COMPLETE" ELSE "PARTIAL",
           chunk |-> k, data |-> UpTo(k + 1)]
  BY <1>3 DEF Completed
<1> QED BY <1>8, <1>9 DEF r

\* Receiving what hidBuf still holds leaves rx empty or with no more than that.
LEMMA RecvStale ==
  ASSUME TypeInv, Fits, Len(hidBuf) <= PayloadLen
  PROVE  LET received == hidPacket_recv(rx, Report(0, FALSE, hidBuf)) IN
         /\ received \in Buffers(Bytes)
         /\ ~HasPacket(received)
         /\ Len(received.data) + PayloadLen <= MaxLen
<1> DEFINE r == Report(0, FALSE, hidBuf)
           received == hidPacket_recv(rx, r)
<1>1. r \in Reports64(Bytes) /\ rx \in Buffers(Bytes)
  BY DEF TypeInv, TypeOK, Report, Reports64
<1>2. received \in Buffers(Bytes)
  BY <1>1, RecvStaysInBuffer
<1>3. PayloadLen \in Nat /\ MaxLen \in Nat /\ 2 * PayloadLen <= MaxLen /\ Len(hidBuf) \in Nat
  BY PacketAssumption, LenProperties DEF Fits, TypeInv, TypeOK
<1>4. r.chunk = 0 /\ r.final = FALSE /\ r.payload = hidBuf
  BY DEF Report
<1>5. received = ResetState \/ received = [state |-> "PARTIAL", chunk |-> 0, data |-> hidBuf]
  BY <1>4 DEF hidPacket_recv, Stored, Completed
<1> HIDE DEF r, received
<1>6. ~HasPacket(received) /\ (received.data = << >> \/ received.data = hidBuf)
  BY <1>5 DEF HasPacket, ResetState
<1>7. Len(received.data) + PayloadLen <= MaxLen
  <2>1. Len(received.data) = 0 \/ Len(received.data) = Len(hidBuf)
    BY <1>6, EmptySeq
  <2> QED BY <1>3, <2>1
<1> QED BY <1>2, <1>6, <1>7 DEF r, received

\* A call that begins in step has nothing else on its way and room for its reply.
LEMMA CallBegins ==
  ASSUME Fits, PartInv, CallInv, pc # "reading",
         NEW kind \in Kinds, NEW unsure \in BOOLEAN, Transfer(kind, unsure), UNCHANGED devTx,
         queue' \in {queue, << >>},
         ~unsure => Quiet /\ queue' = << >>,
         ~unsure => kind = "devinfo" \/ (~doubt /\ rx = ResetState)
  PROVE  CallInv' /\ API!Call
<1>1. TypeInv /\ result # API!Pending
  BY DEF PartInv, CallInv
<1>2. /\ request' = [num |-> request.num + 1, kind |-> kind] /\ request' \in [num : Nat, kind : Kinds]
      /\ request'.kind = kind /\ rx' = rx
      /\ \E n \in Nat : Wrote(kind, unsure, n) \/ GaveUp(n)
  <2>1. /\ request' = [num |-> request.num + 1, kind |-> kind] /\ request' \in [num : Nat, kind : Kinds]
        /\ rx' = rx
        /\ \E n \in Nat : Wrote(kind, unsure, n) \/ GaveUp(n)
    BY <1>1, TransferStep
  <2> QED BY <2>1
<1>3. todo \in Seq(Requests) /\ request' \in Requests
  BY <1>1, <1>2 DEF TypeInv, TypeOK, Requests
<1>4. ASSUME NEW n \in Nat, GaveUp(n) PROVE CallInv' /\ API!Call
  <2>1. pc' = "idle" /\ result' = API!Raised /\ todo' = Again(request', n) /\ (~doubt' => n = 0 /\ ~doubt)
    BY <1>4 DEF GaveUp
  <2>2. result' # API!Pending
    BY <2>1, Outcomes
  <2>3. ASSUME ~doubt' PROVE rx' = ResetState /\ queue' = << >> /\ Quiet'
    <3>1. n = 0 /\ ~doubt
      BY <2>1, <2>3, Zenon
    <3>2. pc \in {"closed", "idle", "reading"}
      BY <1>1 DEF TypeInv, TypeOK
    <3>3. rx = ResetState /\ queue = << >> /\ todo = << >> /\ ~HasReport(devTx)
      BY <3>1, <3>2 DEF CallInv, Quiet
    <3>4. todo' = todo
      BY <1>3, <2>1, <3>1, Repeats
    <3> QED BY <1>2, <3>3, <3>4 DEF Quiet
  <2>4. CallInv'
    BY <2>1, <2>2, <2>3 DEF CallInv
  <2>5. API!Call
    <3>1. doubt /\ ~doubt' => request'.kind = "devinfo"
      BY <2>1, Zenon
    <3> QED BY <1>1, <1>2, <2>1, <3>1 DEF API!Call
  <2> QED BY <2>4, <2>5
<1>5. ASSUME NEW n \in Nat, Wrote(kind, unsure, n) PROVE CallInv' /\ API!Call
  <2>1. /\ pc' = "reading" /\ result' = API!Pending
        /\ reads' = 2 * ResponseLength(kind)
        /\ todo' = Again(request', n)
        /\ ~doubt' => n = 1 /\ ~unsure
    BY <1>5 DEF Wrote
  <2>2. ASSUME ~doubt' PROVE request' \in Given' /\ Waiting'
    <3>1. n = 1 /\ ~unsure
      BY <2>1, <2>2, Zenon
    <3>2. todo = << >> /\ ~HasReport(devTx) /\ queue' = << >>
      BY <3>1 DEF Quiet
    <3>3. request' \in Given'
      <4>1. request.num \in Nat
        BY <1>1 DEF TypeInv, TypeOK, Requests
      <4>2. request'.num \in 1..request'.num
        BY <1>2, <4>1
      <4> QED BY <1>2, <4>2 DEF Given
    <3>4. todo' = << request' >>
      BY <1>3, <2>1, <3>1, <3>2, Repeats
    <3>5. reads' >= replyReports'
      BY <1>2, <2>1, EnoughReads DEF replyReports, replyLen
    <3>6. Room'
      <4>1. CASE kind = "devinfo"
        <5>1. Len(rx'.data) + ReplyLen("devinfo") <= MaxLen
          BY <1>2, RoomForFirst
        <5>2. replyLen' = ReplyLen("devinfo")
          BY <1>2, <4>1 DEF replyLen
        <5> QED BY <5>1, <5>2 DEF Room
      <4>2. CASE rx = ResetState
        <5>1. Len(rx'.data) = 0
          BY <1>2, <4>2, EmptySeq DEF ResetState
        <5>2. 0 + PayloadLen <= MaxLen
          BY PacketAssumption
        <5> QED BY <5>1, <5>2 DEF Room
      <4> QED BY <3>1, <4>1, <4>2
    <3>7. ~HasReport(devTx')
      BY <3>2
    <3> QED BY <3>2, <3>3, <3>4, <3>5, <3>6, <3>7 DEF Waiting
  <2>3. CallInv'
    BY <2>1, <2>2 DEF CallInv
  <2>4. API!Call
    <3>1. doubt /\ ~doubt' => request'.kind = "devinfo"
      BY <1>2, <2>1, Zenon
    <3> QED BY <1>1, <1>2, <2>1, <3>1 DEF API!Call
  <2> QED BY <2>3, <2>4
<1> QED BY <1>2, <1>4, <1>5

\* Out of step, a call may end in any way.
LEMMA ReadsDoubtfully ==
  ASSUME TypeInv, CallInv, pc = "reading", NEW received \in Buffers(Bytes), AfterRecv(received),
         UNCHANGED request, doubt'
  PROVE  CallInv' /\ (API!Return \/ API!LoseStep)
<1>1. result = API!Pending
  BY DEF CallInv
<1>2. CASE pc' = "idle" /\ result' # API!Pending
  BY <1>1, <1>2 DEF CallInv, API!Return
<1>3. CASE UNCHANGED << result, pc >>
  BY <1>1, <1>3 DEF CallInv, API!LoseStep
<1>4. \A data : [status |-> "ok", data |-> data] # API!Pending
  BY DEF API!Pending
<1> QED BY <1>2, <1>3, <1>4, Outcomes DEF AfterRecv

\* Numbers of the reports: one is taken from the queue.
LEMMA OneTaken ==
  ASSUME NEW sent \in Int, NEW queued \in Int, NEW next \in Int, next = sent - queued
  PROVE  sent - (queued - 1) = next + 1
  OBVIOUS

LEMMA Numbers ==
  ASSUME NEW sent, NEW queued \in Nat \ {0}, NEW next, NEW n \in Nat \ {0},
         sent \in 0..n, next \in 0 .. n - 1, next = sent - queued
  PROVE  /\ next \in Nat /\ next <= n - 1 /\ queued \in Nat /\ queued >= 1
         /\ sent \in Nat /\ sent <= n /\ sent = next + queued
  OBVIOUS

\* A report that is read is the next of the reply, and the last ends the call.
LEMMA ReadsReply ==
  ASSUME Fits, PartInv, CallInv, ~doubt, ReadReport
  PROVE  CallInv' /\ (API!Return \/ UNCHANGED API!vars)
<1> DEFINE k == NextChunk
           received == hidPacket_recv(rx, Head(queue))
<1>1. /\ pc = "reading" /\ queue # << >> /\ hidBuf' = Head(queue).payload /\ queue' = Tail(queue)
      /\ AfterRecv(received)
      /\ UNCHANGED << request, todo, devTx, doubt >>
  BY DEF ReadReport
<1>2. /\ TypeInv /\ result = API!Pending /\ request \in Given /\ Answering
  BY <1>1 DEF PartInv, CallInv, Waiting
<1>3. queue' \in Seq(Reports64(Bytes))
  BY <1>1, <1>2, QueueEnds DEF TypeInv, TypeOK
<1>4. /\ Len(queue) \in Nat \ {0} /\ Len(queue') = Len(queue) - 1 /\ Head(queue) = queue[1]
      /\ \A i \in 1 .. Len(queue) - 1 : queue'[i] = queue[i + 1]
  BY <1>1, <1>2, QueueEnds DEF TypeInv, TypeOK
<1>5. /\ todo = << >> /\ devTx.chunk \in 0..replyReports
      /\ k \in 0 .. replyReports - 1 /\ k = devTx.chunk - Len(queue)
      /\ \A i \in 1..Len(queue) : queue[i] = ReplyReport(k + i - 1)
      /\ reads >= replyReports - k
      /\ IF k = 0 THEN Room ELSE rx = [state |-> "PARTIAL", chunk |-> k - 1, data |-> UpTo(k)]
      /\ devTx.state = IF devTx.chunk < replyReports THEN "PARTIAL" ELSE "IDLE"
      /\ devTx.chunk < replyReports => devTx.data = From(devTx.chunk)
  BY <1>2 DEF Answering, NextChunk
<1>6. replyReports \in Nat \ {0} /\ reply \in Seq(Bytes) /\ reads \in Nat
  BY <1>2, Offsets DEF TypeInv, TypeOK
<1>s. /\ reply' = reply /\ replyLen' = replyLen /\ replyReports' = replyReports
      /\ \A c : From(c)' = From(c) /\ UpTo(c)' = UpTo(c) /\ ReplyReport(c)' = ReplyReport(c)
      /\ Given' = Given
  BY <1>1, SameReply
<1>7. NextChunk' = k + 1
  <2>1. Len(queue') = Len(queue) - 1 /\ Len(queue) \in Nat \ {0}
    BY <1>4, Zenon
  <2>2. devTx' = devTx
    BY <1>1
  <2>3. devTx.chunk \in 0..replyReports /\ k = devTx.chunk - Len(queue)
    BY <1>5, Zenon
  <2>4. NextChunk' = devTx.chunk - (Len(queue) - 1)
    BY <2>1, <2>2 DEF NextChunk
  <2>5. devTx.chunk \in Int /\ Len(queue) \in Int /\ k \in Int
    BY <1>6, <2>1, <2>3
  <2> QED BY <2>3, <2>4, <2>5, OneTaken
<1> HIDE DEF k
<1>n. /\ k \in Nat /\ k <= replyReports - 1 /\ Len(queue) \in Nat /\ Len(queue) >= 1
      /\ devTx.chunk \in Nat /\ devTx.chunk <= replyReports /\ devTx.chunk = k + Len(queue)
      /\ reads >= replyReports - k
  <2>1. /\ devTx.chunk \in 0..replyReports /\ k \in 0 .. replyReports - 1 /\ k = devTx.chunk - Len(queue)
        /\ reads >= replyReports - k
    BY <1>5, Zenon
  <2>2. Len(queue) \in Nat \ {0} /\ replyReports \in Nat \ {0}
    BY <1>4, <1>6, Zenon
  <2>3. /\ k \in Nat /\ k <= replyReports - 1 /\ Len(queue) \in Nat /\ Len(queue) >= 1
        /\ devTx.chunk \in Nat /\ devTx.chunk <= replyReports /\ devTx.chunk = k + Len(queue)
    BY <2>1, <2>2, Numbers
  <2> QED BY <2>1, <2>3
<1>8. Head(queue) = ReplyReport(k)
  <2>1. 1 \in 1..Len(queue) /\ k + 1 - 1 = k
    BY <1>n
  <2> QED BY <1>4, <1>5, <2>1
<1>9. received = [state |-> IF k + 1 = replyReports THEN "COMPLETE" ELSE "PARTIAL",
                  chunk |-> k, data |-> UpTo(k + 1)]
  BY <1>2, <1>5, <1>8, RecvReply
<1> HIDE DEF received
<1>10. CASE k + 1 = replyReports
  <2>1. HasPacket(received) /\ Packet(received) = reply
    BY <1>9, <1>10 DEF HasPacket, Packet, UpTo
  <2>2. result' = [status |-> "ok", data |-> reply] /\ pc' = "idle" /\ rx' = ResetState
    BY <1>1, <2>1 DEF AfterRecv, hidPacket_getPacket
  <2>3. Len(queue) = 1 /\ devTx.chunk = replyReports
    <3>1. replyReports \in Nat /\ Len(queue) <= 1
      BY <1>6, <1>n, <1>10
    <3>2. \A n \in Nat : n >= 1 /\ n <= 1 => n = 1
      OBVIOUS
    <3>3. Len(queue) = 1
      BY <1>n, <3>1, <3>2
    <3> QED BY <1>n, <1>10, <3>1, <3>3
  <2>4. queue' = << >>
    <3>1. Len(queue') = 0
      BY <1>4, <2>3
    <3> QED BY <1>3, <3>1, EmptySeq
  <2>5. ~HasReport(devTx')
    <3>1. devTx.state = "IDLE"
      BY <1>5, <1>6, <2>3
    <3> QED BY <1>1, <3>1 DEF HasReport
  <2>6. result' # API!Pending
    BY <2>2 DEF API!Pending
  <2>7. API!Return
    BY <1>1, <1>2, <2>2, <2>6 DEF API!Return, reply
  <2>8. CallInv'
    BY <1>1, <1>5, <2>2, <2>4, <2>5, <2>6 DEF CallInv, Quiet
  <2> QED BY <2>7, <2>8
<1>11. CASE k + 1 # replyReports
  <2>1. ~HasPacket(received) /\ hidPacket_getPacket(received) = received
    BY <1>9, <1>11 DEF HasPacket, hidPacket_getPacket
  <2>2. reads > 1 /\ k + 1 \in 0 .. replyReports - 1 /\ k + 1 # 0 /\ (k + 1) - 1 = k
    BY <1>6, <1>n, <1>11
  <2>3. UNCHANGED << result, pc >> /\ rx' = received /\ reads' = reads - 1
    BY <1>1, <2>1, <2>2 DEF AfterRecv
  <2>4. reads' >= replyReports - (k + 1)
    BY <1>6, <1>n, <2>3
  <2>5. rx' = [state |-> "PARTIAL", chunk |-> (k + 1) - 1, data |-> UpTo(k + 1)]
    BY <1>9, <1>11, <2>2, <2>3
  <2>6. \A i \in 1..Len(queue') : queue'[i] = ReplyReport((k + 1) + i - 1)
    <3> SUFFICES ASSUME NEW i \in 1..Len(queue') PROVE queue'[i] = ReplyReport((k + 1) + i - 1)
      OBVIOUS
    <3>1. i \in 1 .. Len(queue) - 1 /\ i + 1 \in 1..Len(queue) /\ (k + 1) + i - 1 = k + (i + 1) - 1
      BY <1>4, <1>n
    <3>2. queue'[i] = queue[i + 1]
      BY <1>4, <3>1
    <3> QED BY <1>5, <3>1, <3>2
  <2>7. Answering'
    <3>1. /\ todo' = << >> /\ devTx'.chunk \in 0..replyReports'
          /\ devTx'.state = IF devTx'.chunk < replyReports' THEN "PARTIAL" ELSE "IDLE"
          /\ (devTx.chunk < replyReports => devTx.data = From(devTx.chunk))'
      BY <1>1, <1>5, <1>s DEF From
    <3>2. /\ NextChunk' \in 0 .. replyReports' - 1 /\ reads' >= replyReports' - NextChunk'
          /\ NextChunk' # 0
          /\ (rx = [state |-> "PARTIAL", chunk |-> NextChunk - 1, data |-> UpTo(NextChunk)])'
      BY <1>7, <1>s, <2>2, <2>4, <2>5 DEF UpTo
    <3>3. (\A i \in 1..Len(queue) : queue[i] = ReplyReport(NextChunk + i - 1))'
      BY <1>7, <1>s, <2>6 DEF ReplyReport, Piece, From
    <3> QED BY <3>1, <3>2, <3>3 DEF Answering
  <2>8. CallInv'
    BY <1>1, <1>2, <1>s, <2>3, <2>7 DEF CallInv
  <2> QED BY <1>1, <2>3, <2>8 DEF API!vars
<1> QED BY <1>10, <1>11

\* A read that finds nothing leaves room for the reply, and reads enough.
LEMMA ReadsStale ==
  ASSUME Fits, PartInv, CallInv, ~doubt', ReadNothing
  PROVE  CallInv' /\ UNCHANGED API!vars
<1> DEFINE received == hidPacket_recv(rx, Report(0, FALSE, hidBuf))
<1>1. /\ pc = "reading" /\ AfterRecv(received)
      /\ UNCHANGED << hidBuf, request, queue, todo, devTx >>
      /\ doubt' = (doubt \/ ~InTime)
  BY DEF ReadNothing
<1>d. ~doubt /\ InTime
  BY <1>1, Zenon
<1>q. queue = << >>
  BY <1>d DEF InTime
<1>u. doubt' = doubt
  <2>1. doubt \in BOOLEAN
    BY DEF PartInv, TypeInv, TypeOK
  <2> QED BY <1>1, <1>d, <2>1, Zenon
<1>2. /\ TypeInv /\ result = API!Pending /\ request \in Given /\ Len(hidBuf) <= PayloadLen
      /\ Waiting \/ Answering
  BY <1>1, <1>d DEF PartInv, CallInv
<1>3. /\ received \in Buffers(Bytes) /\ ~HasPacket(received)
      /\ Len(received.data) + PayloadLen <= MaxLen
  BY <1>2, RecvStale
<1> HIDE DEF received
<1>4. reads > replyReports /\ reads \in Nat /\ replyReports \in Nat \ {0}
  BY <1>2, <1>d, Offsets DEF InTime, TypeInv, TypeOK, replyReports, replyLen
<1>5. rx' = received /\ reads' = reads - 1 /\ UNCHANGED << result, pc >>
  <2>1. reads > 1
    BY <1>4
  <2> QED BY <1>1, <1>3, <2>1 DEF AfterRecv, hidPacket_getPacket
<1>6. Room'
  BY <1>3, <1>5 DEF Room
<1>s. /\ reply' = reply /\ replyLen' = replyLen /\ replyReports' = replyReports
      /\ Given' = Given
  BY <1>1, SameReply
<1>7. reads' \in Nat /\ reads' >= replyReports
  BY <1>4, <1>5
<1>8. Waiting' \/ Answering'
  <2>1. CASE Waiting
    <3>1. Waiting'
      BY <1>1, <1>6, <1>7, <1>s, <2>1 DEF Waiting, HasReport
    <3> QED BY <3>1
  <2>2. CASE Answering
    <3>1. /\ todo = << >> /\ devTx.chunk \in 0..replyReports
          /\ devTx.state = IF devTx.chunk < replyReports THEN "PARTIAL" ELSE "IDLE"
          /\ devTx.chunk < replyReports => devTx.data = From(devTx.chunk)
          /\ NextChunk \in 0 .. replyReports - 1
      BY <2>2 DEF Answering
    <3>2. NextChunk = devTx.chunk
      <4>1. Len(queue) = 0
        BY <1>q, EmptySeq
      <4> QED BY <3>1, <4>1 DEF NextChunk
    <3>3. devTx.chunk = 0
      <4>1. devTx.chunk < replyReports /\ devTx.chunk \in Nat
        BY <1>4, <3>1, <3>2
      <4>2. HasReport(devTx)
        BY <1>2, <3>1, <3>2, <4>1, Sending
      <4> QED BY <1>d, <4>1, <4>2 DEF InTime
    <3>4. NextChunk' = 0
      BY <1>1, <3>2, <3>3 DEF NextChunk
    <3>5. Len(queue') = 0
      BY <1>1, <1>q, EmptySeq
    <3>6. /\ todo' = << >> /\ devTx'.chunk \in 0..replyReports'
          /\ devTx'.state = IF devTx'.chunk < replyReports' THEN "PARTIAL" ELSE "IDLE"
          /\ (devTx.chunk < replyReports => devTx.data = From(devTx.chunk))'
      BY <1>1, <1>s, <3>1 DEF From
    <3>7. NextChunk' \in 0 .. replyReports' - 1 /\ reads' >= replyReports' - NextChunk'
      BY <1>4, <1>7, <1>s, <3>4
    <3>8. (\A i \in 1..Len(queue) : queue[i] = ReplyReport(NextChunk + i - 1))'
      BY <3>5
    <3>9. Answering'
      BY <1>6, <3>4, <3>6, <3>7, <3>8 DEF Answering
    <3> QED BY <3>9
  <2> QED BY <1>2, <2>1, <2>2
<1> QED BY <1>1, <1>2, <1>5, <1>8, <1>s, <1>u DEF CallInv, API!vars

\* The device begins the reply to the command of the call.
LEMMA AnswersCall ==
  ASSUME Fits, PartInv, CallInv, ~doubt, Answer
  PROVE  CallInv'
<1>1. /\ todo # << >> /\ devTx' = hidPacket_send(ReplyTo(Head(todo))) /\ todo' = Tail(todo)
      /\ UNCHANGED << pc, opens, rx, hidBuf, reads, request, result, queue, doubt >>
  BY DEF Answer
<1>2. /\ pc = "reading" /\ TypeInv /\ result = API!Pending /\ request \in Given
      /\ Waiting
  <2>1. pc \in {"closed", "idle", "reading"} /\ TypeInv
    BY DEF PartInv, TypeInv, TypeOK
  <2> QED BY <1>1, <2>1 DEF CallInv, Quiet, Answering
<1>3. todo = << request >> /\ queue = << >> /\ Room /\ reads >= replyReports
  BY <1>2 DEF Waiting
<1>4. Head(todo) = request /\ Tail(todo) = << >>
  BY <1>3
<1>5. /\ replyReports \in Nat \ {0} /\ replyLen \in Nat \ {0}
      /\ reply \in Seq(Bytes) /\ Len(reply) = replyLen /\ reads \in Nat
  BY <1>2, Offsets DEF TypeInv, TypeOK
<1>6. devTx' = [state |-> "PARTIAL", chunk |-> 0, data |-> reply]
  <2>1. request.kind \in Kinds
    BY <1>2 DEF Given
  <2>2. Len(reply) <= MaxLen
    BY <1>5, <2>1 DEF Fits, replyLen
  <2> QED BY <1>1, <1>4, <2>2 DEF hidPacket_send, reply
<1>s. /\ reply' = reply /\ replyLen' = replyLen /\ replyReports' = replyReports
      /\ Given' = Given
  BY <1>1, SameReply
<1>7. From(0)' = reply
  <2>1. 0 * PayloadLen + 1 = 1
    BY PacketAssumption
  <2>2. SubSeq(reply, 1, replyLen) = reply
    BY <1>5, SubSeqFull
  <2> QED BY <1>s, <2>1, <2>2 DEF From
<1>8. devTx'.chunk = 0 /\ devTx'.state = "PARTIAL" /\ devTx'.data = reply
  BY <1>6
<1>9. NextChunk' = 0 /\ Len(queue') = 0
  <2>1. Len(queue') = 0
    BY <1>1, <1>3, EmptySeq
  <2> QED BY <1>8, <2>1 DEF NextChunk
<1>10. Answering'
  <2>1. todo' = << >> /\ devTx'.chunk \in 0..replyReports' /\ 0 < replyReports'
        /\ devTx'.state = IF devTx'.chunk < replyReports' THEN "PARTIAL" ELSE "IDLE"
    BY <1>1, <1>4, <1>5, <1>8, <1>s
  <2>2. (devTx.chunk < replyReports => devTx.data = From(devTx.chunk))'
    BY <1>7, <1>8
  <2>3. NextChunk' \in 0 .. replyReports' - 1 /\ reads' >= replyReports' - NextChunk'
    BY <1>1, <1>3, <1>5, <1>9, <1>s
  <2>4. (\A i \in 1..Len(queue) : queue[i] = ReplyReport(NextChunk + i - 1))'
    BY <1>9
  <2>5. Room'
    BY <1>1, <1>3, <1>s DEF Room
  <2> QED BY <1>9, <2>1, <2>2, <2>3, <2>4, <2>5 DEF Answering
<1> QED BY <1>1, <1>2, <1>10, <1>s DEF CallInv

\* The device sends the next report, which the queue has room for.
LEMMA SendsReply ==
  ASSUME Fits, PartInv, CallInv, ~doubt, Transmit
  PROVE  CallInv'
<1> DEFINE c == devTx.chunk
           k == NextChunk
<1>1. /\ HasReport(devTx)
      /\ queue' = IF pc = "closed" THEN queue ELSE Enqueue(NextReport(devTx))
      /\ devTx' = hidPacket_getHIDBytes(devTx)
      /\ UNCHANGED << pc, opens, rx, hidBuf, reads, request, result, todo, doubt >>
  BY DEF Transmit
<1>2. /\ pc = "reading" /\ TypeInv /\ result = API!Pending /\ request \in Given
      /\ Answering
  <2>1. pc \in {"closed", "idle", "reading"} /\ TypeInv
    BY DEF PartInv, TypeInv, TypeOK
  <2> QED BY <1>1, <2>1 DEF CallInv, Quiet, Waiting
<1>3. /\ todo = << >> /\ c \in 0..replyReports
      /\ devTx.state = IF c < replyReports THEN "PARTIAL" ELSE "IDLE"
      /\ c < replyReports => devTx.data = From(c)
      /\ k \in 0 .. replyReports - 1 /\ k = c - Len(queue)
      /\ \A i \in 1..Len(queue) : queue[i] = ReplyReport(k + i - 1)
      /\ reads >= replyReports - k
      /\ IF k = 0 THEN Room ELSE rx = [state |-> "PARTIAL", chunk |-> k - 1, data |-> UpTo(k)]
  BY <1>2 DEF Answering, NextChunk
<1>4. replyReports \in Nat \ {0} /\ replyReports <= QueueCap /\ QueueCap \in Nat
  <2>1. request.kind \in Kinds
    BY <1>2 DEF Given
  <2> QED BY <1>2, <2>1, Offsets, TransferAssumption DEF Fits, replyReports, replyLen
<1>5. queue \in Seq(Reports64(Bytes)) /\ Len(queue) \in Nat
  BY <1>2, LenProperties DEF TypeInv, TypeOK
<1>6. c \in Nat /\ c < replyReports /\ c \in 0 .. replyReports - 1 /\ c + 1 \in 0..replyReports
  <2>1. c \in 0..replyReports
    BY <1>3
  <2>2. c < replyReports
    BY <1>1, <1>3 DEF HasReport
  <2> QED BY <1>4, <2>1, <2>2
<1> HIDE DEF k, c
<1>7. /\ NextReport(devTx) = ReplyReport(c)
      /\ devTx'.chunk = c + 1
      /\ devTx'.state = IF c + 1 = replyReports THEN "IDLE" ELSE "PARTIAL"
      /\ c + 1 # replyReports => devTx'.data = From(c + 1)
  <2>1. devTx.chunk = c /\ devTx.data = From(c)
    BY <1>3, <1>6 DEF c
  <2> QED BY <1>1, <1>2, <1>6, <2>1, Sending
<1>8. Len(queue) < QueueCap /\ k + (Len(queue) + 1) - 1 = c
  <2>1. k \in 0 .. replyReports - 1 /\ k = c - Len(queue)
    BY <1>3
  <2> QED BY <1>4, <1>5, <1>6, <2>1
<1>9. queue' = Append(queue, ReplyReport(c))
  BY <1>1, <1>2, <1>4, <1>5, <1>7, <1>8 DEF Enqueue
<1>10. /\ Len(queue') = Len(queue) + 1 /\ queue'[Len(queue) + 1] = ReplyReport(c)
       /\ \A i \in 1..Len(queue) : queue'[i] = queue[i]
  <2>1. ReplyReport(c) \in Reports64(Bytes)
    <3>1. devTx \in Buffers(Bytes) /\ HasReport(devTx)
      BY <1>1, <1>2 DEF TypeInv, TypeOK
    <3>2. NextReport(devTx) \in Reports64(Bytes)
      BY <3>1, FragmentSplits
    <3> QED BY <1>7, <3>2
  <2> QED BY <1>5, <1>9, <2>1, AppendProperties
<1>s. /\ reply' = reply /\ replyLen' = replyLen /\ replyReports' = replyReports
      /\ Given' = Given
  BY <1>1, SameReply
<1>11. NextChunk' = k
  <2>1. NextChunk' = (c + 1) - (Len(queue) + 1)
    BY <1>7, <1>10 DEF NextChunk
  <2>2. k \in 0 .. replyReports - 1 /\ k = c - Len(queue)
    BY <1>3
  <2> QED BY <1>4, <1>5, <1>6, <2>1, <2>2
<1>12. \A i \in 1..Len(queue') : queue'[i] = ReplyReport(k + i - 1)
  <2> SUFFICES ASSUME NEW i \in 1 .. Len(queue) + 1 PROVE queue'[i] = ReplyReport(k + i - 1)
    BY <1>10
  <2>1. CASE i = Len(queue) + 1
    BY <1>8, <1>10, <2>1
  <2>2. CASE i # Len(queue) + 1
    <3>1. i \in 1..Len(queue)
      BY <1>5, <2>2
    <3> QED BY <1>3, <1>10, <3>1
  <2> QED BY <2>1, <2>2
<1>13. Answering'
  <2>1. todo' = << >> /\ devTx'.chunk \in 0..replyReports'
    BY <1>1, <1>3, <1>6, <1>7, <1>s
  <2>2. devTx'.state = IF devTx'.chunk < replyReports' THEN "PARTIAL" ELSE "IDLE"
    <3>1. c + 1 < replyReports <=> c + 1 # replyReports
      BY <1>4, <1>6
    <3> QED BY <1>7, <1>s, <3>1
  <2>3. (devTx.chunk < replyReports => devTx.data = From(devTx.chunk))'
    <3> SUFFICES ASSUME c + 1 < replyReports PROVE devTx'.data = From(devTx.chunk)'
      BY <1>7, <1>s
    <3>1. c + 1 # replyReports
      BY <1>4, <1>6
    <3> QED BY <1>7, <1>s, <3>1 DEF From
  <2>4. NextChunk' \in 0 .. replyReports' - 1 /\ reads' >= replyReports' - NextChunk'
    BY <1>1, <1>3, <1>11, <1>s
  <2>5. (\A i \in 1..Len(queue) : queue[i] = ReplyReport(NextChunk + i - 1))'
    BY <1>11, <1>12, <1>s DEF ReplyReport, Piece, From
  <2>6. (IF NextChunk = 0 THEN Room ELSE rx = [state |-> "PARTIAL", chunk |-> NextChunk - 1, data |-> UpTo(NextChunk)])'
    BY <1>1, <1>3, <1>11, <1>s DEF Room, UpTo
  <2> QED BY <2>1, <2>2, <2>3, <2>4, <2>5, <2>6 DEF Answering
<1> QED BY <1>1, <1>2, <1>13, <1>s DEF CallInv

LEMMA CallInit == Init => CallInv /\ API!Init
<1> SUFFICES ASSUME Init PROVE CallInv /\ API!Init
  OBVIOUS
<1>1. result # API!Pending
  BY Outcomes DEF Init
<1>2. API!Init
  BY DEF Init, API!Init
<1> QED BY <1>1, <1>2 DEF Init, CallInv

LEMMA CallStep ==
  ASSUME Fits
  PROVE  PartInv /\ CallInv /\ [Next]_vars => CallInv' /\ [API!Next]_API!vars
<1> SUFFICES ASSUME PartInv, CallInv, [Next]_vars PROVE CallInv' /\ [API!Next]_API!vars
  OBVIOUS
<1>t. TypeInv /\ doubt \in BOOLEAN /\ queue \in Seq(Reports64(Bytes)) /\ hidBuf \in Seq(Bytes)
      /\ rx \in Buffers(Bytes)
  BY DEF PartInv, TypeInv, TypeOK
<1>1. ASSUME NEW kind \in Kinds, Call(kind) PROVE CallInv' /\ [API!Next]_API!vars
  <2>1. pc = "idle" /\ Transfer(kind, doubt) /\ devTx' = devTx /\ queue' = queue
    BY <1>1 DEF Call
  <2>2. ~doubt => Quiet /\ queue' = << >> /\ rx = ResetState
    BY <2>1 DEF CallInv
  <2>3. CallInv' /\ API!Call
    BY <1>t, <2>1, <2>2, CallBegins
  <2> QED BY <2>3 DEF API!Next
<1>2. CASE Open
  <2>1. /\ "devinfo" \in Kinds /\ pc # "reading" /\ Transfer("devinfo", ~Quiet) /\ (~Quiet) \in BOOLEAN
        /\ queue' = << >> /\ devTx' = devTx
    BY <1>2, TransferAssumption DEF Open
  <2>2. CallInv' /\ API!Call
    BY <2>1, CallBegins
  <2> QED BY <2>2 DEF API!Next
<1>3. CASE ReadReport
  <2>1. CASE doubt
    <3>1. /\ pc = "reading" /\ queue # << >> /\ AfterRecv(hidPacket_recv(rx, Head(queue)))
          /\ UNCHANGED << request, doubt >>
      BY <1>3 DEF ReadReport
    <3>2. hidPacket_recv(rx, Head(queue)) \in Buffers(Bytes)
      <4>1. Head(queue) \in Reports64(Bytes)
        BY <1>t, <3>1, QueueEnds
      <4> QED BY <1>t, <4>1, RecvStaysInBuffer
    <3> QED BY <1>t, <2>1, <3>1, <3>2, ReadsDoubtfully DEF API!Next
  <2>2. CASE ~doubt
    BY <1>3, <2>2, ReadsReply DEF API!Next
  <2> QED BY <2>1, <2>2
<1>4. CASE ReadNothing
  <2>1. CASE doubt'
    <3> DEFINE r == Report(0, FALSE, hidBuf)
    <3>1. pc = "reading" /\ AfterRecv(hidPacket_recv(rx, r)) /\ UNCHANGED request
      BY <1>4 DEF ReadNothing
    <3>2. hidPacket_recv(rx, r) \in Buffers(Bytes)
      <4>1. r \in Reports64(Bytes)
        BY <1>t DEF Report, Reports64
      <4> QED BY <1>t, <4>1, RecvStaysInBuffer
    <3> HIDE DEF r
    <3> QED BY <1>t, <2>1, <3>1, <3>2, ReadsDoubtfully DEF API!Next
  <2>2. CASE ~doubt'
    BY <1>4, <2>2, ReadsStale
  <2> QED BY <2>1, <2>2
<1>5. CASE ReadFails
  <2>1. /\ pc = "reading" /\ pc' = "idle" /\ result' = API!Raised /\ doubt' /\ UNCHANGED request
    BY <1>5 DEF ReadFails
  <2>2. result = API!Pending /\ result' # API!Pending
    BY <2>1, Outcomes DEF CallInv
  <2> QED BY <2>1, <2>2 DEF CallInv, API!Next, API!Return
<1>6. CASE Answer \/ Transmit
  <2>1. UNCHANGED << pc, request, result, doubt >>
    BY <1>6 DEF Answer, Transmit
  <2>2. CASE doubt
    BY <2>1, <2>2 DEF CallInv, API!vars
  <2>3. CASE ~doubt
    BY <1>6, <2>1, <2>3, AnswersCall, SendsReply DEF API!vars
  <2> QED BY <2>2, <2>3
<1>7. CASE UNCHANGED vars
  BY <1>7 DEF vars, API!vars, CallInv, Quiet, Waiting, Answering, Room, NextChunk, HasReport, Given,
     reply, replyLen, replyReports, From, UpTo, ReplyReport, Piece
<1> QED BY <1>1, <1>2, <1>3, <1>4, <1>5, <1>6, <1>7 DEF Next

\* While host and device are in step, a reply is read completely: when a call has
\* returned or raised, neither the queue of the handle nor the device holds
\* anything of it (SCSI2SD_HID.m:186-206).
THEOREM NothingIsLeft == ASSUME Fits PROVE Spec => []NothingLeftOver
<1>1. Init => PartInv /\ CallInv
  BY PartInit, CallInit
<1>2. PartInv /\ CallInv /\ [Next]_vars => PartInv' /\ CallInv'
  BY PartStep, CallStep
<1>3. CallInv => NothingLeftOver
  BY DEF CallInv, NothingLeftOver
<1> QED BY <1>1, <1>2, <1>3, PTL DEF Spec

\* sendHIDPacket is the remote call its callers take it for, as long as nothing put
\* host and device out of step: it returns the whole reply to its own command, or
\* raises because the command could not be written (SCSI2SD_HID.m:158-214, 389-425).
\* Opening the device again when it is quiet brings them back into step.
THEOREM TransferImplementsRpc == ASSUME Fits PROVE Spec => CallsAnswered
<1>1. Init => PartInv /\ CallInv /\ API!Init
  BY PartInit, CallInit
<1>2. PartInv /\ CallInv /\ [Next]_vars => PartInv' /\ CallInv' /\ [API!Next]_API!vars
  BY PartStep, CallStep
<1> QED BY <1>1, <1>2, PTL DEF Spec, CallsAnswered, API!Spec

=============================================================================
