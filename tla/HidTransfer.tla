----------------------------- MODULE HidTransfer -----------------------------
(***************************************************************************)
(* One call after another of sendHIDPacket (Modules/SCSI2SD_HID.m): the    *)
(* command is written, then reports are read until a packet is complete or *)
(* the retries are used up.  The loop of hid_write is HidLink's subject;   *)
(* here it ends normally or raises, and the device has then received the   *)
(* command once, not at all, or as often as it was tried.                  *)
(*                                                                         *)
(* Nothing in a reply says which command it answers, the static rx         *)
(* survives a failed call, and readHID returns normally when no report     *)
(* came, so that the loop hands hidPacket_recv the previous contents of    *)
(* hidBuf.  Replies may come at any time.  The ghost doubt records whether *)
(* anything went wrong, since the connection was opened, that can put      *)
(* commands and replies out of step.                                       *)
(***************************************************************************)
EXTENDS HidPacket, FiniteSets

CONSTANTS Kinds,         \* commands the behaviour uses
          SectorLen,     \* bytes of an SD sector (512)
          QueueCap,      \* reports the input queue of the handle holds
          MaxAttempts,   \* hid_write calls per report (10)
          MaxRequests,   \* bound: calls in one behaviour
          MaxOpens,      \* bound: how often the device is opened
          Leftovers      \* what an earlier connection may have left in rx

AllKinds == {"ping", "devinfo", "sdinfo", "selftest", "read", "write", "debug"}

Bytes == [from : {"host", "device", "old"}, num : Nat, i : Nat]

ASSUME TransferAssumption ==
  /\ Kinds \subseteq AllKinds
  /\ "devinfo" \in Kinds
  /\ SectorLen \in 1 .. MaxLen - 5
  /\ QueueCap \in Nat \ {0}
  /\ MaxRequests \in Nat
  /\ MaxOpens \in Nat \ {0}
  /\ MaxAttempts \in Nat \ {0}
  /\ Leftovers \subseteq { s \in Buffers(Bytes) : ~HasPacket(s) }

VARIABLES pc,        \* "closed", "idle", or "reading" inside sendHIDPacket
          opens,     \* how often [HID open] got a handle
          rx,        \* the host's static rx
          hidBuf,    \* payload part of the local buffer hidBuf
          reads,     \* readHID calls the retry loop has left
          request,   \* the current or last call
          result,    \* and what came of it
          queue,     \* input reports waiting in the open handle
          todo,      \* requests the device received and has not answered
          devTx,     \* the device's tx
          doubt      \* ghost: may replies be out of step with commands?

vars == << pc, opens, rx, hidBuf, reads, request, result, queue, todo, devTx, doubt >>

-----------------------------------------------------------------------------
(* The commands: length of the packet, the responseLength the wrapper       *)
(* passes, and the length of the reply.                                     *)

CommandLen(kind) ==
  CASE kind \in {"devinfo", "read"} -> 5
    [] kind = "write" -> 5 + SectorLen
    [] OTHER -> 1

ResponseLength(kind) ==
  CASE kind = "devinfo" -> 6
    [] kind \in {"sdinfo", "selftest"} -> 16
    [] kind = "read" -> MaxLen \div PayloadLen
    [] OTHER -> 1

ReplyLen(kind) ==
  CASE kind = "devinfo" -> 6
    [] kind = "sdinfo" -> 32
    [] kind = "selftest" -> 2
    [] kind = "read" -> SectorLen
    [] kind = "debug" -> PayloadLen
    [] OTHER -> 1

Byte(from, num, i) == [from |-> from, num |-> num, i |-> i]

CommandOf(req) == [i \in 1..CommandLen(req.kind) |-> Byte("host", req.num, i)]
ReplyTo(req) == [i \in 1..ReplyLen(req.kind) |-> Byte("device", req.num, i)]

\* What hidBuf holds of a command once its last report has been written.
LastPayload(packet) ==
  SubSeq(packet, (Reports(Len(packet)) - 1) * PayloadLen + 1, Len(packet))

API == INSTANCE Rpc WITH Opening <- "devinfo"

Init ==
  /\ pc = "closed"
  /\ opens = 0
  /\ rx \in Leftovers
  /\ hidBuf = << >>
  /\ reads = 0
  /\ request = [num |-> 0, kind |-> "none"]
  /\ result = API!Raised
  /\ queue = << >>
  /\ todo = << >>
  /\ devTx = ResetState
  /\ doubt = TRUE

-----------------------------------------------------------------------------
(* The host.                                                                *)

\* A packet that completed outside the loop would be returned at once, before
\* anything is read.
Written(req, packet) ==
  IF HasPacket(rx)
  THEN /\ result' = [status |-> "ok", data |-> Packet(rx)]
       /\ rx' = hidPacket_getPacket(rx)
       /\ pc' = "idle"
       /\ UNCHANGED << hidBuf, reads >>
  ELSE /\ result' = API!Pending
       /\ hidBuf' = LastPayload(packet)
       /\ reads' = 2 * ResponseLength(req.kind)
       /\ pc' = "reading"
       /\ UNCHANGED rx

\* A failing hid_write may have delivered its report.  A command of one report
\* is then received again with each retry; of a longer one only the last report
\* is, which does nothing (HidLink, LongCommandsAtMostOnce).
Copies(kind) == IF CommandLen(kind) <= PayloadLen THEN MaxAttempts ELSE 1

\* The write loop ends, or gives up and raises, and the device has received the
\* command n times.  Host and device are in step if that is once when it was
\* written, unless the call began unsure, and never when it raised.
Transfer(kind, unsure) ==
  LET req == [num |-> request.num + 1, kind |-> kind] IN
  /\ request.num < MaxRequests
  /\ request' = req
  /\ \E n \in 0..Copies(kind) :
       /\ todo' = todo \o [i \in 1..n |-> req]
       /\ \/ /\ Written(req, CommandOf(req))
             /\ doubt' = (n # 1 \/ unsure)
          \/ /\ result' = API!Raised
             /\ pc' = "idle"
             /\ doubt' = (n # 0 \/ doubt)
             /\ UNCHANGED << rx, hidBuf, reads >>

\* Any wrapper around sendHIDPacket, on the handle that is open.
Call(kind) ==
  /\ pc = "idle"
  /\ Transfer(kind, doubt)
  /\ UNCHANGED << opens, queue, devTx >>

\* The device has nothing more to say to earlier commands.
Quiet == todo = << >> /\ ~HasReport(devTx)

\* A slip: the reports of the previous connection stay.
Open_KeepsQueue ==
  /\ pc \in {"closed", "idle"}
  /\ opens < MaxOpens
  /\ opens' = opens + 1
  /\ Transfer("devinfo", ~Quiet)
  /\ UNCHANGED << queue, devTx >>

\* [HID open]: a new handle has an empty input queue; readNewDebugData is its
\* first call.  rx is static and is not reset.
Open ==
  /\ pc \in {"closed", "idle"}
  /\ opens < MaxOpens
  /\ opens' = opens + 1
  /\ Transfer("devinfo", ~Quiet)
  /\ queue' = << >>
  /\ UNCHANGED devTx

\* A slip: retry not counted.
AfterRecv_Uncounted(received) ==
  /\ rx' = hidPacket_getPacket(received)
  /\ IF HasPacket(received)
     THEN result' = [status |-> "ok", data |-> Packet(received)] /\ pc' = "idle"
     ELSE UNCHANGED << result, pc >>
  /\ UNCHANGED reads

\* The rest of the retry loop, once hidPacket_recv has left `received'.
AfterRecv(received) ==
  /\ reads' = reads - 1
  /\ rx' = hidPacket_getPacket(received)
  /\ \/ /\ HasPacket(received)
        /\ result' = [status |-> "ok", data |-> Packet(received)]
        /\ pc' = "idle"
     \/ /\ ~HasPacket(received)
        /\ reads = 1
        /\ result' = API!Raised
        /\ pc' = "idle"
     \/ /\ ~HasPacket(received)
        /\ reads > 1
        /\ UNCHANGED << result, pc >>

ReadReport ==
  /\ pc = "reading"
  /\ queue # << >>
  /\ hidBuf' = Head(queue).payload
  /\ queue' = Tail(queue)
  /\ AfterRecv(hidPacket_recv(rx, Head(queue)))
  /\ UNCHANGED << opens, request, todo, devTx, doubt >>

\* A read without a report does no harm while the device keeps within the reads
\* of the call: it does not pause inside a reply, and starts it while enough reads
\* are left for all its reports.
InTime ==
  /\ queue = << >>
  /\ ~(HasReport(devTx) /\ devTx.chunk > 0)
  /\ reads > Reports(ReplyLen(request.kind))

\* Three times no report within HID_TIMEOUT_MS: hidBuf[0] is 0, the rest of
\* hidBuf is what it was, and hidPacket_recv takes it for an initial chunk.
\* (A report may be queued all the same: HidQueue says when.)
ReadNothing ==
  /\ pc = "reading"
  /\ AfterRecv(hidPacket_recv(rx, Report(0, FALSE, hidBuf)))
  /\ doubt' = (doubt \/ ~InTime)
  /\ UNCHANGED << opens, hidBuf, request, queue, todo, devTx >>

\* hid_read_timeout fails three times: "USB HID Read Failure" is raised.
ReadFails ==
  /\ pc = "reading"
  /\ result' = API!Raised
  /\ pc' = "idle"
  /\ doubt' = TRUE
  /\ UNCHANGED << opens, rx, hidBuf, reads, request, queue, todo, devTx >>

-----------------------------------------------------------------------------
(* The device answers requests one after the other.                         *)

Answer ==
  /\ ~HasReport(devTx)
  /\ todo # << >>
  /\ devTx' = hidPacket_send(ReplyTo(Head(todo)))
  /\ todo' = Tail(todo)
  /\ UNCHANGED << pc, opens, rx, hidBuf, reads, request, result, queue, doubt >>

\* A report reaches the handle's queue; a full queue loses its oldest report.
Enqueue(report) ==
  IF Len(queue) >= QueueCap THEN Append(Tail(queue), report) ELSE Append(queue, report)

Transmit ==
  /\ HasReport(devTx)
  /\ queue' = IF pc = "closed" THEN queue ELSE Enqueue(NextReport(devTx))
  /\ devTx' = hidPacket_getHIDBytes(devTx)
  /\ UNCHANGED << pc, opens, rx, hidBuf, reads, request, result, todo, doubt >>

Next ==
  \/ \E kind \in Kinds : Call(kind)
  \/ Open
  \/ ReadReport
  \/ ReadNothing
  \/ ReadFails
  \/ Answer
  \/ Transmit

Spec == Init /\ [][Next]_vars

\* hid_read_timeout returns after HID_TIMEOUT_MS at the latest, so a call that
\* is reading goes on reading, whatever the device does.
HostSpec == Spec /\ WF_vars(ReadReport \/ ReadNothing)

-----------------------------------------------------------------------------
(* Properties.                                                              *)

Requests == [num : Nat, kind : Kinds \cup {"none"}]

\* Both static buffers stay within HIDPACKET_MAX_LEN, whatever arrives and
\* however often a stale buffer is fed to hidPacket_recv, and a packet that
\* completes never outlives the call that completed it.
TypeOK ==
  /\ pc \in {"closed", "idle", "reading"}
  /\ opens \in 0..MaxOpens
  /\ rx \in Buffers(Bytes)
  /\ ~HasPacket(rx)
  /\ hidBuf \in Seq(Bytes)
  /\ reads \in Nat
  /\ request \in Requests
  /\ result \in [status : {"pending", "raised", "ok"}, data : Seq(Bytes)]
  /\ queue \in Seq(Reports64(Bytes))
  /\ Len(queue) <= QueueCap
  /\ todo \in Seq(Requests)
  /\ devTx \in Buffers(Bytes)
  /\ doubt \in BOOLEAN

\* A call returns the whole reply to its own command and nothing else, or raises,
\* as long as no command was lost or received twice, or received though writing it
\* raised, and no reply came later than the reads of its call.  After that a call
\* may return any reply, until the device is opened again when it is quiet: this
\* restores the promise whatever was left in rx, in the queue, or unread.
CallsAnswered == API!Spec

\* The reads of a call are bounded: no device keeps sendHIDPacket from
\* returning or raising.
CallReturns == pc = "reading" ~> pc = "idle"

\* While host and device are in step, a reply is read completely: when a call has
\* returned or raised, nothing of it is left over for the next.
NothingLeftOver == pc = "idle" /\ ~doubt => queue = << >> /\ Quiet

\* Whatever the device answers, and whenever: a result of one report's length is
\* one of its replies, whole and unmixed, though maybe to an earlier call.  Stale
\* buffers, lost reports and a second [HID open] spoil longer replies only.
ShortResultsWhole ==
  result.status = "ok" /\ Len(result.data) <= PayloadLen =>
    \E num \in 1..request.num, kind \in Kinds :
      result.data = ReplyTo([num |-> num, kind |-> kind])

\* Chunk c can be followed by another: of a reply, or what a read without a report
\* makes of hidBuf.  And what such chunks leave in rx.
Inner(c) == c = 0 \/ \E kind \in Kinds : c + 1 < Reports(ReplyLen(kind))

InPart(s) ==
  \/ /\ s.state = "PARTIAL"
     /\ Inner(s.chunk)
     /\ Len(s.data) <= (s.chunk + 1) * PayloadLen
  \/ /\ s.state # "PARTIAL"
     /\ s.data = << >>

\* What the properties rest on, besides the assumptions.  The lengths: two reports
\* fit a buffer together, a reply fits a buffer and the queue of the handle, and a
\* part of one leaves room for the first reply of a connection.
Fits ==
  /\ 2 * PayloadLen <= MaxLen
  /\ PayloadLen + ReplyLen("devinfo") <= MaxLen
  /\ \A kind \in Kinds :
       /\ ReplyLen(kind) <= MaxLen
       /\ Reports(ReplyLen(kind)) <= QueueCap
       /\ (Reports(ReplyLen(kind)) - 1) * PayloadLen + ReplyLen("devinfo") <= MaxLen
  /\ \A s \in Leftovers : InPart(s)

\* A reply takes one report or at least three, so that no reply ends in the chunk
\* that follows an initial one; and rx is left as reports fill it.
OneOrMany ==
  /\ \A kind \in Kinds : ReplyLen(kind) <= PayloadLen \/ ReplyLen(kind) > 2 * PayloadLen
  /\ \A s \in Leftovers : s.state = "PARTIAL" => Len(s.data) >= s.chunk * PayloadLen

=============================================================================
