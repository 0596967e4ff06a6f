--------------------------------- MODULE Rpc ---------------------------------
(***************************************************************************)
(* What a caller of sendHIDPacket relies on: a call returns the reply to   *)
(* its command, all of it and nothing else, or raises.  Once replies may   *)
(* be out of step with commands (doubt) a result may be anything, until    *)
(* the connection is opened again.                                         *)
(***************************************************************************)
EXTENDS Naturals

CONSTANTS Kinds,         \* the commands
          Opening,       \* the first command of a connection
          ReplyTo(_)     \* the packet the device answers a request with

VARIABLES request, result, doubt

vars == << request, result, doubt >>

Pending == [status |-> "pending", data |-> << >>]
Raised == [status |-> "raised", data |-> << >>]

Init == /\ request = [num |-> 0, kind |-> "none"]
        /\ result = Raised
        /\ doubt = TRUE

\* Only the opening of a connection can put an end to a doubt.
Call == /\ result # Pending
        /\ \E kind \in Kinds : request' = [num |-> request.num + 1, kind |-> kind]
        /\ result' \in {Pending, Raised}
        /\ doubt /\ ~doubt' => request'.kind = Opening

Return == /\ result = Pending
          /\ result' # Pending
          /\ ~doubt' => result' = [status |-> "ok", data |-> ReplyTo(request)]
          /\ doubt => doubt'
          /\ UNCHANGED request

LoseStep == /\ doubt'
            /\ UNCHANGED << request, result >>

Next == Call \/ Return \/ LoseStep

Spec == Init /\ [][Next]_vars

=============================================================================
