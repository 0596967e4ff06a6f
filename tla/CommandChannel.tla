--------------------------- MODULE CommandChannel ---------------------------
(***************************************************************************)
(* What the packet protocol promises for commands, whatever the USB stack  *)
(* does to single reports: the device executes only packets the host       *)
(* issued, each of them whole, and never an older one after a newer one.   *)
(* A command may be lost, and may be executed more than once.              *)
(***************************************************************************)
EXTENDS Naturals, Sequences

CONSTANT Packets      \* what the host may issue

VARIABLES commands,   \* packets handed to sendHIDPacket, in order
          executed    \* packets the device took, in order

vars == << commands, executed >>

Init == /\ commands = << >>
        /\ executed = << >>

Issue == /\ \E packet \in Packets : commands' = Append(commands, packet)
         /\ UNCHANGED executed

\* Everything executed so far is command k or an earlier one.
NothingAfter(k) ==
  \A i \in DOMAIN executed : \E j \in 1..k : executed[i] = commands[j]

Execute == /\ \E k \in DOMAIN commands :
                 /\ NothingAfter(k)
                 /\ executed' = Append(executed, commands[k])
           /\ UNCHANGED commands

Next == Issue \/ Execute

Spec == Init /\ [][Next]_vars

=============================================================================
