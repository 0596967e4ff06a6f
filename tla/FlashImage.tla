------------------------------ MODULE FlashImage ------------------------------
(****************************************************************************)
(* What a firmware upgrade promises, whatever fails on the way and however  *)
(* often it is tried.  Only the pages of a file that was tried are touched; *)
(* an attempt that reports success has put every byte of its file in place, *)
(* and from then on nothing changes until the next attempt.  A failed       *)
(* attempt promises nothing about those pages: the bootloader may still     *)
(* carry out its last command.                                              *)
(****************************************************************************)
EXTENDS FlashLayout

VARIABLES flash, outcome, file, tried
vars == << flash, outcome, file, tried >>

Init ==
  /\ flash = [a \in Addresses |-> Old]
  /\ outcome = "none"
  /\ file = 0
  /\ tried = {}

Begin(n) ==
  /\ outcome # "running"
  /\ outcome' = "running"
  /\ file' = n
  /\ tried' = tried \cup {n}
  /\ UNCHANGED flash

Touch ==
  /\ outcome \in {"running", "failed"}
  /\ \A a \in Addresses \ UNION {Region(n) : n \in tried} : flash'[a] = flash[a]
  /\ UNCHANGED << outcome, file, tried >>

Succeed ==
  /\ outcome = "running"
  /\ Files[file].dfuse
  /\ Ascending(file) => Holds(flash, file)
  /\ outcome' = "done"
  /\ UNCHANGED << flash, file, tried >>

Fail ==
  /\ outcome = "running"
  /\ outcome' = "failed"
  /\ UNCHANGED << flash, file, tried >>

Next == (\E n \in DOMAIN Files : Begin(n)) \/ Touch \/ Succeed \/ Fail

Spec == Init /\ [][Next]_vars
=============================================================================
