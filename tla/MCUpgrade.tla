---- MODULE MCUpgrade ----
(* A board of every kind beside another DFU capable device or a second board. *)
EXTENDS Upgrade

CONSTANTS board, other

MCFiles ==
  {[dfu |-> TRUE, names |-> {"revF"}, ids |-> "stm", blanks |-> FALSE],
   [dfu |-> TRUE, names |-> {"2020"}, ids |-> "any", blanks |-> FALSE],
   [dfu |-> FALSE, names |-> {"revF"}, ids |-> "stm", blanks |-> FALSE],
   [dfu |-> TRUE, names |-> {}, ids |-> "any", blanks |-> TRUE]}

\* Boards below 6.3.0 are of revision F; markers are written once, by some makers.
Boards ==
  {[hw |-> "revF", fw |-> "old", marker |-> "unset"], [hw |-> "revF", fw |-> "630", marker |-> "2019"],
   [hw |-> "2020", fw |-> "630", marker |-> "2020"], [hw |-> "2020", fw |-> "new", marker |-> "unset"],
   [hw |-> "revF", fw |-> "old", marker |-> "strange"]}

\* A DFU device of another maker, a board of another kind with the same bootloader,
\* one whose own firmware can be detached, and a second SCSI2SD.
Others ==
  {[hw |-> "foreign", fw |-> "none", marker |-> "strange", ids |-> "other", two |-> FALSE],
   [hw |-> "foreign", fw |-> "none", marker |-> "unset", ids |-> "stm", two |-> TRUE],
   [hw |-> "2020", fw |-> "630", marker |-> "2020", ids |-> "stm", two |-> TRUE]}

Bench(b, o, m, n) ==
  [profile |-> [d \in Devices |->
     IF d = board THEN [hw |-> b.hw, marker |-> b.marker, ids |-> "stm", two |-> TRUE]
     ELSE [hw |-> o.hw, marker |-> o.marker, ids |-> o.ids, two |-> o.two]],
   firmware |-> [d \in Devices |-> IF d = board THEN b.fw ELSE o.fw],
   mode |-> [d \in Devices |-> IF d = board THEN m ELSE n]]

MCBenches ==
  {Bench(b, o, m, n) : b \in Boards, o \in Others, m \in {"away", "app", "boot"}, n \in {"away", "boot"}}
    \union {Bench(b, o, "away", "runtime") : b \in Boards, o \in {f \in Others : f.hw = "foreign"}}
====
