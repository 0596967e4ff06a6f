---- MODULE ConfigFormat ----
(***************************************************************************)
(* ConfigUtil.m: a configuration as the bytes on the SD card, and as the   *)
(* XML file that the program writes and reads.                             *)
(*                                                                         *)
(* What the functions tell apart is kept, the rest is abstracted:          *)
(*  - a 32-bit number is its two's complement reading, which is what %d    *)
(*    prints; 0xFFFFFFFF is -1;                                            *)
(*  - an identification string is a value that says how it prints: "short" *)
(*    has fewer characters before a NUL than its field, "markup" has a     *)
(*    character that XML reserves; the serial number has two halves;       *)
(*  - Unset is whatever byte an uninitialised structure holds, and AnyQuirk *)
(*    whatever quirks; what is computed from them is again Unset or lost.  *)
(***************************************************************************)
EXTENDS Integers, Sequences, FiniteSets

CONSTANTS TargetCount,     \* S2S_MAX_TARGETS
          DefaultSectors   \* scsiSectors of a default target

ASSUME ConfigAssumption == /\ TargetCount \in Nat \ {0}
                           /\ DefaultSectors \in Nat \ {0}

Targets == 1 .. TargetCount
Unset == -1
AnyQuirk == "any"

Texts == {"default", "other", "blank", "short", "markup"}
TextFields == {"vendor", "prodId", "revision", "serial", "serialTail"}
Quirks == {"apple", "omti", "xebec", "vms"}

\* The flags an XML file has, those it has not, and the bits of flags6.
FileFlags == {"unitAttention", "parity", "enableScsi2", "selLatch", "mapLunsToIds"}
OtherFlags == {"disableGlitch", "enableCache", "enableDisconnect"}
Flags6 == {"enableTerminator", "blindWrites"}

SpeedSync10 == 5
SpeedTurbo == 6

----
(* Defaults. *)

defaultBoardConfig ==
  [flags |-> {}, flags6 |-> {"enableTerminator"}, startup |-> 0, selection |-> 255,
   speed |-> 0]

defaultTargetConfig(i) ==
  [enabled |-> i = 1, id |-> i - 1, type |-> 0, modifier |-> 0, start |-> 0,
   sectors |-> DefaultSectors, bytes |-> 512, track |-> 63, heads |-> 255,
   text |-> [f \in TextFields |-> "default"], quirks |-> {}]

\* Structures of zero bytes: the board of a Pair that was given none, and what
\* is read where nothing was ever written.
zeroBoardConfig ==
  [flags |-> {}, flags6 |-> {}, startup |-> 0, selection |-> 0, speed |-> 0]

zeroTargetConfig ==
  [enabled |-> FALSE, id |-> 0, type |-> 0, modifier |-> 0, start |-> 0, sectors |-> 0,
   bytes |-> 0, track |-> 0, heads |-> 0, text |-> [f \in TextFields |-> "short"],
   quirks |-> {}]

----
(* Bytes. The card holds [magic, board, targets]. *)

boardConfigFromBytes(card) == IF card.magic THEN card.board ELSE defaultBoardConfig

targetCfgFromBytes(t) == [t EXCEPT !.track = IF @ = 0 THEN 63 ELSE @]

toBytes(board, targets) == [magic |-> TRUE, board |-> board, targets |-> targets]

----
(* Writing XML. *)

\* Only single quirks are written, with a blank after the name.
QuirkLines(quirks) == IF Cardinality(quirks) = 1 THEN {<<q, " ">> : q \in quirks} ELSE {}

\* substringToIndex raises when a string ends before its field does; the array
\* for the serial number is 16 blanks of which the first 8 are overwritten.
targetCfgToXMLRaises(t) == \E f \in TextFields \ {"serialTail"} : t.text[f] = "short"

targetCfgToXML(t) ==
  [t EXCEPT !.quirks = QuirkLines(@), !.text["serialTail"] = "blank"]

\* A slip: the terminator after the flags.
boardCfgToXML_Order(b) ==
  [flags |-> << <<"unitAttention", "unitAttention" \in b.flags>>,
                <<"parity", "parity" \in b.flags>>,
                <<"enableScsi2", "enableScsi2" \in b.flags>>,
                <<"selLatch", "selLatch" \in b.flags>>,
                <<"mapLunsToIds", "mapLunsToIds" \in b.flags>>,
                <<"blindWrites", "blindWrites" \in b.flags6>>,
                <<"enableTerminator", "enableTerminator" \in b.flags6>> >>,
   startup |-> b.startup, selection |-> b.selection, speed |-> b.speed]

boardCfgToXML(b) ==
  [flags |-> << <<"enableTerminator", "enableTerminator" \in b.flags6>>,
                <<"unitAttention", "unitAttention" \in b.flags>>,
                <<"parity", "parity" \in b.flags>>,
                <<"enableScsi2", "enableScsi2" \in b.flags>>,
                <<"selLatch", "selLatch" \in b.flags>>,
                <<"mapLunsToIds", "mapLunsToIds" \in b.flags>>,
                <<"blindWrites", "blindWrites" \in b.flags6>> >>,
   startup |-> b.startup, selection |-> b.selection, speed |-> b.speed]

----
(* Reading XML. A number without a well-defined reading has several. *)

\* doubleValue of a negative number converted to uint64_t is undefined; the
\* builds saturate to zero or end above the limit.
parseInt(n, limit) == IF n < 0 THEN {0, limit}
                      ELSE {IF limit # -1 /\ n > limit THEN limit ELSE n}

\* 0x is dropped and what follows is read as a decimal number, up to the first
\* character that is no digit.
ReadHex(n) ==
  LET high == n \div 16
      low == n % 16
  IN IF n = Unset THEN Unset
     ELSE IF high > 9 \/ (high = 0 /\ low > 9) THEN 0
     ELSE IF low > 9 THEN high
     ELSE 10 * high + low

parseQuirks(lines) == {q \in Quirks : <<q>> \in lines}

\* A string shorter than its field raises inside the @try and is left as it was.
parseText(text) ==
  [f \in TextFields |->
     LET whole == IF f = "serialTail" THEN text["serial"] ELSE text[f]
     IN IF whole = "short" THEN "default" ELSE text[f]]

parseTarget(e) ==
  {[enabled |-> e.enabled, id |-> e.id, type |-> ReadHex(e.type),
    modifier |-> ReadHex(e.modifier), start |-> s, sectors |-> c, bytes |-> b,
    track |-> k, heads |-> h, text |-> parseText(e.text), quirks |-> parseQuirks(e.quirks)] :
     s \in parseInt(e.start, -1), c \in parseInt(e.sectors, -1), b \in parseInt(e.bytes, 8192),
     k \in parseInt(e.track, 255), h \in parseInt(e.heads, 255)}

\* Clearing the terminator assigns flags, not flags6: parity and blindWrites
\* are the same bit.
parseFlag(b, f) ==
  CASE f[1] \in FileFlags ->
         [b EXCEPT !.flags = IF f[2] THEN @ \union {f[1]} ELSE @ \ {f[1]}]
    [] f[1] = "enableTerminator" /\ ~f[2] ->
         [b EXCEPT !.flags6 = IF "parity" \in b.flags THEN {"blindWrites"} ELSE {}]
    [] OTHER ->
         [b EXCEPT !.flags6 = IF f[2] THEN @ \union {f[1]} ELSE @ \ {f[1]}]

Least(a, b) == IF a < b THEN a ELSE b

\* Element after element.
parseFlags(flags) ==
  LET after[k \in 0 .. Len(flags)] ==
        IF k = 0 THEN defaultBoardConfig ELSE parseFlag(after[k - 1], flags[k])
  IN after[Len(flags)]

\* A slip: limits forgotten.
parseBoardConfig_Any(e) ==
  [parseFlags(e.flags)
     EXCEPT !.startup = e.startup, !.selection = e.selection, !.speed = e.speed]

parseBoardConfig(e) ==
  [parseFlags(e.flags)
     EXCEPT !.startup = Least(e.startup, 255), !.selection = Least(e.selection, 255),
            !.speed = Least(e.speed, SpeedSync10)]

\* A file: "bad", if it is missing or not a configuration, or the elements of its root.
FileRaises(file) == \/ file.kind # "xml"
                    \/ \E i \in DOMAIN file.targets :
                         \E f \in TextFields : file.targets[i].text[f] = "markup"

\* The pairs that fromXML may return. Without a board element the
\* board that was prepared is never given to the Pair.
fromXML(file) ==
  {[board |-> IF file.boards = <<>> THEN zeroBoardConfig
              ELSE parseBoardConfig(file.boards[Len(file.boards)]),
    targets |-> ts] :
     ts \in {f \in [DOMAIN file.targets ->
                      UNION {parseTarget(file.targets[i]) : i \in DOMAIN file.targets}] :
               \A i \in DOMAIN file.targets : f[i] \in parseTarget(file.targets[i])}}

toXML(board, targets) ==
  [kind |-> "xml", boards |-> <<boardCfgToXML(board)>>,
   targets |-> [i \in DOMAIN targets |-> targetCfgToXML(targets[i])]]
====
