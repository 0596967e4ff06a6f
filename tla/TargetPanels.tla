---- MODULE TargetPanels ----
(***************************************************************************)
(* DeviceController.m, SettingsController.m and the parts of AppDelegate.m *)
(* that compute with all panels: what the controls of the window show, the *)
(* structures read from them, the check of the whole and the automatic     *)
(* start sectors.                                                          *)
(*                                                                         *)
(* A panel shows a target configuration (cfg), its size in a unit (size,   *)
(* unit) and the check box "Auto" (auto), which can be clicked while it is *)
(* enabled (autoEnabled); the controls for its size are disabled for good  *)
(* once it was a floppy (editable). The controls of the board show a board *)
(* configuration as it is, so the structure itself stands for them.        *)
(***************************************************************************)
EXTENDS ConfigFormat, Functions

CONSTANT Kilo   \* 1024; less where numbers must stay small

ASSUME PanelsAssumption == Kilo \in Nat \ {0}

Units == {"GB", "MB", "KB"}
FactorOf == [GB |-> Kilo * Kilo * Kilo, MB |-> Kilo * Kilo, KB |-> Kilo]

Floppy == 3
FloppySectors == 2880

----
(* Sizes. *)

\* Nothing is shown anew for a count that reads as negative.
evaluateSize(p) ==
  LET bytes == (p.cfg.sectors + 1) * p.cfg.bytes
      unit == IF bytes >= FactorOf["GB"] THEN "GB"
              ELSE IF bytes >= FactorOf["MB"] THEN "MB" ELSE "KB"
  IN IF p.cfg.sectors + 1 > 0
     THEN [p EXCEPT !.size = bytes \div FactorOf[unit], !.unit = unit]
     ELSE p

\* A slip: rounded up.
convertUnitsToSectors_Up(p) ==
  IF p.cfg.bytes = 0 THEN {0, -1} ELSE {(p.size * FactorOf[p.unit]) \div p.cfg.bytes + 1}

\* A quotient by zero has no integer value: zero or one that reads as negative.
convertUnitsToSectors(p) ==
  IF p.cfg.bytes = 0 THEN {0, -1} ELSE {(p.size * FactorOf[p.unit]) \div p.cfg.bytes}

----
(* Between a panel and the structure. *)

\* The GB of the unsigned product, a count of 2^32 being 4 GB times the sector size,
\* are what remains when evaluateSize does nothing.
setTargetConfig(p, cfg) ==
  evaluateSize([p EXCEPT !.cfg = cfg,
                         !.size = (IF cfg.sectors < 0 THEN 4 * cfg.bytes ELSE 0)
                                  + (cfg.sectors * cfg.bytes) \div FactorOf["GB"]])

\* The structure is a local variable of which some members are never assigned.
getTargetConfig(p) == [p.cfg EXCEPT !.id = @ % 8, !.modifier = Unset, !.quirks = {AnyQuirk}]

----
(* The check of one panel and of all. *)

EvaluatePanel(p) ==
  IF p.cfg.type = Floppy
  THEN evaluateSize([p EXCEPT !.cfg = [@ EXCEPT !.bytes = 512, !.sectors = FloppySectors],
                              !.editable = FALSE])
  ELSE p

PanelValid(p) == ~p.cfg.enabled \/ (p.cfg.bytes \in 64 .. 8192 /\ p.cfg.sectors # 0)

\* Unsigned 64-bit numbers, by their two's complement readings.
Above(x, y) == IF (x < 0) = (y < 0) THEN x > y ELSE x < 0

RangesIntersect(s, t) ==
  /\ ~Above(s.start, t.start + t.sectors - 1)
  /\ ~Above(t.start, s.start + s.sectors - 1)

Enabled(ps) == {i \in Targets : ps[i].cfg.enabled}

Total(ps, these) == SumFunction([i \in these |-> ps[i].cfg.sectors])

\* A slip: a mark, once set, stays.
Mark_Stays(marked, i, mark) == IF mark THEN marked \union {i} ELSE marked

Mark(marked, i, mark) == IF mark THEN marked \union {i} ELSE marked \ {i}

\* A slip: the first one.
LastOf_First(others) == CHOOSE j \in others : \A k \in others : j <= k

LastOf(others) == CHOOSE j \in others : \A k \in others : k <= j

\* What is said of one target comes from the last other target that is enabled,
\* each comparison overwriting the one before it, and the valid of all targets
\* so far: of its own size and of equal identifiers nothing remains.
EvaluateTarget(capacity, acc, i) ==
  LET p == EvaluatePanel(acc.panels[i])
      ps == [acc.panels EXCEPT ![i] = p]
      others == Enabled(ps) \ {i}
      last == ps[LastOf(others)]
      equal == IF others = {} THEN i \in acc.duplicate ELSE last.cfg.id = p.cfg.id
      overlap == IF others = {} THEN i \in acc.overlap ELSE RangesIntersect(p.cfg, last.cfg)
      apart == IF others = {} THEN acc.valid /\ PanelValid(p) ELSE ~overlap
  IN IF p.cfg.enabled
     THEN [panels |-> ps, duplicate |-> Mark(acc.duplicate, i, equal),
           overlap |-> Mark(acc.overlap, i, overlap),
           valid |-> apart /\ \A c \in capacity : ~Above(Total(ps, others), c - 2)]
     ELSE [acc EXCEPT !.panels = ps, !.duplicate = Mark(@, i, FALSE),
                     !.overlap = Mark(@, i, FALSE)]

\* capacity is the set of the one card of the device, empty without a device.
evaluate(ps, marks, capacity) ==
  LET after[i \in 0 .. TargetCount] ==
        IF i = 0
        THEN [panels |-> ps, duplicate |-> marks.duplicate, overlap |-> marks.overlap,
              valid |-> TRUE]
        ELSE EvaluateTarget(capacity, after[i - 1], i)
      all == after[TargetCount]
  IN [all EXCEPT !.valid = @ /\ Enabled(all.panels) # {}]

----
(* Automatic start sectors. *)

\* A panel that takes part moves a sum and an index on, and gives the sum to the
\* panel at the index, which need not be the next.
AssignNext(taking, acc, i) ==
  LET at == acc.index + 1
      sum == acc.sum + acc.panels[i].cfg.sectors + 1
  IN IF i \notin taking THEN acc
     ELSE [index |-> at, sum |-> sum,
           panels |-> IF at < TargetCount /\ at + 1 \in taking
                      THEN [acc.panels EXCEPT ![at + 1].cfg.start = sum]
                      ELSE acc.panels]

AssignStarts(ps, taking) ==
  LET after[i \in 0 .. TargetCount] ==
        IF i = 0 THEN [index |-> 0, sum |-> 0, panels |-> ps]
        ELSE AssignNext(taking, after[i - 1], i)
  IN after[TargetCount].panels

autoButton(ps) == AssignStarts(ps, {i \in Enabled(ps) : ps[i].auto})

\* What loading defaults or a file does to a panel.
Shown(p, cfg) == [setTargetConfig(p, cfg) EXCEPT !.autoEnabled = cfg.enabled]

loadDefaults(ps) ==
  AssignStarts([i \in Targets |-> Shown(ps[i], defaultTargetConfig(i))], Targets)
====
