---------------------------- MODULE SettingsProofs ----------------------------
(****************************************************************************)
(* Settings for every number of targets, every card, file and history of    *)
(* edits: targets that the program placed share no sectors, what was saved  *)
(* is restored, and the alarms of the periodic check are real.              *)
(****************************************************************************)
EXTENDS Settings, WellFoundedInduction, TLAPS

-----------------------------------------------------------------------------
(* Loops. *)

\* Natural numbers, one after the other.
LEMMA Induction ==
  ASSUME NEW S, 0 \in S, \A n \in Nat : n \in S => n + 1 \in S
  PROVE  Nat \subseteq S
<1> DEFINE T == Nat \ S
           R == {ss \in Nat \X Nat : ss[1] < ss[2]}
<1> SUFFICES ASSUME T # {} PROVE FALSE
  OBVIOUS
<1>1. IsWellFoundedOn(R, Nat)
  BY NatLessThanWellFounded DEF OpToRel
<1>2. PICK x \in T : \A y \in T : ~(<<y, x>> \in R)
  <2> HIDE DEF R
  <2> QED BY <1>1, WFMin
<1>3. x # 0 /\ x - 1 \in Nat
  OBVIOUS
<1>4. <<x - 1, x>> \in R
  BY <1>3, SMT
<1>5. x - 1 \in S
  BY <1>2, <1>3, <1>4
<1> QED BY <1>3, <1>5

ParsedBy(f, flags, n) ==
  f = [k \in 0 .. n |-> IF k = 0 THEN defaultBoardConfig ELSE parseFlag(f[k - 1], flags[k])]

\* There is a function that the loop over the flags of a board computes.
LEMMA FlagsLoop ==
  ASSUME NEW flags, NEW n \in Nat
  PROVE  \E f : ParsedBy(f, flags, n)
<1> DEFINE Is(f, m) == ParsedBy(f, flags, m)
           S == {m \in Nat : \E f : Is(f, m)}
<1>1. 0 \in S
  <2>1. Is([k \in 0 .. 0 |-> defaultBoardConfig], 0)
    BY DEF ParsedBy
  <2> QED BY <2>1
<1>2. ASSUME NEW m \in Nat, m \in S PROVE m + 1 \in S
  <2>1. PICK f : Is(f, m)
    BY <1>2
  <2> DEFINE g == [k \in 0 .. m + 1 |-> IF k = m + 1 THEN parseFlag(f[m], flags[k]) ELSE f[k]]
  <2>2. Is(g, m + 1)
    <3>1. \A k \in 0 .. m + 1 : g[k] = IF k = 0 THEN defaultBoardConfig
                                       ELSE parseFlag(g[k - 1], flags[k])
      BY <2>1, SMT DEF ParsedBy
    <3> QED BY <3>1 DEF ParsedBy
  <2> HIDE DEF g, Is
  <2>3. \E h : Is(h, m + 1)
    BY <2>2
  <2> QED BY <2>3
<1>3. Nat \subseteq S
  <2> HIDE DEF S
  <2> QED BY <1>1, <1>2, Induction
<1> QED BY <1>3

CheckedBy(f, capacity, start, n) ==
  f = [k \in 0 .. n |-> IF k = 0 THEN start ELSE EvaluateTarget(capacity, f[k - 1], k)]

\* One that the check of all panels computes.
LEMMA CheckLoop ==
  ASSUME NEW capacity, NEW start, NEW n \in Nat
  PROVE  \E f : CheckedBy(f, capacity, start, n)
<1> DEFINE Is(f, m) == CheckedBy(f, capacity, start, m)
           S == {m \in Nat : \E f : Is(f, m)}
<1>1. 0 \in S
  <2>1. Is([k \in 0 .. 0 |-> start], 0)
    BY DEF CheckedBy
  <2> QED BY <2>1
<1>2. ASSUME NEW m \in Nat, m \in S PROVE m + 1 \in S
  <2>1. PICK f : Is(f, m)
    BY <1>2
  <2> DEFINE g == [k \in 0 .. m + 1 |-> IF k = m + 1 THEN EvaluateTarget(capacity, f[m], k) ELSE f[k]]
  <2>2. Is(g, m + 1)
    <3>1. \A k \in 0 .. m + 1 : g[k] = IF k = 0 THEN start
                                       ELSE EvaluateTarget(capacity, g[k - 1], k)
      BY <2>1, SMT DEF CheckedBy
    <3> QED BY <3>1 DEF CheckedBy
  <2> HIDE DEF g, Is
  <2>3. \E h : Is(h, m + 1)
    BY <2>2
  <2> QED BY <2>3
<1>3. Nat \subseteq S
  <2> HIDE DEF S
  <2> QED BY <1>1, <1>2, Induction
<1> QED BY <1>3

AssignedBy(f, taking, start, n) ==
  f = [k \in 0 .. n |-> IF k = 0 THEN start ELSE AssignNext(taking, f[k - 1], k)]

\* And one that the automatic starts compute.
LEMMA StartsLoop ==
  ASSUME NEW taking, NEW start, NEW n \in Nat
  PROVE  \E f : AssignedBy(f, taking, start, n)
<1> DEFINE Is(f, m) == AssignedBy(f, taking, start, m)
           S == {m \in Nat : \E f : Is(f, m)}
<1>1. 0 \in S
  <2>1. Is([k \in 0 .. 0 |-> start], 0)
    BY DEF AssignedBy
  <2> QED BY <2>1
<1>2. ASSUME NEW m \in Nat, m \in S PROVE m + 1 \in S
  <2>1. PICK f : Is(f, m)
    BY <1>2
  <2> DEFINE g == [k \in 0 .. m + 1 |-> IF k = m + 1 THEN AssignNext(taking, f[m], k) ELSE f[k]]
  <2>2. Is(g, m + 1)
    <3>1. \A k \in 0 .. m + 1 : g[k] = IF k = 0 THEN start
                                       ELSE AssignNext(taking, g[k - 1], k)
      BY <2>1, SMT DEF AssignedBy
    <3> QED BY <3>1 DEF AssignedBy
  <2> HIDE DEF g, Is
  <2>3. \E h : Is(h, m + 1)
    BY <2>2
  <2> QED BY <2>3
<1>3. Nat \subseteq S
  <2> HIDE DEF S
  <2> QED BY <1>1, <1>2, Induction
<1> QED BY <1>3

-----------------------------------------------------------------------------
(* Sizes. *)

\* What a unit stands for is a positive number of bytes.
LEMMA Factors == /\ \A u \in Units : FactorOf[u] \in Nat \ {0}
                 /\ {"GB", "MB", "KB"} = Units
<1>1. Kilo * Kilo \in Nat \ {0}
  BY PanelsAssumption
<1>2. Kilo * Kilo * Kilo \in Nat \ {0}
  BY <1>1, PanelsAssumption
<1> QED BY <1>1, <1>2, PanelsAssumption DEF Units, FactorOf

\* A rounded quotient, and the least multiple it is below.
LEMMA Quotients ==
  ASSUME NEW x \in Nat, NEW d \in Nat \ {0}
  PROVE  /\ x \div d \in Nat
         /\ (x \div d) * d <= x
         /\ x < (x \div d + 1) * d
         /\ \A k \in Nat : x <= k * d => x \div d <= k
<1> DEFINE q == x \div d
<1>1. q \in Int /\ q * d <= x /\ x < (q + 1) * d
  OBVIOUS
<1>2. q \in Nat
  <2> HIDE DEF q
  <2>1. ASSUME q < 0 PROVE FALSE
    <3>1. (q + 1) * d <= 0
      BY <1>1, <2>1
    <3> QED BY <3>1, <1>1
  <2> QED BY <1>1, <2>1
<1>3. ASSUME NEW k \in Nat, x <= k * d PROVE q <= k
  <2> HIDE DEF q
  <2>1. ASSUME q >= k + 1 PROVE FALSE
    <3>1. q * d >= (k + 1) * d
      BY <1>1, <2>1
    <3>2. (k + 1) * d = k * d + d
      OBVIOUS
    <3>3. q * d <= x
      BY <1>1
    <3>4. q * d \in Int /\ k * d \in Int
      BY <1>1
    <3> QED BY <3>1, <3>2, <3>3, <3>4, <1>3
  <2> QED BY <1>1, <2>1
<1> QED BY <1>1, <1>2, <1>3

\* What a configuration is made of, one member at a time.
LEMMA ConfigParts ==
  ASSUME NEW c \in TargetConfigs
  PROVE  /\ c.enabled \in BOOLEAN /\ c.id \in Nat /\ c.type \in Byte /\ c.modifier \in SomeByte
         /\ c.start \in Int /\ c.sectors \in Count /\ c.bytes \in Word
         /\ c.track \in Word /\ c.heads \in Word /\ c.text \in Names
         /\ c.quirks \subseteq Quirks \union {AnyQuirk}
         /\ DOMAIN c = {"enabled", "id", "type", "modifier", "start", "sectors", "bytes",
                        "track", "heads", "text", "quirks"}
  BY DEF TargetConfigs

\* The numbers of a target as numbers.
LEMMA ConfigNumbers ==
  ASSUME NEW c \in TargetConfigs
  PROVE  /\ c.sectors \in Int /\ c.sectors >= -2 * FactorOf["GB"]
         /\ c.bytes \in Nat /\ c.bytes <= 65535
         /\ c.track \in Nat /\ c.track <= 65535
         /\ c.start \in Int /\ c.id \in Nat
<1>1. /\ c.start \in Int /\ c.sectors \in Count /\ c.bytes \in Word
      /\ c.track \in Word /\ c.id \in Nat
  BY ConfigParts
<1>2. \A n \in Word : n \in Nat /\ n <= 65535
  BY DEF Word
<1>3. \A n \in Count : n \in Int /\ n >= -2 * FactorOf["GB"]
  BY DEF Count
<1> QED BY <1>1, <1>2, <1>3

\* The members of a panel.
LEMMA PanelParts ==
  ASSUME NEW p \in Panels
  PROVE  /\ p.cfg \in TargetConfigs /\ p.size \in Nat /\ p.unit \in Units
         /\ p.auto \in BOOLEAN /\ p.autoEnabled \in BOOLEAN /\ p.editable \in BOOLEAN
  BY DEF Panels

Sized(p) == p.cfg.sectors >= 0 /\ p.cfg.bytes > 0
              => p.size * FactorOf[p.unit] <= (p.cfg.sectors + 1) * p.cfg.bytes

\* Showing the size of a panel leaves the rest of it, and the size goes with the count.
LEMMA SizeShown ==
  ASSUME NEW p \in Panels
  PROVE  LET q == evaluateSize(p)
         IN /\ q \in Panels /\ Sized(q)
            /\ q.cfg = p.cfg
            /\ q.auto = p.auto /\ q.autoEnabled = p.autoEnabled /\ q.editable = p.editable
<1> DEFINE count == p.cfg.sectors + 1
           all == count * p.cfg.bytes
           unit == IF all >= FactorOf["GB"] THEN "GB"
                   ELSE IF all >= FactorOf["MB"] THEN "MB" ELSE "KB"
           q == [p EXCEPT !.size = all \div FactorOf[unit], !.unit = unit]
<1>1. p.cfg \in TargetConfigs /\ p.cfg.sectors \in Int /\ p.cfg.bytes \in Nat /\ p.unit \in Units
  BY PanelParts, ConfigNumbers
<1>2. CASE count > 0
  <2>1. all \in Nat
    <3>1. count \in Nat /\ p.cfg.bytes \in Nat
      BY <1>1, <1>2
    <3> HIDE DEF count
    <3> QED BY <3>1
  <2>2. unit \in Units /\ FactorOf[unit] \in Nat \ {0}
    BY Factors
  <2>3. all \div FactorOf[unit] \in Nat /\ (all \div FactorOf[unit]) * FactorOf[unit] <= all
    <3> HIDE DEF all, unit
    <3> QED BY <2>1, <2>2, Quotients
  <2>4. evaluateSize(p) = q
    BY <1>2 DEF evaluateSize
  <2>5. /\ q \in Panels /\ q.cfg = p.cfg
        /\ q.auto = p.auto /\ q.autoEnabled = p.autoEnabled /\ q.editable = p.editable
        /\ q.size = all \div FactorOf[unit] /\ q.unit = unit
    <3> HIDE DEF all, unit
    <3> QED BY <2>2, <2>3 DEF Panels
  <2>6. Sized(q)
    <3> HIDE DEF q
    <3> QED BY <2>3, <2>5 DEF Sized
  <2> HIDE DEF q
  <2> QED BY <2>4, <2>5, <2>6
<1>3. CASE ~(count > 0)
  BY <1>1, <1>3 DEF evaluateSize, Sized
<1> HIDE DEF count
<1> QED BY <1>2, <1>3

\* The GB of a count, as the program computes them of the number without sign.
LEMMA GigaShown ==
  ASSUME NEW c \in TargetConfigs
  PROVE  (IF c.sectors < 0 THEN 4 * c.bytes ELSE 0) + (c.sectors * c.bytes) \div FactorOf["GB"]
           \in Nat
<1> DEFINE g == FactorOf["GB"]
           x == c.sectors * c.bytes
<1>1. g \in Nat \ {0} /\ c.sectors \in Int /\ c.bytes \in Nat /\ c.sectors >= -2 * g
  BY Factors, ConfigNumbers DEF Units
<1> DEFINE n == c.sectors
           b == c.bytes
<1>2. n \in Int /\ b \in Nat /\ g \in Nat \ {0} /\ n >= -2 * g
  BY <1>1
<1> HIDE DEF n, b, g
<1>3. CASE n >= 0
  <2>1. n * b \in Nat
    BY <1>2, <1>3
  <2> QED BY <2>1, <1>2, <1>3, Quotients DEF n, b, g
<1>4. CASE n < 0
  <2> DEFINE q == (n * b) \div g
  <2>1. q \in Int /\ n * b < (q + 1) * g /\ n * b \in Int
    BY <1>2
  <2> HIDE DEF q
  <2>2. n * b >= (-2 * g) * b
    BY <1>2
  <2>3. ASSUME q < -2 * b PROVE FALSE
    <3>1. q + 1 <= -2 * b
      BY <2>1, <2>3, <1>2
    <3>2. (q + 1) * g <= (-2 * b) * g
      BY <3>1, <2>1, <1>2
    <3>3. (-2 * b) * g = (-2 * g) * b
      BY <1>2
    <3>4. (q + 1) * g \in Int /\ (-2 * g) * b \in Int
      BY <1>2, <2>1
    <3> QED BY <3>2, <3>3, <3>4, <2>1, <2>2
  <2>4. 4 * b + q \in Nat
    BY <2>1, <2>3, <1>2
  <2> QED BY <2>4, <1>4 DEF q, n, b, g
<1> QED BY <1>2, <1>3, <1>4

\* A panel that is given a configuration shows it.
LEMMA ConfigSet ==
  ASSUME NEW p \in Panels, NEW c \in TargetConfigs
  PROVE  LET q == setTargetConfig(p, c)
         IN /\ q \in Panels /\ Sized(q)
            /\ q.cfg = c
            /\ q.auto = p.auto /\ q.autoEnabled = p.autoEnabled /\ q.editable = p.editable
<1> DEFINE size == (IF c.sectors < 0 THEN 4 * c.bytes ELSE 0)
                   + (c.sectors * c.bytes) \div FactorOf["GB"]
           r == [p EXCEPT !.cfg = c, !.size = size]
<1>1. size \in Nat
  BY GigaShown
<1>2. /\ r \in Panels /\ r.cfg = c
      /\ r.auto = p.auto /\ r.autoEnabled = p.autoEnabled /\ r.editable = p.editable
  <2> HIDE DEF size
  <2> QED BY <1>1 DEF Panels
<1>3. setTargetConfig(p, c) = evaluateSize(r)
  BY DEF setTargetConfig
<1> HIDE DEF r
<1> QED BY <1>2, <1>3, SizeShown

\* So does one that defaults or a file give it.
LEMMA ShownIs ==
  ASSUME NEW p \in Panels, NEW c \in TargetConfigs
  PROVE  /\ Shown(p, c) \in Panels /\ Sized(Shown(p, c))
         /\ Shown(p, c).cfg = c /\ Shown(p, c).auto = p.auto
<1> DEFINE q == setTargetConfig(p, c)
<1>1. /\ q \in Panels /\ Sized(q) /\ q.cfg = c /\ q.auto = p.auto
  BY ConfigSet
<1>2. Shown(p, c) = [q EXCEPT !.autoEnabled = c.enabled]
  BY DEF Shown
<1>3. c.enabled \in BOOLEAN
  BY ConfigParts
<1> HIDE DEF q
<1> QED BY <1>1, <1>2, <1>3 DEF Panels, Sized

\* One member of a configuration set anew.
LEMMA ConfigChanged ==
  ASSUME NEW c \in TargetConfigs
  PROVE  /\ \A v \in BOOLEAN : [c EXCEPT !.enabled = v] \in TargetConfigs
         /\ \A v \in Nat : [c EXCEPT !.id = v] \in TargetConfigs
         /\ \A v \in Byte : [c EXCEPT !.type = v] \in TargetConfigs
         /\ \A v \in Names : [c EXCEPT !.text = v] \in TargetConfigs
         /\ \A v \in Int : [c EXCEPT !.start = v] \in TargetConfigs
         /\ \A v \in Word : [c EXCEPT !.bytes = v] \in TargetConfigs
         /\ \A v \in Word : [c EXCEPT !.track = v] \in TargetConfigs
         /\ \A v \in Count : [c EXCEPT !.sectors = v] \in TargetConfigs
  BY DEF TargetConfigs

\* Numbers that are written in the code have the types of the members they go to.
LEMMA Numbers == /\ \A n \in Nat : n \in Count
                 /\ -1 \in Count
                 /\ \A n \in Nat : n <= 65535 => n \in Word
                 /\ \A n \in Nat : n <= 255 => n \in Byte
<1>1. FactorOf["GB"] \in Nat \ {0}
  BY Factors DEF Units
<1>2. -2 * FactorOf["GB"] <= -1 /\ -2 * FactorOf["GB"] \in Int
  <2> DEFINE g == FactorOf["GB"]
  <2> HIDE DEF g
  <2>1. g \in Nat \ {0} => -2 * g <= -1 /\ -2 * g \in Int
    OBVIOUS
  <2> QED BY <1>1, <2>1 DEF g
<1>3. \A n \in Nat : n >= -2 * FactorOf["GB"]
  BY <1>2
<1>4. \A n \in Int : n >= -2 * FactorOf["GB"] => n \in Count
  BY DEF Count
<1>5. \A n \in Nat : n \in Count
  BY <1>3, <1>4
<1>6. -1 \in Count
  BY <1>2, <1>4
<1>7. \A n \in Nat : n <= 65535 => n \in Word
  BY DEF Word
<1>8. \A n \in Nat : n <= 255 => n \in Byte
  BY DEF Byte
<1> QED BY <1>5, <1>6, <1>7, <1>8

\* Configurations, and panels, with the same members are the same.
LEMMA ConfigEqual ==
  ASSUME NEW c \in TargetConfigs, NEW d \in TargetConfigs,
         \A m \in DOMAIN c : c[m] = d[m]
  PROVE  c = d
  BY DEF TargetConfigs

LEMMA PanelEqual ==
  ASSUME NEW p \in Panels, NEW q \in Panels,
         p.cfg = q.cfg, p.size = q.size, p.unit = q.unit,
         p.auto = q.auto, p.autoEnabled = q.autoEnabled, p.editable = q.editable
  PROVE  p = q
  BY DEF Panels

FloppyConfig(c) == [c EXCEPT !.bytes = 512, !.sectors = FloppySectors]

\* What the check of a panel makes of a floppy.
LEMMA FloppyTyped ==
  ASSUME NEW c \in TargetConfigs
  PROVE  /\ FloppyConfig(c) \in TargetConfigs
         /\ FloppyConfig(c).bytes = 512 /\ FloppyConfig(c).sectors = 2880
         /\ FloppyConfig(c).enabled = c.enabled /\ FloppyConfig(c).id = c.id
         /\ FloppyConfig(c).start = c.start /\ FloppyConfig(c).type = c.type
         /\ c.bytes = 512 /\ c.sectors = 2880 => FloppyConfig(c) = c
<1>1. 512 \in Word /\ 2880 \in Count
  BY Numbers
<1> DEFINE b == [c EXCEPT !.bytes = 512]
<1>2. b \in TargetConfigs /\ b.bytes = 512
      /\ \A m \in DOMAIN c \ {"bytes"} : b[m] = c[m]
  BY <1>1 DEF TargetConfigs
<1>3. FloppyConfig(c) = [b EXCEPT !.sectors = 2880]
  BY DEF FloppyConfig, FloppySectors
<1> HIDE DEF b
<1>4. /\ FloppyConfig(c) \in TargetConfigs
      /\ FloppyConfig(c).sectors = 2880
      /\ \A m \in DOMAIN b \ {"sectors"} : FloppyConfig(c)[m] = b[m]
  BY <1>1, <1>2, <1>3 DEF TargetConfigs
<1>5. DOMAIN b = DOMAIN c /\ {"bytes", "sectors", "enabled", "id", "start", "type"} \subseteq DOMAIN c
  BY <1>2, ConfigParts
<1>6. \A m \in DOMAIN c \ {"bytes", "sectors"} : FloppyConfig(c)[m] = c[m]
  BY <1>2, <1>4, <1>5
<1>7. FloppyConfig(c).bytes = 512
  BY <1>2, <1>4, <1>5
<1>8. ASSUME c.bytes = 512, c.sectors = 2880 PROVE FloppyConfig(c) = c
  <2>1. \A m \in DOMAIN c : c[m] = FloppyConfig(c)[m]
    BY <1>4, <1>6, <1>7, <1>8
  <2> QED BY <1>4, <2>1, ConfigEqual
<1> QED BY <1>4, <1>5, <1>6, <1>7, <1>8

FloppyPanel(p) == [p EXCEPT !.cfg = FloppyConfig(@), !.editable = FALSE]

\* The check of a panel, member by member.
LEMMA EvaluateFloppy ==
  ASSUME NEW p \in Panels
  PROVE  /\ FloppyPanel(p) \in Panels
         /\ FloppyPanel(p).cfg = FloppyConfig(p.cfg) /\ FloppyPanel(p).editable = FALSE
         /\ FloppyPanel(p).auto = p.auto /\ FloppyPanel(p).autoEnabled = p.autoEnabled
         /\ FloppyPanel(p).size = p.size /\ FloppyPanel(p).unit = p.unit
         /\ EvaluatePanel(p) = IF p.cfg.type = Floppy THEN evaluateSize(FloppyPanel(p)) ELSE p
<1>1. FloppyConfig(p.cfg) \in TargetConfigs
  BY PanelParts, FloppyTyped
<1>2. EvaluatePanel(p) = IF p.cfg.type = Floppy THEN evaluateSize(FloppyPanel(p)) ELSE p
  BY DEF EvaluatePanel, FloppyPanel, FloppyConfig
<1> QED BY <1>1, <1>2 DEF FloppyPanel, Panels

\* It leaves everything that is not a size as it is.
LEMMA Evaluated ==
  ASSUME NEW p \in Panels
  PROVE  LET q == EvaluatePanel(p)
         IN /\ q \in Panels
            /\ Sized(p) => Sized(q)
            /\ q.auto = p.auto /\ q.autoEnabled = p.autoEnabled
            /\ q.cfg.enabled = p.cfg.enabled /\ q.cfg.id = p.cfg.id
            /\ q.cfg.start = p.cfg.start /\ q.cfg.type = p.cfg.type
            /\ p.cfg.type # Floppy => q = p
            /\ p.cfg.type = Floppy => ~q.editable
<1>1. CASE p.cfg.type = Floppy
  <2> DEFINE f == FloppyPanel(p)
             q == EvaluatePanel(p)
  <2>1. p.cfg \in TargetConfigs
    BY PanelParts
  <2>2. /\ f \in Panels /\ f.cfg = FloppyConfig(p.cfg) /\ f.editable = FALSE
        /\ f.auto = p.auto /\ f.autoEnabled = p.autoEnabled
        /\ q = evaluateSize(f)
    BY <1>1, EvaluateFloppy
  <2>3. /\ f.cfg.enabled = p.cfg.enabled /\ f.cfg.id = p.cfg.id
        /\ f.cfg.start = p.cfg.start /\ f.cfg.type = p.cfg.type
    BY <2>1, <2>2, FloppyTyped
  <2> HIDE DEF f, q
  <2>4. /\ q \in Panels /\ Sized(q) /\ q.cfg = f.cfg
        /\ q.auto = f.auto /\ q.autoEnabled = f.autoEnabled /\ q.editable = f.editable
    BY <2>2, SizeShown
  <2> QED BY <1>1, <2>2, <2>3, <2>4 DEF q
<1>2. CASE p.cfg.type # Floppy
  BY <1>2, EvaluateFloppy
<1> QED BY <1>1, <1>2

-----------------------------------------------------------------------------
(* A panel that checking leaves as it is. *)

Settled(p) == EvaluatePanel(p) = p

\* A panel whose size can be edited and which the check leaves alone is no floppy.
LEMMA Unsettled ==
  ASSUME NEW p \in Panels, Settled(p), p.editable
  PROVE  p.cfg.type # Floppy
  BY Evaluated DEF Settled

\* What evaluateSize shows of a floppy.
FloppyUnit == LET all == (2880 + 1) * 512
              IN IF all >= FactorOf["GB"] THEN "GB"
                 ELSE IF all >= FactorOf["MB"] THEN "MB" ELSE "KB"
FloppySize == ((2880 + 1) * 512) \div FactorOf[FloppyUnit]

\* All floppies show the same size.
LEMMA SizeOfFloppy ==
  ASSUME NEW p \in Panels, p.cfg.bytes = 512, p.cfg.sectors = 2880
  PROVE  evaluateSize(p).size = FloppySize /\ evaluateSize(p).unit = FloppyUnit
<1>1. evaluateSize(p) = [p EXCEPT !.size = FloppySize, !.unit = FloppyUnit]
  BY DEF evaluateSize, FloppySize, FloppyUnit
<1> QED BY <1>1 DEF Panels

\* Whether the check leaves a panel alone depends on these members only.
LEMMA StaysSettled ==
  ASSUME NEW p \in Panels, NEW q \in Panels, Settled(p),
         q.cfg.type = p.cfg.type, q.cfg.bytes = p.cfg.bytes, q.cfg.sectors = p.cfg.sectors,
         q.size = p.size, q.unit = p.unit, q.editable = p.editable
  PROVE  Settled(q)
<1>1. CASE p.cfg.type # Floppy
  BY <1>1, Evaluated DEF Settled
<1>2. CASE p.cfg.type = Floppy
  <2>2. p.cfg \in TargetConfigs /\ q.cfg \in TargetConfigs /\ q.editable \in BOOLEAN
    BY PanelParts
  <2> DEFINE f == FloppyPanel(p)
  <2>3. f \in Panels /\ f.cfg.bytes = 512 /\ f.cfg.sectors = 2880 /\ f.editable = FALSE
    <3>1. f \in Panels /\ f.cfg = FloppyConfig(p.cfg) /\ f.editable = FALSE
      BY EvaluateFloppy
    <3>2. FloppyConfig(p.cfg).bytes = 512 /\ FloppyConfig(p.cfg).sectors = 2880
      BY <2>2, FloppyTyped
    <3> QED BY <3>1, <3>2
  <2>4. p = evaluateSize(f)
    BY <1>2, EvaluateFloppy DEF Settled
  <2>5. p.cfg = f.cfg /\ p.editable = FALSE /\ p.size = FloppySize /\ p.unit = FloppyUnit
    <3> HIDE DEF f
    <3> QED BY <2>3, <2>4, SizeShown, SizeOfFloppy
  <2>6. q.cfg.bytes = 512 /\ q.cfg.sectors = 2880 /\ q.editable = FALSE
        /\ q.size = FloppySize /\ q.unit = FloppyUnit
    BY <2>3, <2>5
  <2>7. FloppyPanel(q) = q
    <3> DEFINE g == FloppyPanel(q)
    <3>1. /\ g \in Panels /\ g.cfg = FloppyConfig(q.cfg) /\ g.editable = FALSE
          /\ g.auto = q.auto /\ g.autoEnabled = q.autoEnabled
          /\ g.size = q.size /\ g.unit = q.unit
      BY EvaluateFloppy
    <3>2. FloppyConfig(q.cfg) = q.cfg
      BY <2>2, <2>6, FloppyTyped
    <3> HIDE DEF g
    <3>3. g.cfg = q.cfg
      BY <3>1, <3>2
    <3>4. g.editable = q.editable
      BY <2>2, <2>6, <3>1, PanelParts
    <3>5. g = q
      BY <3>1, <3>3, <3>4, PanelEqual, Zenon
    <3> QED BY <3>5 DEF g
  <2>8. evaluateSize(q) = q
    <3> DEFINE g == evaluateSize(q)
    <3>1. /\ g \in Panels /\ g.cfg = q.cfg /\ g.editable = q.editable
          /\ g.auto = q.auto /\ g.autoEnabled = q.autoEnabled
      BY SizeShown
    <3>2. g.size = q.size /\ g.unit = q.unit
      BY <2>6, SizeOfFloppy
    <3> HIDE DEF g
    <3>3. g = q
      BY <3>1, <3>2, PanelEqual, Zenon
    <3> QED BY <3>3 DEF g
  <2> QED BY <1>2, <2>7, <2>8, EvaluateFloppy DEF Settled
<1> QED BY <1>1, <1>2

\* The sectors of a size that is typed in or whose unit is chosen.
LEMMA Converted ==
  ASSUME NEW p \in Panels, NEW c \in convertUnitsToSectors(p)
  PROVE  /\ c \in Count
         /\ p.cfg.bytes > 0 =>
              /\ c \in Nat
              /\ p.size * FactorOf[p.unit] <= (c + 1) * p.cfg.bytes
              /\ \A k \in Nat : p.size * FactorOf[p.unit] <= k * p.cfg.bytes => c <= k
<1>1. p.cfg.bytes \in Nat /\ p.size \in Nat /\ FactorOf[p.unit] \in Nat
  BY PanelParts, ConfigNumbers, Factors
<1>2. CASE p.cfg.bytes = 0
  <2>1. c \in {0, -1}
    BY <1>2 DEF convertUnitsToSectors
  <2>2. c \in Count
    BY <2>1, Numbers
  <2> QED BY <1>2, <2>2
<1>3. CASE p.cfg.bytes # 0
  <2> DEFINE x == p.size * FactorOf[p.unit]
             d == p.cfg.bytes
  <2>1. c = x \div d
    BY <1>3 DEF convertUnitsToSectors
  <2>2. d \in Nat \ {0}
    BY <1>1, <1>3
  <2>3. x \in Nat
    <3> DEFINE f == FactorOf[p.unit]
               n == p.size
    <3>1. f \in Nat /\ n \in Nat
      BY <1>1
    <3> HIDE DEF f, n
    <3> QED BY <3>1 DEF f, n
  <2> HIDE DEF x, d
  <2>4. c \in Nat /\ x < (c + 1) * d /\ \A k \in Nat : x <= k * d => c <= k
    BY <2>1, <2>2, <2>3, Quotients
  <2>5. c \in Count
    BY <2>4, Numbers
  <2>6. x <= (c + 1) * d
    BY <2>2, <2>3, <2>4
  <2> QED BY <2>4, <2>5, <2>6 DEF x, d
<1> QED BY <1>1, <1>2, <1>3

-----------------------------------------------------------------------------
(* The check of all panels. *)

\* A set of targets has a last one.
LEMMA Greatest ==
  ASSUME NEW m \in Nat, NEW T, T \subseteq 1 .. m, T # {}
  PROVE  \E j \in T : \A k \in T : k <= j
<1> DEFINE S == {n \in Nat : \A U \in SUBSET (1 .. n) : U # {} => \E j \in U : \A k \in U : k <= j}
<1>1. 0 \in S
  <2>1. \A U \in SUBSET (1 .. 0) : U = {}
    OBVIOUS
  <2> QED BY <2>1
<1>2. ASSUME NEW n \in Nat, n \in S PROVE n + 1 \in S
  <2>1. ASSUME NEW U \in SUBSET (1 .. n + 1), U # {} PROVE \E j \in U : \A k \in U : k <= j
    <3>1. CASE n + 1 \in U
      BY <3>1
    <3>2. CASE n + 1 \notin U
      <4>1. U \in SUBSET (1 .. n)
        BY <3>2
      <4> QED BY <4>1, <1>2, <2>1
    <3> QED BY <3>1, <3>2
  <2> QED BY <2>1
<1>3. m \in S
  <2> HIDE DEF S
  <2> QED BY <1>1, <1>2, Induction
<1> QED BY <1>3

\* LastOf is that one.
LEMMA LastOfIs ==
  ASSUME NEW T \in SUBSET Targets, T # {}
  PROVE  LastOf(T) \in T /\ \A k \in T : k <= LastOf(T)
<1>1. \E j \in T : \A k \in T : k <= j
  BY Greatest, ConfigAssumption DEF Targets
<1> QED BY <1>1 DEF LastOf

\* And no other.
LEMMA LastOfOnly ==
  ASSUME NEW T \in SUBSET Targets, NEW j \in T, \A k \in T : k <= j
  PROVE  LastOf(T) = j
<1>1. LastOf(T) \in T /\ j <= LastOf(T)
  BY LastOfIs
<1>2. \A k \in Targets : k \in Int
  BY ConfigAssumption DEF Targets
<1>3. LastOf(T) \in Int /\ j \in Int /\ LastOf(T) <= j
  BY <1>1, <1>2
<1> QED BY <1>1, <1>3

Marks == [duplicate : SUBSET Targets, overlap : SUBSET Targets]

\* What the loop of the check has done up to target k: the panels, who is said
\* to share an ID or sectors, and what it thinks of the whole.
Half(ps, k) == [i \in Targets |-> IF i <= k THEN EvaluatePanel(ps[i]) ELSE ps[i]]

Others(ps, i) == Enabled(ps) \ {i}

Duplicate(ps, marks0) ==
  {i \in Enabled(ps) :
     IF Others(ps, i) = {} THEN i \in marks0.duplicate
     ELSE Half(ps, i)[LastOf(Others(ps, i))].cfg.id = Half(ps, i)[i].cfg.id}

Overlap(ps, marks0) ==
  {i \in Enabled(ps) :
     IF Others(ps, i) = {} THEN i \in marks0.overlap
     ELSE RangesIntersect(Half(ps, i)[i].cfg, Half(ps, i)[LastOf(Others(ps, i))].cfg)}

Verdict(ps, marks0, capacity, i) ==
  /\ IF Others(ps, i) = {} THEN PanelValid(Half(ps, i)[i]) ELSE i \notin Overlap(ps, marks0)
  /\ \A c \in capacity : ~Above(Total(Half(ps, i), Others(ps, i)), c - 2)

SoFar(ps, k) == Enabled(ps) \cap (1 .. k)

\* Up to k the new ones, then the old ones.
Patched(old, new, k) == {i \in Targets : IF i <= k THEN i \in new ELSE i \in old}

Checked(ps, marks0, capacity, k) ==
  [panels |-> Half(ps, k),
   duplicate |-> Patched(marks0.duplicate, Duplicate(ps, marks0), k),
   overlap |-> Patched(marks0.overlap, Overlap(ps, marks0), k),
   valid |-> SoFar(ps, k) # {} => Verdict(ps, marks0, capacity, LastOf(SoFar(ps, k)))]

\* The panels when the loop has come to target k.
LEMMA HalfIs ==
  ASSUME NEW ps \in [Targets -> Panels], NEW k \in 0 .. TargetCount
  PROVE  /\ Half(ps, k) \in [Targets -> Panels]
         /\ Enabled(Half(ps, k)) = Enabled(ps)
         /\ \A i \in Targets : /\ Half(ps, k)[i].cfg.id = ps[i].cfg.id
                               /\ i <= k => Half(ps, k)[i] = EvaluatePanel(ps[i])
                               /\ ~(i <= k) => Half(ps, k)[i] = ps[i]
<1>1. \A i \in Targets : Half(ps, k)[i] = IF i <= k THEN EvaluatePanel(ps[i]) ELSE ps[i]
  BY DEF Half
<1>2. \A i \in Targets : /\ Half(ps, k)[i] \in Panels
                         /\ Half(ps, k)[i].cfg.enabled = ps[i].cfg.enabled
                         /\ Half(ps, k)[i].cfg.id = ps[i].cfg.id
  BY <1>1, Evaluated
<1>3. Half(ps, k) \in [Targets -> Panels]
  BY <1>2 DEF Half
<1>4. Enabled(Half(ps, k)) = Enabled(ps)
  BY <1>2 DEF Enabled
<1> QED BY <1>1, <1>2, <1>3, <1>4

\* One panel further.
LEMMA HalfNext ==
  ASSUME NEW ps \in [Targets -> Panels], NEW i \in Targets
  PROVE  [Half(ps, i - 1) EXCEPT ![i] = EvaluatePanel(Half(ps, i - 1)[i])] = Half(ps, i)
<1>1. i \in Int /\ \A j \in Targets : j \in Int
  BY DEF Targets
<1>2. Half(ps, i - 1)[i] = ps[i]
  BY <1>1 DEF Half
<1>3. \A j \in Targets : j # i => (j <= i - 1 <=> j <= i)
  BY <1>1
<1> DEFINE h == Half(ps, i - 1)
           g == [h EXCEPT ![i] = EvaluatePanel(h[i])]
<1>4. DOMAIN g = Targets /\ g[i] = EvaluatePanel(ps[i])
      /\ \A j \in Targets : j # i => g[j] = h[j]
  BY <1>2 DEF Half
<1>5. \A j \in Targets : g[j] = Half(ps, i)[j]
  BY <1>1, <1>3, <1>4 DEF Half
<1>6. g = [j \in Targets |-> g[j]] /\ Half(ps, i) = [j \in Targets |-> Half(ps, i)[j]]
  BY DEF Half
<1> HIDE DEF g
<1>7. g = Half(ps, i)
  BY <1>5, <1>6, Zenon
<1> QED BY <1>7 DEF g

\* One mark further.
LEMMA PatchedNext ==
  ASSUME NEW old, NEW new, NEW i \in Targets, NEW mark \in BOOLEAN, mark <=> i \in new
  PROVE  Mark(Patched(old, new, i - 1), i, mark) = Patched(old, new, i)
<1>1. i \in Int /\ \A j \in Targets : j \in Int
  BY ConfigAssumption DEF Targets
<1>2. \A j \in Targets : j # i => (j <= i - 1 <=> j <= i)
  BY <1>1
<1>3. ASSUME NEW j
      PROVE  j \in Mark(Patched(old, new, i - 1), i, mark) <=> j \in Patched(old, new, i)
  <2>1. CASE j = i
    BY <1>1, <2>1 DEF Mark, Patched
  <2>2. CASE j # i
    BY <1>1, <1>2, <2>2 DEF Mark, Patched
  <2> QED BY <2>1, <2>2
<1> QED BY <1>3

\* One turn of the loop.
LEMMA CheckStep ==
  ASSUME NEW ps \in [Targets -> Panels], NEW marks0 \in Marks, NEW capacity, NEW i \in Targets
  PROVE  EvaluateTarget(capacity, Checked(ps, marks0, capacity, i - 1), i)
           = Checked(ps, marks0, capacity, i)
<1> DEFINE acc == Checked(ps, marks0, capacity, i - 1)
           next == Checked(ps, marks0, capacity, i)
           h == Half(ps, i)
           on == Enabled(ps)
           others == Others(ps, i)
           equal == IF others = {} THEN i \in acc.duplicate
                    ELSE h[LastOf(others)].cfg.id = h[i].cfg.id
           overlap == IF others = {} THEN i \in acc.overlap
                      ELSE RangesIntersect(h[i].cfg, h[LastOf(others)].cfg)
           apart == IF others = {} THEN acc.valid /\ PanelValid(h[i]) ELSE ~overlap
           fits == \A c \in capacity : ~Above(Total(h, others), c - 2)
           dup == Duplicate(ps, marks0)
           over == Overlap(ps, marks0)
           verdict(k) == SoFar(ps, k) # {} => Verdict(ps, marks0, capacity, LastOf(SoFar(ps, k)))
<1>1. /\ i \in Int /\ i - 1 \in 0 .. TargetCount /\ i \in 0 .. TargetCount
      /\ \A j \in Targets : j \in Int
  BY ConfigAssumption DEF Targets
<1>2. /\ acc.panels = Half(ps, i - 1)
      /\ acc.duplicate = Patched(marks0.duplicate, dup, i - 1)
      /\ acc.overlap = Patched(marks0.overlap, over, i - 1)
      /\ acc.valid = verdict(i - 1)
      /\ acc = [panels |-> acc.panels, duplicate |-> acc.duplicate, overlap |-> acc.overlap,
                valid |-> acc.valid]
  BY DEF Checked
<1>3. /\ next.panels = h
      /\ next.duplicate = Patched(marks0.duplicate, dup, i)
      /\ next.overlap = Patched(marks0.overlap, over, i)
      /\ next.valid = verdict(i)
      /\ next = [panels |-> next.panels, duplicate |-> next.duplicate, overlap |-> next.overlap,
                 valid |-> next.valid]
  BY DEF Checked
<1>4. /\ [acc.panels EXCEPT ![i] = EvaluatePanel(acc.panels[i])] = h
      /\ EvaluatePanel(acc.panels[i]) = h[i]
  <2>1. EvaluatePanel(Half(ps, i - 1)[i]) = h[i]
    BY <1>1 DEF Half
  <2> QED BY <1>2, <2>1, HalfNext
<1>5. Enabled(h) = on /\ Enabled(h) \ {i} = others /\ (h[i].cfg.enabled <=> i \in on)
  BY <1>1, HalfIs DEF Others, Enabled
<1>6. i \in acc.duplicate <=> i \in marks0.duplicate
  BY <1>1, <1>2 DEF Patched
<1>7. i \in acc.overlap <=> i \in marks0.overlap
  BY <1>1, <1>2 DEF Patched
<1>a. equal \in BOOLEAN
  <2>1. CASE others = {}
    BY <2>1
  <2>2. CASE others # {}
    BY <2>2
  <2> QED BY <2>1, <2>2
<1>b. overlap \in BOOLEAN
  <2>1. RangesIntersect(h[i].cfg, h[LastOf(others)].cfg) \in BOOLEAN
    BY DEF RangesIntersect
  <2>2. CASE others = {}
    BY <2>2
  <2>3. CASE others # {}
    <3> HIDE DEF others, h
    <3> QED BY <2>1, <2>3
  <2> QED BY <2>2, <2>3
<1>c. ASSUME i \in on PROVE equal <=> i \in dup
  <2>1. i \in dup <=> IF others = {} THEN i \in marks0.duplicate
                      ELSE h[LastOf(others)].cfg.id = h[i].cfg.id
    BY <1>c DEF Duplicate
  <2> HIDE DEF others, h, acc, dup
  <2> QED BY <1>6, <2>1
<1>d. ASSUME i \in on PROVE overlap <=> i \in over
  <2>1. i \in over <=> IF others = {} THEN i \in marks0.overlap
                       ELSE RangesIntersect(h[i].cfg, h[LastOf(others)].cfg)
    BY <1>d DEF Overlap
  <2> HIDE DEF others, h, acc, over
  <2> QED BY <1>7, <2>1
<1>8. EvaluateTarget(capacity, acc, i)
        = IF h[i].cfg.enabled
          THEN [panels |-> h, duplicate |-> Mark(acc.duplicate, i, equal),
                overlap |-> Mark(acc.overlap, i, overlap), valid |-> apart /\ fits]
          ELSE [acc EXCEPT !.panels = h, !.duplicate = Mark(@, i, FALSE),
                           !.overlap = Mark(@, i, FALSE)]
  <2> HIDE DEF acc, h, on, others
  <2> QED BY <1>4, <1>5 DEF EvaluateTarget
<1>9. ASSUME i \notin on PROVE SoFar(ps, i) = SoFar(ps, i - 1)
  BY <1>1, <1>9 DEF SoFar
<1>10. ASSUME i \in on PROVE SoFar(ps, i) # {} /\ LastOf(SoFar(ps, i)) = i
  <2>1. i \in SoFar(ps, i) /\ SoFar(ps, i) \in SUBSET Targets /\ \A k \in SoFar(ps, i) : k <= i
    BY <1>1, <1>10 DEF SoFar, Enabled, Targets
  <2> QED BY <2>1, LastOfOnly
<1>11. ASSUME i \in on PROVE (apart /\ fits) <=> Verdict(ps, marks0, capacity, i)
  <2>1. CASE others = {}
    <3>1. SoFar(ps, i - 1) = {}
      BY <1>1, <2>1 DEF SoFar, Others
    <3> QED BY <1>2, <2>1, <3>1 DEF Verdict
  <2>2. CASE others # {}
    BY <1>d, <1>11, <2>2 DEF Verdict
  <2> QED BY <2>1, <2>2
<1>12. CASE i \in on
  <2>1. EvaluateTarget(capacity, acc, i)
          = [panels |-> h, duplicate |-> Mark(acc.duplicate, i, equal),
             overlap |-> Mark(acc.overlap, i, overlap), valid |-> apart /\ fits]
    <3> HIDE DEF equal, overlap, apart, fits, acc, h
    <3> QED BY <1>5, <1>8, <1>12
  <2>2. Mark(acc.duplicate, i, equal) = next.duplicate
    <3> HIDE DEF equal, dup
    <3> QED BY <1>2, <1>3, <1>a, <1>c, <1>12, PatchedNext
  <2>3. Mark(acc.overlap, i, overlap) = next.overlap
    <3> HIDE DEF overlap, over
    <3> QED BY <1>2, <1>3, <1>b, <1>d, <1>12, PatchedNext
  <2>4. (apart /\ fits) = verdict(i)
    <3> HIDE DEF apart, fits
    <3> QED BY <1>10, <1>11, <1>12
  <2> HIDE DEF equal, overlap, apart, fits, acc, h, on, next, verdict
  <2>5. EvaluateTarget(capacity, acc, i) = next
    BY <1>3, <2>1, <2>2, <2>3, <2>4
  <2> QED BY <2>5 DEF acc, next
<1>13. CASE i \notin on
  <2> DEFINE a == acc.panels
             d == acc.duplicate
             o == acc.overlap
             v == acc.valid
  <2>1. EvaluateTarget(capacity, acc, i)
          = [acc EXCEPT !.panels = h, !.duplicate = Mark(@, i, FALSE),
                        !.overlap = Mark(@, i, FALSE)]
    <3> HIDE DEF equal, overlap, apart, fits, acc, h
    <3> QED BY <1>5, <1>8, <1>13
  <2>2. i \notin dup /\ i \notin over
    BY <1>13 DEF Duplicate, Overlap
  <2>3. Mark(d, i, FALSE) = next.duplicate
    <3>1. FALSE \in BOOLEAN /\ (FALSE <=> i \in dup)
      BY <2>2
    <3>2. Mark(Patched(marks0.duplicate, dup, i - 1), i, FALSE) = Patched(marks0.duplicate, dup, i)
      <4> HIDE DEF dup
      <4> QED BY <3>1, PatchedNext
    <3> QED BY <1>2, <1>3, <3>2
  <2>4. Mark(o, i, FALSE) = next.overlap
    <3>1. FALSE \in BOOLEAN /\ (FALSE <=> i \in over)
      BY <2>2
    <3>2. Mark(Patched(marks0.overlap, over, i - 1), i, FALSE) = Patched(marks0.overlap, over, i)
      <4> HIDE DEF over
      <4> QED BY <3>1, PatchedNext
    <3> QED BY <1>2, <1>3, <3>2
  <2>5. next.valid = v
    BY <1>2, <1>3, <1>9, <1>13
  <2>6. acc = [panels |-> a, duplicate |-> d, overlap |-> o, valid |-> v]
    BY <1>2
  <2> HIDE DEF acc, h, next, a, d, o, v
  <2>7. EvaluateTarget(capacity, acc, i)
          = [panels |-> h, duplicate |-> Mark(d, i, FALSE), overlap |-> Mark(o, i, FALSE),
             valid |-> v]
    BY <2>1, <2>6
  <2>8. EvaluateTarget(capacity, acc, i) = next
    BY <1>3, <2>3, <2>4, <2>5, <2>7
  <2> QED BY <2>8 DEF acc, next
<1> QED BY <1>12, <1>13

\* Before the first turn nothing is checked.
LEMMA CheckStart ==
  ASSUME NEW ps \in [Targets -> Panels], NEW marks0 \in Marks, NEW capacity
  PROVE  Checked(ps, marks0, capacity, 0)
           = [panels |-> ps, duplicate |-> marks0.duplicate, overlap |-> marks0.overlap,
              valid |-> TRUE]
<1>1. \A i \in Targets : ~(i <= 0)
  BY ConfigAssumption DEF Targets
<1>2. Half(ps, 0) = ps
  BY <1>1 DEF Half
<1>3. Patched(marks0.duplicate, Duplicate(ps, marks0), 0) = marks0.duplicate
  BY <1>1 DEF Patched, Marks
<1>4. Patched(marks0.overlap, Overlap(ps, marks0), 0) = marks0.overlap
  BY <1>1 DEF Patched, Marks
<1>5. SoFar(ps, 0) = {}
  BY <1>1 DEF SoFar
<1> QED BY <1>2, <1>3, <1>4, <1>5 DEF Checked

\* After the last turn: what evaluate returns.
LEMMA CheckIs ==
  ASSUME NEW ps \in [Targets -> Panels], NEW marks0 \in Marks, NEW capacity
  PROVE  evaluate(ps, marks0, capacity)
           = [Checked(ps, marks0, capacity, TargetCount) EXCEPT !.valid = @ /\ Enabled(ps) # {}]
<1> DEFINE start == [panels |-> ps, duplicate |-> marks0.duplicate, overlap |-> marks0.overlap,
                     valid |-> TRUE]
           Is(f) == CheckedBy(f, capacity, start, TargetCount)
           after == CHOOSE f : Is(f)
           S == {k \in Nat : k <= TargetCount => after[k] = Checked(ps, marks0, capacity, k)}
<1>1. TargetCount \in Nat \ {0}
  BY ConfigAssumption
<1>2. Is(after)
  <2>1. \E f : Is(f)
    <3> HIDE DEF start
    <3> QED BY <1>1, CheckLoop
  <2> QED BY <2>1
<1>3. /\ after[0] = start
      /\ \A k \in Targets : after[k] = EvaluateTarget(capacity, after[k - 1], k)
  <2> HIDE DEF start, after
  <2> QED BY <1>1, <1>2 DEF Targets, CheckedBy
<1> HIDE DEF after
<1>4. 0 \in S
  BY <1>3, CheckStart
<1>5. ASSUME NEW k \in Nat, k \in S PROVE k + 1 \in S
  <2>1. SUFFICES ASSUME k + 1 <= TargetCount
                 PROVE  after[k + 1] = Checked(ps, marks0, capacity, k + 1)
    OBVIOUS
  <2>2. k + 1 \in Targets /\ (k + 1) - 1 = k /\ k <= TargetCount
    BY <1>1, <2>1 DEF Targets
  <2>3. after[k + 1] = EvaluateTarget(capacity, Checked(ps, marks0, capacity, k), k + 1)
    BY <1>3, <1>5, <2>2
  <2>4. EvaluateTarget(capacity, Checked(ps, marks0, capacity, (k + 1) - 1), k + 1)
          = Checked(ps, marks0, capacity, k + 1)
    BY <2>2, CheckStep
  <2> QED BY <2>2, <2>3, <2>4
<1>6. after[TargetCount] = Checked(ps, marks0, capacity, TargetCount)
  <2>1. Nat \subseteq S
    <3> HIDE DEF S
    <3> QED BY <1>4, <1>5, Induction
  <2> QED BY <1>1, <2>1
<1>7. evaluate(ps, marks0, capacity)
        = [after[TargetCount] EXCEPT !.valid = @ /\ Enabled(after[TargetCount].panels) # {}]
  BY DEF evaluate, after, CheckedBy
<1>8. /\ Checked(ps, marks0, capacity, TargetCount).panels = Half(ps, TargetCount)
      /\ Enabled(Half(ps, TargetCount)) = Enabled(ps)
  BY <1>1, HalfIs DEF Checked
<1> QED BY <1>6, <1>7, <1>8

\* evaluate without its loop: who is marked, and when the menu items are enabled.
LEMMA EvaluateIs ==
  ASSUME NEW ps \in [Targets -> Panels], NEW marks0 \in Marks, NEW capacity
  PROVE  LET e == evaluate(ps, marks0, capacity)
         IN /\ e.panels \in [Targets -> Panels]
            /\ \A i \in Targets : e.panels[i] = EvaluatePanel(ps[i])
            /\ Enabled(e.panels) = Enabled(ps)
            /\ e.duplicate \subseteq Targets /\ e.overlap \subseteq Targets
            /\ \A i \in Targets : /\ i \in e.duplicate <=> i \in Duplicate(ps, marks0)
                                  /\ i \in e.overlap <=> i \in Overlap(ps, marks0)
            /\ e.valid \in BOOLEAN
            /\ e.valid <=> /\ Enabled(ps) # {}
                           /\ Verdict(ps, marks0, capacity, LastOf(Enabled(ps)))
<1> DEFINE all == Checked(ps, marks0, capacity, TargetCount)
           e == evaluate(ps, marks0, capacity)
           on == Enabled(ps)
           verdict == Verdict(ps, marks0, capacity, LastOf(on))
<1>1. TargetCount \in Nat \ {0} /\ \A i \in Targets : i <= TargetCount
  BY ConfigAssumption DEF Targets
<1>2. SoFar(ps, TargetCount) = on
  BY DEF SoFar, Enabled, Targets
<1>3. e = [all EXCEPT !.valid = @ /\ on # {}]
  BY CheckIs
<1>4. all = [panels |-> Half(ps, TargetCount),
             duplicate |-> Patched(marks0.duplicate, Duplicate(ps, marks0), TargetCount),
             overlap |-> Patched(marks0.overlap, Overlap(ps, marks0), TargetCount),
             valid |-> (on # {} => verdict)]
  BY <1>2 DEF Checked
<1> HIDE DEF all, e, on, verdict
<1>5. /\ e.panels = Half(ps, TargetCount)
      /\ e.duplicate = Patched(marks0.duplicate, Duplicate(ps, marks0), TargetCount)
      /\ e.overlap = Patched(marks0.overlap, Overlap(ps, marks0), TargetCount)
      /\ e.valid = ((on # {} => verdict) /\ on # {})
  BY <1>3, <1>4
<1>6. /\ e.panels \in [Targets -> Panels]
      /\ \A i \in Targets : e.panels[i] = EvaluatePanel(ps[i])
      /\ Enabled(e.panels) = Enabled(ps)
  BY <1>1, <1>5, HalfIs
<1>7. /\ e.duplicate \subseteq Targets /\ e.overlap \subseteq Targets
      /\ \A i \in Targets : /\ i \in e.duplicate <=> i \in Duplicate(ps, marks0)
                            /\ i \in e.overlap <=> i \in Overlap(ps, marks0)
  BY <1>1, <1>5 DEF Patched
<1>8. e.valid \in BOOLEAN
  BY <1>5
<1>9. e.valid <=> on # {} /\ verdict
  BY <1>5
<1> QED BY <1>6, <1>7, <1>8, <1>9 DEF e, on, verdict

Meets(qs, i, j) == j # i /\ RangesIntersect(qs[i].cfg, qs[j].cfg)

\* That each alarm has a reason: of the panels ps before the check and qs after it.
HasReason(ps, qs, i) ==
  LET on == Enabled(qs)
      Met(j) == j # i /\ RangesIntersect(qs[i].cfg, ps[j].cfg)
  IN i \in on /\ (on = {i} \/ \E j \in on : Meets(qs, i, j) \/ Met(j))

HasTwin(qs, i) ==
  LET on == Enabled(qs)
  IN i \in on /\ (on = {i} \/ \E j \in on \ {i} : qs[i].cfg.id = qs[j].cfg.id)

Faulty(qs, cap) ==
  LET on == Enabled(qs)
  IN \/ on = {}
     \/ \E i \in on : \/ ~PanelValid(qs[i])
                      \/ \E j \in on : Meets(qs, i, j)
                      \/ Above(Total(qs, on \ {i}), cap - 2)

\* No alarm of evaluate is without a reason.
LEMMA Alarms ==
  ASSUME NEW ps \in [Targets -> Panels], NEW marks0 \in Marks, NEW cap \in Nat,
         NEW capacity, NEW qs, NEW dup, NEW over, NEW ok,
         qs = evaluate(ps, marks0, capacity).panels,
         dup = evaluate(ps, marks0, capacity).duplicate,
         over = evaluate(ps, marks0, capacity).overlap,
         ok = evaluate(ps, marks0, capacity).valid
  PROVE  /\ \A i \in dup : HasTwin(qs, i)
         /\ \A i \in over : HasReason(ps, qs, i)
         /\ capacity = {cap} /\ ~ok => Faulty(qs, cap)
<1> DEFINE on == Enabled(qs)
           Met(i, j) == j # i /\ RangesIntersect(qs[i].cfg, ps[j].cfg)
<1>1. /\ qs \in [Targets -> Panels] /\ on = Enabled(ps)
      /\ \A i \in Targets : qs[i] = EvaluatePanel(ps[i])
      /\ \A i \in Targets : qs[i].cfg.id = ps[i].cfg.id
      /\ dup \subseteq Targets /\ over \subseteq Targets
      /\ \A i \in Targets : /\ i \in dup <=> i \in Duplicate(ps, marks0)
                            /\ i \in over <=> i \in Overlap(ps, marks0)
      /\ ok <=> on # {} /\ Verdict(ps, marks0, capacity, LastOf(on))
  <2>1. \A i \in Targets : EvaluatePanel(ps[i]).cfg.id = ps[i].cfg.id
    BY Evaluated
  <2> QED BY <2>1, EvaluateIs
<1>2. on \subseteq Targets /\ \A i \in Targets : i \in 0 .. TargetCount /\ i \in Int
  BY <1>1, ConfigAssumption DEF Enabled, Targets
<1>3. \A i \in on : /\ Others(ps, i) = on \ {i}
                    /\ Others(ps, i) # {} => LastOf(Others(ps, i)) \in on \ {i}
                    /\ Others(ps, i) = {} => on = {i}
  <2>1. \A i \in on : Others(ps, i) = on \ {i}
    BY <1>1 DEF Others
  <2>2. \A i \in on : on \ {i} \in SUBSET Targets
    BY <1>2
  <2> QED BY <2>1, <2>2, LastOfIs
<1>4. \A i, j \in Targets : /\ Half(ps, i)[j] = IF j <= i THEN qs[j] ELSE ps[j]
                            /\ Half(ps, i)[j].cfg.id = qs[j].cfg.id
  BY <1>1, <1>2, HalfIs DEF Half
<1>5. ASSUME NEW i \in dup
      PROVE  i \in on /\ (on = {i} \/ \E j \in on \ {i} : qs[i].cfg.id = qs[j].cfg.id)
  <2>1. i \in Targets /\ i \in Duplicate(ps, marks0)
    BY <1>1
  <2>2. i \in on /\ (Others(ps, i) # {}
                     => Half(ps, i)[LastOf(Others(ps, i))].cfg.id = Half(ps, i)[i].cfg.id)
    BY <1>1, <2>1 DEF Duplicate
  <2> HIDE DEF on
  <2> QED BY <1>2, <1>3, <1>4, <2>2
<1>6. ASSUME NEW i \in over
      PROVE  i \in on /\ (on = {i} \/ \E j \in on : Meets(qs, i, j) \/ Met(i, j))
  <2>1. i \in Targets /\ i \in Overlap(ps, marks0)
    BY <1>1
  <2>2. i \in on /\ (Others(ps, i) # {}
                     => RangesIntersect(Half(ps, i)[i].cfg, Half(ps, i)[LastOf(Others(ps, i))].cfg))
    BY <1>1, <2>1 DEF Overlap
  <2>3. CASE Others(ps, i) = {}
    BY <1>3, <2>2, <2>3
  <2>4. CASE Others(ps, i) # {}
    <3> DEFINE j == LastOf(Others(ps, i))
    <3>1. j \in on \ {i} /\ RangesIntersect(Half(ps, i)[i].cfg, Half(ps, i)[j].cfg)
      BY <1>3, <2>2, <2>4
    <3> HIDE DEF j, on
    <3>2. Half(ps, i)[i] = qs[i] /\ (Half(ps, i)[j] = qs[j] \/ Half(ps, i)[j] = ps[j])
      BY <1>2, <1>4, <2>1, <3>1
    <3>3. Meets(qs, i, j) \/ Met(i, j)
      BY <3>1, <3>2 DEF Meets
    <3> QED BY <2>2, <3>1, <3>3
  <2> QED BY <2>3, <2>4
<1>7. ASSUME capacity = {cap}, ~ok, on # {}
      PROVE  \E i \in on : \/ ~PanelValid(qs[i])
                           \/ \E j \in on : Meets(qs, i, j)
                           \/ Above(Total(qs, on \ {i}), cap - 2)
  <2> DEFINE l == LastOf(on)
  <2>1. l \in on /\ \A k \in on : k <= l
    BY <1>2, <1>7, LastOfIs
  <2>2. ~Verdict(ps, marks0, capacity, l)
    BY <1>1, <1>7
  <2> HIDE DEF l, on
  <2>3. \A k \in on : Half(ps, l)[k] = qs[k]
    BY <1>2, <1>4, <2>1
  <2>4. Total(Half(ps, l), Others(ps, l)) = Total(qs, on \ {l})
    <3>1. Others(ps, l) = on \ {l}
      BY <1>3, <2>1
    <3>2. [i \in on \ {l} |-> Half(ps, l)[i].cfg.sectors] = [i \in on \ {l} |-> qs[i].cfg.sectors]
      BY <2>3
    <3> QED BY <3>1, <3>2 DEF Total
  <2>5. CASE Above(Total(qs, on \ {l}), cap - 2)
    BY <2>1, <2>5
  <2>6. CASE ~Above(Total(qs, on \ {l}), cap - 2)
    <3>1. \A c \in capacity : ~Above(Total(Half(ps, l), Others(ps, l)), c - 2)
      BY <1>7, <2>4, <2>6
    <3>2. CASE Others(ps, l) = {}
      <4>1. ~PanelValid(Half(ps, l)[l])
        BY <2>2, <3>1, <3>2 DEF Verdict
      <4> QED BY <2>1, <2>3, <4>1
    <3>3. CASE Others(ps, l) # {}
      <4> DEFINE j == LastOf(Others(ps, l))
      <4>1. l \in Overlap(ps, marks0)
        BY <2>2, <3>1, <3>3 DEF Verdict
      <4>2. j \in on \ {l} /\ RangesIntersect(Half(ps, l)[l].cfg, Half(ps, l)[j].cfg)
        BY <1>3, <2>1, <3>3, <4>1 DEF Overlap
      <4> HIDE DEF j
      <4>3. Meets(qs, l, j)
        BY <2>1, <2>3, <4>2 DEF Meets
      <4> QED BY <2>1, <4>2, <4>3
    <3> QED BY <3>2, <3>3
  <2> QED BY <2>5, <2>6
<1>8. \A i \in dup : HasTwin(qs, i)
  BY <1>5 DEF HasTwin
<1>9. \A i \in over : HasReason(ps, qs, i)
  BY <1>6 DEF HasReason
<1>10. capacity = {cap} /\ ~ok => Faulty(qs, cap)
  BY <1>7 DEF Faulty
<1> QED BY <1>8, <1>9, <1>10

\* The last two enabled targets are compared with each other.
LEMMA Compared ==
  ASSUME NEW ps \in [Targets -> Panels], NEW marks0 \in Marks, NEW capacity,
         NEW qs, qs = evaluate(ps, marks0, capacity).panels,
         NEW i \in Enabled(qs), NEW j \in Enabled(qs), i < j,
         \A k \in Enabled(qs) : k <= i \/ k = j, RangesIntersect(qs[i].cfg, qs[j].cfg)
  PROVE  j \in evaluate(ps, marks0, capacity).overlap /\ ~evaluate(ps, marks0, capacity).valid
<1> DEFINE on == Enabled(qs)
           e == evaluate(ps, marks0, capacity)
<1>1. /\ qs \in [Targets -> Panels] /\ on = Enabled(ps)
      /\ \A k \in Targets : qs[k] = EvaluatePanel(ps[k])
      /\ \A k \in Targets : k \in e.overlap <=> k \in Overlap(ps, marks0)
      /\ e.valid <=> on # {} /\ Verdict(ps, marks0, capacity, LastOf(on))
  BY EvaluateIs
<1>2. on \subseteq Targets /\ \A k \in Targets : k \in Int
  BY <1>1, ConfigAssumption DEF Enabled, Targets
<1>3. i \in Targets /\ j \in Targets /\ i \in Int /\ j \in Int /\ on \in SUBSET Targets
  BY <1>2
<1>4. \A k \in on : k <= j
  BY <1>2, <1>3
<1>5. LastOf(on) = j
  BY <1>3, <1>4, LastOfOnly
<1>6. Others(ps, j) = on \ {j} /\ i \in Others(ps, j) /\ \A k \in Others(ps, j) : k <= i
  BY <1>1, <1>3 DEF Others
<1>7. LastOf(Others(ps, j)) = i
  <2>1. Others(ps, j) \in SUBSET Targets
    BY <1>3, <1>6
  <2> QED BY <2>1, <1>6, LastOfOnly
<1>8. Half(ps, j)[j] = qs[j] /\ Half(ps, j)[i] = qs[i]
  BY <1>1, <1>3 DEF Half
<1>9. j \in Overlap(ps, marks0)
  <2>1. RangesIntersect(qs[j].cfg, qs[i].cfg)
    BY DEF RangesIntersect
  <2> HIDE DEF on, e
  <2> QED BY <1>1, <1>6, <1>7, <1>8, <2>1 DEF Overlap, on
<1>10. ~Verdict(ps, marks0, capacity, j)
  BY <1>6, <1>9 DEF Verdict
<1> QED BY <1>1, <1>3, <1>5, <1>9, <1>10

-----------------------------------------------------------------------------
(* Automatic starts. *)

StartAt(p, v) == [p EXCEPT !.cfg = [@ EXCEPT !.start = v]]

\* The same but for where it starts.
Moved(p, q) == /\ q \in Panels
               /\ \A m \in DOMAIN q.cfg \ {"start"} : q.cfg[m] = p.cfg[m]
               /\ q.size = p.size /\ q.unit = p.unit /\ q.auto = p.auto
               /\ q.autoEnabled = p.autoEnabled /\ q.editable = p.editable

\* A panel of which only the start changed.
LEMMA MovedParts ==
  ASSUME NEW p \in Panels, NEW q, Moved(p, q)
  PROVE  /\ q.cfg.enabled = p.cfg.enabled /\ q.cfg.id = p.cfg.id /\ q.cfg.type = p.cfg.type
         /\ q.cfg.sectors = p.cfg.sectors /\ q.cfg.bytes = p.cfg.bytes
         /\ Sized(p) => Sized(q)
         /\ Settled(p) => Settled(q)
<1>1. q \in Panels /\ q.cfg \in TargetConfigs
  BY PanelParts DEF Moved
<1>2. {"enabled", "id", "type", "sectors", "bytes"} \subseteq DOMAIN q.cfg \ {"start"}
  BY <1>1, ConfigParts
<1>3. /\ q.cfg.enabled = p.cfg.enabled /\ q.cfg.id = p.cfg.id /\ q.cfg.type = p.cfg.type
      /\ q.cfg.sectors = p.cfg.sectors /\ q.cfg.bytes = p.cfg.bytes
  BY <1>2 DEF Moved
<1>4. q.size = p.size /\ q.unit = p.unit /\ q.editable = p.editable
  BY DEF Moved
<1>5. Sized(p) => Sized(q)
  BY <1>3, <1>4 DEF Sized
<1>6. Settled(p) => Settled(q)
  BY <1>1, <1>3, <1>4, StaysSettled
<1> QED BY <1>3, <1>5, <1>6

\* Giving a start to a panel changes nothing else.
LEMMA StartAtMoves ==
  ASSUME NEW p \in Panels, NEW q, Moved(p, q), NEW v \in Int
  PROVE  Moved(p, StartAt(q, v)) /\ StartAt(q, v).cfg.start = v
<1> DEFINE c == [q.cfg EXCEPT !.start = v]
<1>1. q \in Panels /\ q.cfg \in TargetConfigs
  BY PanelParts DEF Moved
<1>2. /\ c \in TargetConfigs /\ c.start = v
      /\ DOMAIN c = DOMAIN q.cfg
      /\ \A m \in DOMAIN c \ {"start"} : c[m] = q.cfg[m]
  <2>1. c \in TargetConfigs
    BY <1>1, ConfigChanged
  <2>2. "start" \in DOMAIN q.cfg
    BY <1>1, ConfigParts
  <2> QED BY <2>1, <2>2
<1>3. StartAt(q, v) = [q EXCEPT !.cfg = c]
  BY DEF StartAt
<1> HIDE DEF c
<1>4. /\ StartAt(q, v) \in Panels /\ StartAt(q, v).cfg = c
      /\ StartAt(q, v).size = q.size /\ StartAt(q, v).unit = q.unit
      /\ StartAt(q, v).auto = q.auto /\ StartAt(q, v).autoEnabled = q.autoEnabled
      /\ StartAt(q, v).editable = q.editable
  BY <1>1, <1>2, <1>3 DEF Panels
<1>5. \A m \in DOMAIN c \ {"start"} : c[m] = p.cfg[m]
  BY <1>2 DEF Moved
<1> QED BY <1>2, <1>4, <1>5 DEF Moved

Assigning(ps, acc, k) ==
  /\ acc.index \in 0 .. k /\ acc.sum \in Int
  /\ acc.panels \in [Targets -> Panels]
  /\ \A i \in Targets : Moved(ps[i], acc.panels[i])

\* In an unbroken row from the first each is placed right after the one before it.
InRow(ps, n, acc, k) ==
  /\ acc.index = k
  /\ k < n => acc.panels[k + 1].cfg.start = acc.sum
  /\ acc.sum >= 0
  /\ \A i \in 1 .. k : /\ acc.panels[i].cfg.start >= 0
                       /\ acc.panels[i].cfg.start + ps[i].cfg.sectors + 1 <= acc.sum
  /\ \A i, j \in 1 .. k :
       i < j => acc.panels[i].cfg.start + ps[i].cfg.sectors + 1 <= acc.panels[j].cfg.start

\* One turn of the loop that assigns the starts.
LEMMA AssigningNext ==
  ASSUME NEW ps \in [Targets -> Panels], NEW taking, NEW acc, NEW k \in Nat,
         k + 1 \in Targets, Assigning(ps, acc, k)
  PROVE  /\ Assigning(ps, AssignNext(taking, acc, k + 1), k + 1)
         /\ k + 1 \notin taking => AssignNext(taking, acc, k + 1) = acc
         /\ k + 1 \in taking =>
              LET at == acc.index + 1
                  sum == acc.sum + ps[k + 1].cfg.sectors + 1
                  next == AssignNext(taking, acc, k + 1)
              IN /\ next.index = at /\ next.sum = sum
                 /\ \A i \in Targets :
                      /\ i # at + 1 => next.panels[i] = acc.panels[i]
                      /\ i = at + 1 /\ i \in taking => next.panels[i].cfg.start = sum
<1> DEFINE at == acc.index + 1
           sum == acc.sum + acc.panels[k + 1].cfg.sectors + 1
           next == AssignNext(taking, acc, k + 1)
           moved == [acc.panels EXCEPT ![at + 1] = StartAt(acc.panels[at + 1], sum)]
<1>1. CASE k + 1 \notin taking
  <2>1. next = acc
    BY <1>1 DEF AssignNext
  <2> QED BY <1>1, <2>1 DEF Assigning
<1>2. CASE k + 1 \in taking
  <2>1. at \in 0 .. k + 1 /\ at \in Int /\ acc.sum \in Int /\ k \in Int
    BY DEF Assigning
  <2>2. /\ acc.panels[k + 1].cfg.sectors = ps[k + 1].cfg.sectors
        /\ ps[k + 1].cfg.sectors \in Int
    <3>1. ps[k + 1] \in Panels /\ ps[k + 1].cfg \in TargetConfigs
      BY PanelParts
    <3> QED BY <3>1, MovedParts, ConfigNumbers DEF Assigning
  <2>3. sum \in Int /\ sum = acc.sum + ps[k + 1].cfg.sectors + 1
    BY <2>1, <2>2
  <2>4. next = [index |-> at, sum |-> sum,
                panels |-> IF at < TargetCount /\ at + 1 \in taking THEN moved ELSE acc.panels]
    BY <1>2 DEF AssignNext, StartAt
  <2> HIDE DEF sum, next, moved
  <2>5. /\ next.index = at /\ next.sum = sum
        /\ next.panels = IF at < TargetCount /\ at + 1 \in taking THEN moved ELSE acc.panels
    BY <2>4
  <2>6. acc.panels \in [Targets -> Panels] /\ \A i \in Targets : Moved(ps[i], acc.panels[i])
    BY DEF Assigning
  <2>7. ASSUME at < TargetCount
        PROVE  /\ moved \in [Targets -> Panels]
               /\ \A i \in Targets : Moved(ps[i], moved[i])
               /\ moved[at + 1].cfg.start = sum
               /\ \A i \in Targets : i # at + 1 => moved[i] = acc.panels[i]
    <3> DEFINE q == acc.panels[at + 1]
    <3>1. at + 1 \in Targets
      BY <2>1, <2>7, ConfigAssumption DEF Targets
    <3>2. Moved(ps[at + 1], StartAt(q, sum)) /\ StartAt(q, sum).cfg.start = sum
      <4>1. ps[at + 1] \in Panels /\ Moved(ps[at + 1], q)
        BY <3>1, <2>6
      <4> HIDE DEF q
      <4> QED BY <4>1, <2>3, StartAtMoves
    <3>3. moved = [acc.panels EXCEPT ![at + 1] = StartAt(q, sum)]
      BY DEF moved
    <3>4. StartAt(q, sum) \in Panels
      BY <3>2 DEF Moved
    <3> HIDE DEF q
    <3> QED BY <2>6, <3>1, <3>2, <3>3, <3>4
  <2>8. next.panels \in [Targets -> Panels] /\ \A i \in Targets : Moved(ps[i], next.panels[i])
    BY <2>5, <2>6, <2>7
  <2>9. \A i \in Targets : /\ i # at + 1 => next.panels[i] = acc.panels[i]
                           /\ i = at + 1 /\ i \in taking => next.panels[i].cfg.start = sum
    <3>1. \A i \in Targets : i = at + 1 => at < TargetCount
      BY <2>1, ConfigAssumption DEF Targets
    <3> QED BY <2>5, <2>7, <3>1
  <2>10. Assigning(ps, next, k + 1)
    BY <2>1, <2>3, <2>5, <2>8 DEF Assigning
  <2> QED BY <1>2, <2>3, <2>5, <2>9, <2>10 DEF next, sum
<1> QED BY <1>1, <1>2

\* In an unbroken row each target gets the sum of those before it.
LEMMA InRowNext ==
  ASSUME NEW ps \in [Targets -> Panels], NEW n \in Targets, NEW acc, NEW k \in Nat, k < n,
         \A i \in 1 .. n : ps[i].cfg.sectors >= 0,
         Assigning(ps, acc, k), InRow(ps, n, acc, k)
  PROVE  InRow(ps, n, AssignNext(1 .. n, acc, k + 1), k + 1)
<1> DEFINE next == AssignNext(1 .. n, acc, k + 1)
<1>0. n \in Nat /\ n <= TargetCount /\ \A i \in Nat : i >= 1 /\ i <= n => i \in Targets
  BY ConfigAssumption DEF Targets
<1>1. k + 1 \in Targets /\ k + 1 \in 1 .. n /\ n \in Nat /\ n <= TargetCount
  BY <1>0
<1>2. /\ next.index = k + 1 /\ next.sum = acc.sum + ps[k + 1].cfg.sectors + 1
      /\ \A i \in Targets : /\ i # k + 2 => next.panels[i] = acc.panels[i]
                            /\ i = k + 2 /\ i \in 1 .. n => next.panels[i].cfg.start = next.sum
  <2>1. acc.index = k
    BY DEF InRow
  <2>2. (k + 1) + 1 = k + 2
    OBVIOUS
  <2>3. /\ next.index = acc.index + 1 /\ next.sum = acc.sum + ps[k + 1].cfg.sectors + 1
        /\ \A i \in Targets : /\ i # (acc.index + 1) + 1 => next.panels[i] = acc.panels[i]
                              /\ i = (acc.index + 1) + 1 /\ i \in 1 .. n
                                   => next.panels[i].cfg.start = next.sum
    <3> HIDE DEF next
    <3>1. next = AssignNext(1 .. n, acc, k + 1)
      BY DEF next
    <3> QED BY <1>1, <3>1, AssigningNext
  <2> HIDE DEF next
  <2> QED BY <2>1, <2>2, <2>3
<1> HIDE DEF next
<1>3. \A i \in Targets : ps[i].cfg.sectors \in Int /\ acc.panels[i].cfg.start \in Int
  <2>1. \A i \in Targets : /\ ps[i].cfg \in TargetConfigs
                           /\ acc.panels[i].cfg \in TargetConfigs
    BY PanelParts DEF Assigning, Moved
  <2> QED BY <2>1, ConfigNumbers
<1>4. acc.sum \in Int
  BY DEF Assigning
<1>5. ASSUME NEW i \in 1 .. k + 1
      PROVE  i \in Targets /\ i # k + 2 /\ (i = k + 1 \/ i \in 1 .. k)
  <2>1. i \in Nat /\ i >= 1 /\ i <= n
    BY <1>0
  <2> QED BY <1>0, <2>1
<1>6. \A i \in 1 .. k + 1 : next.panels[i] = acc.panels[i]
  BY <1>2, <1>5
<1>7. k + 1 < n => next.panels[(k + 1) + 1].cfg.start = next.sum
  <2>1. k + 1 < n => k + 2 \in Targets /\ k + 2 \in 1 .. n
    <3>1. k + 1 < n => k + 2 \in Nat /\ k + 2 >= 1 /\ k + 2 <= n
      BY <1>0
    <3> QED BY <1>0, <3>1
  <2>2. (k + 1) + 1 = k + 2
    OBVIOUS
  <2> QED BY <1>2, <2>1, <2>2
<1>8. /\ acc.panels[k + 1].cfg.start = acc.sum /\ acc.sum >= 0
      /\ ps[k + 1].cfg.sectors >= 0
  BY <1>1 DEF InRow
<1>9. next.sum >= 0 /\ next.sum >= acc.sum
  BY <1>1, <1>2, <1>3, <1>4, <1>8
<1>10. \A i \in 1 .. k : /\ acc.panels[i].cfg.start >= 0
                         /\ acc.panels[i].cfg.start + ps[i].cfg.sectors + 1 <= acc.sum
  BY DEF InRow
<1>11. ASSUME NEW i \in 1 .. k + 1
       PROVE  /\ next.panels[i].cfg.start >= 0
              /\ next.panels[i].cfg.start + ps[i].cfg.sectors + 1 <= next.sum
  <2>1. CASE i = k + 1
    BY <1>1, <1>2, <1>3, <1>4, <1>6, <1>8, <2>1
  <2>2. CASE i \in 1 .. k
    <3>1. /\ i \in Targets
          /\ acc.panels[i].cfg.start + ps[i].cfg.sectors + 1 \in Int
          /\ acc.panels[i].cfg.start + ps[i].cfg.sectors + 1 <= acc.sum
          /\ next.sum \in Int
      BY <1>1, <1>2, <1>3, <1>4, <1>5, <1>10, <2>2
    <3>2. acc.panels[i].cfg.start + ps[i].cfg.sectors + 1 <= next.sum
      BY <3>1, <1>4, <1>9
    <3> QED BY <1>6, <1>10, <2>2, <3>2
  <2> QED BY <1>5, <2>1, <2>2
<1>12. ASSUME NEW i \in 1 .. k + 1, NEW j \in 1 .. k + 1, i < j
       PROVE  next.panels[i].cfg.start + ps[i].cfg.sectors + 1 <= next.panels[j].cfg.start
  <2>1. i \in 1 .. k
    BY <1>12
  <2>2. CASE j = k + 1
    BY <1>6, <1>8, <1>10, <2>1, <2>2
  <2>3. CASE j \in 1 .. k
    BY <1>6, <1>12, <2>1, <2>3 DEF InRow
  <2> QED BY <1>5, <2>2, <2>3
<1>13. InRow(ps, n, next, k + 1)
  BY <1>2, <1>7, <1>9, <1>11, <1>12 DEF InRow
<1> QED BY <1>13 DEF next

\* The whole loop: an unbroken row is placed one after the other.
LEMMA StartsAssigned ==
  ASSUME NEW ps \in [Targets -> Panels], NEW taking
  PROVE  LET qs == AssignStarts(ps, taking)
         IN /\ qs \in [Targets -> Panels]
            /\ \A i \in Targets : Moved(ps[i], qs[i])
            /\ \A n \in Targets :
                 /\ taking = 1 .. n /\ ps[1].cfg.start = 0
                 /\ \A i \in taking : ps[i].cfg.sectors >= 0
                 => /\ \A i \in taking : qs[i].cfg.start >= 0
                    /\ \A i, j \in taking :
                         i < j => qs[i].cfg.start + ps[i].cfg.sectors + 1 <= qs[j].cfg.start
<1> DEFINE start == [index |-> 0, sum |-> 0, panels |-> ps]
           Is(f) == AssignedBy(f, taking, start, TargetCount)
           after == CHOOSE f : Is(f)
           S == {k \in Nat : k <= TargetCount => Assigning(ps, after[k], k)}
           qs == AssignStarts(ps, taking)
<1>1. TargetCount \in Nat \ {0}
  BY ConfigAssumption
<1>2. Is(after)
  <2>1. \E f : Is(f)
    <3> HIDE DEF start
    <3> QED BY <1>1, StartsLoop
  <2> QED BY <2>1
<1>3. /\ after[0] = start
      /\ \A k \in Targets : after[k] = AssignNext(taking, after[k - 1], k)
  <2> HIDE DEF start, after
  <2> QED BY <1>1, <1>2 DEF Targets, AssignedBy
<1>4. qs = after[TargetCount].panels
  BY DEF AssignStarts, AssignedBy
<1> HIDE DEF after, qs
<1>5. 0 \in S
  <2>1. Assigning(ps, start, 0)
    <3>1. start.panels \in [Targets -> Panels] /\ \A i \in Targets : Moved(ps[i], start.panels[i])
      BY DEF Moved
    <3> QED BY <3>1 DEF Assigning
  <2> QED BY <1>3, <2>1
<1>6. \A k \in Nat : k + 1 <= TargetCount =>
        k + 1 \in Targets /\ (k + 1) - 1 = k /\ k <= TargetCount
  BY <1>1 DEF Targets
<1>7. ASSUME NEW k \in Nat, k \in S PROVE k + 1 \in S
  <2>1. SUFFICES ASSUME k + 1 <= TargetCount PROVE Assigning(ps, after[k + 1], k + 1)
    OBVIOUS
  <2>2. after[k + 1] = AssignNext(taking, after[k], k + 1) /\ k + 1 \in Targets
    BY <1>3, <1>6, <2>1
  <2> QED BY <1>6, <1>7, <2>1, <2>2, AssigningNext
<1>8. \A k \in Nat : k <= TargetCount => Assigning(ps, after[k], k)
  <2>1. Nat \subseteq S
    <3> HIDE DEF S
    <3> QED BY <1>5, <1>7, Induction
  <2> QED BY <2>1
<1>9. qs \in [Targets -> Panels] /\ \A i \in Targets : Moved(ps[i], qs[i])
  BY <1>1, <1>4, <1>8 DEF Assigning
<1>10. ASSUME NEW n \in Targets, taking = 1 .. n, ps[1].cfg.start = 0,
              \A i \in taking : ps[i].cfg.sectors >= 0
       PROVE  /\ \A i \in taking : qs[i].cfg.start >= 0
              /\ \A i, j \in taking :
                   i < j => qs[i].cfg.start + ps[i].cfg.sectors + 1 <= qs[j].cfg.start
  <2>1. n \in Nat /\ n <= TargetCount /\ 0 < n
    BY <1>1 DEF Targets
  <2> DEFINE T == {k \in Nat : k <= n => InRow(ps, n, after[k], k)}
             U == {k \in Nat : n + k <= TargetCount => after[n + k] = after[n]}
  <2>2. 0 \in T
    BY <1>3, <1>10, <2>1 DEF InRow
  <2>3. ASSUME NEW k \in Nat, k \in T PROVE k + 1 \in T
    <3>1. SUFFICES ASSUME k + 1 <= n PROVE InRow(ps, n, after[k + 1], k + 1)
      OBVIOUS
    <3>2. k < n /\ k <= TargetCount /\ k + 1 <= TargetCount
      <4> HIDE DEF T
      <4> QED BY <1>1, <2>1, <3>1
    <3>3. after[k + 1] = AssignNext(1 .. n, after[k], k + 1)
      <4>1. k + 1 \in Targets /\ (k + 1) - 1 = k
        BY <1>6, <3>2
      <4> QED BY <1>3, <1>10, <4>1
    <3>4. Assigning(ps, after[k], k) /\ InRow(ps, n, after[k], k)
      <4>1. k <= n => InRow(ps, n, after[k], k)
        BY <2>3
      <4>2. k <= n
        BY <2>1, <3>2
      <4> QED BY <1>8, <3>2, <4>1, <4>2
    <3> QED BY <1>10, <3>2, <3>3, <3>4, InRowNext
  <2>4. InRow(ps, n, after[n], n)
    <3>1. Nat \subseteq T
      <4> HIDE DEF T
      <4> QED BY <2>2, <2>3, Induction
    <3> QED BY <2>1, <3>1
  <2>5. 0 \in U
    BY <2>1
  <2>6. ASSUME NEW k \in Nat, k \in U PROVE k + 1 \in U
    <3>1. SUFFICES ASSUME n + (k + 1) <= TargetCount PROVE after[n + (k + 1)] = after[n]
      OBVIOUS
    <3>2. n + k \in Nat /\ n + (k + 1) = (n + k) + 1 /\ n + k <= TargetCount
      BY <2>1, <3>1, <1>1
    <3>3. (n + k) + 1 \in Targets /\ ((n + k) + 1) - 1 = n + k /\ (n + k) + 1 \notin taking
      BY <1>6, <1>10, <2>1, <3>1, <3>2
    <3>4. after[(n + k) + 1] = AssignNext(taking, after[n + k], (n + k) + 1)
      BY <1>3, <3>3
    <3>5. AssignNext(taking, after[n + k], (n + k) + 1) = after[n + k]
      BY <3>3 DEF AssignNext
    <3> QED BY <2>6, <3>2, <3>4, <3>5
  <2>7. after[TargetCount] = after[n]
    <3>1. Nat \subseteq U
      <4> HIDE DEF U
      <4> QED BY <2>5, <2>6, Induction
    <3>2. TargetCount - n \in Nat /\ n + (TargetCount - n) = TargetCount
      BY <1>1, <2>1
    <3>3. TargetCount - n \in U
      <4> HIDE DEF U
      <4> QED BY <3>1, <3>2
    <3>4. n + (TargetCount - n) <= TargetCount => after[n + (TargetCount - n)] = after[n]
      BY <3>3
    <3>5. n + (TargetCount - n) <= TargetCount
      BY <1>1, <3>2
    <3> QED BY <3>2, <3>4, <3>5
  <2> HIDE DEF T, U
  <2> QED BY <1>4, <1>10, <2>4, <2>7 DEF InRow
<1> QED BY <1>9, <1>10 DEF qs

-----------------------------------------------------------------------------
(* Bytes and files. *)

\* Defaults and zero bytes have their types.
LEMMA Defaults ==
  /\ defaultBoardConfig \in BoardConfigs /\ zeroBoardConfig \in BoardConfigs
  /\ zeroTargetConfig \in TargetConfigs
  /\ \A i \in Targets : defaultTargetConfig(i) \in TargetConfigs
<1>1. /\ defaultBoardConfig \in BoardConfigs /\ zeroBoardConfig \in BoardConfigs
  BY DEF defaultBoardConfig, zeroBoardConfig, BoardConfigs, Byte, Flags6
<1>2. /\ 0 \in Byte /\ 0 \in SomeByte /\ 0 \in Word /\ 0 \in Count /\ 512 \in Word
      /\ 63 \in Word /\ 255 \in Word /\ DefaultSectors \in Count
  BY Numbers, ConfigAssumption DEF SomeByte
<1>3. /\ [f \in TextFields |-> "default"] \in Names /\ [f \in TextFields |-> "short"] \in Names
  BY DEF Names, Texts
<1>4. zeroTargetConfig \in TargetConfigs
  <2> DEFINE text == [f \in TextFields |-> "short"]
  <2>1. text \in Names
    BY <1>3
  <2> HIDE DEF text
  <2> QED BY <1>2, <2>1 DEF zeroTargetConfig, TargetConfigs, text
<1>5. ASSUME NEW i \in Targets PROVE defaultTargetConfig(i) \in TargetConfigs
  <2> DEFINE text == [f \in TextFields |-> "default"]
             id == i - 1
             on == i = 1
  <2>1. text \in Names /\ id \in Nat
    BY <1>3, ConfigAssumption DEF Targets
  <2>2. on \in BOOLEAN
    OBVIOUS
  <2>3. defaultTargetConfig(i)
          = [enabled |-> on, id |-> id, type |-> 0, modifier |-> 0, start |-> 0,
             sectors |-> DefaultSectors, bytes |-> 512, track |-> 63, heads |-> 255,
             text |-> text, quirks |-> {}]
    BY DEF defaultTargetConfig
  <2> HIDE DEF text, id, on
  <2> QED BY <1>2, <2>1, <2>2, <2>3 DEF TargetConfigs
<1> QED BY <1>1, <1>4, <1>5

\* What reading a target from bytes changes is its track.
LEMMA FromBytes ==
  ASSUME NEW t \in TargetConfigs
  PROVE  /\ targetCfgFromBytes(t) \in TargetConfigs
         /\ DOMAIN targetCfgFromBytes(t) = DOMAIN t
         /\ \A m \in DOMAIN t : targetCfgFromBytes(t)[m] =
              IF m = "track" /\ t[m] = 0 THEN 63 ELSE t[m]
<1> DEFINE track == IF t.track = 0 THEN 63 ELSE t.track
<1>1. targetCfgFromBytes(t) = [t EXCEPT !.track = track]
  BY DEF targetCfgFromBytes
<1>2. track \in Word
  BY ConfigParts, Numbers
<1>3. \A m \in DOMAIN t : [t EXCEPT !.track = track][m] = IF m = "track" THEN track ELSE t[m]
  BY DEF TargetConfigs
<1>4. [t EXCEPT !.track = track] \in TargetConfigs
  <2> HIDE DEF track
  <2> QED BY <1>2, ConfigChanged
<1> QED BY <1>1, <1>3, <1>4

\* What a panel is read into has its type.
LEMMA ConfigRead ==
  ASSUME NEW p \in Panels
  PROVE  getTargetConfig(p) \in TargetConfigs
<1> DEFINE c == p.cfg
           id == c.id % 8
           any == {AnyQuirk}
<1>1. c \in TargetConfigs /\ c.id \in Nat
  BY PanelParts, ConfigNumbers
<1>2. id \in Nat /\ Unset \in SomeByte /\ any \in SUBSET (Quirks \union {AnyQuirk})
  BY <1>1 DEF SomeByte
<1>3. getTargetConfig(p) = [c EXCEPT !.id = id, !.modifier = Unset, !.quirks = any]
  BY DEF getTargetConfig
<1> HIDE DEF c, id, any
<1>4. [c EXCEPT !.id = id] \in TargetConfigs
  BY <1>1, <1>2, ConfigChanged
<1> DEFINE d == [c EXCEPT !.id = id]
<1>5. [d EXCEPT !.modifier = Unset] \in TargetConfigs
  <2>1. d \in TargetConfigs
    BY <1>4
  <2> HIDE DEF d
  <2> QED BY <1>2, <2>1 DEF TargetConfigs
<1> DEFINE e == [d EXCEPT !.modifier = Unset]
<1>6. [e EXCEPT !.quirks = any] \in TargetConfigs
  <2>1. e \in TargetConfigs
    BY <1>5
  <2> HIDE DEF e
  <2> QED BY <1>2, <2>1 DEF TargetConfigs
<1>7. [c EXCEPT !.id = id, !.modifier = Unset, !.quirks = any] = [e EXCEPT !.quirks = any]
  OBVIOUS
<1> QED BY <1>3, <1>6, <1>7

\* A card with one sector written.
LEMMA SectorWritten ==
  ASSUME NEW c \in Cards, NEW d \in Cards, NEW n \in {1, 2}
  PROVE  /\ WriteSector(c, d, n) \in Cards
         /\ n = 1 => /\ WriteSector(c, d, n).magic /\ WriteSector(c, d, n).board = d.board
                     /\ \A i \in 1 .. FirstSector : WriteSector(c, d, n).targets[i] = d.targets[i]
         /\ n = 2 => /\ WriteSector(c, d, n).magic = c.magic
                     /\ WriteSector(c, d, n).board = c.board
                     /\ \A i \in Targets : WriteSector(c, d, n).targets[i] =
                                             IF i <= FirstSector THEN c.targets[i]
                                             ELSE d.targets[i]
<1> DEFINE w == WriteSector(c, d, n)
           targets == [i \in Targets |-> IF i \in InSector(n) THEN d.targets[i] ELSE c.targets[i]]
           board0 == IF n = 1 THEN d.board ELSE c.board
           magic == c.magic \/ n = 1
<1>1. w = [magic |-> magic, board |-> board0, targets |-> targets]
  BY DEF WriteSector
<1>2. targets \in [Targets -> TargetConfigs] /\ board0 \in BoardConfigs
  BY DEF Cards
<1>3. magic \in BOOLEAN /\ c.magic \in BOOLEAN
  BY DEF Cards
<1>4. FirstSector \in Int /\ TargetCount \in Int /\ FirstSector <= TargetCount /\ FirstSector >= 1
  BY SettingsAssumption, ConfigAssumption DEF Targets
<1>5. /\ n = 1 => \A i \in 1 .. FirstSector : i \in Targets /\ i \in InSector(n)
      /\ n = 2 => \A i \in Targets : i \in InSector(n) <=> ~(i <= FirstSector)
  BY <1>4 DEF InSector, Targets
<1>6. /\ n = 1 => \A i \in 1 .. FirstSector : targets[i] = d.targets[i]
      /\ n = 2 => \A i \in Targets : targets[i] = IF i <= FirstSector THEN c.targets[i]
                                                  ELSE d.targets[i]
  BY <1>5
<1>7. n = 2 => magic = c.magic
  BY <1>3
<1>8. w \in Cards
  <2> HIDE DEF magic, board0, targets, w
  <2> QED BY <1>1, <1>2, <1>3 DEF Cards
<1>9. w.magic = magic /\ w.board = board0 /\ w.targets = targets
  <2> HIDE DEF magic, board0, targets, w
  <2> QED BY <1>1
<1>10. n = 1 => magic /\ board0 = d.board
  OBVIOUS
<1>11. n = 2 => board0 = c.board
  OBVIOUS
<1> HIDE DEF w, magic, board0, targets
<1>12. n = 1 => w.magic
  BY <1>9, <1>10
<1>13. n = 1 => w.board = d.board /\ \A i \in 1 .. FirstSector : w.targets[i] = d.targets[i]
  BY <1>6, <1>9, <1>10
<1>14. n = 2 => w.magic = c.magic
  BY <1>7, <1>9
<1>15. n = 2 => /\ w.board = c.board
                /\ \A i \in Targets : w.targets[i] = IF i <= FirstSector THEN c.targets[i]
                                                     ELSE d.targets[i]
  BY <1>6, <1>9, <1>11
<1> QED BY <1>8, <1>12, <1>13, <1>14, <1>15 DEF w

\* What is read from a card is like what a thread gathers.
LEMMA CardsGathered == Cards \subseteq Gathered
<1>1. [Targets -> TargetConfigs] \subseteq Seq(TargetConfigs)
  BY ConfigAssumption DEF Targets
<1> QED BY <1>1 DEF Cards, Gathered

\* The members of an element of a file.
LEMMA ElementParts ==
  ASSUME NEW e \in TargetElements
  PROVE  /\ e.enabled \in BOOLEAN /\ e.id \in Nat /\ e.type \in Byte /\ e.modifier \in SomeByte
         /\ e.start \in Int /\ e.sectors \in Int /\ e.bytes \in Int
         /\ e.track \in Int /\ e.heads \in Int /\ e.text \in Names
  BY DEF TargetElements

\* A target as an element.
LEMMA TargetToXML ==
  ASSUME NEW t \in TargetConfigs
  PROVE  /\ targetCfgToXML(t) \in TargetElements
         /\ \A m \in DOMAIN t \ {"text", "quirks"} : targetCfgToXML(t)[m] = t[m]
         /\ targetCfgToXML(t).text = [t.text EXCEPT !["serialTail"] = "blank"]
<1> DEFINE lines == QuirkLines(t.quirks)
           text == [t.text EXCEPT !["serialTail"] = "blank"]
           e == [t EXCEPT !.quirks = lines, !.text = text]
<1>1. t.quirks \subseteq Quirks \union {AnyQuirk} /\ t.text \in Names
  BY ConfigParts
<1>2. lines \subseteq Lines
  BY <1>1 DEF QuirkLines, Lines
<1>3. text \in Names
  BY <1>1 DEF Names, Texts, TextFields
<1>4. targetCfgToXML(t) = e
  BY DEF targetCfgToXML
<1>5. /\ t.enabled \in BOOLEAN /\ t.id \in Nat /\ t.type \in Byte /\ t.modifier \in SomeByte
      /\ t.start \in Int /\ t.sectors \in Int /\ t.bytes \in Int /\ t.track \in Int
      /\ t.heads \in Int
      /\ DOMAIN t = {"enabled", "id", "type", "modifier", "start", "sectors", "bytes",
                     "track", "heads", "text", "quirks"}
  <2>1. t.bytes \in Word /\ t.track \in Word /\ t.heads \in Word /\ t.sectors \in Count
    BY ConfigParts
  <2>2. Word \subseteq Int /\ Count \subseteq Int
    BY DEF Word, Count
  <2> QED BY <2>1, <2>2, ConfigParts
<1> HIDE DEF lines, text
<1>6. t = [m \in DOMAIN t |-> t[m]]
  BY DEF TargetConfigs
<1>7. e \in TargetElements
  BY <1>2, <1>3, <1>5, <1>6 DEF TargetElements
<1>8. (\A m \in DOMAIN t \ {"text", "quirks"} : e[m] = t[m]) /\ e.text = text
  BY <1>5
<1> QED BY <1>4, <1>7, <1>8 DEF text

\* A board as an element.
LEMMA BoardToXML ==
  ASSUME NEW b \in BoardConfigs
  PROVE  boardCfgToXML(b) \in BoardElements
<1> DEFINE E == (FileFlags \union Flags6) \X BOOLEAN
           flags == boardCfgToXML(b).flags
<1>1. flags = << <<"enableTerminator", "enableTerminator" \in b.flags6>>,
                 <<"unitAttention", "unitAttention" \in b.flags>>,
                 <<"parity", "parity" \in b.flags>>,
                 <<"enableScsi2", "enableScsi2" \in b.flags>>,
                 <<"selLatch", "selLatch" \in b.flags>>,
                 <<"mapLunsToIds", "mapLunsToIds" \in b.flags>>,
                 <<"blindWrites", "blindWrites" \in b.flags6>> >>
  BY DEF boardCfgToXML
<1>2. /\ <<"enableTerminator", "enableTerminator" \in b.flags6>> \in E
      /\ <<"unitAttention", "unitAttention" \in b.flags>> \in E
      /\ <<"parity", "parity" \in b.flags>> \in E
      /\ <<"enableScsi2", "enableScsi2" \in b.flags>> \in E
      /\ <<"selLatch", "selLatch" \in b.flags>> \in E
      /\ <<"mapLunsToIds", "mapLunsToIds" \in b.flags>> \in E
      /\ <<"blindWrites", "blindWrites" \in b.flags6>> \in E
  <2>1. ASSUME NEW f \in FileFlags \union Flags6, NEW set PROVE <<f, f \in set>> \in E
    <3>1. (f \in set) \in BOOLEAN
      OBVIOUS
    <3>2. \A v \in BOOLEAN : <<f, v>> \in E
      OBVIOUS
    <3> HIDE DEF E
    <3> QED BY <3>1, <3>2
  <2>2. {"enableTerminator", "unitAttention", "parity", "enableScsi2", "selLatch",
         "mapLunsToIds", "blindWrites"} \subseteq FileFlags \union Flags6
    BY DEF FileFlags, Flags6
  <2> HIDE DEF E
  <2> QED BY <2>1, <2>2
<1>3. flags \in Seq(E)
  <2>1. \A f1, f2, f3, f4, f5, f6, f7 \in E : <<f1, f2, f3, f4, f5, f6, f7>> \in Seq(E)
    <3> HIDE DEF E
    <3> QED OBVIOUS
  <2> HIDE DEF E, flags
  <2> QED BY <1>1, <1>2, <2>1
<1>4. b.startup \in Nat /\ b.selection \in Nat /\ b.speed \in Nat
  BY DEF BoardConfigs, Byte
<1>5. boardCfgToXML(b) = [flags |-> flags, startup |-> b.startup, selection |-> b.selection,
                          speed |-> b.speed]
  BY DEF boardCfgToXML
<1> HIDE DEF flags
<1> QED BY <1>3, <1>4, <1>5 DEF BoardElements

\* A window as a file.
LEMMA ToXML ==
  ASSUME NEW b \in BoardConfigs, NEW ts \in [Targets -> TargetConfigs]
  PROVE  /\ IsFile(toXML(b, ts))
         /\ toXML(b, ts).kind = "xml"
         /\ toXML(b, ts).boards = <<boardCfgToXML(b)>>
         /\ DOMAIN toXML(b, ts).targets = Targets
         /\ \A i \in Targets : toXML(b, ts).targets[i] = targetCfgToXML(ts[i])
<1> DEFINE e == boardCfgToXML(b)
           es == [i \in DOMAIN ts |-> targetCfgToXML(ts[i])]
           f == toXML(b, ts)
<1>1. f.kind = "xml" /\ f.boards = <<e>> /\ f.targets = es
  BY DEF toXML
<1>2. e \in BoardElements
  BY BoardToXML
<1>3. DOMAIN es = Targets /\ \A i \in Targets : es[i] = targetCfgToXML(ts[i])
  OBVIOUS
<1>4. \A i \in Targets : es[i] \in TargetElements
  BY <1>3, TargetToXML
<1> HIDE DEF e, es, f
<1>5. IsFile(f)
  BY <1>1, <1>2, <1>3, <1>4 DEF IsFile
<1> QED BY <1>1, <1>3, <1>5 DEF f, e

-----------------------------------------------------------------------------

\* A number in a file, where it is within its limit, is read as it is.
LEMMA NumberRead ==
  ASSUME NEW n \in Int, NEW limit \in Nat \union {-1}, NEW k \in parseInt(n, limit)
  PROVE  /\ k \in Int /\ k >= -1
         /\ limit # -1 => k \in Nat /\ k <= limit
         /\ n >= 0 /\ (limit = -1 \/ n <= limit) => k = n
  BY DEF parseInt

\* A hexadecimal number of one decimal digit is read as it is.
LEMMA HexRead ==
  /\ \A n \in Byte : ReadHex(n) \in Byte /\ (n <= 9 => ReadHex(n) = n)
  /\ \A n \in SomeByte : ReadHex(n) \in SomeByte
<1>1. ASSUME NEW n \in Byte PROVE ReadHex(n) \in Byte /\ (n <= 9 => ReadHex(n) = n)
  <2> DEFINE high == n \div 16
             low == n % 16
  <2>1. /\ n \in 0 .. 255 /\ n # Unset
        /\ high \in 0 .. 15 /\ low \in 0 .. 15
        /\ n <= 9 => high = 0 /\ low = n
    BY DEF Byte, Unset
  <2>2. ReadHex(n) = IF high > 9 \/ (high = 0 /\ low > 9) THEN 0
                     ELSE IF low > 9 THEN high ELSE 10 * high + low
    BY <2>1 DEF ReadHex
  <2> HIDE DEF high, low
  <2> QED BY <2>1, <2>2 DEF Byte
<1>2. ReadHex(Unset) = Unset
  BY DEF ReadHex
<1> QED BY <1>1, <1>2 DEF SomeByte

\* Names that are no shorter than their fields are read as they are.
LEMMA TextRead ==
  ASSUME NEW text \in Names
  PROVE  /\ parseText(text) \in Names
         /\ (\A f \in TextFields \ {"serialTail"} : text[f] # "short") => parseText(text) = text
<1>1. {"serial"} \subseteq TextFields \ {"serialTail"}
  BY DEF TextFields
<1>2. parseText(text) \in Names
  BY DEF parseText, Names, Texts
<1>3. ASSUME \A f \in TextFields \ {"serialTail"} : text[f] # "short"
      PROVE  parseText(text) = text
  <2>1. \A f \in TextFields : parseText(text)[f] = text[f]
    BY <1>1, <1>3 DEF parseText
  <2>2. parseText(text) = [f \in TextFields |-> parseText(text)[f]]
    BY DEF parseText
  <2>3. text = [f \in TextFields |-> text[f]]
    BY DEF Names
  <2> QED BY <2>1, <2>2, <2>3
<1> QED BY <1>2, <1>3

\* An element as a target.
LEMMA TargetRead ==
  ASSUME NEW e \in TargetElements, NEW t \in parseTarget(e)
  PROVE  /\ t \in TargetConfigs
         /\ t.enabled = e.enabled /\ t.id = e.id
         /\ e.type <= 9 => t.type = e.type
         /\ e.start >= 0 => t.start = e.start
         /\ e.sectors >= 0 => t.sectors = e.sectors
         /\ e.bytes >= 0 /\ e.bytes <= 8192 => t.bytes = e.bytes
         /\ e.track >= 0 /\ e.track <= 255 => t.track = e.track
         /\ e.heads >= 0 /\ e.heads <= 255 => t.heads = e.heads
         /\ t.text = parseText(e.text)
<1>1. PICK s \in parseInt(e.start, -1), c \in parseInt(e.sectors, -1),
           b \in parseInt(e.bytes, 8192), k \in parseInt(e.track, 255),
           h \in parseInt(e.heads, 255) :
        t = [enabled |-> e.enabled, id |-> e.id, type |-> ReadHex(e.type),
             modifier |-> ReadHex(e.modifier), start |-> s, sectors |-> c, bytes |-> b,
             track |-> k, heads |-> h, text |-> parseText(e.text),
             quirks |-> parseQuirks(e.quirks)]
  BY DEF parseTarget
<1> DEFINE type == ReadHex(e.type)
           modifier == ReadHex(e.modifier)
           text == parseText(e.text)
           quirks == parseQuirks(e.quirks)
<1>2. /\ e.enabled \in BOOLEAN /\ e.id \in Nat /\ e.type \in Byte /\ e.modifier \in SomeByte
      /\ e.start \in Int /\ e.sectors \in Int /\ e.bytes \in Int
      /\ e.track \in Int /\ e.heads \in Int /\ e.text \in Names
  BY ElementParts
<1>3. s \in Int /\ (e.start >= 0 => s = e.start)
  BY <1>2, NumberRead
<1>4. c \in Count /\ (e.sectors >= 0 => c = e.sectors)
  <2>1. c \in Int /\ c >= -1 /\ (e.sectors >= 0 => c = e.sectors)
    BY <1>2, NumberRead
  <2>2. c = -1 \/ c \in Nat
    BY <2>1
  <2> QED BY <2>1, <2>2, Numbers
<1>5. b \in Word /\ (e.bytes >= 0 /\ e.bytes <= 8192 => b = e.bytes)
  <2>1. b \in Nat /\ b <= 8192 /\ (e.bytes >= 0 /\ e.bytes <= 8192 => b = e.bytes)
    BY <1>2, NumberRead
  <2> QED BY <2>1, Numbers
<1>6. k \in Word /\ (e.track >= 0 /\ e.track <= 255 => k = e.track)
  <2>1. k \in Nat /\ k <= 255 /\ (e.track >= 0 /\ e.track <= 255 => k = e.track)
    BY <1>2, NumberRead
  <2> QED BY <2>1, Numbers
<1>7. h \in Word /\ (e.heads >= 0 /\ e.heads <= 255 => h = e.heads)
  <2>1. h \in Nat /\ h <= 255 /\ (e.heads >= 0 /\ e.heads <= 255 => h = e.heads)
    BY <1>2, NumberRead
  <2> QED BY <2>1, Numbers
<1>8. /\ type \in Byte /\ (e.type <= 9 => type = e.type)
      /\ modifier \in SomeByte
  BY <1>2, HexRead
<1>9. text \in Names
  BY <1>2, TextRead
<1>10. quirks \in SUBSET (Quirks \union {AnyQuirk})
  BY DEF parseQuirks
<1> HIDE DEF type, modifier, text, quirks
<1>11. t = [enabled |-> e.enabled, id |-> e.id, type |-> type, modifier |-> modifier,
            start |-> s, sectors |-> c, bytes |-> b, track |-> k, heads |-> h,
            text |-> text, quirks |-> quirks]
  BY <1>1 DEF type, modifier, text, quirks
<1>12. t \in TargetConfigs
  BY <1>2, <1>3, <1>4, <1>5, <1>6, <1>7, <1>8, <1>9, <1>10, <1>11 DEF TargetConfigs
<1>13. /\ t.enabled = e.enabled /\ t.id = e.id /\ t.type = type /\ t.start = s
       /\ t.sectors = c /\ t.bytes = b /\ t.track = k /\ t.heads = h /\ t.text = text
  BY <1>11
<1> QED BY <1>3, <1>4, <1>5, <1>6, <1>7, <1>8, <1>12, <1>13 DEF text

FlagElements == (FileFlags \union Flags6) \X BOOLEAN

\* A board with another member.
LEMMA BoardChanged ==
  ASSUME NEW b \in BoardConfigs
  PROVE  /\ \A v \in SUBSET (FileFlags \union OtherFlags) : [b EXCEPT !.flags = v] \in BoardConfigs
         /\ \A v \in SUBSET Flags6 : [b EXCEPT !.flags6 = v] \in BoardConfigs
         /\ \A v \in Byte : /\ [b EXCEPT !.startup = v] \in BoardConfigs
                            /\ [b EXCEPT !.selection = v] \in BoardConfigs
                            /\ [b EXCEPT !.speed = v] \in BoardConfigs
  BY DEF BoardConfigs

LEMMA BoardParts ==
  ASSUME NEW b \in BoardConfigs
  PROVE  /\ b.flags \subseteq FileFlags \union OtherFlags /\ b.flags6 \subseteq Flags6
         /\ b.startup \in Byte /\ b.selection \in Byte /\ b.speed \in Byte
         /\ b = [flags |-> b.flags, flags6 |-> b.flags6, startup |-> b.startup,
                 selection |-> b.selection, speed |-> b.speed]
  BY DEF BoardConfigs

\* What one element does to a board.
LEMMA FlagRead ==
  ASSUME NEW b \in BoardConfigs, NEW f \in FlagElements
  PROVE  /\ parseFlag(b, f) \in BoardConfigs
         /\ f[1] \in FileFlags =>
              parseFlag(b, f) = [b EXCEPT !.flags = IF f[2] THEN @ \union {f[1]} ELSE @ \ {f[1]}]
         /\ f[1] = "enableTerminator" /\ ~f[2] /\ "parity" \notin b.flags =>
              parseFlag(b, f) = [b EXCEPT !.flags6 = {}]
         /\ f[1] \in Flags6 /\ ~(f[1] = "enableTerminator" /\ ~f[2]) =>
              parseFlag(b, f) = [b EXCEPT !.flags6 = IF f[2] THEN @ \union {f[1]} ELSE @ \ {f[1]}]
<1> DEFINE c == parseFlag(b, f)
<1>1. f[1] \in FileFlags \union Flags6 /\ f[2] \in BOOLEAN
  BY DEF FlagElements
<1>2. \A x \in Flags6 : x \notin FileFlags
  BY DEF FileFlags, Flags6
<1>3. "enableTerminator" \in Flags6 /\ "blindWrites" \in Flags6
  BY DEF Flags6
<1>4. CASE f[1] \in FileFlags
  <2> DEFINE set == IF f[2] THEN b.flags \union {f[1]} ELSE b.flags \ {f[1]}
  <2>1. c = [b EXCEPT !.flags = set]
    BY <1>2, <1>3, <1>4 DEF parseFlag
  <2>2. set \in SUBSET (FileFlags \union OtherFlags)
    BY <1>4, BoardParts
  <2>3. c \in BoardConfigs
    <3> HIDE DEF set, c
    <3> QED BY <2>1, <2>2, BoardChanged
  <2> QED BY <1>2, <1>3, <1>4, <2>1, <2>3
<1>5. CASE f[1] = "enableTerminator" /\ ~f[2]
  <2> DEFINE set == IF "parity" \in b.flags THEN {"blindWrites"} ELSE {}
  <2>1. c = [b EXCEPT !.flags6 = set]
    BY <1>2, <1>3, <1>5 DEF parseFlag
  <2>2. set \in SUBSET Flags6
    BY <1>3
  <2>3. c \in BoardConfigs
    <3> HIDE DEF set, c
    <3> QED BY <2>1, <2>2, BoardChanged
  <2> QED BY <1>2, <1>3, <1>5, <2>1, <2>3
<1>6. CASE f[1] \in Flags6 /\ ~(f[1] = "enableTerminator" /\ ~f[2])
  <2> DEFINE set == IF f[2] THEN b.flags6 \union {f[1]} ELSE b.flags6 \ {f[1]}
  <2>1. c = [b EXCEPT !.flags6 = set]
    BY <1>2, <1>6 DEF parseFlag
  <2>2. set \in SUBSET Flags6
    BY <1>6, BoardParts
  <2>3. c \in BoardConfigs
    <3> HIDE DEF set, c
    <3> QED BY <2>1, <2>2, BoardChanged
  <2> QED BY <1>2, <1>6, <2>1, <2>3
<1> QED BY <1>1, <1>4, <1>5, <1>6

\* An element of a flag, by its parts.
LEMMA FlagWritten ==
  ASSUME NEW name, NEW set, NEW f, f = <<name, name \in set>>
  PROVE  f[1] = name /\ (f[2] <=> name \in set)
<1>1. f[1] = name
  OBVIOUS
<1>2. f[2] <=> name \in set
  OBVIOUS
<1> QED BY <1>1, <1>2

\* Element after element, as a sequence of boards.
LEMMA FlagsRead ==
  ASSUME NEW flags \in Seq(FlagElements)
  PROVE  \E f : /\ f[0] = defaultBoardConfig
                /\ \A k \in 1 .. Len(flags) : f[k] = parseFlag(f[k - 1], flags[k])
                /\ parseFlags(flags) = f[Len(flags)]
<1> DEFINE n == Len(flags)
           after == CHOOSE f : ParsedBy(f, flags, n)
<1>1. n \in Nat
  OBVIOUS
<1>2. ParsedBy(after, flags, n)
  <2>1. \E f : ParsedBy(f, flags, n)
    <3> HIDE DEF n
    <3> QED BY <1>1, FlagsLoop
  <2> QED BY <2>1
<1>3. parseFlags(flags) = after[n]
  BY DEF parseFlags, ParsedBy
<1> HIDE DEF after, n
<1>4. /\ after[0] = defaultBoardConfig
      /\ \A k \in 1 .. n : after[k] = parseFlag(after[k - 1], flags[k])
  BY <1>1, <1>2 DEF ParsedBy
<1> QED BY <1>3, <1>4 DEF n

\* Whatever flags a file has make a board.
LEMMA FlagsTyped ==
  ASSUME NEW flags \in Seq(FlagElements)
  PROVE  parseFlags(flags) \in BoardConfigs
<1> DEFINE n == Len(flags)
<1>1. PICK f : /\ f[0] = defaultBoardConfig
               /\ \A k \in 1 .. n : f[k] = parseFlag(f[k - 1], flags[k])
               /\ parseFlags(flags) = f[n]
  BY FlagsRead
<1> DEFINE S == {k \in Nat : k <= n => f[k] \in BoardConfigs}
<1>2. 0 \in S
  BY <1>1, Defaults
<1>3. ASSUME NEW k \in Nat, k \in S PROVE k + 1 \in S
  <2>1. SUFFICES ASSUME k + 1 <= n PROVE f[k + 1] \in BoardConfigs
    OBVIOUS
  <2>2. n \in Nat /\ k + 1 \in 1 .. n /\ (k + 1) - 1 = k /\ k <= n
    BY <2>1
  <2>3. flags[k + 1] \in FlagElements
    BY <2>2
  <2>4. f[k + 1] = parseFlag(f[k], flags[k + 1])
    BY <1>1, <2>2
  <2>5. f[k] \in BoardConfigs
    BY <1>3, <2>2
  <2> QED BY <2>3, <2>4, <2>5, FlagRead
<1>4. Nat \subseteq S
  <2> HIDE DEF S
  <2> QED BY <1>2, <1>3, Induction
<1> QED BY <1>1, <1>4

\* Whatever board a file has is read as a board.
LEMMA BoardRead ==
  ASSUME NEW e \in BoardElements
  PROVE  parseBoardConfig(e) \in BoardConfigs
<1>1. /\ e.flags \in Seq(FlagElements)
      /\ e.startup \in Nat /\ e.selection \in Nat /\ e.speed \in Nat
  BY DEF BoardElements, FlagElements
<1>2. parseFlags(e.flags) \in BoardConfigs
  BY <1>1, FlagsTyped
<1>3. \A n, m \in Nat : m <= 255 => Least(n, m) \in Byte
  BY DEF Least, Byte
<1>4. /\ Least(e.startup, 255) \in Byte /\ Least(e.selection, 255) \in Byte
      /\ Least(e.speed, SpeedSync10) \in Byte
  BY <1>1, <1>3 DEF SpeedSync10
<1> DEFINE b == parseFlags(e.flags)
           x == Least(e.startup, 255)
           y == Least(e.selection, 255)
           z == Least(e.speed, SpeedSync10)
<1>5. parseBoardConfig(e) = [b EXCEPT !.startup = x, !.selection = y, !.speed = z]
  BY DEF parseBoardConfig
<1>6. b \in BoardConfigs /\ x \in Byte /\ y \in Byte /\ z \in Byte
  BY <1>2, <1>4
<1> HIDE DEF b, x, y, z
<1> QED BY <1>5, <1>6 DEF BoardConfigs

\* A board is written and read again.
LEMMA BoardRestored ==
  ASSUME NEW b \in BoardConfigs, b.flags \subseteq FileFlags, b.speed <= SpeedSync10
  PROVE  parseBoardConfig(boardCfgToXML(b)) = b
<1> DEFINE e == boardCfgToXML(b)
           d == defaultBoardConfig
           Board(flags, flags6) == [d EXCEPT !.flags = flags, !.flags6 = flags6]
<1>1. e \in BoardElements
  BY BoardToXML
<1>2. /\ e.flags = << <<"enableTerminator", "enableTerminator" \in b.flags6>>,
                      <<"unitAttention", "unitAttention" \in b.flags>>,
                      <<"parity", "parity" \in b.flags>>,
                      <<"enableScsi2", "enableScsi2" \in b.flags>>,
                      <<"selLatch", "selLatch" \in b.flags>>,
                      <<"mapLunsToIds", "mapLunsToIds" \in b.flags>>,
                      <<"blindWrites", "blindWrites" \in b.flags6>> >>
      /\ e.startup = b.startup /\ e.selection = b.selection /\ e.speed = b.speed
  BY DEF boardCfgToXML
<1> HIDE DEF e
<1>3. e.flags \in Seq(FlagElements) /\ Len(e.flags) = 7
  BY <1>1, <1>2 DEF BoardElements, FlagElements
<1>4. PICK f : /\ f[0] = defaultBoardConfig
               /\ \A k \in 1 .. 7 : f[k] = parseFlag(f[k - 1], e.flags[k])
               /\ parseFlags(e.flags) = f[7]
  <2>1. PICK f : /\ f[0] = defaultBoardConfig
                 /\ \A k \in 1 .. Len(e.flags) : f[k] = parseFlag(f[k - 1], e.flags[k])
                 /\ parseFlags(e.flags) = f[Len(e.flags)]
    BY <1>3, FlagsRead
  <2> QED BY <1>3, <2>1
<1>5. /\ f[1] = parseFlag(f[0], e.flags[1]) /\ f[2] = parseFlag(f[1], e.flags[2])
      /\ f[3] = parseFlag(f[2], e.flags[3]) /\ f[4] = parseFlag(f[3], e.flags[4])
      /\ f[5] = parseFlag(f[4], e.flags[5]) /\ f[6] = parseFlag(f[5], e.flags[6])
      /\ f[7] = parseFlag(f[6], e.flags[7])
  BY <1>4
<1>6. /\ d \in BoardConfigs /\ d.flags = {} /\ d.flags6 = {"enableTerminator"}
  BY Defaults DEF defaultBoardConfig
<1>7. \A k \in 1 .. 7 : e.flags[k] \in FlagElements
  BY <1>3
<1> HIDE DEF d
<1> DEFINE Is(c, flags, flags6) == c \in BoardConfigs /\ c.flags = flags /\ c.flags6 = flags6
<1>8. Is(f[1], {}, b.flags6 \cap {"enableTerminator"})
  <2> DEFINE on == "enableTerminator" \in b.flags6
             x == e.flags[1]
  <2>1. f[1] = parseFlag(d, x) /\ x \in FlagElements
    BY <1>4, <1>5, <1>7 DEF d
  <2>2. "enableTerminator" \in Flags6 /\ "parity" \notin d.flags
    BY <1>6 DEF Flags6
  <2>a. x[1] = "enableTerminator" /\ (x[2] <=> on)
    <3>1. x = <<"enableTerminator", "enableTerminator" \in b.flags6>>
      BY <1>2
    <3> HIDE DEF x
    <3> QED BY <3>1, FlagWritten
  <2>3. /\ f[1] \in BoardConfigs
        /\ ~on => f[1] = [d EXCEPT !.flags6 = {}]
        /\ on => f[1] = [d EXCEPT !.flags6 = @ \union {"enableTerminator"}]
    <3> HIDE DEF on, x
    <3> QED BY <1>6, <2>1, <2>2, <2>a, FlagRead
  <2>4. ~on => f[1] = [d EXCEPT !.flags6 = {}]
    BY <2>3
  <2>5. on => f[1] = [d EXCEPT !.flags6 = @ \union {"enableTerminator"}]
    BY <2>3
  <2> QED BY <1>6, <2>3, <2>4, <2>5 DEF BoardConfigs
<1>9. ASSUME NEW k \in 2 .. 6, NEW name \in FileFlags, NEW flags, NEW flags6,
             e.flags[k] = <<name, name \in b.flags>>, Is(f[k - 1], flags, flags6),
             f[k] = parseFlag(f[k - 1], e.flags[k]), name \notin flags
      PROVE  Is(f[k], flags \union (b.flags \cap {name}), flags6)
  <2> DEFINE on == name \in b.flags
             c == f[k - 1]
             x == e.flags[k]
  <2>1. x[1] = name /\ (x[2] <=> on)
    <3>1. x = <<name, name \in b.flags>>
      BY <1>9
    <3> HIDE DEF x
    <3> QED BY <3>1, FlagWritten
  <2>a. c \in BoardConfigs /\ x \in FlagElements /\ f[k] = parseFlag(c, x)
    BY <1>7, <1>9
  <2>2. /\ f[k] \in BoardConfigs
        /\ f[k] = [c EXCEPT !.flags = IF on THEN @ \union {name} ELSE @ \ {name}]
    <3> HIDE DEF on, x, c
    <3> QED BY <2>1, <2>a, FlagRead
  <2>3. c \in BoardConfigs /\ c.flags = flags /\ c.flags6 = flags6
    BY <1>9
  <2> HIDE DEF c
  <2>4. f[k].flags6 = flags6 /\ f[k].flags = IF on THEN flags \union {name} ELSE flags \ {name}
    BY <2>2, <2>3 DEF BoardConfigs
  <2>5. (IF on THEN flags \union {name} ELSE flags \ {name}) = flags \union (b.flags \cap {name})
    BY <1>9
  <2> QED BY <2>2, <2>4, <2>5
<1>10. Is(f[2], {} \union (b.flags \cap {"unitAttention"}), b.flags6 \cap {"enableTerminator"})
  <2>1. "unitAttention" \in FileFlags /\ "unitAttention" \notin {} /\ 2 - 1 = 1 /\ 2 \in 2 .. 6
    BY DEF FileFlags
  <2>2. e.flags[2] = <<"unitAttention", "unitAttention" \in b.flags>>
    BY <1>2
  <2> HIDE DEF Is
  <2> QED BY <1>5, <1>8, <1>9, <2>1, <2>2
<1>11. Is(f[2], b.flags \cap {"unitAttention"}, b.flags6 \cap {"enableTerminator"})
  BY <1>10
<1>12. Is(f[3], (b.flags \cap {"unitAttention"}) \union (b.flags \cap {"parity"}),
          b.flags6 \cap {"enableTerminator"})
  <2>1. "parity" \in FileFlags /\ "parity" \notin b.flags \cap {"unitAttention"}
        /\ 3 - 1 = 2 /\ 3 \in 2 .. 6
    BY DEF FileFlags
  <2>2. e.flags[3] = <<"parity", "parity" \in b.flags>>
    BY <1>2
  <2> HIDE DEF Is
  <2> QED BY <1>5, <1>9, <1>11, <2>1, <2>2
<1>13. Is(f[3], b.flags \cap {"unitAttention", "parity"}, b.flags6 \cap {"enableTerminator"})
  <2>1. (b.flags \cap {"unitAttention"}) \union (b.flags \cap {"parity"})
          = b.flags \cap {"unitAttention", "parity"}
    OBVIOUS
  <2> QED BY <1>12, <2>1
<1>14. Is(f[4], b.flags \cap {"unitAttention", "parity", "enableScsi2"},
          b.flags6 \cap {"enableTerminator"})
  <2>1. "enableScsi2" \in FileFlags /\ "enableScsi2" \notin b.flags \cap {"unitAttention", "parity"}
        /\ 4 - 1 = 3 /\ 4 \in 2 .. 6
    BY DEF FileFlags
  <2>2. e.flags[4] = <<"enableScsi2", "enableScsi2" \in b.flags>>
    BY <1>2
  <2>3. Is(f[4], (b.flags \cap {"unitAttention", "parity"}) \union (b.flags \cap {"enableScsi2"}),
           b.flags6 \cap {"enableTerminator"})
    <3> HIDE DEF Is
    <3> QED BY <1>5, <1>9, <1>13, <2>1, <2>2
  <2>4. (b.flags \cap {"unitAttention", "parity"}) \union (b.flags \cap {"enableScsi2"})
          = b.flags \cap {"unitAttention", "parity", "enableScsi2"}
    OBVIOUS
  <2> QED BY <2>3, <2>4
<1>15. Is(f[5], b.flags \cap {"unitAttention", "parity", "enableScsi2", "selLatch"},
          b.flags6 \cap {"enableTerminator"})
  <2> DEFINE before == b.flags \cap {"unitAttention", "parity", "enableScsi2"}
  <2>1. "selLatch" \in FileFlags /\ "selLatch" \notin before /\ 5 - 1 = 4 /\ 5 \in 2 .. 6
    BY DEF FileFlags
  <2>2. e.flags[5] = <<"selLatch", "selLatch" \in b.flags>>
    BY <1>2
  <2>3. Is(f[5], before \union (b.flags \cap {"selLatch"}), b.flags6 \cap {"enableTerminator"})
    <3> HIDE DEF Is
    <3> QED BY <1>5, <1>9, <1>14, <2>1, <2>2
  <2>4. before \union (b.flags \cap {"selLatch"})
          = b.flags \cap {"unitAttention", "parity", "enableScsi2", "selLatch"}
    OBVIOUS
  <2> QED BY <2>3, <2>4
<1>16. Is(f[6], b.flags, b.flags6 \cap {"enableTerminator"})
  <2> DEFINE before == b.flags \cap {"unitAttention", "parity", "enableScsi2", "selLatch"}
  <2>1. "mapLunsToIds" \in FileFlags /\ "mapLunsToIds" \notin before /\ 6 - 1 = 5 /\ 6 \in 2 .. 6
    BY DEF FileFlags
  <2>2. e.flags[6] = <<"mapLunsToIds", "mapLunsToIds" \in b.flags>>
    BY <1>2
  <2>3. Is(f[6], before \union (b.flags \cap {"mapLunsToIds"}), b.flags6 \cap {"enableTerminator"})
    <3> HIDE DEF Is
    <3> QED BY <1>5, <1>9, <1>15, <2>1, <2>2
  <2>4. before \union (b.flags \cap {"mapLunsToIds"}) = b.flags
    BY DEF FileFlags
  <2> QED BY <2>3, <2>4
<1>17. Is(f[7], b.flags, b.flags6)
  <2> DEFINE on == "blindWrites" \in b.flags6
             c == f[6]
             x == e.flags[7]
  <2>1. x[1] = "blindWrites" /\ (x[2] <=> on)
    <3>1. x = <<"blindWrites", "blindWrites" \in b.flags6>>
      BY <1>2
    <3> HIDE DEF x
    <3> QED BY <3>1, FlagWritten
  <2>a. c \in BoardConfigs /\ x \in FlagElements /\ f[7] = parseFlag(c, x)
    BY <1>5, <1>7, <1>16
  <2>2. "blindWrites" \in Flags6 /\ b.flags6 \subseteq Flags6
    BY BoardParts DEF Flags6
  <2>3. /\ f[7] \in BoardConfigs
        /\ f[7] = [c EXCEPT !.flags6 = IF on THEN @ \union {"blindWrites"} ELSE @ \ {"blindWrites"}]
    <3>1. ~(x[1] = "enableTerminator" /\ ~x[2])
      BY <2>1
    <3> HIDE DEF on, x, c
    <3> QED BY <2>1, <2>2, <2>a, <3>1, FlagRead
  <2>4. c \in BoardConfigs /\ c.flags = b.flags /\ c.flags6 = b.flags6 \cap {"enableTerminator"}
    BY <1>16
  <2> HIDE DEF c
  <2>5. /\ f[7].flags = b.flags
        /\ f[7].flags6 = IF on THEN (b.flags6 \cap {"enableTerminator"}) \union {"blindWrites"}
                         ELSE (b.flags6 \cap {"enableTerminator"}) \ {"blindWrites"}
    BY <2>3, <2>4 DEF BoardConfigs
  <2>6. (IF on THEN (b.flags6 \cap {"enableTerminator"}) \union {"blindWrites"}
         ELSE (b.flags6 \cap {"enableTerminator"}) \ {"blindWrites"}) = b.flags6
    BY <2>2 DEF Flags6
  <2> QED BY <2>3, <2>5, <2>6
<1>18. /\ Least(e.startup, 255) = b.startup /\ Least(e.selection, 255) = b.selection
       /\ Least(e.speed, SpeedSync10) = b.speed
  <2>1. b.startup \in 0 .. 255 /\ b.selection \in 0 .. 255 /\ b.speed \in 0 .. 255
    BY BoardParts DEF Byte
  <2> QED BY <1>2, <2>1 DEF Least, SpeedSync10
<1>19. parseBoardConfig(e) = [f[7] EXCEPT !.startup = b.startup, !.selection = b.selection,
                                          !.speed = b.speed]
  BY <1>4, <1>18 DEF parseBoardConfig
<1>20. parseBoardConfig(e) = b
  <2> DEFINE c == f[7]
  <2>1. c \in BoardConfigs /\ c.flags = b.flags /\ c.flags6 = b.flags6
    BY <1>17
  <2> HIDE DEF c
  <2>2. [c EXCEPT !.startup = b.startup, !.selection = b.selection, !.speed = b.speed]
          = [flags |-> b.flags, flags6 |-> b.flags6, startup |-> b.startup,
             selection |-> b.selection, speed |-> b.speed]
    BY <2>1 DEF BoardConfigs
  <2> QED BY <1>19, <2>2, BoardParts DEF c
<1> QED BY <1>20 DEF e

\* Whatever is read from a file has its types.
LEMMA FileRead ==
  ASSUME NEW f, IsFile(f), NEW pair \in fromXML(f)
  PROVE  /\ pair.board \in BoardConfigs
         /\ f.boards # <<>> => pair.board = parseBoardConfig(f.boards[Len(f.boards)])
         /\ DOMAIN pair.targets = DOMAIN f.targets
         /\ \A i \in DOMAIN f.targets : /\ pair.targets[i] \in parseTarget(f.targets[i])
                                        /\ pair.targets[i] \in TargetConfigs
<1>1. /\ pair.board = IF f.boards = <<>> THEN zeroBoardConfig
                      ELSE parseBoardConfig(f.boards[Len(f.boards)])
      /\ DOMAIN pair.targets = DOMAIN f.targets
      /\ \A i \in DOMAIN f.targets : pair.targets[i] \in parseTarget(f.targets[i])
  BY DEF fromXML
<1>2. pair.board \in BoardConfigs
  <2>1. CASE f.boards = <<>>
    BY <1>1, <2>1, Defaults
  <2>2. CASE f.boards # <<>>
    <3>1. f.boards[Len(f.boards)] \in BoardElements
      <4>1. f.boards \in Seq(BoardElements)
        BY DEF IsFile
      <4>2. Len(f.boards) \in 1 .. Len(f.boards)
        BY <2>2, <4>1
      <4> QED BY <4>1, <4>2
    <3> QED BY <1>1, <2>2, <3>1, BoardRead
  <2> QED BY <2>1, <2>2
<1>3. \A i \in DOMAIN f.targets : f.targets[i] \in TargetElements
  BY DEF IsFile
<1> QED BY <1>1, <1>2, <1>3, TargetRead

Like(t, u) == /\ t \in TargetConfigs
              /\ \A m \in DOMAIN t \ {"modifier", "quirks"} : t[m] = u[m]

FileRestores(f, copy) ==
  /\ ~FileRaises(f)
  /\ DOMAIN f.targets = Targets
  /\ \A pair \in fromXML(f) :
       pair.board = copy.board /\ \A i \in Targets : Like(pair.targets[i], copy.targets[i])

\* A target is written and read again.
LEMMA TargetRestored ==
  ASSUME NEW u \in TargetConfigs, ~targetCfgToXMLRaises(u),
         u.bytes <= 8192, u.start >= 0, u.sectors >= 0, u.track <= 255, u.heads <= 255,
         u.type <= 9, \A f \in TextFields : u.text[f] # "markup",
         NEW t \in parseTarget(targetCfgToXML(u))
  PROVE  /\ \A f \in TextFields : targetCfgToXML(u).text[f] # "markup"
         /\ Like(t, [u EXCEPT !.text["serialTail"] = "blank"])
<1> DEFINE e == targetCfgToXML(u)
           text == [u.text EXCEPT !["serialTail"] = "blank"]
           v == [u EXCEPT !.text = text]
<1>1. /\ e \in TargetElements /\ e.text = text
      /\ \A m \in DOMAIN u \ {"text", "quirks"} : e[m] = u[m]
  BY TargetToXML
<1>2. /\ DOMAIN u = {"enabled", "id", "type", "modifier", "start", "sectors", "bytes",
                     "track", "heads", "text", "quirks"}
      /\ u.bytes >= 0 /\ u.track >= 0 /\ u.heads >= 0 /\ u.text \in Names
  <2>1. u.bytes \in Word /\ u.track \in Word /\ u.heads \in Word
    BY ConfigParts
  <2>2. \A n \in Word : n >= 0
    BY DEF Word
  <2> QED BY <2>1, <2>2, ConfigParts
<1>3. /\ e.enabled = u.enabled /\ e.id = u.id /\ e.type = u.type /\ e.start = u.start
      /\ e.sectors = u.sectors /\ e.bytes = u.bytes /\ e.track = u.track /\ e.heads = u.heads
  BY <1>1, <1>2
<1>4. text \in Names /\ \A f \in TextFields \ {"serialTail"} : text[f] = u.text[f]
  BY <1>2 DEF Names, Texts, TextFields
<1>5. text["serialTail"] = "blank"
  BY <1>2 DEF Names, TextFields
<1>6. parseText(text) = text
  <2>1. \A f \in TextFields \ {"serialTail"} : text[f] # "short"
    BY <1>4 DEF targetCfgToXMLRaises
  <2> HIDE DEF text
  <2> QED BY <1>4, <2>1, TextRead
<1>7. \A f \in TextFields : e.text[f] # "markup"
  BY <1>1, <1>4, <1>5
<1> HIDE DEF e
<1>8. t \in parseTarget(e)
  BY DEF e
<1>9. /\ t \in TargetConfigs
      /\ t.enabled = u.enabled /\ t.id = u.id /\ t.type = u.type /\ t.start = u.start
      /\ t.sectors = u.sectors /\ t.bytes = u.bytes /\ t.track = u.track /\ t.heads = u.heads
      /\ t.text = text
  <2>1. /\ t \in TargetConfigs
        /\ t.enabled = e.enabled /\ t.id = e.id
        /\ e.type <= 9 => t.type = e.type
        /\ e.start >= 0 => t.start = e.start
        /\ e.sectors >= 0 => t.sectors = e.sectors
        /\ e.bytes >= 0 /\ e.bytes <= 8192 => t.bytes = e.bytes
        /\ e.track >= 0 /\ e.track <= 255 => t.track = e.track
        /\ e.heads >= 0 /\ e.heads <= 255 => t.heads = e.heads
        /\ t.text = parseText(e.text)
    BY <1>1, <1>8, TargetRead
  <2> HIDE DEF text
  <2> QED BY <1>1, <1>2, <1>3, <1>6, <2>1
<1>10. \A m \in DOMAIN u : v[m] = IF m = "text" THEN text ELSE u[m]
  BY <1>2
<1>11. DOMAIN t = DOMAIN u
  BY <1>2, <1>9, ConfigParts
<1> HIDE DEF text, v
<1>12. Like(t, v)
  <2>1. ASSUME NEW m \in DOMAIN t \ {"modifier", "quirks"} PROVE t[m] = v[m]
    <3>1. m \in {"enabled", "id", "type", "start", "sectors", "bytes", "track", "heads", "text"}
      BY <1>2, <1>11
    <3>2. v[m] = IF m = "text" THEN text ELSE u[m]
      BY <1>10, <1>11
    <3> QED BY <1>9, <3>1, <3>2
  <2> QED BY <1>9, <2>1 DEF Like
<1> QED BY <1>7, <1>12 DEF e, v, text

\* What a file can hold is written and read again.
LEMMA FileRestored ==
  ASSUME NEW b \in BoardConfigs, NEW ts \in [Targets -> TargetConfigs],
         Portable(b, ts), \A i \in Targets : ~targetCfgToXMLRaises(ts[i])
  PROVE  FileRestores(toXML(b, ts), [board |-> b, targets |-> InFile(ts)])
<1> DEFINE f == toXML(b, ts)
<1>1. /\ IsFile(f) /\ f.kind = "xml" /\ f.boards = <<boardCfgToXML(b)>>
      /\ DOMAIN f.targets = Targets
      /\ \A i \in Targets : f.targets[i] = targetCfgToXML(ts[i])
  BY ToXML
<1>2. b.flags \subseteq FileFlags /\ b.speed <= SpeedSync10
  BY DEF Portable
<1>3. ASSUME NEW i \in Targets
      PROVE  /\ \A x \in TextFields : f.targets[i].text[x] # "markup"
             /\ \A t \in parseTarget(f.targets[i]) : Like(t, InFile(ts)[i])
  <2> DEFINE u == ts[i]
  <2>1. u \in TargetConfigs /\ ~targetCfgToXMLRaises(u)
    OBVIOUS
  <2>2. /\ u.bytes <= 8192 /\ u.start >= 0 /\ u.sectors >= 0 /\ u.track <= 255 /\ u.heads <= 255
        /\ u.type <= 9 /\ \A x \in TextFields : u.text[x] # "markup"
    BY DEF Portable
  <2>3. f.targets[i] = targetCfgToXML(u)
    BY <1>1
  <2>4. InFile(ts)[i] = [u EXCEPT !.text["serialTail"] = "blank"]
    BY DEF InFile
  <2>5. \A x \in TextFields : targetCfgToXML(u).text[x] # "markup"
    <3> HIDE DEF u
    <3>1. targetCfgToXML(u).text = [u.text EXCEPT !["serialTail"] = "blank"] /\ u.text \in Names
      BY <2>1, TargetToXML, ConfigParts
    <3> QED BY <2>2, <3>1 DEF Names
  <2>6. \A t \in parseTarget(targetCfgToXML(u)) : Like(t, [u EXCEPT !.text["serialTail"] = "blank"])
    <3> HIDE DEF u
    <3> QED BY <2>1, <2>2, TargetRestored
  <2> HIDE DEF u, f
  <2> QED BY <2>3, <2>4, <2>5, <2>6
<1> HIDE DEF f
<1>4. ~FileRaises(f)
  BY <1>1, <1>3 DEF FileRaises
<1>5. ASSUME NEW pair \in fromXML(f)
      PROVE  pair.board = b /\ \A i \in Targets : Like(pair.targets[i], InFile(ts)[i])
  <2>1. f.boards # <<>> /\ f.boards[Len(f.boards)] = boardCfgToXML(b)
    BY <1>1
  <2>2. pair.board = parseBoardConfig(boardCfgToXML(b))
    BY <1>1, <2>1, FileRead
  <2>3. pair.board = b
    BY <1>2, <2>2, BoardRestored
  <2>4. \A i \in Targets : pair.targets[i] \in parseTarget(f.targets[i])
    BY <1>1, FileRead
  <2> QED BY <1>3, <2>3, <2>4
<1>6. FileRestores(f, [board |-> b, targets |-> InFile(ts)])
  BY <1>1, <1>4, <1>5 DEF FileRestores
<1> QED BY <1>6 DEF f

-----------------------------------------------------------------------------
(* The inductive invariant. *)

\* What placing one target after the other leaves. The size that a panel shows counts
\* as well, for the sectors are computed from it when its unit is chosen once more.
Place(p) == p.cfg.start >= 0 /\ p.cfg.sectors >= 0 /\ p.cfg.bytes > 0 /\ Settled(p)

Before(p, q) == /\ p.cfg.start + p.cfg.sectors <= q.cfg.start
                /\ p.size * FactorOf[p.unit] <= (q.cfg.start - p.cfg.start) * p.cfg.bytes

Laid(ps, these) == /\ \A i \in these : Place(ps[i])
                   /\ \A i, j \in these : i < j => Before(ps[i], ps[j])

WorkerOK ==
  /\ worker.op = "load" => worker.data \in Cards /\ worker.step \in 0 .. TargetCount
  /\ worker.op = "save" => /\ worker.step \in Targets
                           /\ Len(worker.data.targets) = worker.step - 1
  /\ worker.op = "write" => worker.step \in {1, 2} /\ worker.data \in Cards

\* The card is the copy that it is said to be, and the file.
CardHolds(c, copy) == /\ c.magic /\ c.board = copy.board
                      /\ \A i \in Targets : Same(targetCfgFromBytes(c.targets[i]), copy.targets[i])

Copies == /\ \A copy \in cardOf : CardHolds(card, copy)
          /\ \A copy \in fileOf : FileRestores(file, copy)

\* How far the thread is.
Loading ==
  worker.op = "load" =>
    /\ worker.data = card
    /\ ~touched => /\ worker.step > 0 => board = boardConfigFromBytes(card)
                   /\ \A i \in Targets : i < worker.step =>
                        panels[i].cfg = targetCfgFromBytes(card.targets[i])

Gathering ==
  worker.op \in {"save", "write"} /\ ~touched =>
    /\ worker.data.board = board
    /\ \A i \in DOMAIN worker.data.targets : worker.data.targets[i] = getTargetConfig(panels[i])

Writing ==
  worker.op = "write" /\ worker.step = 2 =>
    /\ card.magic /\ card.board = worker.data.board
    /\ \A i \in 1 .. FirstSector : card.targets[i] = worker.data.targets[i]

Sizes == \A i \in Targets : Sized(panels[i])

IInv == /\ TypeOK /\ Sizes /\ Laid(panels, laidOut)
        /\ WorkerOK /\ Copies /\ Loading /\ Gathering /\ Writing

PanelSet == {ps \in [Targets -> Panels] : \A i \in Targets : Sized(ps[i])}

\* Whether targets lie in a row depends on these members only.
LEMMA LaidSame ==
  ASSUME NEW ps \in [Targets -> Panels], NEW qs \in [Targets -> Panels],
         NEW these \in SUBSET Targets, Laid(ps, these),
         \A i \in these : /\ qs[i].cfg.type = ps[i].cfg.type /\ qs[i].cfg.start = ps[i].cfg.start
                          /\ qs[i].cfg.sectors = ps[i].cfg.sectors
                          /\ qs[i].cfg.bytes = ps[i].cfg.bytes
                          /\ qs[i].size = ps[i].size /\ qs[i].unit = ps[i].unit
                          /\ qs[i].editable = ps[i].editable
  PROVE  Laid(qs, these)
<1>1. ASSUME NEW i \in these PROVE Place(qs[i])
  <2>1. ps[i] \in Panels /\ qs[i] \in Panels /\ Settled(ps[i])
    BY DEF Laid, Place
  <2>2. Settled(qs[i])
    BY <2>1, StaysSettled
  <2> QED BY <2>2 DEF Laid, Place
<1>2. \A i, j \in these : i < j => Before(qs[i], qs[j])
  BY DEF Laid, Before
<1> QED BY <1>1, <1>2 DEF Laid

\* Some of the targets of a row lie in a row.
LEMMA LaidFewer ==
  ASSUME NEW ps, NEW these, NEW fewer \in SUBSET these, Laid(ps, these)
  PROVE  Laid(ps, fewer)
  BY DEF Laid

\* One panel changed, of which nothing is said any more, or nothing that matters.
LEMMA OneChanged ==
  ASSUME NEW ps \in PanelSet, NEW i \in Targets, NEW q \in Panels, Sized(q),
         NEW these \in SUBSET Targets, Laid(ps, these)
  PROVE  LET qs == [ps EXCEPT ![i] = q]
             p == ps[i]
         IN /\ qs \in PanelSet
            /\ Laid(qs, these \ {i})
            /\ /\ q.cfg.type = p.cfg.type /\ q.cfg.start = p.cfg.start
               /\ q.cfg.sectors = p.cfg.sectors /\ q.cfg.bytes = p.cfg.bytes
               /\ q.size = p.size /\ q.unit = p.unit /\ q.editable = p.editable
               => Laid(qs, these)
<1> DEFINE qs == [ps EXCEPT ![i] = q]
           p == ps[i]
<1>1. ps \in [Targets -> Panels] /\ \A k \in Targets : Sized(ps[k])
  BY DEF PanelSet
<1>2. qs \in [Targets -> Panels] /\ qs[i] = q /\ \A k \in Targets : k # i => qs[k] = ps[k]
  BY <1>1
<1> HIDE DEF qs
<1>3. qs \in PanelSet
  BY <1>1, <1>2 DEF PanelSet
<1>4. Laid(qs, these \ {i})
  <2>1. Laid(ps, these \ {i})
    BY LaidFewer
  <2>2. \A k \in these \ {i} : qs[k] = ps[k]
    BY <1>2
  <2> QED BY <1>1, <1>2, <2>1, <2>2, LaidSame
<1>5. ASSUME q.cfg.type = p.cfg.type, q.cfg.start = p.cfg.start,
             q.cfg.sectors = p.cfg.sectors, q.cfg.bytes = p.cfg.bytes,
             q.size = p.size, q.unit = p.unit, q.editable = p.editable
      PROVE  Laid(qs, these)
  <2>1. \A k \in these : /\ qs[k].cfg.type = ps[k].cfg.type /\ qs[k].cfg.start = ps[k].cfg.start
                         /\ qs[k].cfg.sectors = ps[k].cfg.sectors
                         /\ qs[k].cfg.bytes = ps[k].cfg.bytes
                         /\ qs[k].size = ps[k].size /\ qs[k].unit = ps[k].unit
                         /\ qs[k].editable = ps[k].editable
    BY <1>2, <1>5
  <2> QED BY <1>1, <1>2, <2>1, LaidSame
<1> QED BY <1>3, <1>4, <1>5 DEF qs

\* The size and unit of a panel are chosen once more.
LEMMA Rechosen ==
  ASSUME NEW ps \in PanelSet, NEW i \in Targets, NEW q \in Panels,
         NEW these \in SUBSET Targets, Laid(ps, these),
         ps[i].editable, NEW c \in convertUnitsToSectors(ps[i]),
         q.cfg.type = ps[i].cfg.type, q.cfg.start = ps[i].cfg.start, q.cfg.sectors = c,
         q.cfg.bytes = ps[i].cfg.bytes, q.size = ps[i].size, q.unit = ps[i].unit,
         q.editable = ps[i].editable
  PROVE  Laid([ps EXCEPT ![i] = q], these)
<1> DEFINE qs == [ps EXCEPT ![i] = q]
           p == ps[i]
<1>1. ps \in [Targets -> Panels] /\ p \in Panels /\ Sized(p)
  BY DEF PanelSet
<1>2. qs \in [Targets -> Panels] /\ qs[i] = q /\ \A k \in Targets : k # i => qs[k] = ps[k]
  BY <1>1
<1> HIDE DEF qs
<1>3. ASSUME i \in these PROVE Laid(qs, these)
  <2>1. Place(p)
    BY <1>3 DEF Laid
  <2>2. /\ p.cfg.start \in Int /\ p.cfg.sectors \in Int /\ p.cfg.bytes \in Nat /\ p.cfg.bytes > 0
        /\ Settled(p)
    <3>1. p.cfg \in TargetConfigs
      BY <1>1, PanelParts
    <3> QED BY <2>1, <3>1, ConfigNumbers DEF Place
  <2>3. p.cfg.type # Floppy
    <3> HIDE DEF p
    <3>1. p.editable
      BY DEF p
    <3> QED BY <1>1, <2>2, <3>1, Unsettled
  <2>4. Settled(q)
    BY <2>3, Evaluated DEF Settled
  <2>5. /\ c \in Nat
        /\ \A k \in Nat : p.size * FactorOf[p.unit] <= k * p.cfg.bytes => c <= k
    <3> HIDE DEF p
    <3>1. c \in convertUnitsToSectors(p)
      BY DEF p
    <3> QED BY <1>1, <2>2, <3>1, Converted
  <2>6. Place(q)
    BY <2>1, <2>4, <2>5 DEF Place
  <2>7. \A k \in these : Place(qs[k])
    BY <1>2, <2>6 DEF Laid
  <2>8. ASSUME NEW j \in these, NEW k \in these, j < k PROVE Before(qs[j], qs[k])
    <3>1. Before(ps[j], ps[k])
      BY <2>8 DEF Laid
    <3>2. CASE j # i
      BY <1>2, <3>1, <3>2 DEF Before
    <3>3. CASE j = i
      <4>1. k # i /\ k \in Targets
        BY <2>8, <3>3, ConfigAssumption DEF Targets
      <4>2. qs[k] = ps[k] /\ qs[j] = q
        BY <1>2, <3>3, <4>1
      <4> DEFINE d == ps[k].cfg.start - p.cfg.start
      <4>3. ps[k].cfg.start \in Int
        <5>1. ps[k].cfg \in TargetConfigs
          BY <1>1, <4>1, PanelParts
        <5> QED BY <5>1, ConfigNumbers
      <4>4. /\ p.cfg.start + p.cfg.sectors <= ps[k].cfg.start
            /\ p.size * FactorOf[p.unit] <= d * p.cfg.bytes
        BY <3>1, <3>3 DEF Before
      <4>5. d \in Nat
        BY <2>1, <2>2, <4>3, <4>4 DEF Place
      <4>6. c <= d
        <5> HIDE DEF d
        <5> QED BY <2>5, <4>4, <4>5
      <4>7. p.cfg.start + c <= ps[k].cfg.start
        BY <2>2, <2>5, <4>3, <4>6
      <4> QED BY <4>2, <4>4, <4>7 DEF Before
    <3> QED BY <3>2, <3>3
  <2> QED BY <2>7, <2>8 DEF Laid
<1>4. ASSUME i \notin these PROVE Laid(qs, these)
  <2>1. \A k \in these : qs[k] = ps[k]
    BY <1>2, <1>4
  <2> QED BY <2>1 DEF Laid
<1> QED BY <1>3, <1>4 DEF qs

\* The check of all panels leaves those as they are.
LEMMA EvaluateKeeps ==
  ASSUME NEW ps \in PanelSet, NEW marks0 \in Marks, NEW capacity,
         NEW these \in SUBSET Targets, Laid(ps, these)
  PROVE  LET qs == evaluate(ps, marks0, capacity).panels
         IN qs \in PanelSet /\ Laid(qs, these)
<1> DEFINE qs == evaluate(ps, marks0, capacity).panels
<1>1. ps \in [Targets -> Panels] /\ \A i \in Targets : ps[i] \in Panels /\ Sized(ps[i])
  BY DEF PanelSet
<1>2. qs \in [Targets -> Panels] /\ \A i \in Targets : qs[i] = EvaluatePanel(ps[i])
  BY <1>1, EvaluateIs
<1> HIDE DEF qs
<1>3. \A i \in Targets : Sized(qs[i])
  BY <1>1, <1>2, Evaluated
<1>4. \A i \in these : qs[i] = ps[i]
  BY <1>2 DEF Laid, Place, Settled
<1>5. Laid(qs, these)
  BY <1>4 DEF Laid
<1> QED BY <1>2, <1>3, <1>5 DEF PanelSet, qs

\* An unbroken row, placed.
LEMMA RowLaid ==
  ASSUME NEW ps \in PanelSet, NEW taking,
         NEW these \in SUBSET Targets,
         these # {} => /\ these = taking /\ \E n \in Targets : taking = 1 .. n
                       /\ ps[1].cfg.start = 0
                       /\ \A i \in these : /\ ps[i].cfg.sectors >= 0 /\ ps[i].cfg.bytes > 0
                                           /\ Settled(ps[i])
  PROVE  AssignStarts(ps, taking) \in PanelSet /\ Laid(AssignStarts(ps, taking), these)
<1> DEFINE qs == AssignStarts(ps, taking)
<1>1. ps \in [Targets -> Panels] /\ \A i \in Targets : ps[i] \in Panels /\ Sized(ps[i])
  BY DEF PanelSet
<1>2. /\ qs \in [Targets -> Panels] /\ \A i \in Targets : Moved(ps[i], qs[i])
      /\ \A n \in Targets :
           /\ taking = 1 .. n /\ ps[1].cfg.start = 0
           /\ \A i \in taking : ps[i].cfg.sectors >= 0
           => /\ \A i \in taking : qs[i].cfg.start >= 0
              /\ \A i, j \in taking :
                   i < j => qs[i].cfg.start + ps[i].cfg.sectors + 1 <= qs[j].cfg.start
  BY <1>1, StartsAssigned
<1> HIDE DEF qs
<1>3. \A i \in Targets : /\ qs[i].cfg.sectors = ps[i].cfg.sectors
                         /\ qs[i].cfg.bytes = ps[i].cfg.bytes
                         /\ Sized(qs[i])
                         /\ Settled(ps[i]) => Settled(qs[i])
  BY <1>1, <1>2, MovedParts
<1>4. qs \in PanelSet
  BY <1>2, <1>3 DEF PanelSet
<1>5. CASE these = {}
  BY <1>4, <1>5 DEF Laid, qs
<1>6. CASE these # {}
  <2>1. /\ these = taking /\ ps[1].cfg.start = 0
        /\ \A i \in these : /\ ps[i].cfg.sectors >= 0 /\ ps[i].cfg.bytes > 0
                            /\ Settled(ps[i])
    BY <1>6
  <2>2. PICK n \in Targets : taking = 1 .. n
    BY <1>6
  <2>3. /\ \A i \in these : qs[i].cfg.start >= 0
        /\ \A i, j \in these :
             i < j => qs[i].cfg.start + qs[i].cfg.sectors + 1 <= qs[j].cfg.start
    BY <1>2, <1>3, <2>1, <2>2
  <2>4. \A i \in these : Place(qs[i])
    BY <1>3, <2>1, <2>3 DEF Place
  <2>5. ASSUME NEW i \in these, NEW j \in these, i < j PROVE Before(qs[i], qs[j])
    <3> DEFINE a == qs[i].cfg.start
               n1 == qs[i].cfg.sectors
               b == qs[i].cfg.bytes
               z == qs[j].cfg.start
               all == qs[i].size * FactorOf[qs[i].unit]
    <3>1. a \in Int /\ n1 \in Int /\ b \in Nat /\ z \in Int
      <4>1. qs[i].cfg \in TargetConfigs /\ qs[j].cfg \in TargetConfigs
        BY <1>2, PanelParts
      <4> QED BY <4>1, ConfigNumbers
    <3>2. n1 >= 0 /\ b > 0 /\ a + n1 + 1 <= z
      BY <2>3, <2>4, <2>5 DEF Place
    <3>3. all <= (n1 + 1) * b
      BY <1>3, <3>2 DEF Sized
    <3>4. all \in Nat
      <4>1. qs[i].size \in Nat /\ qs[i].unit \in Units
        BY <1>2, PanelParts
      <4>2. FactorOf[qs[i].unit] \in Nat
        BY <4>1, Factors
      <4> DEFINE x == qs[i].size
                 y == FactorOf[qs[i].unit]
      <4>3. x \in Nat /\ y \in Nat
        BY <4>1, <4>2
      <4> HIDE DEF x, y
      <4> QED BY <4>3 DEF x, y
    <3> HIDE DEF a, n1, b, z, all
    <3>5. n1 + 1 <= z - a
      BY <3>1, <3>2
    <3>6. (n1 + 1) * b <= (z - a) * b
      BY <3>1, <3>5
    <3>7. all <= (z - a) * b
      BY <3>1, <3>3, <3>4, <3>6
    <3>8. a + n1 <= z
      BY <3>1, <3>2
    <3> QED BY <3>7, <3>8 DEF Before, a, n1, b, z, all
  <2> QED BY <1>4, <2>4, <2>5 DEF Laid, qs
<1> QED BY <1>5, <1>6

\* Targets in a row share no sector.
LEMMA LaidApart ==
  ASSUME NEW ps \in [Targets -> Panels], NEW these \in SUBSET Targets, Laid(ps, these),
         NEW i \in these, NEW j \in these, i # j,
         \A t \in {ps[i].cfg, ps[j].cfg} : t.start # 0 \/ t.sectors # 0
  PROVE  ~RangesIntersect(ps[i].cfg, ps[j].cfg)
<1>1. \A k \in these : /\ ps[k].cfg.start \in Int /\ ps[k].cfg.sectors \in Int
                       /\ ps[k].cfg.start >= 0 /\ ps[k].cfg.sectors >= 0
  <2>1. \A k \in these : ps[k].cfg \in TargetConfigs
    BY PanelParts
  <2>2. \A k \in these : Place(ps[k])
    BY DEF Laid
  <2> QED BY <2>1, <2>2, ConfigNumbers DEF Place
<1>2. i \in Int /\ j \in Int
  BY ConfigAssumption DEF Targets
<1>3. ASSUME NEW k \in these, NEW l \in these, k < l,
             ps[k].cfg.start # 0 \/ ps[k].cfg.sectors # 0
      PROVE  Above(ps[l].cfg.start, ps[k].cfg.start + ps[k].cfg.sectors - 1)
  <2>1. ps[k].cfg.start + ps[k].cfg.sectors <= ps[l].cfg.start
    BY <1>3 DEF Laid, Before
  <2> DEFINE a == ps[k].cfg.start
             n == ps[k].cfg.sectors
             z == ps[l].cfg.start
  <2>2. a \in Int /\ n \in Int /\ z \in Int /\ a >= 0 /\ n >= 0 /\ a + n <= z /\ (a # 0 \/ n # 0)
    BY <1>1, <1>3, <2>1
  <2> HIDE DEF a, n, z
  <2>3. ~(z < 0) /\ ~(a + n - 1 < 0) /\ z > a + n - 1
    BY <2>2
  <2>4. Above(z, a + n - 1)
    BY <2>3 DEF Above
  <2> QED BY <2>4 DEF a, n, z
<1>4. CASE i < j
  BY <1>3, <1>4 DEF RangesIntersect
<1>5. CASE j < i
  BY <1>3, <1>5 DEF RangesIntersect
<1> QED BY <1>2, <1>4, <1>5

-----------------------------------------------------------------------------
(* The window. *)

\* A step of the user or the timer that changes panels.
LEMMA WindowStep ==
  ASSUME IInv, panels' \in PanelSet, laidOut' \in SUBSET Targets, Laid(panels', laidOut'),
         board' \in BoardConfigs, marks' \in Marks, valid' \in BOOLEAN,
         UNCHANGED <<card, file, cardOf, fileOf, worker>>,
         touched' \in BOOLEAN, worker.op # "idle" => touched', budget' \in 0 .. Budget
  PROVE  IInv'
<1>1. TypeOK'
  BY DEF IInv, TypeOK, PanelSet, Marks
<1>2. Sizes' /\ Laid(panels, laidOut)'
  BY DEF Sizes, PanelSet
<1>3. WorkerOK' /\ Copies'
  BY DEF IInv, WorkerOK, Copies
<1>4. Loading' /\ Gathering' /\ Writing'
  BY DEF IInv, Loading, Gathering, Writing
<1> QED BY <1>1, <1>2, <1>3, <1>4 DEF IInv

\* What the steps below start from.
LEMMA Known ==
  ASSUME IInv
  PROVE  /\ panels \in PanelSet /\ panels \in [Targets -> Panels]
         /\ \A i \in Targets : panels[i] \in Panels /\ Sized(panels[i])
         /\ laidOut \in SUBSET Targets /\ Laid(panels, laidOut)
         /\ board \in BoardConfigs /\ marks \in Marks /\ valid \in BOOLEAN
         /\ touched \in BOOLEAN /\ budget \in 0 .. Budget
         /\ card \in Cards /\ IsFile(file) /\ worker \in Workers
  BY DEF IInv, TypeOK, Sizes, PanelSet, Marks

\* What the user does is bounded, and a thread is told of it.
LEMMA Spent ==
  ASSUME IInv
  PROVE  /\ Edit => budget' \in 0 .. Budget /\ touched' \in BOOLEAN /\ (worker.op # "idle" => touched')
         /\ Act => budget' \in 0 .. Budget
         /\ Touch => touched' \in BOOLEAN /\ (worker.op # "idle" => touched')
<1>1. budget \in 0 .. Budget /\ Budget \in Nat /\ EditCost \in Nat \ {0} /\ touched \in BOOLEAN
  BY Known, SettingsAssumption
<1>2. Touch => touched' \in BOOLEAN /\ (worker.op # "idle" => touched')
  BY <1>1 DEF Touch
<1>3. Edit => budget' \in 0 .. Budget
  BY <1>1 DEF Edit
<1>4. Act => budget' \in 0 .. Budget
  BY <1>1 DEF Act
<1> QED BY <1>2, <1>3, <1>4 DEF Edit

\* A panel with another configuration.
LEMMA PanelChanged ==
  ASSUME NEW p \in Panels, NEW c \in TargetConfigs
  PROVE  LET q == [p EXCEPT !.cfg = c]
         IN /\ q \in Panels /\ q.cfg = c
            /\ q.size = p.size /\ q.unit = p.unit /\ q.auto = p.auto
            /\ q.autoEnabled = p.autoEnabled /\ q.editable = p.editable
            /\ c.sectors = p.cfg.sectors /\ c.bytes = p.cfg.bytes /\ Sized(p) => Sized(q)
<1>1. [p EXCEPT !.cfg = c] \in Panels
  BY DEF Panels
<1> QED BY <1>1 DEF Panels, Sized

\* A check box, the identifier, the type or a name.
LEMMA TargetEdited ==
  ASSUME IInv, NEW i \in Targets, EditTarget(i)
  PROVE  IInv'
<1> DEFINE p == panels[i]
           c == p.cfg
<1>1. /\ panels \in PanelSet /\ laidOut \in SUBSET Targets /\ Laid(panels, laidOut)
      /\ p \in Panels /\ Sized(p) /\ c \in TargetConfigs
      /\ board \in BoardConfigs /\ marks \in Marks /\ valid \in BOOLEAN
  BY Known, PanelParts
<1>2. DOMAIN panels = Targets
  BY Known
<1>3. /\ UNCHANGED <<board, marks, valid, card, file, cardOf, fileOf, worker>>
      /\ budget' \in 0 .. Budget /\ touched' \in BOOLEAN /\ (worker.op # "idle" => touched')
  BY Spent DEF EditTarget, copies
<1>4. ASSUME NEW q \in Panels, Sized(q), panels' = [panels EXCEPT ![i] = q],
             \/ laidOut' = laidOut \ {i}
             \/ /\ laidOut' = laidOut
                /\ q.cfg.type = c.type /\ q.cfg.start = c.start
                /\ q.cfg.sectors = c.sectors /\ q.cfg.bytes = c.bytes
                /\ q.size = p.size /\ q.unit = p.unit /\ q.editable = p.editable
      PROVE  IInv'
  <2> DEFINE qs == [panels EXCEPT ![i] = q]
  <2>a. /\ qs \in PanelSet
        /\ Laid(qs, laidOut \ {i})
        /\ /\ q.cfg.type = p.cfg.type /\ q.cfg.start = p.cfg.start
           /\ q.cfg.sectors = p.cfg.sectors /\ q.cfg.bytes = p.cfg.bytes
           /\ q.size = p.size /\ q.unit = p.unit /\ q.editable = p.editable
           => Laid(qs, laidOut)
    BY <1>1, <1>4, OneChanged
  <2>b. panels' = qs
    BY <1>4
  <2> HIDE DEF qs
  <2>1. panels' \in PanelSet /\ Laid(panels', laidOut') /\ laidOut' \in SUBSET Targets
    BY <1>1, <1>4, <2>a, <2>b
  <2> QED BY <1>1, <1>3, <2>1, WindowStep
<1>5. CASE /\ panels' = [panels EXCEPT ![i].cfg.enabled = ~@,
                                       ![i].autoEnabled = ~panels[i].cfg.enabled]
           /\ UNCHANGED laidOut
  <2> DEFINE on == ~c.enabled
             d == [c EXCEPT !.enabled = on]
             r == [p EXCEPT !.cfg = d]
             q == [r EXCEPT !.autoEnabled = on]
  <2>1. on \in BOOLEAN
    BY <1>1, ConfigParts
  <2>2. d \in TargetConfigs
    <3> HIDE DEF on, c
    <3> QED BY <1>1, <2>1, ConfigChanged
  <2>3. d.type = c.type /\ d.start = c.start /\ d.sectors = c.sectors /\ d.bytes = c.bytes
    BY <1>1 DEF TargetConfigs
  <2>4. /\ r \in Panels /\ r.cfg = d /\ Sized(r)
        /\ r.size = p.size /\ r.unit = p.unit /\ r.editable = p.editable
    <3> HIDE DEF d, c
    <3>1. d.sectors = p.cfg.sectors /\ d.bytes = p.cfg.bytes
      BY <2>3 DEF c
    <3> HIDE DEF p
    <3> QED BY <1>1, <2>2, <3>1, PanelChanged
  <2>5. /\ q \in Panels /\ q.cfg = d /\ Sized(q)
        /\ q.size = p.size /\ q.unit = p.unit /\ q.editable = p.editable
    <3> HIDE DEF r, d, on, c, p
    <3> QED BY <2>1, <2>4 DEF Panels, Sized
  <2>6. panels' = [panels EXCEPT ![i] = q]
    BY <1>2, <1>5
  <2> HIDE DEF q, r, d, on
  <2>7. laidOut' = laidOut
    BY <1>5
  <2> QED BY <1>4, <2>3, <2>5, <2>6, <2>7
<1>6. ASSUME NEW d \in TargetConfigs, d.sectors = c.sectors, d.bytes = c.bytes,
             panels' = [panels EXCEPT ![i] = [p EXCEPT !.cfg = d]],
             \/ laidOut' = laidOut \ {i}
             \/ laidOut' = laidOut /\ d.type = c.type /\ d.start = c.start
      PROVE  IInv'
  <2> DEFINE q == [p EXCEPT !.cfg = d]
  <2>1. /\ q \in Panels /\ q.cfg = d /\ Sized(q)
        /\ q.size = p.size /\ q.unit = p.unit /\ q.editable = p.editable
    <3>1. d.sectors = p.cfg.sectors /\ d.bytes = p.cfg.bytes
      BY <1>6
    <3> HIDE DEF p
    <3> QED BY <1>1, <3>1, PanelChanged
  <2>2. panels' = [panels EXCEPT ![i] = q]
    BY <1>6
  <2> HIDE DEF q
  <2> QED BY <1>4, <1>6, <2>1, <2>2
<1>7. ASSUME NEW id \in {1, 8}, panels' = [panels EXCEPT ![i].cfg.id = id], UNCHANGED laidOut
      PROVE  IInv'
  <2> DEFINE d == [c EXCEPT !.id = id]
  <2>1. d \in TargetConfigs
    <3>1. id \in Nat
      OBVIOUS
    <3> HIDE DEF c
    <3> QED BY <1>1, <3>1, ConfigChanged
  <2>2. d.type = c.type /\ d.start = c.start /\ d.sectors = c.sectors /\ d.bytes = c.bytes
    BY <1>1 DEF TargetConfigs
  <2>3. panels' = [panels EXCEPT ![i] = [p EXCEPT !.cfg = d]]
    BY <1>7
  <2>4. laidOut' = laidOut
    BY <1>7
  <2> HIDE DEF d
  <2> QED BY <1>6, <2>1, <2>2, <2>3, <2>4
<1>8. ASSUME panels' = [panels EXCEPT ![i].cfg.type = Floppy], laidOut' = laidOut \ {i}
      PROVE  IInv'
  <2> DEFINE d == [c EXCEPT !.type = Floppy]
  <2>1. d \in TargetConfigs
    <3>1. Floppy \in Byte
      BY DEF Floppy, Byte
    <3> HIDE DEF c
    <3> QED BY <1>1, <3>1, ConfigChanged
  <2>2. d.sectors = c.sectors /\ d.bytes = c.bytes
    BY <1>1 DEF TargetConfigs
  <2>3. panels' = [panels EXCEPT ![i] = [p EXCEPT !.cfg = d]]
    BY <1>8
  <2> HIDE DEF d
  <2> QED BY <1>6, <1>8, <2>1, <2>2, <2>3
<1>9. ASSUME NEW text \in {"short", "markup"},
             panels' = [panels EXCEPT ![i].cfg.text["vendor"] = text], UNCHANGED laidOut
      PROVE  IInv'
  <2> DEFINE names == [c.text EXCEPT !["vendor"] = text]
             d == [c EXCEPT !.text = names]
  <2>1. names \in Names
    <3>1. c.text \in Names
      BY <1>1, ConfigParts
    <3> QED BY <3>1 DEF Names, Texts
  <2>2. d \in TargetConfigs
    <3> HIDE DEF c, names
    <3> QED BY <1>1, <2>1, ConfigChanged
  <2>3. d.type = c.type /\ d.start = c.start /\ d.sectors = c.sectors /\ d.bytes = c.bytes
    BY <1>1 DEF TargetConfigs
  <2>4. panels' = [panels EXCEPT ![i] = [p EXCEPT !.cfg = d]]
    BY <1>9
  <2>5. laidOut' = laidOut
    BY <1>9
  <2> HIDE DEF d, names
  <2> QED BY <1>6, <2>2, <2>3, <2>4, <2>5
<1> QED BY <1>5, <1>7, <1>8, <1>9 DEF EditTarget

\* One panel is shown anew, and its place is no longer the one the program chose.
LEMMA PanelShown ==
  ASSUME IInv, NEW i \in Targets, NEW q \in Panels, Sized(q),
         panels' = [panels EXCEPT ![i] = q], laidOut' = laidOut \ {i},
         UNCHANGED <<board, marks, valid, card, file, cardOf, fileOf, worker>>,
         budget' \in 0 .. Budget, touched' \in BOOLEAN, worker.op # "idle" => touched'
  PROVE  IInv'
<1> DEFINE qs == [panels EXCEPT ![i] = q]
<1>1. /\ panels \in PanelSet /\ laidOut \in SUBSET Targets /\ Laid(panels, laidOut)
      /\ board \in BoardConfigs /\ marks \in Marks /\ valid \in BOOLEAN
  BY Known
<1>2. qs \in PanelSet /\ Laid(qs, laidOut \ {i})
  BY <1>1, OneChanged
<1>3. panels' = qs
  OBVIOUS
<1> HIDE DEF qs
<1>4. panels' \in PanelSet /\ Laid(panels', laidOut') /\ laidOut' \in SUBSET Targets
  BY <1>1, <1>2, <1>3
<1> QED BY <1>1, <1>4, WindowStep

\* A changed sector size or count: the panel is checked and the size shown.
LEMMA NumberChecked ==
  ASSUME NEW p \in Panels, NEW d \in TargetConfigs
  PROVE  LET q == Resized([p EXCEPT !.cfg = d])
         IN q \in Panels /\ Sized(q)
<1> DEFINE r == [p EXCEPT !.cfg = d]
           s == EvaluatePanel(r)
<1>1. r \in Panels
  BY PanelChanged
<1>2. s \in Panels
  <2> HIDE DEF r
  <2> QED BY <1>1, Evaluated
<1> HIDE DEF s
<1>3. evaluateSize(s) \in Panels /\ Sized(evaluateSize(s))
  BY <1>2, SizeShown
<1> QED BY <1>3 DEF s, Resized

\* What a panel shows when a number was edited: the start, the bytes, the count, the size.
LEMMA StartTyped ==
  ASSUME NEW p \in Panels, Sized(p)
  PROVE  LET q == [p EXCEPT !.cfg.start = 0] IN q \in Panels /\ Sized(q)
<1> DEFINE c == p.cfg
           d == [c EXCEPT !.start = 0]
           r == [p EXCEPT !.cfg = d]
<1>1. c \in TargetConfigs
  BY PanelParts
<1>2. d \in TargetConfigs
  <2> HIDE DEF c
  <2> QED BY <1>1, ConfigChanged
<1>3. d.sectors = p.cfg.sectors /\ d.bytes = p.cfg.bytes
  BY <1>1 DEF TargetConfigs
<1>4. r \in Panels /\ Sized(r)
  <2> HIDE DEF d
  <2> QED BY <1>2, <1>3, PanelChanged
<1> QED BY <1>4

LEMMA BytesTyped ==
  ASSUME NEW p \in Panels, NEW b \in Word, NEW x, x = [p EXCEPT !.cfg.bytes = b]
  PROVE  Resized(x) \in Panels /\ Sized(Resized(x))
<1> DEFINE c == p.cfg
           d == [c EXCEPT !.bytes = b]
           r == [p EXCEPT !.cfg = d]
<1>1. c \in TargetConfigs
  BY PanelParts
<1>2. d \in TargetConfigs
  <2> HIDE DEF c
  <2> QED BY <1>1, ConfigChanged
<1>3. Resized(r) \in Panels /\ Sized(Resized(r))
  <2> HIDE DEF d
  <2> QED BY <1>2, NumberChecked
<1>4. r = x
  OBVIOUS
<1> HIDE DEF r
<1> QED BY <1>3, <1>4

LEMMA CountTyped ==
  ASSUME NEW p \in Panels
  PROVE  LET q == Resized([p EXCEPT !.cfg.sectors = 5]) IN q \in Panels /\ Sized(q)
<1> DEFINE c == p.cfg
           d == [c EXCEPT !.sectors = 5]
           r == [p EXCEPT !.cfg = d]
<1>1. c \in TargetConfigs
  BY PanelParts
<1>2. d \in TargetConfigs
  <2>1. 5 \in Count
    BY Numbers
  <2> HIDE DEF c
  <2> QED BY <1>1, <2>1, ConfigChanged
<1>3. Resized(r) \in Panels /\ Sized(Resized(r))
  <2> HIDE DEF d
  <2> QED BY <1>2, NumberChecked
<1>4. r = [p EXCEPT !.cfg.sectors = 5]
  OBVIOUS
<1> HIDE DEF r
<1> QED BY <1>3, <1>4

LEMMA SizeTypedIs ==
  ASSUME NEW p \in Panels, NEW q \in SizeTyped(p)
  PROVE  q \in Panels /\ Sized(q)
<1> DEFINE c == p.cfg
<1>1. c \in TargetConfigs
  BY PanelParts
<1>2. PICK n \in convertUnitsToSectors(p) : q = [p EXCEPT !.cfg.sectors = n]
  BY DEF SizeTyped
<1> DEFINE d == [c EXCEPT !.sectors = n]
           r == [p EXCEPT !.cfg = d]
<1>3. /\ n \in Count
      /\ c.bytes > 0 => n \in Nat /\ p.size * FactorOf[p.unit] <= (n + 1) * c.bytes
  BY <1>1, Converted
<1>4. d \in TargetConfigs
  <2> HIDE DEF c
  <2> QED BY <1>1, <1>3, ConfigChanged
<1>5. d.sectors = n /\ d.bytes = c.bytes
  BY <1>1 DEF TargetConfigs
<1>6. r = q
  BY <1>2
<1>7. r \in Panels /\ r.cfg = d /\ r.size = p.size /\ r.unit = p.unit
  <2> HIDE DEF d
  <2> QED BY <1>4, PanelChanged
<1>8. Sized(r)
  <2> HIDE DEF r, d
  <2> QED BY <1>3, <1>5, <1>7 DEF Sized
<1> HIDE DEF r
<1> QED BY <1>6, <1>7, <1>8

\* Each of them.
LEMMA NumberIs ==
  ASSUME NEW p \in Panels, Sized(p), NEW q \in NumberTyped(p)
  PROVE  q \in Panels /\ Sized(q)
<1> DEFINE x0 == [p EXCEPT !.cfg.start = 0]
           x1 == [p EXCEPT !.cfg.bytes = 0]
           x2 == [p EXCEPT !.cfg.bytes = 16384]
           x3 == [p EXCEPT !.cfg.sectors = 5]
           x4 == [p EXCEPT !.size = 3]
<1>1. NumberTyped(p) = {x0} \union (IF p.editable
                                    THEN {Resized(x1), Resized(x2), Resized(x3)}
                                         \union SizeTyped(x4)
                                    ELSE {})
  BY DEF NumberTyped
<1>2. x0 \in Panels /\ Sized(x0)
  BY StartTyped
<1>3. Resized(x1) \in Panels /\ Sized(Resized(x1))
  <2>1. 0 \in Word /\ x1 = [p EXCEPT !.cfg.bytes = 0]
    BY Numbers
  <2> HIDE DEF x1
  <2> QED BY <2>1, BytesTyped
<1>4. Resized(x2) \in Panels /\ Sized(Resized(x2))
  <2>1. 16384 \in Word /\ x2 = [p EXCEPT !.cfg.bytes = 16384]
    BY Numbers
  <2> HIDE DEF x2
  <2> QED BY <2>1, BytesTyped
<1>5. Resized(x3) \in Panels /\ Sized(Resized(x3))
  BY CountTyped
<1>6. x4 \in Panels
  BY DEF Panels
<1> HIDE DEF x0, x1, x2, x3, x4
<1>7. \A x \in SizeTyped(x4) : x \in Panels /\ Sized(x)
  BY <1>6, SizeTypedIs
<1>8. \/ q \in {x0, Resized(x1), Resized(x2), Resized(x3)}
      \/ q \in SizeTyped(x4)
  BY <1>1
<1> QED BY <1>2, <1>3, <1>4, <1>5, <1>7, <1>8

\* A number in a panel.
LEMMA NumberEdited ==
  ASSUME IInv, NEW i \in Targets, EditNumber(i)
  PROVE  IInv'
<1>1. panels[i] \in Panels /\ Sized(panels[i])
  BY Known
<1>2. Edit /\ laidOut' = laidOut \ {i} /\ UNCHANGED <<board, marks, valid, copies, worker>>
  BY DEF EditNumber
<1>3. /\ UNCHANGED <<board, marks, valid, card, file, cardOf, fileOf, worker>>
      /\ budget' \in 0 .. Budget /\ touched' \in BOOLEAN /\ (worker.op # "idle" => touched')
  BY <1>2, Spent DEF copies
<1>4. PICK q \in NumberTyped(panels[i]) : panels' = [panels EXCEPT ![i] = q]
  BY DEF EditNumber
<1>5. q \in Panels /\ Sized(q)
  BY <1>1, NumberIs
<1> QED BY <1>2, <1>3, <1>4, <1>5, PanelShown

\* The check of the panels qs, of which these are laid out.
LEMMA Rechecked ==
  ASSUME IInv, NEW qs \in PanelSet, NEW these \in SUBSET Targets, Laid(qs, these),
         NEW connected \in BOOLEAN, Evaluate(qs, connected), laidOut' = these,
         UNCHANGED <<board, card, file, cardOf, fileOf, worker>>,
         budget' \in 0 .. Budget, touched' \in BOOLEAN, worker.op # "idle" => touched'
  PROVE  IInv'
<1> DEFINE capacity == IF connected THEN {Capacity} ELSE {}
           e == evaluate(qs, marks, capacity)
<1>1. board \in BoardConfigs /\ marks \in Marks /\ valid \in BOOLEAN
  BY Known
<1>2. /\ panels' = e.panels
      /\ marks' = [duplicate |-> e.duplicate, overlap |-> e.overlap]
      /\ valid' = IF connected THEN e.valid ELSE valid
  BY DEF Evaluate
<1> HIDE DEF capacity
<1>3. e.panels \in PanelSet /\ Laid(e.panels, these)
  BY <1>1, EvaluateKeeps
<1>4. qs \in [Targets -> Panels]
  BY DEF PanelSet
<1>5. e.duplicate \subseteq Targets /\ e.overlap \subseteq Targets /\ e.valid \in BOOLEAN
  BY <1>1, <1>4, EvaluateIs
<1> HIDE DEF e
<1>6. marks' \in Marks
  BY <1>2, <1>5 DEF Marks
<1>7. valid' \in BOOLEAN
  BY <1>1, <1>2, <1>5
<1> QED BY <1>1, <1>2, <1>3, <1>6, <1>7, WindowStep

\* The unit of a size: once more the same, the target stays in its row.
LEMMA UnitSelected ==
  ASSUME IInv, NEW i \in Targets, NEW unit \in Units, selectDeviceUnit(i, unit)
  PROVE  IInv'
<1> DEFINE p == panels[i]
           r == [p EXCEPT !.unit = unit]
<1>1. /\ panels \in PanelSet /\ p \in Panels /\ p.cfg \in TargetConfigs
      /\ laidOut \in SUBSET Targets /\ Laid(panels, laidOut)
  BY Known, PanelParts
<1>2. /\ UNCHANGED <<board, card, file, cardOf, fileOf, worker>> /\ p.editable
      /\ laidOut' = IF unit = p.unit THEN laidOut ELSE laidOut \ {i}
      /\ budget' \in 0 .. Budget /\ touched' \in BOOLEAN /\ (worker.op # "idle" => touched')
  BY Spent DEF selectDeviceUnit, copies
<1>3. PICK n \in convertUnitsToSectors(r), connected \in BOOLEAN :
        Evaluate([panels EXCEPT ![i] = [r EXCEPT !.cfg.sectors = n]], connected)
  BY DEF selectDeviceUnit
<1> DEFINE d == [p.cfg EXCEPT !.sectors = n]
           q == [r EXCEPT !.cfg = d]
           qs == [panels EXCEPT ![i] = q]
<1>4. /\ r \in Panels /\ r.cfg = p.cfg /\ r.size = p.size /\ r.unit = unit
      /\ r.editable = p.editable
      /\ unit = p.unit => r = p
  <2> HIDE DEF p
  <2> QED BY <1>1 DEF Panels
<1>5. /\ n \in Count
      /\ p.cfg.bytes > 0 => n \in Nat /\ r.size * FactorOf[r.unit] <= (n + 1) * p.cfg.bytes
  <2> HIDE DEF r, p
  <2> QED BY <1>3, <1>4, Converted
<1>6. d \in TargetConfigs
  <2> HIDE DEF p
  <2> QED BY <1>1, <1>5, ConfigChanged
<1>7. d.sectors = n /\ d.bytes = p.cfg.bytes /\ d.type = p.cfg.type /\ d.start = p.cfg.start
  BY <1>1 DEF TargetConfigs
<1>8. q \in Panels /\ q.cfg = d /\ q.size = r.size /\ q.unit = r.unit /\ q.editable = r.editable
  <2> HIDE DEF d, r
  <2> QED BY <1>4, <1>6, PanelChanged
<1>9. Sized(q)
  <2> HIDE DEF q, d, r, p
  <2> QED BY <1>5, <1>7, <1>8 DEF Sized
<1>10. Evaluate(qs, connected)
  <2>1. [r EXCEPT !.cfg.sectors = n] = q
    BY <1>1 DEF Panels
  <2> QED BY <1>3, <2>1
<1> HIDE DEF q, d, r
<1>11. qs \in PanelSet /\ Laid(qs, laidOut \ {i})
  BY <1>1, <1>8, <1>9, OneChanged
<1>12. unit = p.unit => Laid(qs, laidOut)
  <2> SUFFICES ASSUME unit = p.unit PROVE Laid(qs, laidOut)
    OBVIOUS
  <2>1. n \in convertUnitsToSectors(p)
    BY <1>3, <1>4
  <2>2. /\ q.cfg.type = p.cfg.type /\ q.cfg.start = p.cfg.start /\ q.cfg.sectors = n
        /\ q.cfg.bytes = p.cfg.bytes /\ q.size = p.size /\ q.unit = p.unit
        /\ q.editable = p.editable
    BY <1>4, <1>7, <1>8
  <2> QED BY <1>1, <1>2, <1>8, <2>1, <2>2, Rechosen
<1> HIDE DEF qs, p
<1>13. laidOut' \in SUBSET Targets /\ Laid(qs, laidOut')
  BY <1>1, <1>2, <1>11, <1>12
<1> DEFINE these == laidOut'
<1>14. these \in SUBSET Targets /\ Laid(qs, these) /\ laidOut' = these
  BY <1>13
<1> HIDE DEF these
<1> QED BY <1>2, <1>3, <1>10, <1>11, <1>14, Rechecked

\* The periodic check.
LEMMA TimerFired ==
  ASSUME IInv, NEW connected \in BOOLEAN, doTimer(connected)
  PROVE  IInv'
<1>1. /\ panels \in PanelSet /\ laidOut \in SUBSET Targets /\ Laid(panels, laidOut)
      /\ touched \in BOOLEAN /\ budget \in 0 .. Budget
  BY Known
<1>2. /\ worker.op = "idle" /\ Evaluate(panels, connected)
      /\ UNCHANGED <<board, card, file, cardOf, fileOf, worker, touched, budget>>
      /\ laidOut' = laidOut
  BY DEF doTimer, copies
<1> QED BY <1>1, <1>2, Rechecked

\* A control of the board.
LEMMA BoardEdited ==
  ASSUME IInv, EditBoard
  PROVE  IInv'
<1>1. /\ panels \in PanelSet /\ laidOut \in SUBSET Targets /\ Laid(panels, laidOut)
      /\ board \in BoardConfigs /\ marks \in Marks /\ valid \in BOOLEAN
  BY Known
<1>2. /\ UNCHANGED <<panels, marks, valid, card, file, cardOf, fileOf, worker, laidOut>>
      /\ budget' \in 0 .. Budget /\ touched' \in BOOLEAN /\ (worker.op # "idle" => touched')
  BY Spent DEF EditBoard, copies
<1>3. \/ \E f \in {"parity", "enableCache"} : board' = [board EXCEPT !.flags = Toggle(@, f)]
      \/ \E f \in Flags6 : board' = [board EXCEPT !.flags6 = Toggle(@, f)]
      \/ board' = [board EXCEPT !.speed = SpeedTurbo]
  BY DEF EditBoard
<1>4. board' \in BoardConfigs
  <2>1. ASSUME NEW f \in {"parity", "enableCache"},
               board' = [board EXCEPT !.flags = Toggle(@, f)]
        PROVE  board' \in BoardConfigs
    <3>1. Toggle(board.flags, f) \in SUBSET (FileFlags \union OtherFlags)
      BY <1>1, BoardParts DEF Toggle, FileFlags, OtherFlags
    <3> QED BY <1>1, <2>1, <3>1, BoardChanged
  <2>2. ASSUME NEW f \in Flags6, board' = [board EXCEPT !.flags6 = Toggle(@, f)]
        PROVE  board' \in BoardConfigs
    <3>1. Toggle(board.flags6, f) \in SUBSET Flags6
      BY <1>1, BoardParts DEF Toggle
    <3> QED BY <1>1, <2>2, <3>1, BoardChanged
  <2>3. ASSUME board' = [board EXCEPT !.speed = SpeedTurbo] PROVE board' \in BoardConfigs
    <3>1. SpeedTurbo \in Byte
      BY DEF SpeedTurbo, Byte
    <3> QED BY <1>1, <2>3, <3>1, BoardChanged
  <2> QED BY <1>3, <2>1, <2>2, <2>3
<1>5. /\ panels' \in PanelSet /\ laidOut' \in SUBSET Targets /\ Laid(panels', laidOut')
      /\ marks' \in Marks /\ valid' \in BOOLEAN
  BY <1>1, <1>2
<1> QED BY <1>2, <1>4, <1>5, WindowStep

\* The button for automatic starts, which lays an unbroken row.
LEMMA AutoPressed ==
  ASSUME IInv, NEW i \in Targets, AutoButton(i)
  PROVE  IInv'
<1> DEFINE p == panels[i]
           q == [p EXCEPT !.auto = ~@]
           ps == [panels EXCEPT ![i] = q]
           taking == {k \in Enabled(ps) : ps[k].auto}
           these == Row(ps)
<1>1. /\ panels \in PanelSet /\ p \in Panels /\ Sized(p)
      /\ board \in BoardConfigs /\ marks \in Marks /\ valid \in BOOLEAN
  BY Known
<1>2. /\ UNCHANGED <<board, marks, valid, card, file, cardOf, fileOf, worker>>
      /\ budget' \in 0 .. Budget /\ touched' \in BOOLEAN /\ (worker.op # "idle" => touched')
  BY Spent DEF AutoButton, copies
<1>3. panels' = AssignStarts(ps, taking) /\ laidOut' = these
  <2>1. [panels EXCEPT ![i].auto = ~@] = ps
    OBVIOUS
  <2>2. panels' = autoButton(ps) /\ laidOut' = Row(ps)
    BY <2>1 DEF AutoButton
  <2> HIDE DEF ps
  <2> QED BY <2>2 DEF autoButton
<1>4. q \in Panels /\ Sized(q)
  <2> HIDE DEF p
  <2>1. (~p.auto) \in BOOLEAN
    BY <1>1, PanelParts
  <2> QED BY <1>1, <2>1 DEF Panels, Sized
<1>5. ps \in PanelSet
  <2>1. panels \in [Targets -> Panels] /\ \A k \in Targets : Sized(panels[k])
    BY <1>1 DEF PanelSet
  <2> HIDE DEF q
  <2>2. ps \in [Targets -> Panels] /\ \A k \in Targets : Sized(ps[k])
    BY <1>4, <2>1
  <2> QED BY <2>2 DEF PanelSet
<1> HIDE DEF ps
<1>6. these \in SUBSET Targets
  BY DEF Row
<1>7. taking = {k \in Targets : ps[k].cfg.enabled /\ ps[k].auto}
  BY DEF Enabled
<1>8. these # {} => /\ these = taking /\ \E n \in Targets : taking = 1 .. n
                    /\ ps[1].cfg.start = 0
                    /\ \A k \in these : /\ ps[k].cfg.sectors >= 0 /\ ps[k].cfg.bytes > 0
                                         /\ Settled(ps[k])
  BY <1>7 DEF Row, Settled
<1> HIDE DEF taking, these
<1>9. AssignStarts(ps, taking) \in PanelSet /\ Laid(AssignStarts(ps, taking), these)
  BY <1>5, <1>6, <1>8, RowLaid
<1>10. /\ panels' \in PanelSet /\ laidOut' \in SUBSET Targets /\ Laid(panels', laidOut')
       /\ board' \in BoardConfigs /\ marks' \in Marks /\ valid' \in BOOLEAN
  BY <1>1, <1>2, <1>3, <1>6, <1>9
<1> QED BY <1>2, <1>10, WindowStep

\* The defaults lie one after the other.
LEMMA DefaultsLaid ==
  ASSUME NEW ps \in [Targets -> Panels]
  PROVE  loadDefaults(ps) \in PanelSet /\ Laid(loadDefaults(ps), Targets)
<1> DEFINE qs == [i \in Targets |-> Shown(ps[i], defaultTargetConfig(i))]
<1>1. ASSUME NEW i \in Targets
      PROVE  /\ qs[i] \in Panels /\ Sized(qs[i]) /\ qs[i].cfg = defaultTargetConfig(i)
             /\ Settled(qs[i])
             /\ qs[i].cfg.start = 0 /\ qs[i].cfg.sectors >= 0 /\ qs[i].cfg.bytes > 0
  <2> DEFINE c == defaultTargetConfig(i)
             q == Shown(ps[i], c)
  <2>1. c \in TargetConfigs
    BY Defaults
  <2>2. /\ c.type = 0 /\ c.start = 0 /\ c.sectors = DefaultSectors /\ c.bytes = 512
    BY DEF defaultTargetConfig
  <2>3. qs[i] = q
    OBVIOUS
  <2> HIDE DEF c
  <2>4. q \in Panels /\ Sized(q) /\ q.cfg = c
    BY <2>1, ShownIs
  <2> HIDE DEF q, qs
  <2>5. q.cfg.type # Floppy
    BY <2>2, <2>4 DEF Floppy
  <2>6. Settled(q)
    BY <2>4, <2>5, Evaluated DEF Settled
  <2> QED BY <2>2, <2>3, <2>4, <2>6, ConfigAssumption DEF c
<1>2. loadDefaults(ps) = AssignStarts(qs, Targets)
  BY DEF loadDefaults
<1>3. qs \in [Targets -> Panels] /\ \A i \in Targets : Sized(qs[i])
  BY <1>1
<1> HIDE DEF qs
<1>4. qs \in PanelSet
  BY <1>3 DEF PanelSet
<1>5. TargetCount \in Targets /\ Targets = 1 .. TargetCount /\ 1 \in Targets
  BY ConfigAssumption DEF Targets
<1>6. \E n \in Targets : Targets = 1 .. n
  BY <1>5
<1> DEFINE these == Targets
<1>7. /\ these \in SUBSET Targets
      /\ these = Targets /\ \E n \in Targets : Targets = 1 .. n
      /\ qs[1].cfg.start = 0
      /\ \A i \in these : qs[i].cfg.sectors >= 0 /\ qs[i].cfg.bytes > 0 /\ Settled(qs[i])
  BY <1>1, <1>5, <1>6
<1>8. AssignStarts(qs, Targets) \in PanelSet /\ Laid(AssignStarts(qs, Targets), these)
  <2> HIDE DEF these
  <2> QED BY <1>4, <1>7, RowLaid
<1> QED BY <1>2, <1>8

\* The defaults.
LEMMA DefaultsLoaded ==
  ASSUME IInv, LoadDefaults
  PROVE  IInv'
<1>1. /\ panels \in [Targets -> Panels]
      /\ marks \in Marks /\ valid \in BOOLEAN
  BY Known
<1>2. /\ UNCHANGED <<marks, valid, card, file, cardOf, fileOf, worker>>
      /\ panels' = loadDefaults(panels) /\ board' = defaultBoardConfig /\ laidOut' = Targets
      /\ budget' \in 0 .. Budget /\ touched' \in BOOLEAN /\ (worker.op # "idle" => touched')
  BY Spent DEF LoadDefaults, copies
<1>3. loadDefaults(panels) \in PanelSet /\ Laid(loadDefaults(panels), Targets)
  BY <1>1, DefaultsLaid
<1>4. /\ panels' \in PanelSet /\ laidOut' \in SUBSET Targets /\ Laid(panels', laidOut')
      /\ board' \in BoardConfigs /\ marks' \in Marks /\ valid' \in BOOLEAN
  BY <1>1, <1>2, <1>3, Defaults
<1> QED BY <1>2, <1>4, WindowStep

\* No thread.
LEMMA IdleIs ==
  /\ idle \in Workers /\ idle.op = "idle"
<1>1. zeroBoardConfig \in BoardConfigs /\ <<>> \in Seq(TargetConfigs)
  BY Defaults
<1>2. toBytes(zeroBoardConfig, <<>>) \in Gathered
  BY <1>1 DEF toBytes, Gathered
<1>3. 0 \in 0 .. TargetCount + 1
  BY ConfigAssumption
<1> QED BY <1>2, <1>3 DEF idle, Workers

\* The window when the application has been launched.
LEMMA InvariantInit ==
  ASSUME Init
  PROVE  IInv
<1> DEFINE ps == [i \in Targets |-> NewPanel]
<1>1. NewPanel \in Panels
  <2>1. NewPanel.cfg = zeroTargetConfig /\ 0 \in Nat /\ "GB" \in Units
    BY DEF NewPanel, Units
  <2>2. zeroTargetConfig \in TargetConfigs
    BY Defaults
  <2> QED BY <2>1, <2>2 DEF NewPanel, Panels
<1>2. ps \in [Targets -> Panels]
  BY <1>1
<1>3. panels = loadDefaults(ps)
  BY DEF Init
<1> HIDE DEF ps
<1>4. panels \in PanelSet /\ Laid(panels, Targets)
  BY <1>2, <1>3, DefaultsLaid
<1>5. /\ board \in BoardConfigs /\ laidOut = Targets /\ valid = TRUE /\ touched = FALSE
      /\ worker = idle /\ cardOf = {} /\ fileOf = {} /\ budget \in 0 .. Budget
  BY Defaults, SettingsAssumption DEF Init
<1>6. marks \in [duplicate : SUBSET Targets, overlap : SUBSET Targets]
  BY DEF Init, NoMarks
<1>7. card \in Cards /\ IsFile(file)
  BY SettingsAssumption DEF Init
<1>8. panels \in [Targets -> Panels] /\ Sizes
  BY <1>4 DEF PanelSet, Sizes
<1>9. TypeOK
  BY <1>5, <1>6, <1>7, <1>8, IdleIs DEF TypeOK
<1>10. WorkerOK /\ Copies /\ Loading /\ Gathering /\ Writing
  BY <1>5, IdleIs DEF WorkerOK, Copies, Loading, Gathering, Writing
<1> QED BY <1>4, <1>5, <1>8, <1>9, <1>10 DEF IInv

-----------------------------------------------------------------------------
(* Files. *)

\* What is taken out of the window.
LEMMA WindowRead ==
  ASSUME NEW ps \in [Targets -> Panels]
  PROVE  /\ Read(ps) \in [Targets -> TargetConfigs]
         /\ \A i \in Targets : Read(ps)[i] = getTargetConfig(ps[i])
<1>1. \A i \in Targets : getTargetConfig(ps[i]) \in TargetConfigs
  BY ConfigRead
<1> QED BY <1>1 DEF Read

\* A step that changes the file and what it is said to be a copy of.
LEMMA FileStep ==
  ASSUME IInv, UNCHANGED <<board, panels, marks, valid, card, cardOf, worker, touched, laidOut>>,
         budget' \in 0 .. Budget, IsFile(file'), \A copy \in fileOf' : FileRestores(file', copy)
  PROVE  IInv'
<1>1. TypeOK'
  BY DEF IInv, TypeOK, IsFile
<1>2. Sizes' /\ Laid(panels, laidOut)' /\ WorkerOK'
  BY DEF IInv, Sizes, Laid, WorkerOK
<1>3. Copies'
  BY DEF IInv, Copies
<1>4. Loading' /\ Gathering' /\ Writing'
  BY DEF IInv, Loading, Gathering, Writing
<1> QED BY <1>1, <1>2, <1>3, <1>4 DEF IInv

\* A file is written: it restores what it is said to be a copy of.
LEMMA FileSaved ==
  ASSUME IInv, saveFileEnd
  PROVE  IInv'
<1> DEFINE ts == Read(panels)
           copy == [board |-> board, targets |-> InFile(ts)]
<1>1. /\ panels \in [Targets -> Panels] /\ board \in BoardConfigs /\ IsFile(file)
      /\ \A c \in fileOf : FileRestores(file, c)
  BY Known DEF IInv, Copies
<1>2. /\ UNCHANGED <<board, panels, marks, valid, card, cardOf, worker, touched, laidOut>>
      /\ budget' \in 0 .. Budget
  BY Spent DEF saveFileEnd, window
<1>3. ts \in [Targets -> TargetConfigs]
  BY <1>1, WindowRead
<1>4. IF \E i \in Targets : targetCfgToXMLRaises(ts[i])
      THEN UNCHANGED <<file, fileOf>>
      ELSE /\ file' = toXML(board, ts)
           /\ fileOf' = IF Portable(board, ts) THEN {copy} ELSE {}
  BY DEF saveFileEnd
<1> HIDE DEF ts
<1>5. CASE UNCHANGED <<file, fileOf>>
  <2>1. IsFile(file') /\ \A c \in fileOf' : FileRestores(file', c)
    BY <1>1, <1>5
  <2> QED BY <1>2, <2>1, FileStep
<1>6. ASSUME \A i \in Targets : ~targetCfgToXMLRaises(ts[i]),
             file' = toXML(board, ts), fileOf' = IF Portable(board, ts) THEN {copy} ELSE {}
      PROVE  IInv'
  <2>1. IsFile(file')
    BY <1>1, <1>3, <1>6, ToXML
  <2>2. Portable(board, ts) => FileRestores(toXML(board, ts), copy)
    BY <1>1, <1>3, <1>6, FileRestored
  <2> HIDE DEF copy
  <2>3. \A c \in fileOf' : FileRestores(file', c)
    BY <1>6, <2>2
  <2> QED BY <1>2, <2>1, <2>3, FileStep
<1> QED BY <1>4, <1>5, <1>6

\* A file is read into the panels.
LEMMA FileOpened ==
  ASSUME IInv, openFileEnd
  PROVE  IInv'
<1>1. /\ panels \in PanelSet /\ panels \in [Targets -> Panels] /\ IsFile(file)
      /\ laidOut \in SUBSET Targets /\ Laid(panels, laidOut)
      /\ board \in BoardConfigs /\ marks \in Marks /\ valid \in BOOLEAN
      /\ \A i \in Targets : panels[i] \in Panels /\ Sized(panels[i])
  BY Known
<1>2. /\ UNCHANGED <<marks, valid, card, file, cardOf, fileOf, worker>>
      /\ budget' \in 0 .. Budget /\ touched' \in BOOLEAN /\ (worker.op # "idle" => touched')
  BY Spent DEF openFileEnd, copies
<1>3. CASE UNCHANGED <<board, panels, laidOut>>
  <2>1. /\ panels' \in PanelSet /\ laidOut' \in SUBSET Targets /\ Laid(panels', laidOut')
        /\ board' \in BoardConfigs /\ marks' \in Marks /\ valid' \in BOOLEAN
    BY <1>1, <1>2, <1>3
  <2> QED BY <1>2, <2>1, WindowStep
<1>4. ASSUME NEW pair \in fromXML(file), laidOut' = {}, board' = pair.board,
             panels' = [i \in Targets |-> IF i \in DOMAIN pair.targets
                                          THEN Shown(panels[i], pair.targets[i])
                                          ELSE panels[i]]
      PROVE  IInv'
  <2>1. /\ pair.board \in BoardConfigs
        /\ \A i \in DOMAIN pair.targets : pair.targets[i] \in TargetConfigs
    BY <1>1, FileRead
  <2>2. ASSUME NEW i \in Targets PROVE panels'[i] \in Panels /\ Sized(panels'[i])
    <3>1. CASE i \in DOMAIN pair.targets
      <4>1. Shown(panels[i], pair.targets[i]) \in Panels /\ Sized(Shown(panels[i], pair.targets[i]))
        BY <1>1, <2>1, <3>1, ShownIs
      <4> QED BY <1>4, <3>1, <4>1
    <3>2. CASE i \notin DOMAIN pair.targets
      BY <1>1, <1>4, <3>2
    <3> QED BY <3>1, <3>2
  <2>3. panels' \in [Targets -> Panels]
    BY <1>4, <2>2
  <2>4. panels' \in PanelSet
    BY <2>2, <2>3 DEF PanelSet
  <2>5. Laid(panels', laidOut')
    BY <1>4 DEF Laid
  <2>6. /\ laidOut' \in SUBSET Targets /\ board' \in BoardConfigs
        /\ marks' \in Marks /\ valid' \in BOOLEAN
    BY <1>1, <1>2, <1>4, <2>1
  <2> QED BY <1>2, <2>4, <2>5, <2>6, WindowStep
<1> QED BY <1>3, <1>4 DEF openFileEnd

\* The command line tool saves a file that has nothing of the card.
LEMMA ToolSaves ==
  ASSUME IInv, saveFromDeviceToFilename
  PROVE  IInv'
<1> DEFINE b == boardConfigFromBytes([magic |-> FALSE, board |-> zeroBoardConfig])
           ts == [i \in Targets |-> targetCfgFromBytes(zeroTargetConfig)]
<1>1. /\ UNCHANGED <<board, panels, marks, valid, card, cardOf, worker, touched, laidOut>>
      /\ budget' \in 0 .. Budget
  BY Spent DEF saveFromDeviceToFilename, window
<1>2. IF \E i \in Targets : targetCfgToXMLRaises(ts[i])
      THEN UNCHANGED <<file, fileOf>>
      ELSE file' = toXML(b, ts) /\ fileOf' = {}
  BY DEF saveFromDeviceToFilename
<1>3. b \in BoardConfigs
  BY Defaults DEF boardConfigFromBytes
<1>4. ts \in [Targets -> TargetConfigs]
  <2>1. targetCfgFromBytes(zeroTargetConfig) \in TargetConfigs
    BY Defaults, FromBytes
  <2> QED BY <2>1
<1> HIDE DEF b, ts
<1>5. IsFile(file) /\ \A c \in fileOf : FileRestores(file, c)
  BY Known DEF IInv, Copies
<1>6. IsFile(toXML(b, ts))
  BY <1>3, <1>4, ToXML
<1>7. IsFile(file') /\ \A c \in fileOf' : FileRestores(file', c)
  BY <1>2, <1>5, <1>6
<1> QED BY <1>1, <1>7, FileStep

-----------------------------------------------------------------------------
(* The threads and the card. *)

\* No thread is left behind: what is said of one holds.
LEMMA ThreadEnds ==
  ASSUME worker' = idle
  PROVE  worker' \in Workers /\ WorkerOK' /\ Loading' /\ Gathering' /\ Writing'
  BY IdleIs DEF WorkerOK, Loading, Gathering, Writing

\* What a thread does not touch.
LEMMA ThreadStep ==
  ASSUME IInv, UNCHANGED <<board, panels, marks, valid, file, fileOf, laidOut>>,
         budget' \in 0 .. Budget, touched' \in BOOLEAN, worker' \in Workers,
         card' \in Cards, \A copy \in cardOf' : CardHolds(card', copy),
         WorkerOK', Loading', Gathering', Writing'
  PROVE  IInv'
<1>1. TypeOK'
  BY DEF IInv, TypeOK, IsFile
<1>2. Sizes' /\ Laid(panels, laidOut)' /\ Copies'
  BY DEF IInv, Sizes, Laid, Copies
<1> QED BY <1>1, <1>2 DEF IInv

\* A thread that loads has read the card as it is.
LEMMA LoadBegins ==
  ASSUME IInv, loadFromDevice
  PROVE  IInv'
<1>1. /\ card \in Cards /\ touched \in BOOLEAN
      /\ \A copy \in cardOf : CardHolds(card, copy)
  BY Known DEF IInv, Copies
<1>2. /\ UNCHANGED <<board, panels, marks, valid, card, cardOf, file, fileOf, laidOut>>
      /\ budget' \in 0 .. Budget
  BY Spent DEF loadFromDevice, window, copies
<1>3. card' \in Cards /\ \A copy \in cardOf' : CardHolds(card', copy)
  BY <1>1, <1>2
<1>4. CASE worker' = [op |-> "load", step |-> 0, data |-> card] /\ UNCHANGED touched
  <2>1. /\ worker'.op = "load" /\ worker'.step = 0 /\ worker'.data = card'
        /\ touched' \in BOOLEAN
    BY <1>1, <1>2, <1>4
  <2>2. worker' \in Workers
    <3>1. card \in Gathered /\ 0 \in 0 .. TargetCount + 1 /\ 0 \in 0 .. TargetCount
      BY <1>1, CardsGathered, ConfigAssumption
    <3> QED BY <1>4, <3>1 DEF Workers
  <2>3. WorkerOK'
    <3>1. 0 \in 0 .. TargetCount
      BY ConfigAssumption
    <3> QED BY <1>3, <2>1, <3>1 DEF WorkerOK
  <2>4. Loading'
    <3>1. \A i \in Targets : ~(i < 0)
      BY ConfigAssumption DEF Targets
    <3> QED BY <2>1, <3>1 DEF Loading
  <2>5. Gathering' /\ Writing'
    BY <2>1 DEF Gathering, Writing
  <2> QED BY <1>2, <1>3, <2>1, <2>2, <2>3, <2>4, <2>5, ThreadStep
<1>5. CASE Fails
  <2>1. worker' = idle /\ touched' \in BOOLEAN
    BY <1>5 DEF Fails
  <2> QED BY <1>2, <1>3, <2>1, ThreadEnds, ThreadStep
<1> QED BY <1>4, <1>5 DEF loadFromDevice

\* How a loading thread shows what it has read.
LEMMA LoadStep ==
  ASSUME IInv, loadFromDeviceShows
  PROVE  /\ board' \in BoardConfigs /\ panels' \in PanelSet
         /\ worker.step \in 0 .. TargetCount
         /\ ~touched => /\ board' = boardConfigFromBytes(card)
                        /\ \A i \in Targets : i <= worker.step =>
                             panels'[i].cfg = targetCfgFromBytes(card.targets[i])
<1> DEFINE n == worker.step
<1>1. /\ worker.op = "load" /\ worker.data = card /\ card \in Cards /\ n \in 0 .. TargetCount
      /\ board \in BoardConfigs /\ panels \in PanelSet /\ panels \in [Targets -> Panels]
      /\ \A i \in Targets : panels[i] \in Panels /\ Sized(panels[i])
  BY Known DEF IInv, WorkerOK, Loading, loadFromDeviceShows
<1>2. ~touched => /\ n > 0 => board = boardConfigFromBytes(card)
                  /\ \A i \in Targets : i < n => panels[i].cfg = targetCfgFromBytes(card.targets[i])
  BY <1>1 DEF IInv, Loading
<1>3. IF n = 0
      THEN board' = boardConfigFromBytes(card) /\ UNCHANGED panels
      ELSE /\ panels' = [panels EXCEPT ![n] = setTargetConfig(@, targetCfgFromBytes(card.targets[n]))]
           /\ UNCHANGED board
  BY <1>1 DEF loadFromDeviceShows
<1>4. card.board \in BoardConfigs /\ card.targets \in [Targets -> TargetConfigs]
  BY <1>1 DEF Cards
<1> HIDE DEF n
<1>5. CASE n = 0
  <2>1. boardConfigFromBytes(card) \in BoardConfigs
    BY <1>4, Defaults DEF boardConfigFromBytes
  <2>2. \A i \in Targets : ~(i <= n)
    BY <1>5, ConfigAssumption DEF Targets
  <2> QED BY <1>1, <1>3, <1>5, <2>1, <2>2 DEF n
<1>6. CASE n # 0
  <2> DEFINE c == targetCfgFromBytes(card.targets[n])
             q == setTargetConfig(panels[n], c)
  <2>1. n \in Targets /\ n > 0
    BY <1>1, <1>6, ConfigAssumption DEF Targets
  <2>2. c \in TargetConfigs
    BY <1>4, <2>1, FromBytes
  <2>3. panels' = [panels EXCEPT ![n] = q] /\ board' = board
    BY <1>3, <1>6
  <2> HIDE DEF c
  <2>4. q \in Panels /\ Sized(q) /\ q.cfg = c
    BY <1>1, <2>1, <2>2, ConfigSet
  <2> HIDE DEF q
  <2>5. /\ panels' \in [Targets -> Panels]
        /\ \A i \in Targets : panels'[i] = IF i = n THEN q ELSE panels[i]
    BY <1>1, <2>3, <2>4
  <2>6. \A i \in Targets : Sized(panels'[i])
    BY <1>1, <2>4, <2>5
  <2>7. panels' \in PanelSet
    BY <2>5, <2>6 DEF PanelSet
  <2>8. ASSUME ~touched, NEW i \in Targets, i <= n
        PROVE  panels'[i].cfg = targetCfgFromBytes(card.targets[i])
    <3>1. CASE i = n
      BY <2>4, <2>5, <3>1 DEF c
    <3>2. CASE i # n
      <4>1. i < n
        BY <1>1, <2>1, <2>8, <3>2, ConfigAssumption DEF Targets
      <4> QED BY <1>2, <2>5, <2>8, <3>2, <4>1
    <3> QED BY <3>1, <3>2
  <2> QED BY <1>1, <1>2, <2>1, <2>3, <2>7, <2>8 DEF n
<1> QED BY <1>5, <1>6

\* It shows one panel after the other.
LEMMA LoadShows ==
  ASSUME IInv, loadFromDeviceShows
  PROVE  IInv'
<1> DEFINE n == worker.step
<1>1. /\ worker.op = "load" /\ worker.data = card /\ card \in Cards /\ n \in 0 .. TargetCount
      /\ touched \in BOOLEAN /\ worker \in Workers
      /\ Copies
  BY Known DEF IInv, WorkerOK, Loading, loadFromDeviceShows
<1>2. /\ board' \in BoardConfigs /\ panels' \in PanelSet
      /\ ~touched => /\ board' = boardConfigFromBytes(card)
                     /\ \A i \in Targets : i <= n => panels'[i].cfg = targetCfgFromBytes(card.targets[i])
  BY LoadStep
<1>3. /\ UNCHANGED <<marks, valid, card, cardOf, file, fileOf, budget>> /\ laidOut' = {}
      /\ IF n = TargetCount THEN worker' = idle /\ touched' = FALSE
         ELSE worker' = [worker EXCEPT !.step = @ + 1] /\ UNCHANGED touched
  BY DEF loadFromDeviceShows, copies
<1>4. Copies' /\ Laid(panels, laidOut)'
  BY <1>1, <1>3 DEF Copies, Laid
<1>5. panels' \in [Targets -> Panels] /\ Sizes'
  BY <1>2 DEF PanelSet, Sizes
<1>6. worker' \in Workers /\ WorkerOK' /\ Loading' /\ Gathering' /\ Writing'
  <2>1. CASE n = TargetCount
    BY <1>3, <2>1, ThreadEnds
  <2>2. CASE n # TargetCount
    <3>1. worker' = [worker EXCEPT !.step = n + 1] /\ touched' = touched
      BY <1>3, <2>2
    <3>2. n + 1 \in 0 .. TargetCount /\ n + 1 \in 0 .. TargetCount + 1 /\ n \in Int
      BY <1>1, <2>2, ConfigAssumption
    <3> HIDE DEF n
    <3>3. /\ worker' \in Workers
          /\ worker'.op = "load" /\ worker'.data = card /\ worker'.step = n + 1
      BY <1>1, <3>1, <3>2 DEF Workers
    <3>4. WorkerOK'
      BY <1>1, <1>3, <3>2, <3>3 DEF WorkerOK
    <3>5. Gathering' /\ Writing'
      BY <3>3 DEF Gathering, Writing
    <3>6. \A i \in Targets : i < n + 1 => i <= n
      BY <3>2, ConfigAssumption DEF Targets
    <3>7. Loading'
      BY <1>2, <1>3, <3>1, <3>3, <3>6 DEF Loading
    <3> QED BY <3>3, <3>4, <3>5, <3>7
  <2> QED BY <2>1, <2>2
<1>7. TypeOK'
  <2>1. touched' \in BOOLEAN
    BY <1>1, <1>3
  <2>2. TypeOK
    BY DEF IInv
  <2> HIDE DEF n
  <2> QED BY <1>2, <1>3, <1>5, <1>6, <2>1, <2>2 DEF TypeOK, IsFile
<1> QED BY <1>4, <1>5, <1>6, <1>7 DEF IInv

\* A thread that saves has read the board.
LEMMA SaveBegins ==
  ASSUME IInv, saveToDevice
  PROVE  IInv'
<1>1. /\ card \in Cards /\ touched \in BOOLEAN /\ board \in BoardConfigs
      /\ \A copy \in cardOf : CardHolds(card, copy)
  BY Known DEF IInv, Copies
<1>2. /\ UNCHANGED <<board, panels, marks, valid, card, cardOf, file, fileOf, laidOut>>
      /\ budget' \in 0 .. Budget
  BY Spent DEF saveToDevice, window, copies
<1>3. card' \in Cards /\ \A copy \in cardOf' : CardHolds(card', copy)
  BY <1>1, <1>2
<1>4. CASE worker' = [op |-> "save", step |-> 1, data |-> toBytes(board, <<>>)] /\ UNCHANGED touched
  <2> DEFINE data == toBytes(board, <<>>)
  <2>1. /\ data \in Gathered /\ data.board = board /\ data.targets = <<>>
    <3>1. <<>> \in Seq(TargetConfigs)
      OBVIOUS
    <3> QED BY <1>1, <3>1 DEF toBytes, Gathered
  <2> HIDE DEF data
  <2>2. worker' = [op |-> "save", step |-> 1, data |-> data] /\ touched' = touched
    BY <1>4 DEF data
  <2>3. 1 \in 0 .. TargetCount + 1 /\ 1 \in Targets
    BY ConfigAssumption DEF Targets
  <2>4. /\ worker' \in Workers
        /\ worker'.op = "save" /\ worker'.step = 1 /\ worker'.data = data
    BY <2>1, <2>2, <2>3 DEF Workers
  <2>5. WorkerOK'
    <3>1. Len(data.targets) = 1 - 1
      BY <2>1
    <3> QED BY <2>3, <2>4, <3>1 DEF WorkerOK
  <2>6. Loading' /\ Writing'
    BY <2>4 DEF Loading, Writing
  <2>7. Gathering'
    <3>1. DOMAIN data.targets = {}
      BY <2>1
    <3> QED BY <1>2, <2>1, <2>4, <3>1 DEF Gathering
  <2> QED BY <1>1, <1>2, <1>3, <2>2, <2>4, <2>5, <2>6, <2>7, ThreadStep
<1>5. CASE Fails
  <2>1. worker' = idle /\ touched' \in BOOLEAN
    BY <1>5 DEF Fails
  <2> QED BY <1>2, <1>3, <2>1, ThreadEnds, ThreadStep
<1> QED BY <1>4, <1>5 DEF saveToDevice

\* One target more is gathered.
LEMMA SaveReads ==
  ASSUME IInv, saveToDeviceReads
  PROVE  IInv'
<1> DEFINE n == worker.step
           data == worker.data
           old == data.targets
           c == getTargetConfig(panels[n])
           new == Append(old, c)
           data1 == [data EXCEPT !.targets = new]
<1>1. /\ worker.op = "save" /\ worker \in Workers /\ n \in Targets /\ Len(old) = n - 1
      /\ touched \in BOOLEAN /\ panels \in [Targets -> Panels] /\ card \in Cards
      /\ \A copy \in cardOf : CardHolds(card, copy)
  BY Known DEF IInv, WorkerOK, Copies, saveToDeviceReads
<1>2. ~touched => /\ data.board = board
                  /\ \A i \in DOMAIN old : old[i] = getTargetConfig(panels[i])
  BY <1>1 DEF IInv, Gathering
<1>3. data \in Gathered /\ data.board \in BoardConfigs /\ data.magic \in BOOLEAN
      /\ old \in Seq(TargetConfigs)
  <2>1. data \in Gathered
    BY <1>1 DEF Workers
  <2> HIDE DEF data
  <2> QED BY <2>1 DEF Gathered
<1>4. c \in TargetConfigs
  <2>1. panels[n] \in Panels
    BY <1>1
  <2> QED BY <2>1, ConfigRead
<1> HIDE DEF c
<1>5. /\ new \in Seq(TargetConfigs) /\ Len(new) = n /\ DOMAIN new = 1 .. n
      /\ \A i \in 1 .. n : new[i] = IF i = n THEN c ELSE old[i]
      /\ DOMAIN old = 1 .. n - 1
  <2>1. n \in Nat /\ n >= 1
    BY <1>1, ConfigAssumption DEF Targets
  <2> HIDE DEF n, old
  <2> QED BY <1>1, <1>3, <1>4, <2>1
<1>6. /\ UNCHANGED <<board, panels, marks, valid, card, cardOf, file, fileOf, laidOut, touched, budget>>
      /\ worker' = [worker EXCEPT !.op = IF n = TargetCount THEN "write" ELSE "save",
                                  !.step = IF n = TargetCount THEN 1 ELSE n + 1,
                                  !.data = data1]
  BY <1>1 DEF saveToDeviceReads, window, copies, c
<1>7. /\ data1 \in Gathered /\ data1.board = data.board /\ data1.targets = new
      /\ data1.magic = data.magic
  <2> HIDE DEF data, new
  <2> QED BY <1>3, <1>5 DEF Gathered
<1> HIDE DEF data1
<1>8. ~touched => /\ data1.board = board
                  /\ \A i \in DOMAIN data1.targets :
                       data1.targets[i] = getTargetConfig(panels[i])
  <2>1. ASSUME ~touched, NEW i \in 1 .. n PROVE new[i] = getTargetConfig(panels[i])
    <3>1. CASE i = n
      <4> HIDE DEF new
      <4> QED BY <1>5, <3>1 DEF c
    <3>2. CASE i # n
      <4>1. i \in DOMAIN old
        <5> HIDE DEF old, new
        <5> QED BY <1>1, <1>5, <3>2, ConfigAssumption DEF Targets
      <4> HIDE DEF new
      <4> QED BY <1>2, <1>5, <2>1, <3>2, <4>1
    <3> QED BY <3>1, <3>2
  <2> HIDE DEF new
  <2> QED BY <1>2, <1>5, <1>7, <2>1
<1> HIDE DEF new, old, data
<1>9. CASE n = TargetCount
  <2>1. worker' = [worker EXCEPT !.op = "write", !.step = 1, !.data = data1]
    BY <1>6, <1>9
  <2>2. 1 \in 0 .. TargetCount + 1
    BY ConfigAssumption
  <2>3. /\ worker' \in Workers
        /\ worker'.op = "write" /\ worker'.step = 1 /\ worker'.data = data1
    <3> HIDE DEF n
    <3> QED BY <1>1, <1>7, <2>1, <2>2 DEF Workers
  <2>4. data1 \in Cards
    <3>1. new \in [Targets -> TargetConfigs]
      BY <1>5, <1>9 DEF Targets
    <3>2. data1 = [magic |-> data1.magic, board |-> data1.board, targets |-> data1.targets]
      BY <1>7 DEF Gathered
    <3> QED BY <1>3, <1>7, <3>1, <3>2 DEF Cards
  <2>5. WorkerOK'
    BY <2>3, <2>4 DEF WorkerOK
  <2>6. Loading' /\ Writing'
    BY <2>3 DEF Loading, Writing
  <2>7. Gathering'
    BY <1>6, <1>8, <2>3 DEF Gathering
  <2>8. /\ budget' \in 0 .. Budget /\ touched' \in BOOLEAN /\ card' \in Cards
        /\ \A copy \in cardOf' : CardHolds(card', copy)
    BY <1>1, <1>6, Known
  <2> QED BY <1>6, <2>3, <2>5, <2>6, <2>7, <2>8, ThreadStep
<1>10. CASE n # TargetCount
  <2>1. worker' = [worker EXCEPT !.op = "save", !.step = n + 1, !.data = data1]
    BY <1>6, <1>10
  <2>2. n + 1 \in 0 .. TargetCount + 1 /\ n + 1 \in Targets /\ n = n + 1 - 1
    BY <1>1, <1>10, ConfigAssumption DEF Targets
  <2>3. /\ worker' \in Workers
        /\ worker'.op = "save" /\ worker'.step = n + 1 /\ worker'.data = data1
    <3> HIDE DEF n
    <3> QED BY <1>1, <1>7, <2>1, <2>2 DEF Workers
  <2>4. WorkerOK'
    <3> HIDE DEF n
    <3> QED BY <1>5, <1>7, <2>2, <2>3 DEF WorkerOK
  <2>5. Loading' /\ Writing'
    BY <2>3 DEF Loading, Writing
  <2>6. Gathering'
    BY <1>6, <1>8, <2>3 DEF Gathering
  <2>7. /\ budget' \in 0 .. Budget /\ touched' \in BOOLEAN /\ card' \in Cards
        /\ \A copy \in cardOf' : CardHolds(card', copy)
    BY <1>1, <1>6, Known
  <2> QED BY <1>6, <2>3, <2>4, <2>5, <2>6, <2>7, ThreadStep
<1> QED BY <1>9, <1>10

\* What is written on the card was taken from panels, and these are restored.
LEMMA SavedIsHeld ==
  ASSUME NEW c \in Cards, NEW b, NEW ps \in [Targets -> Panels],
         c.magic, c.board = b, \A i \in Targets : c.targets[i] = getTargetConfig(ps[i])
  PROVE  CardHolds(c, [board |-> b, targets |-> Read(ps)])
<1>1. ASSUME NEW i \in Targets PROVE Same(targetCfgFromBytes(c.targets[i]), Read(ps)[i])
  <2> DEFINE t == c.targets[i]
             u == targetCfgFromBytes(t)
  <2>1. t \in TargetConfigs /\ Read(ps)[i] = t
    BY WindowRead, ConfigRead
  <2> HIDE DEF t
  <2>2. /\ DOMAIN u = DOMAIN t
        /\ \A m \in DOMAIN t : u[m] = IF m = "track" /\ t[m] = 0 THEN 63 ELSE t[m]
    BY <2>1, FromBytes
  <2> HIDE DEF u
  <2>3. Same(u, t)
    BY <2>2 DEF Same
  <2> QED BY <2>1, <2>3 DEF u, t
<1> QED BY <1>1 DEF CardHolds

\* And it writes a sector; after the second the card is a copy, unless panels were touched.
LEMMA SaveWrites ==
  ASSUME IInv, saveToDeviceWrites
  PROVE  IInv'
<1> DEFINE n == worker.step
           d == worker.data
           w == WriteSector(card, d, n)
           copy1 == [board |-> board, targets |-> Read(panels)]
<1>1. /\ worker.op = "write" /\ worker \in Workers /\ n \in {1, 2} /\ d \in Cards
      /\ touched \in BOOLEAN /\ panels \in [Targets -> Panels] /\ card \in Cards
  BY Known DEF IInv, WorkerOK, saveToDeviceWrites
<1>2. /\ UNCHANGED <<board, panels, marks, valid, file, fileOf, laidOut, budget>>
      /\ budget' \in 0 .. Budget
  BY Known DEF saveToDeviceWrites, window
<1>3. /\ w \in Cards
      /\ n = 1 => /\ w.magic /\ w.board = d.board
                  /\ \A i \in 1 .. FirstSector : w.targets[i] = d.targets[i]
      /\ n = 2 => /\ w.magic = card.magic /\ w.board = card.board
                  /\ \A i \in Targets : w.targets[i] = IF i <= FirstSector THEN card.targets[i]
                                                       ELSE d.targets[i]
  <2> HIDE DEF n, d
  <2> QED BY <1>1, SectorWritten
<1> HIDE DEF w
<1>4. CASE /\ card' = w /\ n = 1
           /\ worker' = [worker EXCEPT !.step = 2] /\ cardOf' = {} /\ UNCHANGED touched
  <2>1. 2 \in 0 .. TargetCount + 1
    BY ConfigAssumption
  <2>2. /\ worker' \in Workers
        /\ worker'.op = "write" /\ worker'.step = 2 /\ worker'.data = d
    BY <1>1, <1>4, <2>1 DEF Workers
  <2>3. WorkerOK' /\ Loading'
    BY <1>1, <2>2 DEF WorkerOK, Loading
  <2>4. Gathering'
    BY <1>1, <1>2, <1>4, <2>2 DEF IInv, Gathering
  <2>5. Writing'
    BY <1>3, <1>4, <2>2 DEF Writing
  <2>6. /\ card' \in Cards /\ touched' \in BOOLEAN
        /\ \A copy \in cardOf' : CardHolds(card', copy)
    BY <1>1, <1>3, <1>4
  <2> QED BY <1>2, <2>2, <2>3, <2>4, <2>5, <2>6, ThreadStep
<1>5. CASE /\ card' = w /\ n = 2 /\ worker' = idle /\ touched' = FALSE
           /\ cardOf' = IF touched THEN {} ELSE {copy1}
  <2>1. ASSUME ~touched PROVE CardHolds(w, copy1)
    <3>1. /\ card.magic /\ card.board = d.board
          /\ \A i \in 1 .. FirstSector : card.targets[i] = d.targets[i]
      BY <1>1, <1>5 DEF IInv, Writing
    <3>2. /\ d.board = board
          /\ \A i \in DOMAIN d.targets : d.targets[i] = getTargetConfig(panels[i])
      BY <1>1, <2>1 DEF IInv, Gathering
    <3>3. DOMAIN d.targets = Targets
      BY <1>1 DEF Cards
    <3>4. ASSUME NEW i \in Targets PROVE w.targets[i] = getTargetConfig(panels[i])
      <4>1. i <= FirstSector => i \in 1 .. FirstSector
        BY SettingsAssumption, ConfigAssumption DEF Targets
      <4> HIDE DEF n, d
      <4> QED BY <1>3, <1>5, <3>1, <3>2, <3>3, <4>1
    <3>5. w.magic /\ w.board = board
      BY <1>3, <1>5, <3>1, <3>2
    <3> QED BY <1>1, <1>3, <3>4, <3>5, SavedIsHeld
  <2> HIDE DEF copy1
  <2>2. /\ card' \in Cards /\ touched' \in BOOLEAN
        /\ \A copy \in cardOf' : CardHolds(card', copy)
    BY <1>3, <1>5, <2>1
  <2>3. worker' = idle
    BY <1>5
  <2> QED BY <1>2, <2>2, <2>3, ThreadEnds, ThreadStep
<1>6. CASE card' \in {card, w} /\ cardOf' = {} /\ Fails
  <2>1. /\ card' \in Cards /\ touched' \in BOOLEAN /\ worker' = idle
        /\ \A copy \in cardOf' : CardHolds(card', copy)
    BY <1>1, <1>3, <1>6 DEF Fails
  <2> QED BY <1>2, <2>1, ThreadEnds, ThreadStep
<1> QED BY <1>1, <1>4, <1>5, <1>6 DEF saveToDeviceWrites, w

\* What a file restores is what comes back from the card that it is written to.
LEMMA LikeIsSame ==
  ASSUME NEW t, NEW u, Like(t, u)
  PROVE  Same(targetCfgFromBytes(t), u) /\ Same(t, u)
<1> DEFINE s == targetCfgFromBytes(t)
<1>1. t \in TargetConfigs /\ \A m \in DOMAIN t \ {"modifier", "quirks"} : t[m] = u[m]
  BY DEF Like
<1>2. /\ DOMAIN s = DOMAIN t
      /\ \A m \in DOMAIN t : s[m] = IF m = "track" /\ t[m] = 0 THEN 63 ELSE t[m]
  BY <1>1, FromBytes
<1> HIDE DEF s
<1>3. Same(s, u) /\ Same(t, u)
  BY <1>1, <1>2 DEF Same
<1> QED BY <1>3 DEF s

\* The command line tool writes a file on the card.
LEMMA ToolWrites ==
  ASSUME IInv, saveToDeviceFromFilename
  PROVE  IInv'
<1>1. /\ card \in Cards /\ IsFile(file) /\ worker \in Workers /\ worker.op = "idle"
      /\ touched \in BOOLEAN
      /\ \A copy \in fileOf : FileRestores(file, copy)
  BY Known DEF IInv, Copies, saveToDeviceFromFilename
<1>2. /\ UNCHANGED <<board, panels, marks, valid, file, fileOf, laidOut, worker, touched>>
      /\ budget' \in 0 .. Budget /\ Targets \subseteq DOMAIN file.targets
  BY Spent DEF saveToDeviceFromFilename, window
<1>3. PICK pair \in fromXML(file) :
        LET data == toBytes(pair.board, pair.targets)
            half == WriteSector(card, data, 1)
            whole == WriteSector(half, data, 2)
        IN \/ card' = whole /\ cardOf' = fileOf
           \/ card' \in {card, half, whole} /\ cardOf' = {}
  BY DEF saveToDeviceFromFilename
<1> DEFINE data == toBytes(pair.board, pair.targets)
           these == [i \in Targets |-> pair.targets[i]]
           d == [magic |-> TRUE, board |-> pair.board, targets |-> these]
           half == WriteSector(card, d, 1)
           whole == WriteSector(half, d, 2)
<1>4. /\ pair.board \in BoardConfigs
      /\ \A i \in Targets : pair.targets[i] \in TargetConfigs
  BY <1>1, <1>2, FileRead
<1>5. d \in Cards
  BY <1>4 DEF Cards
<1>6. \A c, n : WriteSector(c, data, n) = WriteSector(c, d, n)
  BY DEF WriteSector, toBytes
<1>7. \/ card' = whole /\ cardOf' = fileOf
      \/ card' \in {card, half, whole} /\ cardOf' = {}
  <2> HIDE DEF d
  <2> QED BY <1>3, <1>6
<1>8. \A i \in Targets : d.targets[i] = pair.targets[i]
  OBVIOUS
<1>9. d.board = pair.board
  OBVIOUS
<1> HIDE DEF d
<1>10. /\ half \in Cards /\ half.magic /\ half.board = d.board
       /\ \A i \in 1 .. FirstSector : half.targets[i] = d.targets[i]
  BY <1>1, <1>5, SectorWritten
<1> HIDE DEF half
<1>11. /\ whole \in Cards /\ whole.magic = half.magic /\ whole.board = half.board
       /\ \A i \in Targets : whole.targets[i] = IF i <= FirstSector THEN half.targets[i]
                                                 ELSE d.targets[i]
  BY <1>5, <1>10, SectorWritten
<1> HIDE DEF whole
<1>12. ASSUME NEW i \in Targets PROVE whole.targets[i] = pair.targets[i]
  <2>1. i <= FirstSector => i \in 1 .. FirstSector
    BY SettingsAssumption, ConfigAssumption DEF Targets
  <2> QED BY <1>8, <1>10, <1>11, <2>1
<1>13. ASSUME NEW copy \in fileOf PROVE CardHolds(whole, copy)
  <2>1. FileRestores(file, copy)
    BY <1>1
  <2>2. pair.board = copy.board /\ \A i \in Targets : Like(pair.targets[i], copy.targets[i])
    BY <2>1 DEF FileRestores
  <2>3. \A i \in Targets : Same(targetCfgFromBytes(whole.targets[i]), copy.targets[i])
    BY <1>12, <2>2, LikeIsSame
  <2> QED BY <1>9, <1>10, <1>11, <2>2, <2>3 DEF CardHolds
<1>14. card' \in Cards /\ \A copy \in cardOf' : CardHolds(card', copy)
  BY <1>1, <1>7, <1>10, <1>11, <1>13
<1>15. worker'.op = "idle" /\ worker' \in Workers /\ touched' \in BOOLEAN
  BY <1>1, <1>2
<1>16. WorkerOK' /\ Loading' /\ Gathering' /\ Writing'
  BY <1>15 DEF WorkerOK, Loading, Gathering, Writing
<1> QED BY <1>2, <1>14, <1>15, <1>16, ThreadStep

-----------------------------------------------------------------------------
(* The invariant, and what follows from it. *)

\* Every step keeps the invariant.
LEMMA InvariantStep == IInv /\ [Next]_vars => IInv'
<1> SUFFICES ASSUME IInv, [Next]_vars PROVE IInv'
  OBVIOUS
<1>1. \A i \in Edited : i \in Targets
  BY SettingsAssumption
<1>2. ASSUME NEW i \in Edited, EditTarget(i) PROVE IInv'
  BY <1>1, <1>2, TargetEdited
<1>3. ASSUME NEW i \in Edited, EditNumber(i) PROVE IInv'
  BY <1>1, <1>3, NumberEdited
<1>4. ASSUME NEW i \in Edited, AutoButton(i) PROVE IInv'
  BY <1>1, <1>4, AutoPressed
<1>5. ASSUME NEW i \in Edited, NEW unit \in Units, selectDeviceUnit(i, unit) PROVE IInv'
  BY <1>1, <1>5, UnitSelected
<1>6. ASSUME NEW connected \in BOOLEAN, doTimer(connected) PROVE IInv'
  BY <1>6, TimerFired
<1>7. CASE EditBoard
  BY <1>7, BoardEdited
<1>8. CASE LoadDefaults
  BY <1>8, DefaultsLoaded
<1>9. CASE saveFileEnd
  BY <1>9, FileSaved
<1>10. CASE openFileEnd
  BY <1>10, FileOpened
<1>11. CASE loadFromDevice
  BY <1>11, LoadBegins
<1>12. CASE loadFromDeviceShows
  BY <1>12, LoadShows
<1>13. CASE saveToDevice
  BY <1>13, SaveBegins
<1>14. CASE saveToDeviceReads
  BY <1>14, SaveReads
<1>15. CASE saveToDeviceWrites
  BY <1>15, SaveWrites
<1>16. CASE saveFromDeviceToFilename
  BY <1>16, ToolSaves
<1>17. CASE saveToDeviceFromFilename
  BY <1>17, ToolWrites
<1>18. CASE UNCHANGED vars
  <2>1. UNCHANGED <<board, panels, marks, valid, card, file, worker, cardOf, fileOf, touched,
                    laidOut, budget>>
    BY <1>18 DEF vars, window, copies
  <2>2. TypeOK'
    BY <2>1 DEF IInv, TypeOK, IsFile
  <2>3. Sizes' /\ Laid(panels, laidOut)' /\ WorkerOK' /\ Copies'
    BY <2>1 DEF IInv, Sizes, Laid, WorkerOK, Copies
  <2>4. Loading' /\ Gathering' /\ Writing'
    BY <2>1 DEF IInv, Loading, Gathering, Writing
  <2> QED BY <2>2, <2>3, <2>4 DEF IInv
<1> QED BY <1>2, <1>3, <1>4, <1>5, <1>6, <1>7, <1>8, <1>9, <1>10, <1>11, <1>12, <1>13, <1>14,
           <1>15, <1>16, <1>17, <1>18 DEF Next

\* The inductive invariant: the window, the card, the file and the thread have
\* their types, sizes go with counts, what the program placed lies in a row, the
\* card and the file are the copies they are said to be, and a thread is as far as it says.
THEOREM SettingsInvariant == Spec => []IInv
<1> QED BY InvariantInit, InvariantStep, PTL DEF Spec

\* The window, the card, the file and the thread always have their types.
THEOREM SettingsTypes == Spec => []TypeOK
<1>1. IInv => TypeOK
  BY DEF IInv
<1> QED BY <1>1, SettingsInvariant, PTL

\* Targets placed by the program, by their defaults or by automatic starts, never
\* share sectors, for every number of targets, card and history of edits.
THEOREM TargetsApart == Spec => []PlacedApart
<1>1. IInv => PlacedApart
  <2> SUFFICES ASSUME IInv PROVE PlacedApart
    OBVIOUS
  <2>1. panels \in [Targets -> Panels] /\ laidOut \in SUBSET Targets /\ Laid(panels, laidOut)
    BY Known
  <2> QED BY <2>1, LaidApart DEF PlacedApart
<1> QED BY <1>1, SettingsInvariant, PTL

\* What was saved on the device is what is loaded from it: when the last panel
\* is shown, every panel shows what the copy on the card was taken from.
THEOREM LoadingRestores == Spec => LoadRestores
<1> DEFINE Restores == loadFromDeviceShows /\ worker.step = TargetCount /\ ~touched
                       => \A copy \in cardOf : Shows(copy)
<1>1. IInv => Restores
  <2> SUFFICES ASSUME IInv, loadFromDeviceShows, worker.step = TargetCount, ~touched,
                      NEW copy \in cardOf
               PROVE  Shows(copy)
    OBVIOUS
  <2>1. CardHolds(card, copy)
    BY DEF IInv, Copies
  <2>2. /\ board' = boardConfigFromBytes(card)
        /\ \A i \in Targets : i <= TargetCount =>
             panels'[i].cfg = targetCfgFromBytes(card.targets[i])
    BY LoadStep
  <2>3. \A i \in Targets : panels'[i].cfg = targetCfgFromBytes(card.targets[i])
    BY <2>2, ConfigAssumption DEF Targets
  <2>4. board' = copy.board
    BY <2>1, <2>2 DEF CardHolds, boardConfigFromBytes
  <2>5. \A i \in Targets : Same(panels'[i].cfg, copy.targets[i])
    BY <2>1, <2>3 DEF CardHolds
  <2> QED BY <2>4, <2>5 DEF Shows
<1>2. IInv /\ [Next]_vars =>
        [/\ loadFromDeviceShows
         /\ worker.step = TargetCount
         /\ ~touched
         => \A copy \in cardOf : Shows(copy)]_vars
  BY <1>1
<1> QED BY <1>2, SettingsInvariant, PTL DEF Spec, LoadRestores

\* Opening a saved file shows, in every panel, what a file can hold of what was
\* saved in it.
THEOREM OpeningRestores == Spec => OpenRestores
<1>1. ASSUME IInv, openFileEnd, NEW copy \in fileOf PROVE Shows(copy)
  <2>1. /\ panels \in [Targets -> Panels] /\ IsFile(file) /\ FileRestores(file, copy)
    BY <1>1, Known DEF IInv, Copies
  <2>2. ~FileRaises(file) /\ DOMAIN file.targets = Targets
    BY <2>1 DEF FileRestores
  <2>3. PICK pair \in fromXML(file) :
          /\ board' = pair.board
          /\ panels' = [i \in Targets |-> IF i \in DOMAIN pair.targets
                                          THEN Shown(panels[i], pair.targets[i])
                                          ELSE panels[i]]
    BY <1>1, <2>2 DEF openFileEnd
  <2>4. /\ DOMAIN pair.targets = Targets
        /\ \A i \in Targets : pair.targets[i] \in TargetConfigs
    BY <2>1, <2>2, FileRead
  <2>5. pair.board = copy.board /\ \A i \in Targets : Like(pair.targets[i], copy.targets[i])
    BY <2>1 DEF FileRestores
  <2>6. ASSUME NEW i \in Targets PROVE Same(panels'[i].cfg, copy.targets[i])
    <3>1. panels'[i] = Shown(panels[i], pair.targets[i])
      BY <2>3, <2>4
    <3>2. Shown(panels[i], pair.targets[i]).cfg = pair.targets[i]
      BY <2>1, <2>4, ShownIs
    <3>3. Same(pair.targets[i], copy.targets[i])
      BY <2>5, LikeIsSame
    <3> QED BY <3>1, <3>2, <3>3
  <2> QED BY <2>3, <2>5, <2>6 DEF Shows
<1>2. IInv /\ [Next]_vars => [openFileEnd => \A copy \in fileOf : Shows(copy)]_vars
  BY <1>1
<1> QED BY <1>2, SettingsInvariant, PTL DEF Spec, OpenRestores

\* What the timer finds, in the terms of the check.
LEMMA TimerChecks ==
  ASSUME IInv, NEW connected \in BOOLEAN, doTimer(connected)
  PROVE  LET e == evaluate(panels, marks, IF connected THEN {Capacity} ELSE {})
         IN /\ panels \in [Targets -> Panels] /\ marks \in Marks
            /\ panels' = e.panels
            /\ marks'.duplicate = e.duplicate /\ marks'.overlap = e.overlap
            /\ connected => valid' = e.valid
<1>1. panels \in [Targets -> Panels] /\ marks \in Marks
  BY Known
<1> DEFINE e == evaluate(panels, marks, IF connected THEN {Capacity} ELSE {})
<1>2. /\ panels' = e.panels
      /\ marks' = [duplicate |-> e.duplicate, overlap |-> e.overlap]
      /\ valid' = IF connected THEN e.valid ELSE valid
  BY DEF doTimer, Evaluate
<1> HIDE DEF e
<1>3. marks'.duplicate = e.duplicate /\ marks'.overlap = e.overlap /\ (connected => valid' = e.valid)
  BY <1>2
<1> QED BY <1>1, <1>2, <1>3 DEF e

\* No false alarm: whoever the periodic check says to share an identifier or sectors
\* does so with another, or is the only one enabled, and the menu items are disabled
\* for a reason.
THEOREM AlarmsReal == Spec => AlarmsAreReal
<1>1. ASSUME IInv, NEW connected \in BOOLEAN, doTimer(connected)
      PROVE  LET on == Enabled(panels')
                 Meet(i, j) == j # i /\ RangesIntersect(panels'[i].cfg, panels'[j].cfg)
                 Met(i, j) == j # i /\ RangesIntersect(panels'[i].cfg, panels[j].cfg)
             IN /\ \A i \in marks'.duplicate :
                     i \in on /\ (on = {i} \/ \E j \in on \ {i} : panels'[i].cfg.id = panels'[j].cfg.id)
                /\ \A i \in marks'.overlap :
                     i \in on /\ (on = {i} \/ \E j \in on : Meet(i, j) \/ Met(i, j))
                /\ connected /\ ~valid' =>
                     \/ on = {}
                     \/ \E i \in on : \/ ~PanelValid(panels'[i])
                                      \/ \E j \in on : Meet(i, j)
                                      \/ Above(Total(panels', on \ {i}), Capacity - 2)
  <2> DEFINE capacity == IF connected THEN {Capacity} ELSE {}
             e == evaluate(panels, marks, capacity)
             qs == panels'
             dup == marks'.duplicate
             over == marks'.overlap
             ok == e.valid
  <2>1. /\ panels \in [Targets -> Panels] /\ marks \in Marks
        /\ qs = e.panels /\ dup = e.duplicate /\ over = e.overlap
        /\ connected => valid' = e.valid
    BY <1>1, TimerChecks
  <2>2. connected => capacity = {Capacity}
    OBVIOUS
  <2>3. Capacity \in Nat
    BY SettingsAssumption
  <2> HIDE DEF capacity
  <2>4. /\ qs = evaluate(panels, marks, capacity).panels
        /\ dup = evaluate(panels, marks, capacity).duplicate
        /\ over = evaluate(panels, marks, capacity).overlap
        /\ ok = evaluate(panels, marks, capacity).valid
        /\ connected => valid' = ok
    BY <2>1
  <2> HIDE DEF e, qs, dup, over, ok
  <2>5. /\ \A i \in dup : HasTwin(qs, i)
        /\ \A i \in over : HasReason(panels, qs, i)
        /\ capacity = {Capacity} /\ ~ok => Faulty(qs, Capacity)
    BY <2>1, <2>3, <2>4, Alarms
  <2>6. connected /\ ~valid' => Faulty(qs, Capacity)
    BY <2>2, <2>4, <2>5
  <2>7. \A i \in marks'.duplicate :
          /\ i \in Enabled(panels')
          /\ \/ Enabled(panels') = {i}
             \/ \E j \in Enabled(panels') \ {i} : panels'[i].cfg.id = panels'[j].cfg.id
    BY <2>5 DEF HasTwin, qs, dup
  <2>8. \A i \in marks'.overlap : HasReason(panels, panels', i)
    BY <2>5 DEF qs, over
  <2>9. connected /\ ~valid' => Faulty(panels', Capacity)
    BY <2>6 DEF qs
  <2> QED BY <2>7, <2>8, <2>9 DEF HasReason, Faulty, Meets
<1>2. IInv /\ [Next]_vars =>
        [\A connected \in BOOLEAN : doTimer(connected) =>
           LET on == Enabled(panels')
               Meet(i, j) == j # i /\ RangesIntersect(panels'[i].cfg, panels'[j].cfg)
               Met(i, j) == j # i /\ RangesIntersect(panels'[i].cfg, panels[j].cfg)
           IN /\ \A i \in marks'.duplicate :
                   i \in on /\ (on = {i} \/ \E j \in on \ {i} : panels'[i].cfg.id = panels'[j].cfg.id)
              /\ \A i \in marks'.overlap :
                   i \in on /\ (on = {i} \/ \E j \in on : Meet(i, j) \/ Met(i, j))
              /\ connected /\ ~valid' =>
                   \/ on = {}
                   \/ \E i \in on : \/ ~PanelValid(panels'[i])
                                    \/ \E j \in on : Meet(i, j)
                                    \/ Above(Total(panels', on \ {i}), Capacity - 2)]_vars
  BY <1>1
<1> QED BY <1>2, SettingsInvariant, PTL DEF Spec, AlarmsAreReal

\* An overlap of the last two enabled targets always shows, and disables the menu
\* items, although each comparison overwrites the one before it.
THEOREM LastTwoCompared == Spec => LastTwoAreCompared
<1>1. ASSUME IInv, NEW connected \in BOOLEAN, doTimer(connected),
             NEW i \in Enabled(panels'), NEW j \in Enabled(panels'),
             i < j, \A k \in Enabled(panels') : k <= i \/ k = j,
             RangesIntersect(panels'[i].cfg, panels'[j].cfg)
      PROVE  j \in marks'.overlap /\ (connected => ~valid')
  <2> DEFINE capacity == IF connected THEN {Capacity} ELSE {}
             qs == panels'
  <2>1. /\ panels \in [Targets -> Panels] /\ marks \in Marks
        /\ qs = evaluate(panels, marks, capacity).panels
        /\ marks'.overlap = evaluate(panels, marks, capacity).overlap
        /\ connected => valid' = evaluate(panels, marks, capacity).valid
    BY <1>1, TimerChecks
  <2>2. /\ i \in Enabled(qs) /\ j \in Enabled(qs) /\ i < j
        /\ \A k \in Enabled(qs) : k <= i \/ k = j
        /\ RangesIntersect(qs[i].cfg, qs[j].cfg)
    BY <1>1
  <2> HIDE DEF qs, capacity
  <2>3. j \in evaluate(panels, marks, capacity).overlap /\ ~evaluate(panels, marks, capacity).valid
    BY <2>1, <2>2, Compared
  <2> QED BY <2>1, <2>3
<1>2. IInv /\ [Next]_vars =>
        [\A connected \in BOOLEAN : doTimer(connected) =>
           \A i, j \in Enabled(panels') :
             /\ i < j /\ \A k \in Enabled(panels') : k <= i \/ k = j
             /\ RangesIntersect(panels'[i].cfg, panels'[j].cfg)
             => j \in marks'.overlap /\ (connected => ~valid')]_vars
  BY <1>1
<1> QED BY <1>2, SettingsInvariant, PTL DEF Spec, LastTwoAreCompared
====
