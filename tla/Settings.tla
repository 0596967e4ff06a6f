---- MODULE Settings ----
(***************************************************************************)
(* The configuration and its copies: what the window shows, what is on the *)
(* SD card of the device, what is in a file, and the two programs that     *)
(* carry it from one to the other. A configuration is loaded from and      *)
(* saved to the device by a thread, panel by panel and sector by sector,   *)
(* while the user goes on editing; files are read and written by the main  *)
(* thread, and by the command line tool.                                   *)
(*                                                                         *)
(* The two threads that may wait for aLock, the timer and a device that    *)
(* comes and goes are those of DeviceSession; here there may or may not be *)
(* a device whenever one is needed, and a command is done or fails.        *)
(***************************************************************************)
EXTENDS TargetPanels

CONSTANTS Capacity,       \* sectors of the SD card
          FirstSector,    \* how many targets are in the first sector of a configuration
          Starts,         \* the cards and files there may be at the start
          Edited,         \* the targets the user edits
          Budget,         \* bound on what the user does: an edit takes EditCost
          EditCost        \* of it, any other action 1

----
(* What the configurations, the panels, the card and a file are made of. *)

Byte == 0 .. 255
Word == {n \in Nat : n < 65536}

\* A count of 32 bits is not below -2 GB.
Count == {n \in Int : n >= -2 * FactorOf["GB"]}

SomeByte == {Unset} \union Byte
Names == [TextFields -> Texts]

BoardConfigs == [flags : SUBSET (FileFlags \union OtherFlags), flags6 : SUBSET Flags6,
                 startup : Byte, selection : Byte, speed : Byte]

TargetConfigs ==
  [enabled : BOOLEAN, id : Nat, type : Byte, modifier : SomeByte, start : Int, sectors : Count,
   bytes : Word, track : Word, heads : Word, text : Names,
   quirks : SUBSET (Quirks \union {AnyQuirk})]

Panels == [cfg : TargetConfigs, size : Nat, unit : Units, auto : BOOLEAN,
           autoEnabled : BOOLEAN, editable : BOOLEAN]

Cards == [magic : BOOLEAN, board : BoardConfigs, targets : [Targets -> TargetConfigs]]

Gathered == [magic : BOOLEAN, board : BoardConfigs, targets : Seq(TargetConfigs)]

Workers == [op : {"idle", "load", "save", "write"}, step : 0 .. TargetCount + 1, data : Gathered]

BoardElements == [flags : Seq((FileFlags \union Flags6) \X BOOLEAN),
                  startup : Nat, selection : Nat, speed : Nat]

Lines == {<<q>> : q \in Quirks} \union {<<q, " ">> : q \in Quirks \union {AnyQuirk}}

TargetElements ==
  [enabled : BOOLEAN, id : Nat, type : Byte, modifier : SomeByte, start : Int, sectors : Int,
   bytes : Int, track : Int, heads : Int, text : Names, quirks : SUBSET Lines]

IsFile(f) == /\ f.kind \in {"bad", "xml"}
             /\ f.boards \in Seq(BoardElements)
             /\ \A i \in DOMAIN f.targets : f.targets[i] \in TargetElements

----
ASSUME SettingsAssumption ==
  /\ Capacity \in Nat /\ Budget \in Nat /\ EditCost \in Nat \ {0}
  /\ FirstSector \in Targets /\ Edited \subseteq Targets
  /\ \A start \in Starts : start.card \in Cards /\ IsFile(start.file)

VARIABLES
  board, panels,   \* the controls of the window
  marks,           \* error texts: which targets are said to share an ID, to overlap
  valid,           \* what evaluate last enabled the save and open items with
  card, file,
  worker,          \* the thread: what it does, how far it is, what it has gathered
  cardOf, fileOf,  \* ghost: {the configuration} these are a copy of, {} if of none
  touched,         \* ghost: the panels changed under the worker
  laidOut,         \* ghost: the targets whose place the program chose
  budget           \* what is left of Budget

window == <<board, panels, marks, valid>>
copies == <<card, file, cardOf, fileOf>>
vars == <<window, copies, worker, touched, laidOut, budget>>

idle == [op |-> "idle", step |-> 0, data |-> toBytes(zeroBoardConfig, <<>>)]

NoMarks == [duplicate |-> {}, overlap |-> {}]

NewPanel == [cfg |-> zeroTargetConfig, size |-> 0, unit |-> "GB", auto |-> FALSE,
             autoEnabled |-> TRUE, editable |-> TRUE]

Read(ps) == [i \in Targets |-> getTargetConfig(ps[i])]

Init ==
  /\ board = defaultBoardConfig
  /\ panels = loadDefaults([i \in Targets |-> NewPanel])
  /\ marks = NoMarks /\ valid = TRUE
  /\ \E start \in Starts : card = start.card /\ file = start.file
  /\ worker = idle
  /\ cardOf = {} /\ fileOf = {}
  /\ touched = FALSE /\ laidOut = Targets
  /\ budget = Budget

----
(* The user and the main thread. *)

Touch == touched' = (touched \/ worker.op # "idle")

Edit ==
  /\ budget >= EditCost
  /\ budget' = budget - EditCost
  /\ Touch

Act ==
  /\ budget > 0
  /\ budget' = budget - 1

Toggle(set, x) == IF x \in set THEN set \ {x} ELSE set \union {x}

Evaluate(ps, connected) ==
  LET after == evaluate(ps, marks, IF connected THEN {Capacity} ELSE {})
  IN /\ panels' = after.panels
     /\ marks' = [duplicate |-> after.duplicate, overlap |-> after.overlap]
     /\ valid' = IF connected THEN after.valid ELSE valid

\* A check box, the identifier, the type or a name: no code runs but for the
\* check box of the target, which enables the one for automatic starts.
EditTarget(i) ==
  /\ Edit
  /\ \/ panels' = [panels EXCEPT ![i].cfg.enabled = ~@,
                                 ![i].autoEnabled = ~panels[i].cfg.enabled]
        /\ UNCHANGED laidOut
     \/ \E id \in {1, 8} : panels' = [panels EXCEPT ![i].cfg.id = id]
        /\ UNCHANGED laidOut
     \/ panels' = [panels EXCEPT ![i].cfg.type = Floppy]
        /\ laidOut' = laidOut \ {i}
     \/ \E text \in {"short", "markup"} : panels' = [panels EXCEPT ![i].cfg.text["vendor"] = text]
        /\ UNCHANGED laidOut
  /\ UNCHANGED <<board, marks, valid, copies, worker>>

\* A number: of a changed sector size or count the panel is checked and the size
\* shown, from a changed size the count is computed.
Resized(p) == evaluateSize(EvaluatePanel(p))

SizeTyped(p) == {[p EXCEPT !.cfg.sectors = c] : c \in convertUnitsToSectors(p)}

NumberTyped(p) ==
  {[p EXCEPT !.cfg.start = 0]}
    \union (IF p.editable
            THEN {Resized([p EXCEPT !.cfg.bytes = 0]), Resized([p EXCEPT !.cfg.bytes = 16384]),
                  Resized([p EXCEPT !.cfg.sectors = 5])}
                 \union SizeTyped([p EXCEPT !.size = 3])
            ELSE {})

EditNumber(i) ==
  /\ Edit
  /\ \E p \in NumberTyped(panels[i]) : panels' = [panels EXCEPT ![i] = p]
  /\ laidOut' = laidOut \ {i}
  /\ UNCHANGED <<board, marks, valid, copies, worker>>

\* The unit is chosen anew; the sectors follow and everything is checked.
selectDeviceUnit(i, unit) ==
  /\ panels[i].editable
  /\ Edit
  /\ LET p == [panels[i] EXCEPT !.unit = unit]
     IN \E c \in convertUnitsToSectors(p), connected \in BOOLEAN :
          Evaluate([panels EXCEPT ![i] = [p EXCEPT !.cfg.sectors = c]], connected)
  /\ laidOut' = IF unit = panels[i].unit THEN laidOut ELSE laidOut \ {i}
  /\ UNCHANGED <<board, copies, worker>>

EditBoard ==
  /\ Edit
  /\ \/ \E f \in {"parity", "enableCache"} : board' = [board EXCEPT !.flags = Toggle(@, f)]
     \/ \E f \in Flags6 : board' = [board EXCEPT !.flags6 = Toggle(@, f)]
     \/ board' = [board EXCEPT !.speed = SpeedTurbo]
  /\ UNCHANGED <<panels, marks, valid, copies, worker, laidOut>>

\* The targets that automatic starts place one after the other: an unbroken row
\* from the first, which is at 0, of panels that show a size.
Row(ps) ==
  LET row == {i \in Targets : ps[i].cfg.enabled /\ ps[i].auto}
  IN IF /\ \E n \in Targets : row = 1 .. n
        /\ ps[1].cfg.start = 0
        /\ \A i \in row : /\ ps[i].cfg.sectors >= 0 /\ ps[i].cfg.bytes > 0
                          /\ EvaluatePanel(ps[i]) = ps[i]
     THEN row ELSE {}

\* Clicking "Auto" on one target computes them all.
AutoButton(i) ==
  /\ panels[i].autoEnabled
  /\ Edit
  /\ LET ps == [panels EXCEPT ![i].auto = ~@]
     IN panels' = autoButton(ps) /\ laidOut' = Row(ps)
  /\ UNCHANGED <<board, marks, valid, copies, worker>>

LoadDefaults ==
  /\ Act
  /\ panels' = loadDefaults(panels)
  /\ board' = defaultBoardConfig
  /\ Touch
  /\ laidOut' = Targets
  /\ UNCHANGED <<marks, valid, copies, worker>>

\* The timer runs while no thread does; it may find a device or lose it.
doTimer(connected) ==
  /\ worker.op = "idle"
  /\ UNCHANGED <<board, copies, worker, touched, laidOut, budget>>
  /\ Evaluate(panels, connected)

----
(* Files. *)

\* What a file can hold: the flags it has elements for, numbers within the limits
\* and no character reserved by XML; of the serial number the first half.
Portable(b, ts) ==
  /\ b.flags \subseteq FileFlags /\ b.speed <= SpeedSync10
  /\ \A i \in Targets : /\ ts[i].bytes <= 8192 /\ ts[i].start >= 0 /\ ts[i].sectors >= 0
                        /\ ts[i].track <= 255 /\ ts[i].heads <= 255 /\ ts[i].type <= 9
                        /\ \A f \in TextFields : ts[i].text[f] # "markup"

InFile(ts) == [i \in Targets |-> [ts[i] EXCEPT !.text["serialTail"] = "blank"]]

saveFileEnd ==
  /\ Act
  /\ LET targets == Read(panels)
     IN IF \E i \in Targets : targetCfgToXMLRaises(targets[i])
        THEN UNCHANGED <<file, fileOf>>
        ELSE /\ file' = toXML(board, targets)
             /\ fileOf' = IF Portable(board, targets)
                          THEN {[board |-> board, targets |-> InFile(targets)]} ELSE {}
  /\ UNCHANGED <<window, card, cardOf, worker, touched, laidOut>>

openFileEnd ==
  /\ Act
  /\ Touch
  /\ UNCHANGED <<marks, valid, copies, worker>>
  /\ IF FileRaises(file)
     THEN UNCHANGED <<board, panels, laidOut>>
     ELSE /\ laidOut' = {}
          /\ \E pair \in fromXML(file) :
               /\ board' = pair.board
               /\ panels' = [i \in Targets |-> IF i \in DOMAIN pair.targets
                                               THEN Shown(panels[i], pair.targets[i])
                                               ELSE panels[i]]

----
(* Threads that load from and save to the device. *)

\* Whatever goes wrong ends at err.
Fails == worker' = idle /\ touched' = FALSE

\* A slip: the second sector starts one target late.
InSector_Late(n) == IF n = 1 THEN 1 .. FirstSector ELSE FirstSector + 2 .. TargetCount

InSector(n) == IF n = 1 THEN 1 .. FirstSector ELSE FirstSector + 1 .. TargetCount

WriteSector(c, data, n) ==
  [magic |-> c.magic \/ n = 1, board |-> IF n = 1 THEN data.board ELSE c.board,
   targets |-> [i \in Targets |-> IF i \in InSector(n) THEN data.targets[i] ELSE c.targets[i]]]

\* Both sectors are read before anything is shown.
loadFromDevice ==
  /\ Act
  /\ worker.op = "idle"
  /\ \/ worker' = [op |-> "load", step |-> 0, data |-> card] /\ UNCHANGED touched
     \/ Fails
  /\ UNCHANGED <<window, copies, laidOut>>

\* The board, then the targets, each shown by the main thread in its turn.
loadFromDeviceShows ==
  /\ worker.op = "load"
  /\ IF worker.step = 0
     THEN board' = boardConfigFromBytes(worker.data) /\ UNCHANGED panels
     ELSE /\ panels' = [panels EXCEPT ![worker.step] =
                          setTargetConfig(@, targetCfgFromBytes(worker.data.targets[worker.step]))]
          /\ UNCHANGED board
  /\ IF worker.step = TargetCount
     THEN worker' = idle /\ touched' = FALSE
     ELSE worker' = [worker EXCEPT !.step = @ + 1] /\ UNCHANGED touched
  /\ laidOut' = {}
  /\ UNCHANGED <<marks, valid, copies, budget>>

\* The board is read first, then each target, each by the main thread.
saveToDevice ==
  /\ Act
  /\ worker.op = "idle"
  /\ \/ /\ worker' = [op |-> "save", step |-> 1, data |-> toBytes(board, <<>>)]
        /\ UNCHANGED touched
     \/ Fails
  /\ UNCHANGED <<window, copies, laidOut>>

saveToDeviceReads ==
  /\ worker.op = "save"
  /\ worker' = [worker EXCEPT
       !.op = IF worker.step = TargetCount THEN "write" ELSE "save",
       !.step = IF worker.step = TargetCount THEN 1 ELSE @ + 1,
       !.data.targets = Append(@, getTargetConfig(panels[worker.step]))]
  /\ UNCHANGED <<window, copies, touched, laidOut, budget>>

\* A sector whose answer is lost may have been written.
saveToDeviceWrites ==
  /\ worker.op = "write"
  /\ \/ /\ card' = WriteSector(card, worker.data, worker.step)
        /\ IF worker.step = 1
           THEN worker' = [worker EXCEPT !.step = 2] /\ cardOf' = {} /\ UNCHANGED touched
           ELSE /\ worker' = idle
                /\ cardOf' = IF touched THEN {} ELSE {[board |-> board, targets |-> Read(panels)]}
                /\ touched' = FALSE
     \/ /\ card' \in {card, WriteSector(card, worker.data, worker.step)}
        /\ cardOf' = {}
        /\ Fails
  /\ UNCHANGED <<window, file, fileOf, laidOut, budget>>

----
(* The command line tool, while the application is not using the device. *)

\* -s: the two sectors are appended to a buffer of the size of a configuration,
\* so what is taken from its beginning are zero bytes.
saveFromDeviceToFilename ==
  /\ Act
  /\ worker.op = "idle"
  /\ LET board0 == boardConfigFromBytes([magic |-> FALSE, board |-> zeroBoardConfig])
         targets0 == [i \in Targets |-> targetCfgFromBytes(zeroTargetConfig)]
     IN IF \E i \in Targets : targetCfgToXMLRaises(targets0[i])
        THEN UNCHANGED <<file, fileOf>>
        ELSE file' = toXML(board0, targets0) /\ fileOf' = {}
  /\ UNCHANGED <<window, card, cardOf, worker, touched, laidOut>>

\* -l: a file that raises, or has too few targets, raises before anything is
\* written; a sector may fail.
saveToDeviceFromFilename ==
  /\ Act
  /\ worker.op = "idle"
  /\ ~FileRaises(file) /\ Targets \subseteq DOMAIN file.targets
  /\ \E pair \in fromXML(file) :
       LET data == toBytes(pair.board, pair.targets)
           half == WriteSector(card, data, 1)
           whole == WriteSector(half, data, 2)
       IN \/ card' = whole /\ cardOf' = fileOf
          \/ card' \in {card, half, whole} /\ cardOf' = {}
  /\ UNCHANGED <<window, file, fileOf, worker, touched, laidOut>>

----

Next ==
  \/ \E i \in Edited :  \/ EditTarget(i) \/ EditNumber(i) \/ AutoButton(i)
                        \/ \E unit \in Units : selectDeviceUnit(i, unit)
  \/ EditBoard \/ LoadDefaults
  \/ \E connected \in BOOLEAN : doTimer(connected)
  \/ saveFileEnd \/ openFileEnd
  \/ loadFromDevice \/ loadFromDeviceShows
  \/ saveToDevice \/ saveToDeviceReads \/ saveToDeviceWrites
  \/ saveFromDeviceToFilename \/ saveToDeviceFromFilename

Spec == Init /\ [][Next]_vars

----

\* Type invariant of the window, the card and the thread.
TypeOK ==
  /\ board \in BoardConfigs
  /\ panels \in [Targets -> Panels]
  /\ marks \in [duplicate : SUBSET Targets, overlap : SUBSET Targets]
  /\ valid \in BOOLEAN /\ touched \in BOOLEAN
  /\ card \in Cards /\ IsFile(file)
  /\ worker \in Workers
  /\ laidOut \subseteq Targets
  /\ budget \in 0 .. Budget

\* What comes back of a target: all but the members that a panel has no control
\* for; a track without sectors is shown with 63.
Same(t, u) ==
  \A m \in DOMAIN t \ {"modifier", "quirks"} :
    t[m] = u[m] \/ (m = "track" /\ u[m] = 0 /\ t[m] = 63)

Shows(copy) ==
  board' = copy.board /\ \A i \in Targets : Same(panels'[i].cfg, copy.targets[i])

\* What was saved is what is loaded: after a save that succeeded, or after the
\* command line tool wrote a saved file to the device, loading shows in every
\* panel what was shown when it was saved, unless the user changed the panels
\* while one of the two threads was reading or setting them
\* (AppDelegate.m:838-846, 922-958; SCSI2SDTask.m:374-398).
LoadRestores ==
  [][/\ loadFromDeviceShows
     /\ worker.step = TargetCount
     /\ ~touched
     => \A copy \in cardOf : Shows(copy)]_vars

\* Opening a saved file restores what a file can hold of the panels that were
\* saved, however they were changed since (AppDelegate.m:619-628, 685-696;
\* ConfigUtil.m:239-808).
OpenRestores ==
  [][openFileEnd => \A copy \in fileOf : Shows(copy)]_vars

\* Targets placed by the program do not share sectors of the card, also after
\* the unit of a size is selected once more, which takes the size for the
\* number of sectors and so may add one (AppDelegate.m:753-776, 1271-1297;
\* DeviceController.m:67-75, 350-410). But a target without a sector that is at 0
\* ends before it starts, which reads as all of the card.
PlacedApart ==
  \A i, j \in laidOut :
    /\ i # j /\ \A t \in {panels[i].cfg, panels[j].cfg} : t.start # 0 \/ t.sectors # 0
    => ~RangesIntersect(panels[i].cfg, panels[j].cfg)

\* No false alarm: after the periodic check a target is said to share its
\* identifier or its sectors only if it does so with another, or is the only
\* one enabled; and the menu items are disabled only for a reason. A floppy that was
\* chosen since the last check may be compared with the size it had
\* (AppDelegate.m:1299-1389).
AlarmsAreReal ==
  [][\A connected \in BOOLEAN : doTimer(connected) =>
       LET on == Enabled(panels')
           Meet(i, j) == j # i /\ RangesIntersect(panels'[i].cfg, panels'[j].cfg)
           Met(i, j) == j # i /\ RangesIntersect(panels'[i].cfg, panels[j].cfg)
       IN /\ \A i \in marks'.duplicate :
               i \in on /\ (on = {i} \/ \E j \in on \ {i} : panels'[i].cfg.id = panels'[j].cfg.id)
          /\ \A i \in marks'.overlap :
               i \in on /\ (on = {i} \/ \E j \in on : Meet(i, j) \/ Met(i, j))
          /\ connected /\ ~valid' =>
               \/ on = {}
               \/ \E i \in on : \/ ~PanelValid(panels'[i])
                                \/ \E j \in on : Meet(i, j)
                                \/ Above(Total(panels', on \ {i}), Capacity - 2)]_vars

\* Although each comparison overwrites the one before it, an overlap of the last
\* two enabled targets always shows and disables the menu items
\* (AppDelegate.m:1340-1359).
LastTwoAreCompared ==
  [][\A connected \in BOOLEAN : doTimer(connected) =>
       \A i, j \in Enabled(panels') :
         /\ i < j /\ \A k \in Enabled(panels') : k <= i \/ k = j
         /\ RangesIntersect(panels'[i].cfg, panels'[j].cfg)
         => j \in marks'.overlap /\ (connected => ~valid')]_vars

\* cli/main.m:84: "-s save_file.xml -- save file from scsi2sd device". Not so.
SavesFromDevice ==
  [][saveFromDeviceToFilename /\ card.magic
     /\ (\A i \in Targets : \A f \in TextFields : card.targets[i].text[f] # "short")
     => file' = toXML(card.board, [i \in Targets |-> targetCfgFromBytes(card.targets[i])])]_vars
====
