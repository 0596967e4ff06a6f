---- MODULE MCSettings ----
(* Three targets, one of them in the first sector, on a card too small for    *)
(* three default disks.                                                       *)
EXTENDS Settings

\* A card with whatever was there before, and one that was configured.
freshCard ==
  [magic |-> FALSE, board |-> zeroBoardConfig,
   targets |-> [i \in Targets |-> IF i = 3 THEN [zeroTargetConfig EXCEPT !.enabled = TRUE, !.start = -1]
                                  ELSE zeroTargetConfig]]

usedTarget(i) ==
  [defaultTargetConfig(i) EXCEPT
     !.enabled = TRUE, !.id = IF i = 3 THEN 2 ELSE 0, !.modifier = 76, !.quirks = {"apple"},
     !.start = IF i = 3 THEN 9000 ELSE 0, !.bytes = IF i = 2 THEN 2048 ELSE 512, !.track = 0]

usedCard ==
  [magic |-> TRUE,
   board |-> [flags |-> {"parity", "selLatch"}, flags6 |-> {}, startup |-> 3, selection |-> 1,
              speed |-> SpeedSync10],
   targets |-> [i \in Targets |-> usedTarget(i)]]

badFile == [kind |-> "bad", boards |-> <<>>, targets |-> <<>>]

\* Files written by hand: without a board, and with parity before the terminator.
handTarget(i) ==
  [targetCfgToXML(defaultTargetConfig(i)) EXCEPT !.enabled = TRUE, !.quirks = {<<"apple">>},
                                                 !.bytes = 9000]

shortFile == [kind |-> "xml", boards |-> <<>>, targets |-> <<handTarget(1)>>]

handFile ==
  [kind |-> "xml",
   boards |-> <<[flags |-> << <<"parity", TRUE>>, <<"enableTerminator", FALSE>> >>,
                 startup |-> 0, selection |-> 300, speed |-> 9]>>,
   targets |-> [i \in Targets |-> handTarget(i)]]

MCStarts == {[card |-> freshCard, file |-> badFile], [card |-> freshCard, file |-> handFile],
             [card |-> usedCard, file |-> shortFile]}
====
