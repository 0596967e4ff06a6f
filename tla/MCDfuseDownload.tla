--------------------------- MODULE MCDfuseDownload ---------------------------
(* Two small pages, a large one, one that can only be read, one that is     *)
(* written without being erased, and groups that are not parsed.  Files     *)
(* that share a page between elements, end inside a page or exactly at its  *)
(* end, skip an image for another setting, come out of order, are cut       *)
(* short, have no suffix, or reach into memory that cannot be written.      *)
EXTENDS DfuseDownload

group(sectors, size, type) == [sectors |-> sectors, size |-> size, memtype |-> type]

descriptor ==
  << [address |-> 0, groups |-> << group(2, 2, {"r", "e", "w"}), group(1, 4, {"r", "e", "w"}),
                                   group(1, 2, {"r"}) >>],
     [address |-> 10, groups |-> << group(1, 2, {"r", "w"}), group(1, 2, {}),
                                    group(1, 2, {"r", "w"}) >>],
     [address |-> 16, groups |-> << group(1, 2, {"r", "w"}) >>] >>

el(alt, at, size) == [alt |-> alt, address |-> at, size |-> size, whole |-> TRUE]
dfu(elements) == [dfuse |-> TRUE, elements |-> elements]

files ==
  << dfu(<< el(0, 1, 2), el(0, 3, 2) >>),
     dfu(<< el(1, 4, 2), el(0, 0, 4), el(0, 11, 1) >>),
     dfu(<< el(0, 5, 1), el(0, 3, 1), el(0, 6, 1) >>),
     dfu(<< el(0, 2, 1), [el(0, 4, 4) EXCEPT !.whole = FALSE] >>),
     dfu(<< el(0, 2, 2), el(0, 7, 4) >>),
     dfu(<< el(0, 9, 2) >>),
     dfu(<< el(0, 6, 1), el(0, 11, 2) >>),
     [dfuse |-> FALSE, elements |-> << el(0, 0, 2) >>] >>

\* What DfuseDownloadProofs and FlashImageProofs ask of the layout and the files.
ASSUME ProofAssumption == Apart /\ Solid /\ \A n \in DOMAIN Files : Disjoint(n)
=============================================================================
