---------------------------- MODULE MCHidTransfer ----------------------------
(***************************************************************************)
(* Small instances of HidTransfer. The sizes are to each other as those of *)
(* the code: a sector takes three reports instead of nine, its command is  *)
(* one buffer long, and a part of its reply leaves room for another's.     *)
(***************************************************************************)
EXTENDS HidTransfer

LateKinds == {"ping", "devinfo", "read"}

MCKinds == {"devinfo", "read", "write"}

\* rx as an abandoned reply of an earlier connection leaves it: some of its
\* reports, all of them full.
Abandoned(size, reports) ==
  [state |-> "PARTIAL", chunk |-> reports - 1,
   data |-> [i \in 1 .. reports * size |-> Byte("old", 0, i)]]

MCLeftovers == { ResetState, Abandoned(PayloadLen, 1), Abandoned(PayloadLen, 2) }

Clean == { ResetState }

\* The sizes and tries of the code: a sector in nine reports.
Code == INSTANCE HidTransfer WITH
  PayloadLen <- 62, MaxLen <- 520, SectorLen <- 512, QueueCap <- 32, Kinds <- AllKinds,
  MaxAttempts <- 10, Leftovers <- { ResetState } \cup { Abandoned(62, n) : n \in 1..8 }

\* What the theorems suppose of the constants holds for the code, and here, but for
\* the short queue of one run, which is there to lose reports.
ASSUME ProofAssumption ==
  /\ Code!Fits /\ Code!OneOrMany
  /\ OneOrMany
  /\ QueueCap >= Reports(SectorLen) => Fits

=============================================================================
