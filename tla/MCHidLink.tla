------------------------------ MODULE MCHidLink ------------------------------
(***************************************************************************)
(* Instance of HidLink with the code's own sizes: a ping (1 byte), the     *)
(* commands that open a connection or read a sector (5 bytes) and a sector *)
(* write (5 + 512 bytes, nine reports).                                    *)
(***************************************************************************)
EXTENDS HidLink

MCCommandLens == {1, 5, 517}

=============================================================================
