--------------------------- MODULE MCDeviceSession ---------------------------
(* Instances of DeviceSession for TLC. *)
EXTENDS DeviceSession, TLC

CONSTANTS w1, w2, w3

TwoWorkers == {w1, w2}
ThreeWorkers == {w1, w2, w3}

\* The workers are interchangeable; not used with liveness properties.
WorkerSymmetry == Permutations(Workers)

=============================================================================
