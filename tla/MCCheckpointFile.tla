--------------------------- MODULE MCCheckpointFile ---------------------------
(* Values of the constants of CheckpointFile for TLC.                        *)
EXTENDS CheckpointProperties, TLC

CONSTANTS p1, p2, p3, k1, k2, t1

ThreeProcs == {p1, p2, p3}
TwoKeys == {k1, k2}
OneOutput == {t1}
NoOutput == {}

Processes == Permutations(ThreeProcs) \cup Permutations(TwoKeys)
=============================================================================
