---------------------------- MODULE MCBeastDaemon ----------------------------
(* Values of the constants of BeastDaemon for TLC.                          *)
EXTENDS DaemonProperties

CONSTANTS d1, d2, q1, q2, r1, r2

TwoDaemons == {d1, d2}
TwoRequests == {q1, q2}
TwoRuns == {r1, r2}
=============================================================================
