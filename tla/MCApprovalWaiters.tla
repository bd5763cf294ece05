-------------------------- MODULE MCApprovalWaiters --------------------------
(* Values of the constants of ApprovalWaiters for TLC.                      *)
EXTENDS ApprovalProperties

CONSTANTS i1, i2, c1, c2, a1, a2

OneId == {i1}
TwoIds == {i1, i2}
OneCall == {c1}
TwoCalls == {c1, c2}
OneAnswer == {a1}
TwoAnswers == {a1, a2}
=============================================================================
