---------------------------- MODULE MCDodgeDelay ----------------------------
(* DodgeDelay at the scores on either side of its two comparisons, and at  *)
(* the one MODE1 runs at.                                                  *)
EXTENDS DodgeDelay

EdgeScores == {Mode1At, 101, 200, 201}
=============================================================================
