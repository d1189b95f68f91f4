--------------------------- MODULE DodgeGameRules ---------------------------
(***************************************************************************)
(* The program implements the rules it prints.  A frame of the rules is    *)
(* what RESRC2 writes: OUTH has written the new score just before, so the  *)
(* score counts one behind until the roads follow.  START has no frame.    *)
(***************************************************************************)
EXTENDS DodgeGame

Shown == frame[1] # Nothing

NearestIn(row) == CHOOSE j \in DOMAIN row : row[j] = Obstacle

Rules == INSTANCE DodgeRules WITH
  Far      <- Width,
  PushedAt <- {Mode1At, Mode2At},
  score    <- IF pc = "RESRC2" THEN tally - 1 ELSE tally,
  car      <- IF Shown /\ frame[2][0] = Car THEN 2 ELSE 1,
  gap      <- [i \in Road |-> IF Shown THEN NearestIn(frame[i]) ELSE 2],
  status   <- CASE banner = GameOver -> "lost"
                [] banner = YouWin   -> "won"
                [] OTHER                -> "playing"

(* Every run of the program is a game by the rules: frames counted one by  *)
(* one, an obstacle never skips a column, one lane is always free, a car   *)
(* that is hit always loses, a player who is not hit only loses by asking, *)
(* and 300 frames without a hit always win.                                *)
ImplementsRules == Rules!Spec
=============================================================================
