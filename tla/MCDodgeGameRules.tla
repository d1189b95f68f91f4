-------------------------- MODULE MCDodgeGameRules --------------------------
(* DodgeGameRules with the numbers of code/dodge-game.s.                   *)
EXTENDS DodgeGameRules
=============================================================================
