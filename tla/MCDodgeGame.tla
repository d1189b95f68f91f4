---------------------------- MODULE MCDodgeGame ----------------------------
(* DodgeGame with the numbers of code/dodge-game.s.  Word is cut from 2^32 *)
(* to 2^16, which still wraps a decrement of zero far outside the roads.   *)
EXTENDS DodgeGame
=============================================================================
