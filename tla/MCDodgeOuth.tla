---------------------------- MODULE MCDodgeOuth ----------------------------
(* DodgeOuth for every score of a game, from 1 to WinAt. *)
EXTENDS DodgeOuth

GameScores == 1 .. WinAt
=============================================================================
