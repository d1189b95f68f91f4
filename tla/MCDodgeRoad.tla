---------------------------- MODULE MCDodgeRoad ----------------------------
(* DodgeRoad with the numbers of code/dodge-game.s, from every distance    *)
(* that fits the road, over areas an earlier call may have left.           *)
EXTENDS DodgeRoad

(* An obstacle at distance d of either road, the car on one of them. *)
Earlier ==
  {[[a \in Address |->
       IF a \in {SCR1 + d, SCR2 + d} THEN Obstacle ELSE BlankScreen[a]]
     EXCEPT ![c] = Car] : d \in {1, Reload1, ModeDist}, c \in {SCR1, SCR2}}
=============================================================================
