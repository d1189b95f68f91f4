----------------------------- MODULE DodgeRoad -----------------------------
(***************************************************************************)
(* SPACE and LEFT of code/dodge-game.s, one step per pass of their loops.  *)
(* Both store through r1 and post-increment it, both leave their loop on   *)
(* an equality, and LEFT goes on where SPACE stopped.  Nothing checks r1:  *)
(* that the stores stay inside the road is a matter of counting right.     *)
(***************************************************************************)
EXTENDS DodgeMachine

CONSTANT
  Areas      \* what the area may hold when SPACE is called

ASSUME AreasAssumption == Areas \subseteq [Address -> Byte]

VARIABLES
  pc,        \* label of the loop the processor is in
  r1,        \* address of the next store
  r4,        \* counter of both loops
  r6,        \* distance
  area,      \* the bytes from SCR1 on
  base,      \* r1 on entry
  entry      \* r6 and the area on entry

vars == <<pc, r1, r4, r6, area, base, entry>>

(* The caller passes a road and a distance that fits it.                   *)
Init ==
  /\ pc = "SPACE"
  /\ base \in {SCR1, SCR2} /\ r1 = base /\ r4 = 0
  /\ r6 \in {d \in 0 .. Width : 2 * d + 2 <= Width}
  /\ area \in Areas
  /\ entry = [r6 |-> r6, area |-> area]

(* STRB rb,[r1],#1 *)
Store(b) ==
  /\ area' = [area EXCEPT ![r1] = b]
  /\ r1' = r1 + 1

SPACE ==
  /\ pc = "SPACE"
  /\ IF r6 = 0
     THEN r6' = Reload1 /\ UNCHANGED pc            \* RESPA, then SPACE again
     ELSE pc' = "SPACEL" /\ UNCHANGED r6
  /\ r4' = 0
  /\ UNCHANGED <<r1, area, base, entry>>

SPACEL ==
  /\ pc = "SPACEL"
  /\ Store(Blank)
  /\ r4' = r4 + 1
  /\ pc' = IF r4' = r6 THEN "B" ELSE "SPACEL"
  /\ UNCHANGED <<r6, base, entry>>

B ==
  /\ pc = "B" /\ pc' = "LEFT"
  /\ Store(Obstacle)
  /\ UNCHANGED <<r4, r6, base, entry>>

(* Mutant: LEFT counts one further. *)
LEFT_OneMore ==
  /\ pc = "LEFT" /\ pc' = "LEFTL"
  /\ r4' = r6 + 1
  /\ UNCHANGED <<r1, r6, area, base, entry>>

(* BEQ LEFTZ goes where it would fall through to. *)
LEFT ==
  /\ pc = "LEFT" /\ pc' = "LEFTL"
  /\ r4' = r6
  /\ UNCHANGED <<r1, r6, area, base, entry>>

(* Mutant: SUBS, so that BNE falls through as soon as r4 reaches zero. *)
LEFTL_Subs ==
  /\ pc = "LEFTL"
  /\ Store(Blank)
  /\ IF r4 = 0 THEN UNCHANGED r4 ELSE r4' = r4 - 1
  /\ pc' = IF r4' = 0 THEN "LEFTX" ELSE "LEFTL"
  /\ UNCHANGED <<r6, base, entry>>

(* SUB leaves the flags alone, so BNE LEFTL sees those of CMP r4,#0.       *)
LEFTL ==
  /\ pc = "LEFTL"
  /\ Store(Blank)
  /\ IF r4 = 0 THEN pc' = "LEFTX" /\ UNCHANGED r4
               ELSE r4' = r4 - 1 /\ UNCHANGED pc
  /\ UNCHANGED <<r6, base, entry>>

Next == SPACE \/ SPACEL \/ B \/ LEFT \/ LEFTL

Spec == Init /\ [][Next]_vars

-----------------------------------------------------------------------------

(* No store of the two subroutines touches the LF, CR or NUL of the road,  *)
(* the other road or anything behind, whatever distance fits the road.     *)
StoresInRoad ==
  pc \in {"SPACEL", "B", "LEFTL"} => r1 \in base .. base + Width - 1

(* On return the area is what DodgeGame's one step makes of it: the loops  *)
(* of SPACE and LEFT compute SPACE_LEFT, and r6 is reloaded at zero.       *)
DrawnAsOneStep ==
  pc = "LEFTX" =>
    /\ r6 = Spaced(entry.r6)
    /\ area = SPACE_LEFT(entry.area, Blank, base, Spaced(entry.r6))

=============================================================================
