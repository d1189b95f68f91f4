----------------------------- MODULE DodgeDelay -----------------------------
(***************************************************************************)
(* DELAY of code/dodge-game.s: two inner loops, one after the other, in an *)
(* outer one.  All three leave on the equality of a counter with r3, so a  *)
(* counter that once passed r3 would run through the whole register.       *)
(***************************************************************************)
EXTENDS DodgeMachine

CONSTANT
  Scores       \* the scores DELAY is called with

(* BGT compares signed.                                                    *)
ASSUME DelayScoresAssumption == Scores \subseteq 0 .. (Word \div 2) - 1

VARIABLES
  pc,          \* label the processor is at
  r2, r7,      \* counters of the inner loops
  r9,          \* counter of the outer loop
  r3,          \* bound of all three
  r5           \* score

vars == <<pc, r2, r7, r9, r3, r5>>

(* r3 comes in as the character of the road, or as MODE1's 50. *)
Init ==
  /\ pc = "DELAY"
  /\ r5 \in Scores
  /\ r2 = 0 /\ r7 = Obstacle /\ r9 = 0
  /\ r3 = IF r5 = Mode1At THEN 50 ELSE Blank

(* Mutant: MOV r3,#500 is missing. *)
DELAY_NoDefault ==
  /\ pc = "DELAY"
  /\ r9' = 0
  /\ pc' = IF Signed(r5) > 200 THEN "FAST2" ELSE IF Signed(r5) > 100 THEN "FAST1" ELSE "DELAY1"
  /\ UNCHANGED <<r2, r3, r7, r5>>

DELAY ==
  /\ pc = "DELAY"
  /\ r9' = 0 /\ r3' = 500
  /\ pc' = IF Signed(r5) > 200 THEN "FAST2" ELSE IF Signed(r5) > 100 THEN "FAST1" ELSE "DELAY1"
  /\ UNCHANGED <<r2, r7, r5>>

FAST ==
  /\ \/ pc = "FAST1" /\ r3' = 100
     \/ pc = "FAST2" /\ r3' = 1
  /\ pc' = "DELAY1"
  /\ UNCHANGED <<r2, r7, r9, r5>>

(* Mutant: MOV r7,#0 is missing. *)
DELAY1_KeepsR7 ==
  /\ pc = "DELAY1"
  /\ r2' = 0
  /\ r9' = (r9 + 1) % Word
  /\ pc' = IF r9' = r3 THEN "DEEXIT" ELSE "DELAY3"
  /\ UNCHANGED <<r3, r5, r7>>

DELAY1 ==
  /\ pc = "DELAY1"
  /\ r2' = 0 /\ r7' = 0
  /\ r9' = (r9 + 1) % Word
  /\ pc' = IF r9' = r3 THEN "DEEXIT" ELSE "DELAY3"
  /\ UNCHANGED <<r3, r5>>

DELAY3 ==
  /\ pc = "DELAY3"
  /\ r2' = (r2 + 1) % Word
  /\ pc' = IF r2' = r3 THEN "DELAY2" ELSE "DELAY3"
  /\ UNCHANGED <<r7, r9, r3, r5>>

DELAY2 ==
  /\ pc = "DELAY2"
  /\ r7' = (r7 + 1) % Word
  /\ pc' = IF r7' = r3 THEN "DELAY1" ELSE "DELAY2"
  /\ UNCHANGED <<r2, r9, r3, r5>>

Next == DELAY \/ FAST \/ DELAY1 \/ DELAY3 \/ DELAY2

Spec == Init /\ [][Next]_vars

-----------------------------------------------------------------------------

(* No counter ever passes the bound its loop is waiting for. *)
NoOvershoot ==
  pc \in {"DELAY1", "DELAY3", "DELAY2"} =>
    /\ r9 < r3
    /\ pc = "DELAY3" => r2 < r3
    /\ pc = "DELAY2" => r7 < r3

(* What the step DELAY of DodgeGame leaves in r2 and r3.  r3 does not      *)
(* depend on what MODE1 put there.                                         *)
DelaysAsOneStep == pc = "DEEXIT" => r2 = 0 /\ r3 = DelayTime(r5)

=============================================================================
