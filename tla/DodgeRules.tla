----------------------------- MODULE DodgeRules -----------------------------
(***************************************************************************)
(* What the text DISP prints promises the player, and nothing of how the   *)
(* program does it: a car in one of two lanes, an obstacle in each, frames *)
(* numbered by the score, and the three ways a game can end.               *)
(***************************************************************************)
EXTENDS Naturals

CONSTANTS
  Far,      \* no obstacle is ever further away than this
  WinAt,    \* the score of TEXT5
  PushedAt  \* scores at which the mode pushes the obstacle of lane 2 back

Lane == {1, 2}

VARIABLES
  score,    \* number of the frame on the console, 0 before the first
  car,      \* lane of the car in that frame
  gap,      \* distance of the obstacle of each lane in that frame
  status    \* playing, lost or won

rules == <<score, car, gap, status>>

(* TEXT4: B in front of @. *)
Hit == score > 0 /\ gap[car] = 1

Init ==
  /\ score = 0 /\ status = "playing"
  /\ car \in Lane /\ gap \in [Lane -> 1 .. Far]

(* An obstacle comes closer until it passes; then there is a new one.      *)
Moves(i) == gap'[i] = gap[i] - 1 \/ gap[i] = 1

(* The player chooses a lane before each frame; one lane must be free.     *)
Frame ==
  /\ status = "playing" /\ score < WinAt /\ ~Hit
  /\ score' = score + 1
  /\ car' \in Lane
  /\ gap' \in [Lane -> 1 .. Far]
  /\ \E i \in Lane : gap'[i] # 1
  /\ score > 0 => Moves(1) /\ (Moves(2) \/ score \in PushedAt)
  /\ UNCHANGED status

Lose ==
  /\ status = "playing" /\ Hit
  /\ status' = "lost" /\ UNCHANGED <<score, car, gap>>

(* TEXT0: Press Q to Exit Game. *)
Quit ==
  /\ status = "playing" /\ ~Hit /\ score < WinAt
  /\ status' = "lost" /\ UNCHANGED <<score, car, gap>>

(* TEXT5: Score Reach To 300 Then <<You Win>>, unless TEXT4 applies.       *)
Win ==
  /\ status = "playing" /\ score = WinAt /\ ~Hit
  /\ status' = "won" /\ UNCHANGED <<score, car, gap>>

Next == Frame \/ Lose \/ Quit \/ Win

(* The verdict follows by itself; the next frame waits for the player.     *)
Spec == Init /\ [][Next]_rules /\ WF_rules(Lose) /\ WF_rules(Win)
=============================================================================
