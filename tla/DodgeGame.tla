----------------------------- MODULE DodgeGame -----------------------------
(***************************************************************************)
(* The dodge game of code/dodge-game.s.  The program is one loop that      *)
(* calls its subroutines in a fixed order; each action below is one call   *)
(* together with the instructions of the loop around it, and pc names the  *)
(* call that comes next.  The only input is the character SWI_ReadC hands  *)
(* to OP.                                                                  *)
(*                                                                         *)
(* Registers that carry a value from one call to the next are variables    *)
(* under their own names.  A register a subroutine overwrites before it    *)
(* reads it (r0, r1, r4, r7, r9, r10, r11) is local to an action.  The     *)
(* loops inside OUTH and DELAY are modules of their own (DodgeOuth,        *)
(* DodgeDelay).                                                            *)
(***************************************************************************)
EXTENDS DodgeMachine

(* A road drawn shorter than the one before still covers its obstacle.     *)
ASSUME SweepAssumption ==
  Dist2 <= 2 * ModeDist + 1 /\ Reload2 <= 2 * ModeDist + 1

(* The frames in which the obstacle of a road stands next to the car's     *)
(* column.  Those of road 1 repeat from Dist1 on; those of road 2 start    *)
(* again after MODE1 and MODE2.                                            *)
Origin(f) ==
  IF f <= Mode1At THEN Dist2
  ELSE IF f <= Mode2At THEN Mode1At + ModeDist ELSE Mode2At + ModeDist

Beside1(f) == \E k \in 0 .. f : f = Dist1 + k * Reload1
Beside2(f) == \E k \in 0 .. f : f = Origin(f) + k * Reload2

(* What the numbers of the program are chosen for: no frame in which both  *)
(* obstacles are there, none that MODE1 or MODE2 would take back, and none *)
(* at the end.                                                             *)
ASSUME PhaseAssumption ==
  /\ \A f \in 1 .. WinAt : ~(Beside1(f) /\ Beside2(f))
  /\ ~Beside2(Mode1At) /\ ~Beside2(Mode2At)
  /\ ~Beside1(WinAt) /\ ~Beside2(WinAt)

(* What SWI_ReadC may return, up to the three codes OP compares r0 with.   *)
Key == {"W", "S", "Q", "other"}

VARIABLES
  pc,        \* the call that comes next
  r2, r3,    \* the characters of car and road, or what OUTH and DELAY left
  r5,        \* score
  r6, r8,    \* distances of the obstacles
  r12,       \* where the loop keeps r6 while r6 holds road 2's distance
  r13,       \* stack pointer
  screen,    \* the bytes from SCR1 on
  smashed,   \* hardware vectors a push has overwritten
  frame,     \* the two roads as last written to the console
  tally,     \* the score as last written to the console
  banner,    \* the last text written: rules, GAME OVER or YOU WIN
  key        \* the last character read

regs    == <<r2, r3, r5, r6, r8, r12, r13>>
memory  == <<screen, smashed>>
console == <<frame, tally, banner, key>>
vars    == <<pc, regs, memory, console>>

Call == {"START", "LOOP", "ROAD1", "ROAD2", "OP", "OUTH", "RESRC2", "MODE",
         "DELAY", "NEXT", "RENON", "REWIN", "EXIT2", "halted"}

-----------------------------------------------------------------------------
(* RESET looks at r8 and then at r6.                                       *)
ResetR8(d) == IF d = 0 THEN Reload2 ELSE d
ResetR6(d) == IF d = 0 THEN Spare ELSE d

(* SWI_Write0 from the address base: every byte up to the first NUL.       *)
Write0(base) ==
  LET stop == CHOOSE a \in Address :
                /\ a >= base /\ screen[a] = NUL
                /\ \A b \in base .. a - 1 : screen[b] # NUL
  IN  [i \in 0 .. stop - base - 1 |-> screen[base + i]]

Nothing == [i \in {} |-> NUL]
-----------------------------------------------------------------------------

Init ==
  /\ pc = "START"
  /\ r2 = 0 /\ r3 = 0 /\ r5 = 0 /\ r6 = 0 /\ r8 = 0 /\ r12 = 0
  /\ r13 = StackBase
  /\ screen = BlankScreen
  /\ smashed = {}
  /\ frame = [i \in Road |-> Nothing]
  /\ tally = 0
  /\ banner = "none"
  /\ key = "none"

(* The texts, from the first character to the NUL. *)
HowToPlay == "rules"
GameOver  == "GAME OVER"
YouWin    == "YOU WIN"

(* Of the registers ZERO clears only r5 is read before it is loaded again. *)
ZERO == r5' = 0

(* ZERO, DISP and the loads before LOOP.                                   *)
START ==
  /\ pc = "START" /\ pc' = "LOOP"
  /\ ZERO /\ r2' = Car /\ r3' = Blank
  /\ r6' = Dist1 /\ r8' = Dist2
  /\ banner' = HowToPlay
  /\ UNCHANGED <<r12, r13, memory, frame, tally, key>>

(* Mutants: only one road is looked at, and r2 is not compared. *)
CRASH_OnlyRoad1 == r6 = 0 /\ screen[SCR1] = r2
CRASH_OnlyRoad2 == r8 = 0 /\ screen[SCR2] = r2
CRASH_NoCompare == r6 = 0 \/ r8 = 0

(* CRASH compares the character under the obstacle's column with r2.       *)
CRASH == \/ r6 = 0 /\ screen[SCR1] = r2
         \/ r8 = 0 /\ screen[SCR2] = r2

LOOP ==
  /\ pc = "LOOP"
  /\ r5' = (r5 + 1) % Word
  /\ pc' = IF CRASH THEN "RENON" ELSE "ROAD1"
  /\ UNCHANGED <<r2, r3, r6, r8, r12, r13, memory, console>>

ROAD1 ==
  /\ pc = "ROAD1" /\ pc' = "ROAD2"
  /\ screen' = SPACE_LEFT(screen, r3, SCR1, Spaced(r6))
  /\ r8' = ResetR8(r8)
  /\ r12' = Dec(ResetR6(Spaced(r6)))
  /\ r6' = r8'
  /\ UNCHANGED <<r2, r3, r5, r13, smashed, console>>

ROAD2 ==
  /\ pc = "ROAD2" /\ pc' = "OP"
  /\ screen' = SPACE_LEFT(screen, r3, SCR2, Spaced(r6))
  /\ r6' = ResetR6(Spaced(r6))
  /\ r8' = Dec(ResetR8(r8))
  /\ UNCHANGED <<r2, r3, r5, r12, r13, smashed, console>>

(* KEYS and KEYW store r3 on one road and r2 on the other.                 *)
PutCar(upper, lower) ==
  screen' = [screen EXCEPT ![SCR1] = upper % 256, ![SCR2] = lower % 256]

OP ==
  /\ pc = "OP"
  /\ key' \in Key
  /\ \/ key' = "W" /\ pc' = "OUTH" /\ PutCar(r2, r3)
     \/ key' = "Q" /\ pc' = "RENON" /\ UNCHANGED screen
     \/ key' \in {"S", "other"} /\ pc' = "OUTH" /\ PutCar(r3, r2)
  /\ UNCHANGED <<regs, smashed, frame, tally, banner>>

OUTH ==
  /\ pc = "OUTH" /\ pc' = "RESRC2"
  /\ smashed' = smashed \cup (Pushed(r13, r5) \cap Vector)
  /\ tally' = r5
  /\ r2' = 0
  /\ UNCHANGED <<r3, r5, r6, r8, r12, r13, screen, frame, banner, key>>

RESRC2 ==
  /\ pc = "RESRC2" /\ pc' = "MODE"
  /\ frame' = [i \in Road |-> Write0(IF i = 1 THEN SCR1 ELSE SCR2)]
  /\ UNCHANGED <<regs, memory, tally, banner, key>>

(* Mutant: MOV r8,#39 is missing. *)
MODE1_NoReload ==
  /\ r5 = Mode1At /\ pc' = "DELAY"
  /\ r3' = 50
  /\ UNCHANGED <<r8, r13>>

MODE1 ==
  /\ r5 = Mode1At /\ pc' = "DELAY"
  /\ r8' = ModeDist /\ r3' = 50
  /\ UNCHANGED r13

MODE2 ==
  /\ r5 = Mode2At /\ pc' = "DELAY"
  /\ r8' = ModeDist /\ r13' = 10
  /\ UNCHANGED r3

MODE ==
  /\ pc = "MODE"
  /\ \/ r5 = WinAt /\ pc' = "REWIN" /\ UNCHANGED <<r3, r8, r13>>
     \/ MODE1
     \/ MODE2
     \/ r5 \notin {Mode1At, Mode2At, WinAt} /\ pc' = "DELAY" /\ UNCHANGED <<r3, r8, r13>>
  /\ UNCHANGED <<r2, r5, r6, r12, memory, console>>

DELAY ==
  /\ pc = "DELAY" /\ pc' = "NEXT"
  /\ r3' = DelayTime(r5)
  /\ r2' = 0
  /\ UNCHANGED <<r5, r6, r8, r12, r13, memory, console>>

(* Mutants: MOV r3,#" " and MOV r6,r12 are missing. *)
NEXT_KeepsR3 ==
  /\ pc = "NEXT"
  /\ pc' = IF r5 < WinAt THEN "LOOP" ELSE "EXIT2"
  /\ r6' = r12 /\ r2' = Car
  /\ UNCHANGED <<r3, r5, r8, r12, r13, memory, console>>

NEXT_KeepsR6 ==
  /\ pc = "NEXT"
  /\ pc' = IF r5 < WinAt THEN "LOOP" ELSE "EXIT2"
  /\ r2' = Car /\ r3' = Blank
  /\ UNCHANGED <<r5, r6, r8, r12, r13, memory, console>>

(* The end of the loop: the MOVs restore what the calls have overwritten.  *)
NEXT ==
  /\ pc = "NEXT"
  /\ pc' = IF r5 < WinAt THEN "LOOP" ELSE "EXIT2"
  /\ r6' = r12 /\ r2' = Car /\ r3' = Blank
  /\ UNCHANGED <<r5, r8, r12, r13, memory, console>>

(* Mutant: B START for B EXIT2. *)
RENON_Restarts ==
  /\ pc = "RENON" /\ pc' = "START"
  /\ banner' = GameOver
  /\ UNCHANGED <<regs, memory, frame, tally, key>>

RENON ==
  /\ pc = "RENON" /\ pc' = "EXIT2"
  /\ banner' = GameOver
  /\ UNCHANGED <<regs, memory, frame, tally, key>>

REWIN ==
  /\ pc = "REWIN" /\ pc' = "EXIT2"
  /\ banner' = YouWin
  /\ UNCHANGED <<regs, memory, frame, tally, key>>

(* SWI_Exit: the debug monitor halts the emulation.                        *)
EXIT2 ==
  /\ pc = "EXIT2" /\ pc' = "halted"
  /\ UNCHANGED <<regs, memory, console>>

Processor ==
  \/ START \/ LOOP \/ ROAD1 \/ ROAD2 \/ OUTH \/ RESRC2 \/ MODE \/ DELAY
  \/ NEXT \/ RENON \/ REWIN \/ EXIT2

Next == Processor \/ OP

(* The processor runs on by itself; OP waits for somebody to press a key.  *)
Spec == Init /\ [][Next]_vars /\ WF_vars(Processor)

-----------------------------------------------------------------------------
(* Properties.                                                             *)

(* Every register holds a word, every cell of the area a byte, and a frame *)
(* is what Write0 prints of a road whose terminators are in place.         *)
TypeOK ==
  /\ pc \in Call
  /\ {r2, r3, r5, r6, r8, r12, r13} \subseteq Register
  /\ screen \in [Address -> Byte]
  /\ smashed \subseteq Vector
  /\ \A i \in Road : frame[i] = Nothing \/ frame[i] \in [0 .. Width + 1 -> Byte]
  /\ tally \in Register
  /\ banner \in {"none", HowToPlay, GameOver, YouWin}
  /\ key \in Key \cup {"none"}

(* The stores of SPACE and LEFT stay inside their road: LF, CR and NUL of  *)
(* both roads survive, and so does the string behind them.  At distance    *)
(* ModeDist LEFT's last store hits the last character of the road.         *)
RowsIntact ==
  \A a \in Address :
    a \notin (SCR1 .. SCR1 + Width - 1) \cup (SCR2 .. SCR2 + Width - 1)
    => screen[a] = BlankScreen[a]

(* A printed road: something in column 0, one obstacle further right, and  *)
(* nothing else up to the LF and CR.                                       *)
LegibleRoad(row) ==
  /\ DOMAIN row = 0 .. Width + 1
  /\ row[0] \in {Blank, Car} /\ row[Width] = LF /\ row[Width + 1] = CR
  /\ \E j \in 1 .. Width - 1 :
       /\ row[j] = Obstacle
       /\ \A k \in 1 .. Width - 1 : k # j => row[k] = Blank

(* A frame on the console shows one car, on the road the last key chose,   *)
(* and one obstacle on each road, although every road is redrawn over the  *)
(* one before, r2 and r3 are counters elsewhere, and SPACE wipes the car.  *)
FrameLegible ==
  \/ \A i \in Road : frame[i] = Nothing
  \/ /\ \A i \in Road : LegibleRoad(frame[i])
     /\ frame[1][0] # frame[2][0]
     /\ pc = "MODE" => (frame[1][0] = Car <=> key = "W")

(* "B in front of @" on the console.                                       *)
InFront(row) == row # Nothing /\ row[0] = Car /\ row[1] = Obstacle

(* CRASH decides from r6, r8 and the first byte of each road; the player   *)
(* sees the frame.  The game is over exactly when the frame shows the      *)
(* obstacle in front of the car, whatever MODE did to r8 in between.       *)
CrashIffInFront ==
  [][pc = "LOOP" => (pc' = "RENON" <=> \E i \in Road : InFront(frame[i]))]_vars

(* No frame puts both obstacles next to the car's column, so there is a    *)
(* key to survive with at every turn.  It depends on the two periods, 17   *)
(* and 19, and on MODE1 and MODE2 shifting road 2 before they coincide.    *)
RoadOpen ==
  ~ \A i \in Road : frame[i] # Nothing /\ frame[i][1] = Obstacle

(* The verdict on the console agrees with the frame above it: nobody loses *)
(* without having asked to or being hit, and nobody wins while hit, though *)
(* MODE3 looks at the score before CRASH has looked at the last frame.     *)
VerdictFair ==
  LET hit == \E i \in Road : InFront(frame[i])
  IN  /\ banner = GameOver => key = "Q" \/ hit
      /\ banner = YouWin => tally = WinAt /\ ~hit

ObstacleIn(row, j) == j \in DOMAIN row /\ row[j] = Obstacle

(* From one frame to the next an obstacle comes one column closer; it      *)
(* jumps only after it stood next to the car's column, or, on road 2, when *)
(* MODE1 or MODE2 pushed it back.                                          *)
ObstaclesApproach ==
  [][\A i \in Road : \A j \in 2 .. Width - 1 :
       /\ frame' # frame /\ ObstacleIn(frame[i], j)
       /\ ~(i = 2 /\ tally \in {Mode1At + 1, Mode2At + 1})
       => ObstacleIn(frame'[i], j - 1)]_vars

(* The words OUTH stores its characters in are stack.  MODE2 leaves r13 at *)
(* 10, and from the next frame on they are hardware vectors.               *)
VectorsIntact == smashed = {}

(* If every request for a key is answered the game comes to an end.        *)
GameEnds == (pc = "OP" ~> pc # "OP") => <>(pc = "halted")
=============================================================================
