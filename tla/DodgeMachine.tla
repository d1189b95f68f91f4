---------------------------- MODULE DodgeMachine ----------------------------
(***************************************************************************)
(* What the modules about code/dodge-game.s share: the numbers in its      *)
(* instructions as CONSTANTS, the layout of its area, and what its         *)
(* subroutines compute.  DodgeGame calls each subroutine in one step;      *)
(* DodgeRoad, DodgeOuth and DodgeDelay run their loops and reach the same  *)
(* results.                                                                *)
(***************************************************************************)
EXTENDS Integers, Sequences

CONSTANTS
  Width,       \* characters of a road before its LF, CR and NUL
  Dist1,       \* first distance of the obstacle on road 1
  Dist2,       \* first distance of the obstacle on road 2
  Reload1,     \* distance SPACE reloads into r6
  Reload2,     \* distance RESET reloads into r8
  Spare,       \* distance RESET would reload into r6
  ModeDist,    \* distance MODE1 and MODE2 load into r8
  Mode1At,     \* score at which MODE1 runs
  Mode2At,     \* score at which MODE2 runs
  WinAt,       \* score that wins
  StackBase,   \* r13 on entry, set up by the debug monitor
  Word         \* number of values of a register: 2^32 in the machine

Distances == {Dist1, Dist2, Reload1, Reload2, Spare, ModeDist}

ASSUME GeometryAssumption ==
  /\ Width \in Nat
  /\ Distances \subseteq Nat \ {0}
  /\ \A d \in Distances : 2 * d + 2 <= Width

ASSUME ScoreAssumption ==
  /\ {Mode1At, Mode2At, WinAt} \subseteq Nat \ {0}
  /\ Mode1At < Mode2At /\ Mode2At < WinAt

ASSUME WordAssumption ==
  /\ Word \in Nat /\ StackBase \in Nat
  /\ Word > Width /\ Word > WinAt /\ Word > StackBase /\ Word > 1024

-----------------------------------------------------------------------------
(* Characters, as the bytes STRB stores.                                   *)

NUL      == 0
LF       == 10
CR       == 13
Blank    == 32
Car      == 64
Obstacle == 66
Byte     == 0 .. 255
Register == 0 .. Word - 1

Road == {1, 2}

(* The strings SCR1, SCR2 and SCR3 follow each other in the area; nothing  *)
(* addresses SCR3, it is here to show where an overrun would land.         *)
Stride  == Width + 3
SCR1    == 0
SCR2    == Stride
SCR3    == 2 * Stride
Address == 0 .. 3 * Stride - 1

BlankScreen ==
  [a \in Address |->
     CASE a + 3 \in {SCR2, SCR3, 3 * Stride} -> LF
       [] a + 2 \in {SCR2, SCR3, 3 * Stride} -> CR
       [] a + 1 \in {SCR2, SCR3, 3 * Stride} -> NUL
       [] OTHER                              -> Blank]

(* The hardware vectors the debug monitor writes before the program runs.  *)
Vector == {0, 4, 8, 12, 16, 20, 24, 28}
-----------------------------------------------------------------------------

(* The decimal digits OUTH pushes, most significant first.                 *)
Decimal[n \in Nat] ==
  IF n < 10 THEN <<n>> ELSE Append(Decimal[n \div 10], n % 10)

(* What BLT, BGT and ADDGE compare.                                        *)
Signed(x) == IF x < Word \div 2 THEN x ELSE x - Word

(* SUB rd,rd,#1 *)
Dec(r) == (r - 1) % Word

(* The word an STM or LDM through sp reaches: address bits 0 and 1 are     *)
(* ignored, and the written-back base keeps them.                          *)
WordAt(sp) == sp - (sp % 4)

(* Mutant: LEFT stores fill d+2 times. *)
SPACE_LEFT_OneMore(area, fill, base, d) ==
  [a \in Address |->
     IF a = base + d THEN Obstacle
     ELSE IF a >= base /\ a <= base + 2 * d + 2 THEN fill % 256
     ELSE area[a]]

(* Mutant: LEFTZ loads twice the distance. *)
SPACE_LEFT_Twice(area, fill, base, d) ==
  [a \in Address |->
     IF a = base + d THEN Obstacle
     ELSE IF a >= base /\ a <= base + 3 * d + 1 THEN fill % 256
     ELSE area[a]]

(* SPACE from the address base with distance d, then LEFT from where SPACE *)
(* left r1.  SPACE stores d times fill and the obstacle; LEFT stores fill  *)
(* d+1 times (its BNE tests the flags of the CMP above the SUB, so the     *)
(* loop leaves through LEFTX only).                                        *)
SPACE_LEFT(area, fill, base, d) ==
  [a \in Address |->
     IF a = base + d THEN Obstacle
     ELSE IF a >= base /\ a <= base + 2 * d + 1 THEN fill % 256
     ELSE area[a]]

(* SPACE reloads a distance of zero before it stores anything.             *)
Spaced(d) == IF d = 0 THEN Reload1 ELSE d

(* The words OUTH pushes to print n, one for each digit.                   *)
Pushed(sp, n) == {WordAt((sp - 4 * i) % Word) : i \in 1 .. Len(Decimal[n])}

(* The bound the loops of DELAY count to, which it keeps in r3.            *)
DelayTime(score) ==
  IF score > 200 THEN 1 ELSE IF score > 100 THEN 100 ELSE 500
=============================================================================
