-------------------------- MODULE DodgeGame_proofs --------------------------
(***************************************************************************)
(* Proofs about DodgeGame, for every value of its constants.               *)
(***************************************************************************)
EXTENDS DodgeGameRules, TLAPS

-----------------------------------------------------------------------------
(* The inductive invariant behind type correctness.  RowsIntact is not     *)
(* inductive without the bounds on the distances, and a frame has a type   *)
(* only because the NUL of its road is in place and no other NUL before it. *)

Fits(d) == d \in Nat /\ 2 * d + 2 <= Width

Glyph == {Blank, Car, Obstacle}

Cells(base) == base .. base + Width - 1

Registers ==
  /\ pc \in Call
  /\ r2 \in Register /\ r3 \in Register /\ r13 \in Register
  /\ pc \in {"LOOP", "ROAD1", "ROAD2", "OP"} => r2 = Car
  /\ pc \in {"LOOP", "ROAD1", "ROAD2", "OP"} => r3 = Blank
  /\ r5 \in 0 .. WinAt
  /\ pc = "LOOP" => r5 < WinAt
  /\ Fits(r6) /\ Fits(r8) /\ Fits(r12)

Drawn ==
  /\ screen \in [Address -> Byte]
  /\ RowsIntact
  /\ \A a \in Cells(SCR1) \cup Cells(SCR2) : screen[a] \in Glyph

Console ==
  /\ smashed \subseteq Vector
  /\ \A i \in Road : frame[i] = Nothing \/ frame[i] \in [0 .. Width + 1 -> Byte]
  /\ tally \in 0 .. WinAt
  /\ banner \in {"none", HowToPlay, GameOver, YouWin}
  /\ key \in Key \cup {"none"}

TInv == Registers /\ Drawn /\ Console

-----------------------------------------------------------------------------

(* A register below Word is decremented without a borrow. *)
LEMMA DecExact ==
  ASSUME NEW d \in Nat, d > 0, d < Word
  PROVE  Dec(d) = d - 1
BY WordAssumption DEF Dec

(* Every distance the program loads fits its road. *)
LEMMA DistancesFit ==
  /\ \A d \in {Dist1, Dist2, Reload1, Reload2, Spare, ModeDist} : Fits(d) /\ d > 0
  /\ Width \in Nat /\ Width >= 4
  /\ Word \in Nat /\ \A d : Fits(d) => d < Word /\ d \in Register
<1>1. \A d \in {Dist1, Dist2, Reload1, Reload2, Spare, ModeDist} : Fits(d) /\ d > 0
  BY GeometryAssumption DEF Distances, Fits
<1>2. Width \in Nat /\ Width >= 4
  BY <1>1, GeometryAssumption DEF Fits
<1>3. Word \in Nat /\ \A d : Fits(d) => d < Word /\ d \in Register
  BY WordAssumption, <1>2 DEF Fits, Register
<1> QED BY <1>1, <1>2, <1>3

(* SPACE and LEFT at a distance that fits write only inside their road. *)
LEMMA StoresStay ==
  ASSUME Drawn, r3 = Blank, NEW base \in {SCR1, SCR2}, NEW d, Fits(d),
         screen' = SPACE_LEFT(screen, r3, base, d)
  PROVE  Drawn'
<1> USE DistancesFit DEF Fits, SCR1, SCR2, SCR3, Stride
<1>1. Width \in Nat /\ Width >= 4 /\ d \in Nat /\ base \in Nat
  OBVIOUS
<1>2. \A a \in Nat : base <= a /\ a <= base + 2 * d + 1 => a \in Cells(base)
  BY <1>1 DEF Cells
<1>3. \A a \in Address : a \notin Cells(base) => screen'[a] = screen[a]
  <2> SUFFICES ASSUME NEW a \in Address, a \notin Cells(base)
               PROVE  screen'[a] = screen[a]
    OBVIOUS
  <2>1. a \in Nat /\ ~(base <= a /\ a <= base + 2 * d + 1)
    BY <1>2 DEF Address
  <2>2. a # base + d
    BY <1>1, <2>1
  <2> QED BY <2>1, <2>2 DEF SPACE_LEFT
<1>4. \A a \in Address : screen'[a] \in {Blank, Obstacle, screen[a]}
  BY <1>1 DEF SPACE_LEFT, Address, Blank, Obstacle
<1>5. screen' \in [Address -> Byte]
  BY <1>4 DEF SPACE_LEFT, Drawn, Byte, Blank, Obstacle
<1>6. RowsIntact'
  BY <1>1, <1>3 DEF Drawn, RowsIntact, Cells, Address
<1>7. \A a \in Cells(SCR1) \cup Cells(SCR2) : screen'[a] \in Glyph
  <2>1. Cells(SCR1) \cup Cells(SCR2) \subseteq Address
    BY <1>1 DEF Cells, Address
  <2> QED BY <2>1, <1>4 DEF Drawn, Glyph
<1> QED BY <1>5, <1>6, <1>7 DEF Drawn

(* So does storing the car and the character of the road. *)
LEMMA CarStays ==
  ASSUME Drawn, NEW u \in {Blank, Car}, NEW l \in {Blank, Car}, PutCar(u, l)
  PROVE  Drawn'
<1> USE DistancesFit DEF SCR1, SCR2, SCR3, Stride
<1>1. u % 256 = u /\ l % 256 = l
  BY DEF Blank, Car
<1>2. screen' = [screen EXCEPT ![SCR1] = u, ![SCR2] = l]
  BY <1>1 DEF PutCar
<1>3. \A a \in Address : screen'[a] \in {Blank, Car, screen[a]}
  BY <1>2 DEF Drawn
<1>4. \A a \in Address : a # SCR1 /\ a # SCR2 => screen'[a] = screen[a]
  BY <1>2 DEF Drawn
<1>5. screen' \in [Address -> Byte]
  <2>1. Blank \in Byte /\ Car \in Byte
    BY DEF Byte, Blank, Car
  <2>2. \A a \in Address : screen'[a] \in Byte
    BY <2>1, <1>3 DEF Drawn
  <2> QED BY <2>2, <1>2 DEF Drawn
<1>6. RowsIntact'
  BY <1>4 DEF Drawn, RowsIntact, Address
<1>7. \A a \in Cells(SCR1) \cup Cells(SCR2) : screen'[a] \in Glyph
  BY <1>3 DEF Drawn, Glyph, Cells, Address
<1> QED BY <1>5, <1>6, <1>7 DEF Drawn

(* SWI_Write0 prints a road up to its LF and CR and nothing behind them. *)
LEMMA Write0Road ==
  ASSUME Drawn, NEW base \in {SCR1, SCR2}
  PROVE  Write0(base) = [i \in 0 .. Width + 1 |-> screen[base + i]]
<1> USE DistancesFit DEF SCR1, SCR2, SCR3, Stride
<1> DEFINE end == base + Width + 2
           P(a) == /\ a >= base /\ screen[a] = NUL
                   /\ \A b \in base .. a - 1 : screen[b] # NUL
<1>1. base \in Nat /\ end \in Address /\ base + Width \in Address /\ base + Width + 1 \in Address
  BY DEF Address
<1>2. /\ screen[base + Width] = LF /\ screen[base + Width + 1] = CR
      /\ screen[end] = NUL
  <2>1. /\ BlankScreen[base + Width] = LF /\ BlankScreen[base + Width + 1] = CR
        /\ BlankScreen[end] = NUL
    BY <1>1 DEF BlankScreen
  <2>2. \A a \in {base + Width, base + Width + 1, end} : screen[a] = BlankScreen[a]
    BY <1>1 DEF Drawn, RowsIntact
  <2> QED BY <2>1, <2>2
<1>3. \A b \in base .. base + Width - 1 : screen[b] # NUL
  BY DEF Drawn, Cells, Glyph, Blank, Car, Obstacle, NUL
<1>4. \A b \in base .. end - 1 : screen[b] # NUL
  <2> TAKE b \in base .. end - 1
  <2>1. b \in base .. base + Width - 1 \/ b = base + Width \/ b = base + Width + 1
    BY <1>1
  <2> QED BY <2>1, <1>2, <1>3 DEF LF, CR, NUL
<1>5. P(end)
  BY <1>1, <1>2, <1>4
<1>6. \A a \in Address : P(a) => a = end
  BY <1>1, <1>2, <1>4 DEF Address
<1>7. (CHOOSE a \in Address : P(a)) = end
  BY <1>1, <1>5, <1>6
<1>8. Write0(base) = [i \in 0 .. end - base - 1 |-> screen[base + i]]
  BY <1>7 DEF Write0
<1>9. end - base - 1 = Width + 1
  BY <1>1
<1> QED BY <1>8, <1>9

-----------------------------------------------------------------------------

LEMMA TInvInit == Init => TInv
<1> SUFFICES ASSUME Init PROVE TInv
  OBVIOUS
<1> USE DistancesFit DEF Init
<1>1. Registers
  <2>1. StackBase \in Register /\ 0 \in Register
    BY WordAssumption DEF Register
  <2>2. WinAt \in Nat
    BY ScoreAssumption
  <2> QED BY <2>1, <2>2 DEF Registers, Call, Fits
<1>2. Drawn
  <2>1. screen \in [Address -> Byte]
    BY DEF BlankScreen, Byte, LF, CR, NUL, Blank
  <2>2. RowsIntact
    BY DEF RowsIntact
  <2>3. ASSUME NEW a \in Cells(SCR1) \cup Cells(SCR2)
        PROVE  screen[a] = Blank
    <3> USE DEF Cells, SCR1, SCR2, SCR3, Stride
    <3>1. a \in Address
      BY DEF Address
    <3>2. /\ a + 3 \notin {SCR2, SCR3, 3 * Stride}
          /\ a + 2 \notin {SCR2, SCR3, 3 * Stride}
          /\ a + 1 \notin {SCR2, SCR3, 3 * Stride}
      OBVIOUS
    <3> QED BY <3>1, <3>2 DEF BlankScreen
  <2> QED BY <2>1, <2>2, <2>3 DEF Drawn, Glyph
<1>3. Console
  BY ScoreAssumption DEF Console
<1> QED BY <1>1, <1>2, <1>3 DEF TInv

(* ROAD1 and ROAD2 leave distances that fit, and decrement none below 0.   *)
LEMMA SpacedFits ==
  ASSUME NEW d, Fits(d)
  PROVE  /\ Fits(Spaced(d)) /\ Spaced(d) > 0 /\ Fits(Dec(Spaced(d)))
         /\ Fits(ResetR8(d)) /\ ResetR8(d) > 0 /\ Fits(Dec(ResetR8(d)))
         /\ ResetR6(Spaced(d)) = Spaced(d)
<1>1. Fits(Spaced(d)) /\ Spaced(d) > 0
  BY DistancesFit DEF Spaced, Fits
<1>2. Fits(ResetR8(d)) /\ ResetR8(d) > 0
  BY DistancesFit DEF ResetR8, Fits
<1>3. \A e : Fits(e) /\ e > 0 => Fits(Dec(e))
  <2> SUFFICES ASSUME NEW e, Fits(e), e > 0 PROVE Fits(Dec(e))
    OBVIOUS
  <2>1. Dec(e) = e - 1
    BY DistancesFit, DecExact DEF Fits
  <2> QED BY <2>1, DistancesFit DEF Fits
<1>4. ResetR6(Spaced(d)) = Spaced(d)
  BY <1>1 DEF ResetR6
<1> QED BY <1>1, <1>2, <1>3, <1>4

LEMMA TInvNext == TInv /\ [Next]_vars => TInv'
<1> SUFFICES ASSUME TInv, [Next]_vars PROVE TInv'
  OBVIOUS
<1> USE DEF TInv, Call
<1>c. Blank \in Register /\ Car \in Register /\ 0 \in Register /\ 50 \in Register
      /\ 10 \in Register
  BY WordAssumption DEF Register, Blank, Car
<1>w. WinAt \in Nat /\ WinAt < Word /\ Word \in Nat /\ WinAt > 0
  BY ScoreAssumption, WordAssumption
<1>same. UNCHANGED <<screen, console>> /\ smashed' \subseteq Vector => Drawn' /\ Console'
  BY DEF Drawn, Console, RowsIntact, console
<1>1. CASE START
  <2>1. Registers'
    BY <1>1, <1>c, <1>w, DistancesFit DEF START, ZERO, Registers
  <2>2. Drawn' /\ Console'
    BY <1>1 DEF START, Drawn, Console, RowsIntact, memory
  <2> QED BY <2>1, <2>2
<1>2. CASE LOOP
  <2>1. r5 + 1 \in 0 .. WinAt /\ (r5 + 1) % Word = r5 + 1
    BY <1>2, <1>w DEF LOOP, Registers
  <2>2. Registers'
    BY <1>2, <2>1 DEF LOOP, Registers
  <2> QED BY <1>2, <1>same, <2>2 DEF LOOP, memory, Console
<1>3. CASE ROAD1
  <2>1. Registers'
    BY <1>3, SpacedFits DEF ROAD1, Registers
  <2>2. Drawn'
    BY <1>3, StoresStay, SpacedFits DEF ROAD1, Registers
  <2>3. Console'
    BY <1>3 DEF ROAD1, Console, console
  <2> QED BY <2>1, <2>2, <2>3
<1>4. CASE ROAD2
  <2>1. Registers'
    BY <1>4, SpacedFits DEF ROAD2, Registers
  <2>2. Drawn'
    BY <1>4, StoresStay, SpacedFits DEF ROAD2, Registers
  <2>3. Console'
    BY <1>4 DEF ROAD2, Console, console
  <2> QED BY <2>1, <2>2, <2>3
<1>5. CASE OP
  <2>1. Registers'
    BY <1>5 DEF OP, Registers, regs
  <2>2. Drawn'
    <3>1. r2 = Car /\ r3 = Blank
      BY <1>5 DEF OP, Registers
    <3>2. CASE PutCar(r2, r3)
      BY <3>1, <3>2, CarStays
    <3>3. CASE PutCar(r3, r2)
      BY <3>1, <3>3, CarStays
    <3>4. CASE UNCHANGED screen
      BY <3>4 DEF Drawn, RowsIntact
    <3> QED BY <1>5, <3>2, <3>3, <3>4 DEF OP
  <2>3. Console'
    BY <1>5 DEF OP, Console
  <2> QED BY <2>1, <2>2, <2>3
<1>6. CASE OUTH
  <2>1. Registers'
    BY <1>6, <1>c DEF OUTH, Registers
  <2>2. Drawn'
    BY <1>6 DEF OUTH, Drawn, RowsIntact
  <2>3. Console'
    BY <1>6 DEF OUTH, Console, Registers
  <2> QED BY <2>1, <2>2, <2>3
<1>7. CASE RESRC2
  <2>1. Registers'
    BY <1>7 DEF RESRC2, Registers, regs
  <2>2. Drawn'
    BY <1>7 DEF RESRC2, Drawn, RowsIntact, memory
  <2>3. \A base \in {SCR1, SCR2} : Write0(base) \in [0 .. Width + 1 -> Byte]
    <3> TAKE base \in {SCR1, SCR2}
    <3>1. \A i \in 0 .. Width + 1 : base + i \in Address
      BY DistancesFit DEF SCR1, SCR2, Stride, Address
    <3> QED BY <3>1, Write0Road DEF Drawn
  <2>4. Console'
    BY <1>7, <2>3 DEF RESRC2, Console, memory
  <2> QED BY <2>1, <2>2, <2>4
<1>8. CASE MODE
  <2>1. Registers'
    BY <1>8, <1>c, DistancesFit DEF MODE, MODE1, MODE2, Registers
  <2> QED BY <1>8, <1>same, <2>1 DEF MODE, memory, Console
<1>9. CASE DELAY
  <2>1. DelayTime(r5) \in Register
    BY WordAssumption DEF DelayTime, Register
  <2>2. Registers'
    BY <1>9, <1>c, <2>1 DEF DELAY, Registers
  <2> QED BY <1>9, <1>same, <2>2 DEF DELAY, memory, Console
<1>10. CASE NEXT
  <2>1. Registers'
    BY <1>10, <1>c DEF NEXT, Registers
  <2> QED BY <1>10, <1>same, <2>1 DEF NEXT, memory, Console
<1>11. CASE RENON \/ REWIN \/ EXIT2
  <2>1. Registers'
    BY <1>11 DEF RENON, REWIN, EXIT2, Registers, regs
  <2>2. Drawn' /\ Console'
    BY <1>11 DEF RENON, REWIN, EXIT2, Drawn, RowsIntact, Console, memory, console
  <2> QED BY <2>1, <2>2
<1>12. CASE UNCHANGED vars
  <2>1. Registers'
    BY <1>12 DEF Registers, vars, regs
  <2> QED BY <1>12, <1>same, <2>1 DEF vars, memory, Console
<1> QED
  BY <1>1, <1>2, <1>3, <1>4, <1>5, <1>6, <1>7, <1>8, <1>9, <1>10, <1>11, <1>12
  DEF Next, Processor

(* Distances fit their roads and memory shows roads, wherever the loop is.   *)
THEOREM TInvInvariant == Spec => []TInv
BY TInvInit, TInvNext, PTL DEF Spec

(* Type correctness: no register, cell, frame or score of the game is ever *)
(* out of its range, for any geometry of road that GeometryAssumption      *)
(* admits.                                                                 *)
THEOREM TypeCorrect == Spec => []TypeOK
<1>1. TInv => TypeOK
  <2> SUFFICES ASSUME TInv PROVE TypeOK
    OBVIOUS
  <2>1. \A s \in 0 .. WinAt : s \in Register
    BY WordAssumption, ScoreAssumption DEF Register
  <2>2. {r2, r3, r5, r6, r8, r12, r13} \subseteq Register
    BY <2>1, DistancesFit DEF TInv, Registers
  <2>3. tally \in Register
    BY <2>1 DEF TInv, Console
  <2> QED BY <2>2, <2>3 DEF TInv, TypeOK, Registers, Drawn, Console
<1> QED BY <1>1, TInvInvariant, PTL

(* The stores of SPACE, LEFT and OP never reach a terminator of a road or  *)
(* the string behind the second one.                                       *)
THEOREM RowsStayIntact == Spec => []RowsIntact
<1>1. TInv => RowsIntact
  BY DEF TInv, Drawn
<1> QED BY <1>1, TInvInvariant, PTL

-----------------------------------------------------------------------------
(* What the player sees.  On top of TInv the invariant says where the      *)
(* obstacles are: which column they are drawn in, and how the distance in  *)
(* a register depends on the score.                                        *)
-----------------------------------------------------------------------------
(* The roads.  Column 0 belongs to the car and is left out.                *)

Blanked(area, base) ==
  \A a \in Cells(base) : a # base => area[a] = Blank

(* One obstacle at distance d, and nothing else. *)
Shape(area, base, d) ==
  \A a \in Cells(base) :
    a # base => area[a] = IF a = base + d THEN Obstacle ELSE Blank

(* What is on the road will be covered when it is drawn at distance d. *)
Covered(area, base, d) ==
  \/ Blanked(area, base)
  \/ \E e \in 1 .. Width : e <= 2 * d + 1 /\ Shape(area, base, e)

(* The distances.  After frame s road 1 has an obstacle g columns from     *)
(* column 0 and road 2 likewise, by the numbering of frame f.              *)
Phase1(s, g)    == \E k \in 0 .. s : s + g = Dist1 + k * Reload1
Phase2(s, g, f) == \E k \in 0 .. s : s + g = Origin(f) + k * Reload2

CarShown ==
  \/ screen[SCR1] = Car /\ screen[SCR2] = Blank /\ key = "W"
  \/ screen[SCR1] = Blank /\ screen[SCR2] = Car /\ key # "W"

(* The last frame shows the roads as they are still in memory.             *)
Fresh ==
  /\ frame[1] = [i \in 0 .. Width + 1 |-> screen[SCR1 + i]]
  /\ frame[2] = [i \in 0 .. Width + 1 |-> screen[SCR2 + i]]

(* No frame yet. *)
Unseen ==
  /\ frame[1] = Nothing /\ frame[2] = Nothing
  /\ screen[SCR1] = Blank /\ screen[SCR2] = Blank
  /\ Blanked(screen, SCR1) /\ Blanked(screen, SCR2)

(* Between two frames: g1 and g2 are the distances the next frame draws,   *)
(* zero standing for a reload.                                             *)
Between(g1, g2) ==
  \/ Unseen /\ g1 > 0 /\ g2 > 0
  \/ /\ Shape(screen, SCR1, g1 + 1)
     /\ \E e \in 1 .. Width :
          Shape(screen, SCR2, e) /\ e <= 2 * ResetR8(g2) + 1 /\ (e = 1 <=> g2 = 0)
     /\ CarShown /\ Fresh

GStart  == pc = "START" => Unseen /\ banner = "none"

GLoop   == pc = "LOOP" =>
  Between(r6, r8) /\ Phase1(r5, r6) /\ Phase2(r5, r8, r5 + 1)

GRoad1  == pc = "ROAD1" =>
  /\ r5 > 0 /\ Phase1(r5 - 1, r6) /\ Phase2(r5 - 1, r8, r5)
  /\ Covered(screen, SCR1, Spaced(r6)) /\ Covered(screen, SCR2, ResetR8(r8))

GRoad2  == pc = "ROAD2" =>
  /\ r5 > 0 /\ r6 = r8 /\ r6 > 0
  /\ Phase1(r5, r12) /\ Phase2(r5, r6 - 1, r5)
  /\ Shape(screen, SCR1, r12 + 1) /\ screen[SCR1] = Blank
  /\ Covered(screen, SCR2, r6)

GDrawn  == pc \in {"OP", "OUTH", "RESRC2", "MODE"} =>
  /\ r5 > 0 /\ Phase1(r5, r12) /\ Phase2(r5, r8, r5)
  /\ Shape(screen, SCR1, r12 + 1) /\ Shape(screen, SCR2, r8 + 1)
  /\ pc = "OP" => screen[SCR1] = Blank /\ screen[SCR2] = Blank
  /\ pc # "OP" => CarShown
  /\ pc = "MODE" => Fresh
  /\ pc \in {"RESRC2", "MODE"} => tally = r5

GAfter  == pc \in {"DELAY", "NEXT"} =>
  /\ r5 > 0 /\ Phase1(r5, r12) /\ Phase2(r5, r8, r5 + 1)
  /\ Between(r12, r8)

(* LEFT at the distance MODE1 and MODE2 load covers whatever road 2 shows. *)
GSweep ==
  /\ r8 <= 2 * ModeDist + 1
  /\ pc \in {"OP", "OUTH", "RESRC2", "MODE"} => r8 <= 2 * ModeDist

Hit == \E i \in Road : InFront(frame[i])

GEnd ==
  /\ pc = "RENON" => key = "Q" \/ Hit
  /\ pc = "REWIN" => tally = WinAt /\ ~Hit
  /\ pc \notin {"EXIT2", "halted"} => banner \in {"none", HowToPlay}

GInv ==
  /\ TInv
  /\ GStart /\ GLoop /\ GRoad1 /\ GRoad2 /\ GDrawn /\ GAfter /\ GSweep /\ GEnd
  /\ FrameLegible /\ RoadOpen /\ VerdictFair

-----------------------------------------------------------------------------
(* Distances and scores.                                                   *)

LEMMA Numbers ==
  /\ Width \in Nat /\ Width >= 4 /\ WinAt \in Nat /\ WinAt > 0 /\ WinAt < Word
  /\ Dist1 \in Nat \ {0} /\ Dist2 \in Nat \ {0} /\ Reload1 \in Nat \ {0}
  /\ Reload2 \in Nat \ {0} /\ ModeDist \in Nat \ {0}
  /\ Mode1At \in Nat \ {0} /\ Mode2At \in Nat \ {0}
  /\ Mode1At < Mode2At /\ Mode2At < WinAt
  /\ \A f \in Nat : Origin(f) \in Nat \ {0}
<1>1. /\ Dist1 \in Nat \ {0} /\ Dist2 \in Nat \ {0} /\ Reload1 \in Nat \ {0}
      /\ Reload2 \in Nat \ {0} /\ ModeDist \in Nat \ {0}
  BY GeometryAssumption DEF Distances
<1>2. /\ Mode1At \in Nat \ {0} /\ Mode2At \in Nat \ {0} /\ WinAt \in Nat /\ WinAt > 0
      /\ Mode1At < Mode2At /\ Mode2At < WinAt /\ WinAt < Word
  BY ScoreAssumption, WordAssumption
<1>3. \A f \in Nat : Origin(f) \in Nat \ {0}
  BY <1>1, <1>2 DEF Origin
<1> QED BY <1>1, <1>2, <1>3, DistancesFit

LEMMA Phase1Step ==
  ASSUME NEW s \in Nat \ {0}, NEW g \in Nat, Phase1(s - 1, g)
  PROVE  Phase1(s, Spaced(g) - 1)
<1> USE Numbers
<1>1. PICK k \in 0 .. s - 1 : (s - 1) + g = Dist1 + k * Reload1
  BY DEF Phase1
<1>2. CASE g = 0
  <2>1. (k + 1) * Reload1 = k * Reload1 + Reload1 /\ k * Reload1 \in Int
    BY <1>1
  <2>2. s + (Reload1 - 1) = Dist1 + (k + 1) * Reload1
    BY <1>1, <1>2, <2>1
  <2>3. k + 1 \in 0 .. s
    BY <1>1
  <2> QED BY <1>2, <2>2, <2>3 DEF Phase1, Spaced
<1>3. CASE g # 0
  <2>1. s + (g - 1) = Dist1 + k * Reload1 /\ k \in 0 .. s
    BY <1>1, <1>3
  <2> QED BY <1>3, <2>1 DEF Phase1, Spaced
<1> QED BY <1>2, <1>3

LEMMA Phase2Step ==
  ASSUME NEW s \in Nat \ {0}, NEW g \in Nat, NEW f \in Nat, Phase2(s - 1, g, f)
  PROVE  Phase2(s, ResetR8(g) - 1, f)
<1> USE Numbers
<1>1. PICK k \in 0 .. s - 1 : (s - 1) + g = Origin(f) + k * Reload2
  BY DEF Phase2
<1>2. CASE g = 0
  <2>1. (k + 1) * Reload2 = k * Reload2 + Reload2 /\ k * Reload2 \in Int
    BY <1>1
  <2>2. s + (Reload2 - 1) = Origin(f) + (k + 1) * Reload2
    BY <1>1, <1>2, <2>1
  <2>3. k + 1 \in 0 .. s
    BY <1>1
  <2> QED BY <1>2, <2>2, <2>3 DEF Phase2, ResetR8
<1>3. CASE g # 0
  <2>1. s + (g - 1) = Origin(f) + k * Reload2 /\ k \in 0 .. s
    BY <1>1, <1>3
  <2> QED BY <1>3, <2>1 DEF Phase2, ResetR8
<1> QED BY <1>2, <1>3

LEMMA PhaseZero ==
  ASSUME NEW s \in Nat
  PROVE  /\ Phase1(s, 0) => Beside1(s)
         /\ Phase2(s, 0, s) => Beside2(s)
BY DEF Phase1, Phase2, Beside1, Beside2

(* From a frame to the next the numbering of road 2 changes at MODE1 and   *)
(* MODE2 only.                                                             *)
LEMMA PhaseMode ==
  ASSUME NEW s \in Nat, NEW g \in Nat
  PROVE  /\ s \notin {Mode1At, Mode2At} /\ Phase2(s, g, s) => Phase2(s, g, s + 1)
         /\ s \in {Mode1At, Mode2At} => Phase2(s, ModeDist, s + 1)
<1> USE Numbers
<1>1. s \notin {Mode1At, Mode2At} => Origin(s + 1) = Origin(s)
  BY DEF Origin
<1>2. s \in {Mode1At, Mode2At} => Origin(s + 1) = s + ModeDist
  BY DEF Origin
<1>3. s \in {Mode1At, Mode2At} => s + ModeDist = Origin(s + 1) + 0 * Reload2 /\ 0 \in 0 .. s
  BY <1>2
<1> QED BY <1>1, <1>3 DEF Phase2

-----------------------------------------------------------------------------
(* Roads.                                                                  *)

LEMMA Bases ==
  /\ SCR1 = 0 /\ SCR2 = Width + 3 /\ SCR1 \in Address /\ SCR2 \in Address
  /\ SCR1 \in Cells(SCR1) /\ SCR2 \in Cells(SCR2)
  /\ \A a \in Cells(SCR1) : a \in Address /\ a \notin Cells(SCR2) /\ a \in Int
  /\ \A a \in Cells(SCR2) : a \in Address /\ a \notin Cells(SCR1) /\ a \in Int
BY Numbers DEF SCR1, SCR2, Stride, Address, Cells

(* SPACE and LEFT draw one road and leave the other alone.                 *)
LEMMA DrawShape ==
  ASSUME NEW base \in {SCR1, SCR2}, NEW d, Fits(d), d > 0, r3 = Blank,
         Covered(screen, base, d), screen' = SPACE_LEFT(screen, r3, base, d)
  PROVE  /\ Shape(screen', base, d) /\ screen'[base] = Blank
         /\ \A other \in {SCR1, SCR2} : other # base =>
              \A a \in Cells(other) : screen'[a] = screen[a]
<1>1. base \in Nat /\ d \in Nat /\ 2 * d + 2 <= Width /\ Width \in Nat
  BY Bases, Numbers DEF Fits
<1>2. \A a \in Cells(base) : a \in Address /\ a \in Int /\ a >= base /\ a <= base + Width - 1
  BY <1>1, Bases DEF Cells
<1>3. \A a \in Address :
        screen'[a] = IF a = base + d THEN Obstacle
                     ELSE IF a >= base /\ a <= base + 2 * d + 1 THEN Blank ELSE screen[a]
  <2>1. Blank % 256 = Blank
    BY DEF Blank
  <2> QED BY <2>1 DEF SPACE_LEFT
<1>4. Shape(screen', base, d)
  <2> SUFFICES ASSUME NEW a \in Cells(base), a # base
               PROVE  screen'[a] = IF a = base + d THEN Obstacle ELSE Blank
    BY DEF Shape
  <2>1. CASE a = base + d
    BY <1>2, <1>3, <2>1
  <2>2. CASE a # base + d /\ a <= base + 2 * d + 1
    BY <1>2, <1>3, <2>2
  <2>3. CASE a # base + d /\ ~(a <= base + 2 * d + 1)
    <3>1. screen'[a] = screen[a]
      BY <1>2, <1>3, <2>3
    <3>2. screen[a] = Blank
      <4>1. CASE Blanked(screen, base)
        BY <4>1 DEF Blanked
      <4>2. ASSUME NEW e \in 1 .. Width, e <= 2 * d + 1, Shape(screen, base, e)
            PROVE  screen[a] = Blank
        <5>1. a # base + e
          BY <1>1, <1>2, <2>3, <4>2
        <5> QED BY <4>2, <5>1 DEF Shape
      <4> QED BY <4>1, <4>2 DEF Covered
    <3> QED BY <2>3, <3>1, <3>2
  <2> QED BY <2>1, <2>2, <2>3
<1>5. screen'[base] = Blank
  <2>1. base \in Address
    BY Bases
  <2> QED BY <1>1, <1>3, <2>1
<1>6. ASSUME NEW other \in {SCR1, SCR2}, other # base, NEW a \in Cells(other)
      PROVE  screen'[a] = screen[a]
  <2>1. a \in Address /\ a \in Int /\ a \notin Cells(base)
    BY <1>6, Bases
  <2>2. ~(a >= base /\ a <= base + Width - 1)
    BY <1>1, <2>1 DEF Cells
  <2>3. a # base + d /\ ~(a >= base /\ a <= base + 2 * d + 1)
    BY <1>1, <2>1, <2>2
  <2> QED BY <1>3, <2>1, <2>3
<1> QED BY <1>4, <1>5, <1>6

(* A road that is printed shows its obstacle next to the car's column      *)
(* exactly when that is its distance.                                      *)
LEMMA Adjacent ==
  ASSUME NEW base \in {SCR1, SCR2}, NEW d \in 1 .. Width, Shape(screen, base, d)
  PROVE  screen[base + 1] = Obstacle <=> d = 1
<1>1. base + 1 \in Cells(base) /\ base + 1 # base /\ base \in Nat
  BY Bases, Numbers DEF Cells
<1>2. screen[base + 1] = IF base + 1 = base + d THEN Obstacle ELSE Blank
  BY <1>1 DEF Shape
<1>3. Obstacle # Blank
  BY DEF Obstacle, Blank
<1> QED BY <1>1, <1>2, <1>3

LEMMA Constants ==
  /\ Blank # Car /\ Blank # Obstacle /\ Car # Obstacle
  /\ LF # Obstacle /\ CR # Obstacle
BY DEF Blank, Car, Obstacle, LF, CR

(* The columns of a printed road. *)
LEMMA FreshColumns ==
  ASSUME Fresh
  PROVE  /\ frame[1] # Nothing /\ frame[2] # Nothing
         /\ frame[1][0] = screen[SCR1] /\ frame[2][0] = screen[SCR2]
         /\ frame[1][1] = screen[SCR1 + 1] /\ frame[2][1] = screen[SCR2 + 1]
<1>1. 0 \in 0 .. Width + 1 /\ 1 \in 0 .. Width + 1
  BY Numbers
<1>2. SCR1 + 0 = SCR1 /\ SCR2 + 0 = SCR2
  BY Bases, Numbers
<1>3. DOMAIN frame[1] # {} /\ DOMAIN frame[2] # {} /\ DOMAIN Nothing = {}
  BY <1>1 DEF Fresh, Nothing
<1> QED BY <1>1, <1>2, <1>3 DEF Fresh

(* Between two frames the frame shows a hit exactly when CRASH finds one.  *)
LEMMA HitIffCrash ==
  ASSUME NEW g1, NEW g2, Fits(g1), Fits(g2), Between(g1, g2)
  PROVE  /\ InFront(frame[1]) <=> g1 = 0 /\ screen[SCR1] = Car
         /\ InFront(frame[2]) <=> g2 = 0 /\ screen[SCR2] = Car
<1>1. CASE Unseen
  BY <1>1, Constants DEF Unseen, InFront
<1>2. CASE ~Unseen
  <2>1. g1 \in Nat /\ g1 + 1 \in 1 .. Width
    BY Numbers DEF Fits
  <2>2. Shape(screen, SCR1, g1 + 1) /\ Fresh
    BY <1>2 DEF Between
  <2>b. \E e \in 1 .. Width :
          Shape(screen, SCR2, e) /\ e <= 2 * ResetR8(g2) + 1 /\ (e = 1 <=> g2 = 0)
    BY <1>2 DEF Between
  <2>3. PICK e \in 1 .. Width : Shape(screen, SCR2, e) /\ (e = 1 <=> g2 = 0)
    BY <2>b
  <2>4. screen[SCR1 + 1] = Obstacle <=> g1 = 0
    BY <2>1, <2>2, Adjacent
  <2>5. screen[SCR2 + 1] = Obstacle <=> g2 = 0
    BY <2>3, Adjacent
  <2> QED BY <2>2, <2>4, <2>5, FreshColumns DEF InFront
<1> QED BY <1>1, <1>2

(* The same for a frame that has just been printed. *)
LEMMA HitWhenShown ==
  ASSUME Fits(r12), Fits(r8), Fresh,
         Shape(screen, SCR1, r12 + 1), Shape(screen, SCR2, r8 + 1)
  PROVE  /\ frame[1][1] = Obstacle <=> r12 = 0
         /\ frame[2][1] = Obstacle <=> r8 = 0
         /\ Hit => r12 = 0 \/ r8 = 0
<1>1. r12 \in Nat /\ r12 + 1 \in 1 .. Width /\ r8 \in Nat /\ r8 + 1 \in 1 .. Width
  BY Numbers DEF Fits
<1>2. screen[SCR1 + 1] = Obstacle <=> r12 = 0
  BY <1>1, Adjacent
<1>3. screen[SCR2 + 1] = Obstacle <=> r8 = 0
  BY <1>1, Adjacent
<1> QED BY <1>2, <1>3, FreshColumns DEF Hit, InFront, Road

-----------------------------------------------------------------------------
(* The invariant is inductive.                                             *)

(* A step that prints no road and no verdict says nothing new to the       *)
(* player.                                                                 *)
LEMMA Quiet ==
  ASSUME GInv, frame' = frame, pc' # "MODE", banner' \in {"none", HowToPlay}
  PROVE  FrameLegible' /\ RoadOpen' /\ VerdictFair'
<1>1. FrameLegible' /\ RoadOpen'
  BY DEF GInv, FrameLegible, LegibleRoad, RoadOpen
<1>2. VerdictFair'
  BY DEF VerdictFair, HowToPlay, GameOver, YouWin
<1> QED BY <1>1, <1>2

LEMMA GInvInit == Init => GInv
<1> SUFFICES ASSUME Init PROVE GInv
  OBVIOUS
<1>1. pc = "START" /\ banner = "none" /\ frame = [i \in Road |-> Nothing]
  BY DEF Init
<1>2. frame[1] = Nothing /\ frame[2] = Nothing
  BY <1>1 DEF Road
<1>3. ASSUME NEW a \in Cells(SCR1) \cup Cells(SCR2)
      PROVE  screen[a] = Blank
  <2> USE Numbers DEF Cells, SCR1, SCR2, SCR3, Stride
  <2>1. a \in Address
    BY DEF Address
  <2>2. /\ a + 3 \notin {SCR2, SCR3, 3 * Stride}
        /\ a + 2 \notin {SCR2, SCR3, 3 * Stride}
        /\ a + 1 \notin {SCR2, SCR3, 3 * Stride}
    OBVIOUS
  <2> QED BY <2>1, <2>2 DEF Init, BlankScreen
<1>4. Unseen
  BY <1>2, <1>3, Bases DEF Unseen, Blanked
<1>5. GStart /\ GLoop /\ GRoad1 /\ GRoad2 /\ GDrawn /\ GAfter /\ GEnd
  BY <1>1, <1>4 DEF GStart, GLoop, GRoad1, GRoad2, GDrawn, GAfter, GEnd
<1>6. GSweep
  BY <1>1, Numbers DEF Init, GSweep
<1>7. FrameLegible /\ RoadOpen /\ VerdictFair
  BY <1>1, <1>2 DEF FrameLegible, RoadOpen, VerdictFair, Road, GameOver, YouWin
<1> QED BY <1>4, <1>5, <1>6, <1>7, TInvInit DEF GInv

LEMMA GInvSTART == GInv /\ START => GInv'
<1> SUFFICES ASSUME GInv, START PROVE GInv'
  OBVIOUS
<1>1. pc = "START" /\ pc' = "LOOP" /\ r5' = 0 /\ r6' = Dist1 /\ r8' = Dist2
      /\ frame' = frame /\ screen' = screen /\ banner' = HowToPlay
  BY DEF START, ZERO, memory
<1>2. TInv'
  BY TInvNext DEF GInv, Next, Processor
<1>3. Unseen'
  BY <1>1 DEF GInv, GStart, Unseen, Blanked
<1>4. Origin(1) = Dist2
  BY Numbers DEF Origin
<1>5. Dist1 = Dist1 + 0 * Reload1 /\ Dist2 = Origin(1) + 0 * Reload2 /\ 0 \in 0 .. 0
      /\ 0 + Dist1 = Dist1 /\ 0 + Dist2 = Dist2 /\ 0 + 1 = 1
  BY <1>4, Numbers
<1>6. Phase1(0, Dist1) /\ Phase2(0, Dist2, 0 + 1)
  BY <1>5 DEF Phase1, Phase2
<1>7. Between(r6, r8)'
  BY <1>1, <1>3, Numbers DEF Between
<1>8. GLoop'
  BY <1>1, <1>6, <1>7 DEF GLoop, Phase1, Phase2
<1>9. GStart' /\ GRoad1' /\ GRoad2' /\ GDrawn' /\ GAfter' /\ GEnd'
  BY <1>1 DEF GStart, GRoad1, GRoad2, GDrawn, GAfter, GEnd
<1>10. GSweep'
  BY <1>1, SweepAssumption DEF GSweep
<1> QED BY <1>1, <1>2, <1>8, <1>9, <1>10, Quiet DEF GInv

LEMMA GInvLOOP == GInv /\ LOOP => GInv'
<1> SUFFICES ASSUME GInv, LOOP PROVE GInv'
  OBVIOUS
<1>1. /\ pc = "LOOP" /\ pc' = IF CRASH THEN "RENON" ELSE "ROAD1"
      /\ r6' = r6 /\ r8' = r8 /\ screen' = screen /\ frame' = frame
      /\ banner' = banner /\ key' = key /\ tally' = tally
  BY DEF LOOP, memory, console
<1>2. TInv'
  BY TInvNext DEF GInv, Next, Processor
<1>3. r5 \in Nat /\ r5' = r5 + 1 /\ r2 = Car /\ Fits(r6) /\ Fits(r8)
  BY <1>1, WordAssumption, ScoreAssumption DEF LOOP, GInv, TInv, Registers
<1>4. Between(r6, r8) /\ Phase1(r5, r6) /\ Phase2(r5, r8, r5 + 1)
  BY <1>1 DEF GInv, GLoop
<1>5. banner \in {"none", HowToPlay}
  BY <1>1 DEF GInv, GEnd
<1>6. GRoad1'
  <2> SUFFICES ASSUME pc' = "ROAD1"
               PROVE  /\ r5' > 0 /\ Phase1(r5' - 1, r6') /\ Phase2(r5' - 1, r8', r5')
                      /\ Covered(screen, SCR1, Spaced(r6))
                      /\ Covered(screen, SCR2, ResetR8(r8))
    BY <1>1 DEF GRoad1, Covered, Blanked, Shape, Spaced, ResetR8
  <2>1. r5' > 0 /\ r5' - 1 = r5
    BY <1>3
  <2>2. Covered(screen, SCR1, Spaced(r6)) /\ Covered(screen, SCR2, ResetR8(r8))
    <3>1. CASE Unseen
      BY <3>1 DEF Unseen, Covered
    <3>2. CASE ~Unseen
      <4>1. /\ Shape(screen, SCR1, r6 + 1)
            /\ \E e \in 1 .. Width : Shape(screen, SCR2, e) /\ e <= 2 * ResetR8(r8) + 1
        BY <1>4, <3>2 DEF Between
      <4>2. r6 + 1 \in 1 .. Width /\ r6 + 1 <= 2 * Spaced(r6) + 1
        BY <1>3, Numbers DEF Fits, Spaced
      <4> QED BY <4>1, <4>2 DEF Covered
    <3> QED BY <3>1, <3>2
  <2> QED BY <1>1, <1>3, <1>4, <2>1, <2>2
<1>7. GStart' /\ GLoop' /\ GRoad2' /\ GDrawn' /\ GAfter'
  BY <1>1 DEF GStart, GLoop, GRoad2, GDrawn, GAfter
<1>8. GSweep'
  BY <1>1 DEF GInv, GSweep
<1>9. CRASH => Hit
  BY <1>3, <1>4, HitIffCrash DEF CRASH, Hit, Road
<1>10. GEnd'
  BY <1>1, <1>5, <1>9 DEF GEnd, Hit, InFront
<1> QED BY <1>1, <1>2, <1>5, <1>6, <1>7, <1>8, <1>10, Quiet DEF GInv

LEMMA GInvROAD1 == GInv /\ ROAD1 => GInv'
<1> SUFFICES ASSUME GInv, ROAD1 PROVE GInv'
  OBVIOUS
<1>1. /\ pc = "ROAD1" /\ pc' = "ROAD2" /\ r5' = r5 /\ frame' = frame /\ banner' = banner
      /\ screen' = SPACE_LEFT(screen, r3, SCR1, Spaced(r6))
      /\ r8' = ResetR8(r8) /\ r6' = r8' /\ r12' = Dec(ResetR6(Spaced(r6)))
  BY DEF ROAD1, console
<1>2. TInv'
  BY TInvNext DEF GInv, Next, Processor
<1>3. Fits(r6) /\ Fits(r8) /\ r3 = Blank /\ r5 \in Nat
  BY <1>1, ScoreAssumption DEF GInv, TInv, Registers
<1>4. /\ r5 > 0 /\ Phase1(r5 - 1, r6) /\ Phase2(r5 - 1, r8, r5)
      /\ Covered(screen, SCR1, Spaced(r6)) /\ Covered(screen, SCR2, ResetR8(r8))
  BY <1>1 DEF GInv, GRoad1
<1>5. /\ Fits(Spaced(r6)) /\ Spaced(r6) > 0 /\ Spaced(r6) \in Nat
      /\ ResetR8(r8) > 0 /\ ResetR8(r8) \in Nat
      /\ r12' = Spaced(r6) - 1
  BY <1>1, <1>3, SpacedFits, DecExact, DistancesFit DEF Fits
<1>6. Phase1(r5, Spaced(r6) - 1) /\ Phase2(r5, ResetR8(r8) - 1, r5)
  BY <1>3, <1>4, Phase1Step, Phase2Step DEF Fits
<1>7. /\ Shape(screen', SCR1, Spaced(r6)) /\ screen'[SCR1] = Blank
      /\ \A a \in Cells(SCR2) : screen'[a] = screen[a]
  BY <1>1, <1>3, <1>4, <1>5, DrawShape, Bases, Numbers
<1>8. Covered(screen', SCR2, ResetR8(r8))
  BY <1>4, <1>7 DEF Covered, Blanked, Shape
<1>9. Spaced(r6) = r12' + 1
  BY <1>5
<1>10. GRoad2'
  BY <1>1, <1>4, <1>5, <1>6, <1>7, <1>8, <1>9 DEF GRoad2
<1>11. GStart' /\ GLoop' /\ GRoad1' /\ GDrawn' /\ GAfter'
  BY <1>1 DEF GStart, GLoop, GRoad1, GDrawn, GAfter
<1>12. GSweep' /\ GEnd'
  BY <1>1, SweepAssumption DEF GInv, GSweep, GEnd, ResetR8
<1>13. banner' \in {"none", HowToPlay}
  BY <1>1 DEF GInv, GEnd
<1> QED BY <1>1, <1>2, <1>10, <1>11, <1>12, <1>13, Quiet DEF GInv

LEMMA GInvROAD2 == GInv /\ ROAD2 => GInv'
<1> SUFFICES ASSUME GInv, ROAD2 PROVE GInv'
  OBVIOUS
<1>1. /\ pc = "ROAD2" /\ pc' = "OP" /\ r5' = r5 /\ r12' = r12
      /\ frame' = frame /\ banner' = banner
      /\ screen' = SPACE_LEFT(screen, r3, SCR2, Spaced(r6))
      /\ r8' = Dec(ResetR8(r8))
  BY DEF ROAD2, console
<1>2. TInv'
  BY TInvNext DEF GInv, Next, Processor
<1>3. Fits(r6) /\ r3 = Blank /\ r5 \in Nat /\ r8 \in Nat
  BY <1>1, ScoreAssumption DEF GInv, TInv, Registers, Fits
<1>4. /\ r5 > 0 /\ r6 = r8 /\ r6 > 0 /\ Phase1(r5, r12) /\ Phase2(r5, r6 - 1, r5)
      /\ Shape(screen, SCR1, r12 + 1) /\ screen[SCR1] = Blank
      /\ Covered(screen, SCR2, r6)
  BY <1>1 DEF GInv, GRoad2
<1>5. Spaced(r6) = r6 /\ ResetR8(r8) = r6 /\ r8' = r6 - 1 /\ r6 = r8' + 1
  BY <1>1, <1>3, <1>4, DecExact, DistancesFit DEF Spaced, ResetR8
<1>6. /\ Shape(screen', SCR2, r6) /\ screen'[SCR2] = Blank
      /\ \A a \in Cells(SCR1) : screen'[a] = screen[a]
  BY <1>1, <1>3, <1>4, <1>5, DrawShape, Bases, Numbers
<1>7. Shape(screen', SCR1, r12 + 1) /\ screen'[SCR1] = Blank
  BY <1>4, <1>6, Bases DEF Shape
<1>8. GDrawn'
  BY <1>1, <1>4, <1>5, <1>6, <1>7 DEF GDrawn
<1>9. GStart' /\ GLoop' /\ GRoad1' /\ GRoad2' /\ GAfter'
  BY <1>1 DEF GStart, GLoop, GRoad1, GRoad2, GAfter
<1>10. GSweep'
  <2>1. r8 <= 2 * ModeDist + 1 /\ ModeDist \in Nat
    BY Numbers DEF GInv, GSweep
  <2> QED BY <1>3, <1>4, <1>5, <2>1 DEF GSweep
<1>11. GEnd' /\ banner' \in {"none", HowToPlay}
  BY <1>1 DEF GInv, GEnd
<1> QED BY <1>1, <1>2, <1>8, <1>9, <1>10, <1>11, Quiet DEF GInv

LEMMA GInvOP == GInv /\ OP => GInv'
<1> SUFFICES ASSUME GInv, OP PROVE GInv'
  OBVIOUS
<1>1. /\ pc = "OP" /\ frame' = frame /\ banner' = banner /\ tally' = tally
      /\ r5' = r5 /\ r12' = r12 /\ r8' = r8
      /\ pc' \in {"OUTH", "RENON"} /\ (pc' = "RENON" => key' = "Q")
  BY DEF OP, regs
<1>2. TInv'
  BY TInvNext DEF GInv, Next
<1>3. r2 = Car /\ r3 = Blank /\ Car % 256 = Car /\ Blank % 256 = Blank
  BY <1>1 DEF GInv, TInv, Registers, Car, Blank
<1>4. /\ r5 > 0 /\ Phase1(r5, r12) /\ Phase2(r5, r8, r5)
      /\ Shape(screen, SCR1, r12 + 1) /\ Shape(screen, SCR2, r8 + 1)
  BY <1>1 DEF GInv, GDrawn
<1>5. /\ \A a \in Address : a # SCR1 /\ a # SCR2 => screen'[a] = screen[a]
      /\ pc' = "OUTH" =>
           \/ screen'[SCR1] = Car /\ screen'[SCR2] = Blank /\ key' = "W"
           \/ screen'[SCR1] = Blank /\ screen'[SCR2] = Car /\ key' # "W"
  <2>1. SCR1 \in Address /\ SCR2 \in Address /\ SCR1 # SCR2 /\ DOMAIN screen = Address
    BY Bases, Numbers DEF GInv, TInv, Drawn
  <2> QED BY <1>3, <2>1 DEF OP, PutCar
<1>6. Shape(screen', SCR1, r12 + 1) /\ Shape(screen', SCR2, r8 + 1)
  BY <1>4, <1>5, Bases DEF Shape
<1>7. GDrawn'
  BY <1>1, <1>4, <1>5, <1>6 DEF GDrawn, CarShown
<1>8. GStart' /\ GLoop' /\ GRoad1' /\ GRoad2' /\ GAfter' /\ GSweep'
  BY <1>1 DEF GInv, GStart, GLoop, GRoad1, GRoad2, GAfter, GSweep
<1>9. GEnd' /\ banner' \in {"none", HowToPlay}
  BY <1>1 DEF GInv, GEnd
<1> QED BY <1>1, <1>2, <1>7, <1>8, <1>9, Quiet DEF GInv

LEMMA GInvOUTH == GInv /\ OUTH => GInv'
<1> SUFFICES ASSUME GInv, OUTH PROVE GInv'
  OBVIOUS
<1>1. /\ pc = "OUTH" /\ pc' = "RESRC2" /\ frame' = frame /\ banner' = banner /\ key' = key
      /\ r5' = r5 /\ r12' = r12 /\ r8' = r8 /\ screen' = screen /\ tally' = r5
  BY DEF OUTH
<1>2. TInv'
  BY TInvNext DEF GInv, Next, Processor
<1>3. GDrawn'
  BY <1>1 DEF GInv, GDrawn, CarShown, Shape
<1>4. GStart' /\ GLoop' /\ GRoad1' /\ GRoad2' /\ GAfter' /\ GSweep'
  BY <1>1 DEF GInv, GStart, GLoop, GRoad1, GRoad2, GAfter, GSweep
<1>5. GEnd' /\ banner' \in {"none", HowToPlay}
  BY <1>1 DEF GInv, GEnd
<1> QED BY <1>1, <1>2, <1>3, <1>4, <1>5, Quiet DEF GInv

(* A road that shows an obstacle at distance d prints as one that can be   *)
(* read.                                                                   *)
LEMMA PrintedLegible ==
  ASSUME Drawn, NEW base \in {SCR1, SCR2}, NEW d \in 1 .. Width - 1,
         Shape(screen, base, d), screen[base] \in {Blank, Car}
  PROVE  LegibleRoad([i \in 0 .. Width + 1 |-> screen[base + i]])
<1> USE Numbers
<1> DEFINE row == [i \in 0 .. Width + 1 |-> screen[base + i]]
<1>1. base \in Nat /\ base + Width \in Address /\ base + Width + 1 \in Address
      /\ base + 0 = base
  BY DEF SCR1, SCR2, SCR3, Stride, Address
<1>2. screen[base + Width] = LF /\ screen[base + Width + 1] = CR
  <2>1. BlankScreen[base + Width] = LF /\ BlankScreen[base + Width + 1] = CR
    BY <1>1 DEF BlankScreen, SCR1, SCR2, SCR3, Stride
  <2>2. \A a \in {base + Width, base + Width + 1} : screen[a] = BlankScreen[a]
    BY <1>1 DEF Drawn, RowsIntact, SCR1, SCR2, Stride
  <2> QED BY <2>1, <2>2
<1>3. \A k \in 1 .. Width - 1 :
        screen[base + k] = IF k = d THEN Obstacle ELSE Blank
  <2> TAKE k \in 1 .. Width - 1
  <2>1. base + k \in Cells(base) /\ base + k # base /\ (base + k = base + d <=> k = d)
    BY <1>1 DEF Cells
  <2> QED BY <2>1 DEF Shape
<1>4. /\ DOMAIN row = 0 .. Width + 1
      /\ row[0] \in {Blank, Car} /\ row[Width] = LF /\ row[Width + 1] = CR
  BY <1>1, <1>2
<1>5. \A k \in 1 .. Width - 1 : row[k] = IF k = d THEN Obstacle ELSE Blank
  BY <1>1, <1>3
<1>6. row[d] = Obstacle /\ \A k \in 1 .. Width - 1 : k # d => row[k] = Blank
  BY <1>5
<1>7. LegibleRoad(row)
  BY <1>4, <1>6 DEF LegibleRoad
<1> QED BY <1>7

LEMMA GInvRESRC2 == GInv /\ RESRC2 => GInv'
<1> SUFFICES ASSUME GInv, RESRC2 PROVE GInv'
  OBVIOUS
<1>1. /\ pc = "RESRC2" /\ pc' = "MODE" /\ banner' = banner /\ key' = key
      /\ r5' = r5 /\ r12' = r12 /\ r8' = r8 /\ screen' = screen /\ tally' = tally
  BY DEF RESRC2, regs, memory
<1>2. TInv'
  BY TInvNext DEF GInv, Next, Processor
<1>3. /\ Drawn /\ r5 \in 0 .. WinAt
      /\ r12 \in Nat /\ r12 + 1 \in 1 .. Width - 1 /\ r12 + 1 \in 1 .. Width
      /\ r8 \in Nat /\ r8 + 1 \in 1 .. Width - 1 /\ r8 + 1 \in 1 .. Width
  BY Numbers DEF GInv, TInv, Registers, Fits
<1>4. /\ r5 > 0 /\ Phase1(r5, r12) /\ Phase2(r5, r8, r5)
      /\ Shape(screen, SCR1, r12 + 1) /\ Shape(screen, SCR2, r8 + 1)
      /\ CarShown /\ tally = r5
  BY <1>1 DEF GInv, GDrawn
<1>5. /\ frame'[1] = [i \in 0 .. Width + 1 |-> screen[SCR1 + i]]
      /\ frame'[2] = [i \in 0 .. Width + 1 |-> screen[SCR2 + i]]
  <2>1. frame'[1] = Write0(SCR1) /\ frame'[2] = Write0(SCR2)
    BY DEF RESRC2, Road
  <2> QED BY <1>3, <2>1, Write0Road
<1>6. GDrawn'
  BY <1>1, <1>4, <1>5 DEF GDrawn, Fresh, CarShown, Shape
<1>7. FrameLegible'
  <2>1. LegibleRoad(frame'[1]) /\ LegibleRoad(frame'[2])
    BY <1>3, <1>4, <1>5, PrintedLegible DEF CarShown
  <2>2. frame'[1][0] = screen[SCR1] /\ frame'[2][0] = screen[SCR2]
    <3>1. 0 \in 0 .. Width + 1 /\ SCR1 + 0 = SCR1 /\ SCR2 + 0 = SCR2
      BY Numbers, Bases
    <3> QED BY <1>5, <3>1
  <2>3. frame'[1][0] # frame'[2][0] /\ (frame'[1][0] = Car <=> key' = "W")
    BY <1>1, <1>4, <2>2, Constants DEF CarShown
  <2> QED BY <2>1, <2>3 DEF FrameLegible, LegibleRoad, Road
<1>8. RoadOpen'
  <2> SUFFICES ASSUME frame'[1][1] = Obstacle, frame'[2][1] = Obstacle
               PROVE  FALSE
    BY DEF RoadOpen, Road
  <2>1. frame'[1][1] = screen[SCR1 + 1] /\ frame'[2][1] = screen[SCR2 + 1]
    <3>1. 1 \in 0 .. Width + 1
      BY Numbers
    <3> QED BY <1>5, <3>1
  <2>2. r12 + 1 = 1 /\ r8 + 1 = 1
    BY <1>3, <1>4, <2>1, Adjacent
  <2>3. r12 = 0 /\ r8 = 0 /\ r5 \in Nat /\ r5 \in 1 .. WinAt
    BY <1>3, <1>4, <2>2
  <2>4. Beside1(r5) /\ Beside2(r5)
    BY <1>4, <2>3, PhaseZero
  <2> QED BY <2>3, <2>4, PhaseAssumption
<1>9. GEnd' /\ banner' \in {"none", HowToPlay}
  BY <1>1 DEF GInv, GEnd
<1>10. VerdictFair'
  BY <1>9 DEF VerdictFair, HowToPlay, GameOver, YouWin
<1>11. GStart' /\ GLoop' /\ GRoad1' /\ GRoad2' /\ GAfter' /\ GSweep'
  BY <1>1 DEF GInv, GStart, GLoop, GRoad1, GRoad2, GAfter, GSweep
<1> QED BY <1>2, <1>6, <1>7, <1>8, <1>9, <1>10, <1>11 DEF GInv

LEMMA GInvMODE == GInv /\ MODE => GInv'
<1> SUFFICES ASSUME GInv, MODE PROVE GInv'
  OBVIOUS
<1>1. /\ pc = "MODE" /\ pc' \in {"REWIN", "DELAY"} /\ banner' = banner /\ key' = key
      /\ r5' = r5 /\ r12' = r12 /\ screen' = screen /\ tally' = tally /\ frame' = frame
      /\ pc' = "REWIN" => r5 = WinAt /\ r8' = r8
      /\ pc' = "DELAY" => \/ r5 \in {Mode1At, Mode2At} /\ r8' = ModeDist
                          \/ r5 \notin {Mode1At, Mode2At} /\ r8' = r8
  BY DEF MODE, MODE1, MODE2, memory, console
<1>2. TInv'
  BY TInvNext DEF GInv, Next, Processor
<1>3. /\ r5 \in Nat /\ Fits(r12) /\ Fits(r8) /\ r12 \in Nat /\ r8 \in Nat
      /\ r8 + 1 \in 1 .. Width
  BY Numbers DEF GInv, TInv, Registers, Fits
<1>4. /\ r5 > 0 /\ Phase1(r5, r12) /\ Phase2(r5, r8, r5)
      /\ Shape(screen, SCR1, r12 + 1) /\ Shape(screen, SCR2, r8 + 1)
      /\ CarShown /\ Fresh /\ tally = r5
  BY <1>1 DEF GInv, GDrawn
<1>5. r8 <= 2 * ModeDist
  BY <1>1 DEF GInv, GSweep
<1>6. GAfter'
  <2> SUFFICES ASSUME pc' = "DELAY" PROVE GAfter'
    BY <1>1 DEF GAfter
  <2> DEFINE Next2 == /\ Phase2(r5, r8', r5 + 1) /\ r8' \in Nat
                      /\ r8 + 1 <= 2 * ResetR8(r8') + 1 /\ (r8 + 1 = 1 <=> r8' = 0)
  <2>1. ASSUME r5 \in {Mode1At, Mode2At} PROVE Next2
    <3>1. r8' = ModeDist /\ Phase2(r5, r8', r5 + 1)
      BY <1>1, <1>3, <2>1, PhaseMode, Numbers
    <3>2. r8 # 0
      BY <1>3, <1>4, <2>1, PhaseZero, PhaseAssumption
    <3> QED BY <1>3, <1>5, <3>1, <3>2, Numbers DEF ResetR8
  <2>2. ASSUME r5 \notin {Mode1At, Mode2At} PROVE Next2
    <3>1. r8' = r8 /\ Phase2(r5, r8', r5 + 1)
      BY <1>1, <1>3, <1>4, <2>2, PhaseMode
    <3> QED BY <1>3, <3>1, Numbers DEF ResetR8
  <2>3. Next2
    BY <2>1, <2>2
  <2>4. \E e \in 1 .. Width :
          Shape(screen, SCR2, e) /\ e <= 2 * ResetR8(r8') + 1 /\ (e = 1 <=> r8' = 0)
    BY <1>3, <1>4, <2>3
  <2>5. Between(r12, r8)'
    <3>1. Shape(screen, SCR1, r12 + 1)' /\ CarShown' /\ Fresh'
      BY <1>1, <1>4 DEF Shape, CarShown, Fresh
    <3>2. \E e \in 1 .. Width :
            Shape(screen', SCR2, e) /\ e <= 2 * ResetR8(r8') + 1 /\ (e = 1 <=> r8' = 0)
      BY <1>1, <2>4
    <3> QED BY <3>1, <3>2 DEF Between, ResetR8, Shape
  <2>6. Phase1(r5, r12)' /\ Phase2(r5, r8, r5 + 1)'
    BY <1>1, <1>4, <2>3 DEF Phase1, Phase2
  <2> QED BY <1>1, <1>4, <2>5, <2>6 DEF GAfter
<1>7. GEnd'
  <2>1. ASSUME pc' = "REWIN" PROVE tally = WinAt /\ ~Hit
    <3>1. r12 # 0 /\ r8 # 0
      BY <1>1, <1>3, <1>4, <2>1, PhaseZero, PhaseAssumption
    <3> QED BY <1>1, <1>3, <1>4, <2>1, <3>1, HitWhenShown
  <2> QED BY <1>1, <2>1 DEF GInv, GEnd, Hit, InFront
<1>8. GStart' /\ GLoop' /\ GRoad1' /\ GRoad2' /\ GDrawn'
  BY <1>1 DEF GStart, GLoop, GRoad1, GRoad2, GDrawn
<1>9. GSweep'
  BY <1>1, <1>3, <1>5, Numbers DEF GSweep
<1>10. banner' \in {"none", HowToPlay}
  BY <1>1 DEF GInv, GEnd
<1> QED BY <1>1, <1>2, <1>6, <1>7, <1>8, <1>9, <1>10, Quiet DEF GInv

LEMMA GInvDELAY == GInv /\ DELAY => GInv'
<1> SUFFICES ASSUME GInv, DELAY PROVE GInv'
  OBVIOUS
<1>1. /\ pc = "DELAY" /\ pc' = "NEXT" /\ banner' = banner /\ key' = key /\ frame' = frame
      /\ r5' = r5 /\ r12' = r12 /\ r8' = r8 /\ screen' = screen
  BY DEF DELAY, memory, console
<1>2. TInv'
  BY TInvNext DEF GInv, Next, Processor
<1>3. GAfter'
  BY <1>1 DEF GInv, GAfter, Between, Unseen, Blanked, Shape, CarShown, Fresh
<1>4. GStart' /\ GLoop' /\ GRoad1' /\ GRoad2' /\ GDrawn' /\ GSweep'
  BY <1>1 DEF GInv, GStart, GLoop, GRoad1, GRoad2, GDrawn, GSweep
<1>5. GEnd' /\ banner' \in {"none", HowToPlay}
  BY <1>1 DEF GInv, GEnd
<1> QED BY <1>1, <1>2, <1>3, <1>4, <1>5, Quiet DEF GInv

LEMMA GInvNEXT == GInv /\ NEXT => GInv'
<1> SUFFICES ASSUME GInv, NEXT PROVE GInv'
  OBVIOUS
<1>1. /\ pc = "NEXT" /\ pc' \in {"LOOP", "EXIT2"} /\ banner' = banner /\ key' = key
      /\ frame' = frame /\ r5' = r5 /\ r6' = r12 /\ r8' = r8 /\ screen' = screen
  BY DEF NEXT, memory, console
<1>2. TInv'
  BY TInvNext DEF GInv, Next, Processor
<1>3. GLoop'
  BY <1>1 DEF GInv, GAfter, GLoop, Between, Unseen, Blanked, Shape, CarShown, Fresh
<1>4. GStart' /\ GRoad1' /\ GRoad2' /\ GDrawn' /\ GAfter' /\ GSweep'
  BY <1>1 DEF GInv, GStart, GRoad1, GRoad2, GDrawn, GAfter, GSweep
<1>5. GEnd' /\ banner' \in {"none", HowToPlay}
  BY <1>1 DEF GInv, GEnd
<1> QED BY <1>1, <1>2, <1>3, <1>4, <1>5, Quiet DEF GInv

LEMMA GInvEnding == GInv /\ (RENON \/ REWIN \/ EXIT2) => GInv'
<1> SUFFICES ASSUME GInv, RENON \/ REWIN \/ EXIT2 PROVE GInv'
  OBVIOUS
<1>1. /\ pc \in {"RENON", "REWIN", "EXIT2"} /\ pc' \in {"EXIT2", "halted"}
      /\ frame' = frame /\ tally' = tally /\ key' = key /\ r8' = r8
      /\ \/ pc = "RENON" /\ banner' = GameOver
         \/ pc = "REWIN" /\ banner' = YouWin
         \/ banner' = banner
  BY DEF RENON, REWIN, EXIT2, regs, console
<1>2. TInv'
  BY TInvNext DEF GInv, Next, Processor
<1>3. FrameLegible' /\ RoadOpen'
  BY <1>1 DEF GInv, FrameLegible, LegibleRoad, RoadOpen
<1>4. VerdictFair'
  BY <1>1 DEF GInv, GEnd, VerdictFair, Hit, InFront, GameOver, YouWin
<1>5. /\ GStart' /\ GLoop' /\ GRoad1' /\ GRoad2' /\ GDrawn' /\ GAfter' /\ GSweep' /\ GEnd'
  BY <1>1
  DEF GInv, GStart, GLoop, GRoad1, GRoad2, GDrawn, GAfter, GSweep, GEnd
<1> QED BY <1>2, <1>3, <1>4, <1>5 DEF GInv

LEMMA GInvStutter == GInv /\ UNCHANGED vars => GInv'
<1> SUFFICES ASSUME GInv, UNCHANGED vars PROVE GInv'
  OBVIOUS
<1>1. /\ pc' = pc /\ screen' = screen /\ frame' = frame /\ tally' = tally
      /\ banner' = banner /\ key' = key
      /\ r5' = r5 /\ r6' = r6 /\ r8' = r8 /\ r12' = r12
  BY DEF vars, regs, memory, console
<1>2. TInv'
  BY TInvNext DEF GInv
<1>3. GStart' /\ GLoop' /\ GAfter'
  BY <1>1
  DEF GInv, GStart, GLoop, GAfter, Between, Unseen, Blanked, Shape, CarShown, Fresh
<1>4. GRoad1' /\ GRoad2' /\ GDrawn'
  BY <1>1
  DEF GInv, GRoad1, GRoad2, GDrawn, Covered, Blanked, Shape, CarShown, Fresh
<1>5. GSweep' /\ GEnd'
  BY <1>1 DEF GInv, GSweep, GEnd, Hit, InFront
<1>6. FrameLegible' /\ RoadOpen' /\ VerdictFair'
  BY <1>1 DEF GInv, FrameLegible, LegibleRoad, RoadOpen, VerdictFair, InFront
<1> QED BY <1>2, <1>3, <1>4, <1>5, <1>6 DEF GInv

LEMMA GInvNext == GInv /\ [Next]_vars => GInv'
BY GInvSTART, GInvLOOP, GInvROAD1, GInvROAD2, GInvOP, GInvOUTH, GInvRESRC2, GInvMODE,
   GInvDELAY, GInvNEXT, GInvEnding, GInvStutter
DEF Next, Processor

(* Where each obstacle is drawn and how its distance follows from the score
   holds at every call of the loop.                                         *)
THEOREM GInvInvariant == Spec => []GInv
BY GInvInit, GInvNext, PTL DEF Spec

-----------------------------------------------------------------------------
(* Every frame the player sees is legible: one car, on the road the last   *)
(* key chose, and one obstacle on each road.  LEFT covers whatever the     *)
(* frame before has left, as long as SweepAssumption holds.                *)
THEOREM FramesLegible == Spec => []FrameLegible
<1>1. GInv => FrameLegible
  BY DEF GInv
<1> QED BY <1>1, GInvInvariant, PTL

(* No frame closes both roads, for all distances and scores whose frames   *)
(* are as PhaseAssumption says.                                            *)
THEOREM RoadStaysOpen == Spec => []RoadOpen
<1>1. GInv => RoadOpen
  BY DEF GInv
<1> QED BY <1>1, GInvInvariant, PTL

(* GAME OVER follows Q or a hit, YOU WIN the winning score and no hit.     *)
THEOREM VerdictIsFair == Spec => []VerdictFair
<1>1. GInv => VerdictFair
  BY DEF GInv
<1> QED BY <1>1, GInvInvariant, PTL

(* CRASH, which looks at the registers one pass later, finds a hit exactly *)
(* when the frame on the console shows one.                                *)
THEOREM CrashMeansInFront == Spec => CrashIffInFront
<1>1. GInv /\ [Next]_vars
      => [pc = "LOOP" => (pc' = "RENON" <=> \E i \in Road : InFront(frame[i]))]_vars
  <2> SUFFICES ASSUME GInv, Next, pc = "LOOP"
               PROVE  pc' = "RENON" <=> \E i \in Road : InFront(frame[i])
    OBVIOUS
  <2>1. LOOP
    BY DEF Next, Processor, START, LOOP, ROAD1, ROAD2, OP, OUTH, RESRC2, MODE, DELAY,
       NEXT, RENON, REWIN, EXIT2
  <2>2. pc' = "RENON" <=> CRASH
    BY <2>1 DEF LOOP
  <2>3. Fits(r6) /\ Fits(r8) /\ r2 = Car /\ Between(r6, r8)
    BY DEF GInv, TInv, Registers, GLoop
  <2>4. CRASH <=> InFront(frame[1]) \/ InFront(frame[2])
    BY <2>3, HitIffCrash DEF CRASH
  <2> QED BY <2>2, <2>4 DEF Road
<1> QED BY <1>1, GInvInvariant, PTL DEF Spec, CrashIffInFront

-----------------------------------------------------------------------------
(* The rules.  The frame on the console is the last one the rules know of;  *)
(* what follows ties the registers to it while the next is being drawn.     *)

(* A printed road with its obstacle in column d. *)
ShowsAt(row, d) ==
  /\ row # Nothing /\ d \in DOMAIN row /\ row[d] = Obstacle
  /\ \A j \in DOMAIN row : row[j] = Obstacle => j = d

Columns    == 1 .. Width - 1
ShownScore == IF pc = "RESRC2" THEN tally - 1 ELSE tally

(* How the distances in the registers follow from the columns shown.        *)
Came1(g) ==
  /\ pc \in {"MODE", "DELAY", "NEXT"} => g = r12 + 1
  /\ pc \in {"LOOP", "ROAD1"} => g = r6 + 1
  /\ pc \in {"ROAD2", "OP", "OUTH", "RESRC2"} => g = r12 + 2 \/ g = 1
Came2(g) ==
  /\ pc \in {"MODE", "DELAY", "NEXT", "LOOP", "ROAD1"} => g = r8 + 1
  /\ pc = "ROAD2" => g = r8 + 1 \/ g = 1
  /\ pc \in {"OP", "OUTH", "RESRC2"} => g = r8 + 2 \/ g = 1

NoFrame == frame[1] = Nothing /\ frame[2] = Nothing

Seen ==
  \/ ShownScore = 0 /\ NoFrame
  \/ /\ ShownScore > 0
     /\ \E g1, g2 \in Columns :
          /\ ShowsAt(frame[1], g1) /\ ShowsAt(frame[2], g2)
          /\ Came1(g1) /\ (Came2(g2) \/ ShownScore \in {Mode1At, Mode2At})

Counted ==
  /\ pc = "START" => tally = 0
  /\ pc \in {"LOOP", "MODE", "DELAY", "NEXT"} => tally = r5
  /\ pc \in {"ROAD1", "ROAD2", "OP", "OUTH"} => tally + 1 = r5
  /\ pc = "RENON" => Hit \/ tally < WinAt

Unhit == pc \in {"ROAD1", "ROAD2", "OP", "OUTH", "RESRC2"} => ~Hit

RInv == GInv /\ Seen /\ Counted /\ Unhit

LEMMA LegibleShows ==
  ASSUME NEW row, LegibleRoad(row), NEW d \in Columns, row[d] = Obstacle
  PROVE  ShowsAt(row, d)
<1>1. PICK j \in 1 .. Width - 1 :
        row[j] = Obstacle /\ \A k \in 1 .. Width - 1 : k # j => row[k] = Blank
  BY DEF LegibleRoad
<1>2. j = d
  BY <1>1, Constants DEF Columns
<1>3. /\ DOMAIN row = 0 .. Width + 1 /\ row[0] \in {Blank, Car}
      /\ row[Width] = LF /\ row[Width + 1] = CR
  BY DEF LegibleRoad
<1>4. ASSUME NEW i \in DOMAIN row, row[i] = Obstacle PROVE i = d
  <2>1. i = 0 \/ i \in 1 .. Width - 1 \/ i = Width \/ i = Width + 1
    <3>1. i \in 0 .. Width + 1
      BY <1>3
    <3> HIDE <1>3, <1>4
    <3> QED BY <3>1, Numbers
  <2> QED BY <1>1, <1>2, <1>3, <1>4, <2>1, Constants
<1>5. d \in DOMAIN row
  BY <1>3, Numbers DEF Columns
<1>6. row # Nothing
  BY <1>5 DEF Nothing
<1> QED BY <1>4, <1>5, <1>6 DEF ShowsAt

LEMMA SeenStays ==
  ASSUME Seen, frame' = frame, ShownScore' = ShownScore,
         \A g \in Columns : Came1(g) => Came1(g)',
         \A g \in Columns : Came2(g) => Came2(g)' \/ ShownScore \in {Mode1At, Mode2At}
  PROVE  Seen'
<1>1. CASE ShownScore = 0 /\ NoFrame
  BY <1>1 DEF Seen, NoFrame
<1>2. CASE ShownScore > 0 /\ ~(ShownScore = 0 /\ NoFrame)
  <2>1. PICK g1 \in Columns, g2 \in Columns :
          /\ ShowsAt(frame[1], g1) /\ ShowsAt(frame[2], g2)
          /\ Came1(g1) /\ (Came2(g2) \/ ShownScore \in {Mode1At, Mode2At})
    BY <1>2 DEF Seen
  <2>2. Came1(g1)' /\ (Came2(g2)' \/ ShownScore \in {Mode1At, Mode2At})
    BY <2>1
  <2>3. /\ ShowsAt(frame[1], g1)' /\ ShowsAt(frame[2], g2)' /\ ShownScore' > 0
    BY <1>2, <2>1
  <2>4. Columns' = Columns
    BY DEF Columns
  <2> QED BY <2>2, <2>3 DEF Seen, Columns
<1> QED BY <1>1, <1>2 DEF Seen

LEMMA RInvInit == Init => RInv
<1> SUFFICES ASSUME Init PROVE RInv
  OBVIOUS
<1>1. pc = "START" /\ tally = 0 /\ frame[1] = Nothing /\ frame[2] = Nothing
  BY DEF Init, Road
<1> QED BY <1>1, GInvInit DEF RInv, Seen, NoFrame, ShownScore, Counted, Unhit

LEMMA RInvLOOP == RInv /\ LOOP => RInv'
<1> SUFFICES ASSUME RInv, LOOP PROVE RInv'
  OBVIOUS
<1>1. /\ pc = "LOOP" /\ pc' = IF CRASH THEN "RENON" ELSE "ROAD1"
      /\ r6' = r6 /\ r8' = r8 /\ r12' = r12 /\ frame' = frame /\ tally' = tally
  BY DEF LOOP, memory, console
<1>2. GInv'
  BY GInvLOOP DEF RInv
<1>3. r5 \in Nat /\ r5' = r5 + 1 /\ r2 = Car /\ Fits(r6) /\ Fits(r8) /\ Between(r6, r8)
  BY <1>1, WordAssumption, ScoreAssumption DEF LOOP, RInv, GInv, TInv, Registers, GLoop
<1>4. CRASH <=> Hit
  BY <1>3, HitIffCrash DEF CRASH, Hit, Road
<1>5. Hit' <=> Hit
  BY <1>1 DEF Hit, InFront
<1>6. Counted'
  BY <1>1, <1>3, <1>4, <1>5 DEF RInv, Counted
<1>7. Unhit'
  BY <1>1, <1>4, <1>5 DEF Unhit
<1>8. ShownScore' = ShownScore
  BY <1>1 DEF ShownScore
<1>9. Seen'
  <2>1. \A g \in Columns : (Came1(g) => Came1(g)') /\ (Came2(g) => Came2(g)')
    BY <1>1 DEF Came1, Came2
  <2> QED BY <1>1, <1>8, <2>1, SeenStays DEF RInv
<1> QED BY <1>2, <1>6, <1>7, <1>9 DEF RInv

LEMMA RInvROAD1 == RInv /\ ROAD1 => RInv'
<1> SUFFICES ASSUME RInv, ROAD1 PROVE RInv'
  OBVIOUS
<1>1. /\ pc = "ROAD1" /\ pc' = "ROAD2" /\ r5' = r5 /\ frame' = frame /\ tally' = tally
      /\ r8' = ResetR8(r8) /\ r12' = Dec(ResetR6(Spaced(r6)))
  BY DEF ROAD1, console
<1>2. GInv'
  BY GInvROAD1 DEF RInv
<1>3. Fits(r6) /\ Fits(r8)
  BY DEF RInv, GInv, TInv, Registers
<1>4. /\ r6 \in Nat /\ r8 \in Nat /\ r12' = Spaced(r6) - 1 /\ Spaced(r6) \in Nat
  BY <1>1, <1>3, SpacedFits, DecExact, DistancesFit DEF Fits
<1>5. Hit' <=> Hit
  BY <1>1 DEF Hit, InFront
<1>6. Counted' /\ Unhit'
  BY <1>1, <1>5 DEF RInv, Counted, Unhit
<1>7. ShownScore' = ShownScore
  BY <1>1 DEF ShownScore
<1>8. ASSUME NEW g \in Columns, Came1(g) PROVE Came1(g)'
  <2>1. g = r6 + 1
    BY <1>1, <1>8 DEF Came1
  <2>2. g = r12' + 2 \/ g = 1
    BY <1>4, <2>1 DEF Spaced
  <2> QED BY <1>1, <2>2 DEF Came1
<1>9. ASSUME NEW g \in Columns, Came2(g) PROVE Came2(g)'
  <2>1. g = r8 + 1
    BY <1>1, <1>9 DEF Came2
  <2>2. g = r8' + 1 \/ g = 1
    BY <1>1, <1>4, <2>1 DEF ResetR8
  <2> QED BY <1>1, <2>2 DEF Came2
<1>10. Seen'
  BY <1>1, <1>7, <1>8, <1>9, SeenStays DEF RInv
<1> QED BY <1>2, <1>6, <1>10 DEF RInv

LEMMA RInvROAD2 == RInv /\ ROAD2 => RInv'
<1> SUFFICES ASSUME RInv, ROAD2 PROVE RInv'
  OBVIOUS
<1>1. /\ pc = "ROAD2" /\ pc' = "OP" /\ r5' = r5 /\ frame' = frame /\ tally' = tally
      /\ r8' = Dec(ResetR8(r8)) /\ r12' = r12
  BY DEF ROAD2, console
<1>2. GInv'
  BY GInvROAD2 DEF RInv
<1>3. Fits(r8) /\ r8 > 0
  BY <1>1 DEF RInv, GInv, TInv, Registers, GRoad2
<1>4. r8 \in Nat /\ r8' = r8 - 1
  <2>1. r8 \in Nat /\ r8 < Word /\ r8' = Dec(r8)
    BY <1>1, <1>3, DistancesFit DEF Fits, ResetR8
  <2> QED BY <1>3, <2>1, DecExact
<1>5. Hit' <=> Hit
  BY <1>1 DEF Hit, InFront
<1>6. Counted' /\ Unhit'
  BY <1>1, <1>5 DEF RInv, Counted, Unhit
<1>7. ShownScore' = ShownScore
  BY <1>1 DEF ShownScore
<1>8. \A g \in Columns : Came1(g) => Came1(g)'
  BY <1>1 DEF Came1
<1>9. ASSUME NEW g \in Columns, Came2(g) PROVE Came2(g)'
  <2>1. g = r8 + 1 \/ g = 1
    BY <1>1, <1>9 DEF Came2
  <2>2. g = r8' + 2 \/ g = 1
    BY <1>4, <2>1
  <2> QED BY <1>1, <2>2 DEF Came2
<1>10. Seen'
  BY <1>1, <1>7, <1>8, <1>9, SeenStays DEF RInv
<1> QED BY <1>2, <1>6, <1>10 DEF RInv

LEMMA RInvOP == RInv /\ OP => RInv'
<1> SUFFICES ASSUME RInv, OP PROVE RInv'
  OBVIOUS
<1>1. /\ pc = "OP" /\ pc' \in {"OUTH", "RENON"} /\ r5' = r5 /\ frame' = frame
      /\ tally' = tally /\ r8' = r8 /\ r12' = r12
  BY DEF OP, regs
<1>2. GInv'
  BY GInvOP DEF RInv
<1>3. tally + 1 = r5 /\ r5 \in 0 .. WinAt /\ tally \in Nat /\ WinAt \in Nat
  BY <1>1, Numbers DEF RInv, Counted, GInv, TInv, Registers, Console
<1>4. Hit' <=> Hit
  BY <1>1 DEF Hit, InFront
<1>5. Counted' /\ Unhit'
  BY <1>1, <1>3, <1>4 DEF RInv, Counted, Unhit
<1>6. ShownScore' = ShownScore
  BY <1>1 DEF ShownScore
<1>7. \A g \in Columns : (Came1(g) => Came1(g)') /\ (Came2(g) => Came2(g)')
  BY <1>1 DEF Came1, Came2
<1>8. Seen'
  BY <1>1, <1>6, <1>7, SeenStays DEF RInv
<1> QED BY <1>2, <1>5, <1>8 DEF RInv

LEMMA RInvOUTH == RInv /\ OUTH => RInv'
<1> SUFFICES ASSUME RInv, OUTH PROVE RInv'
  OBVIOUS
<1>1. /\ pc = "OUTH" /\ pc' = "RESRC2" /\ r5' = r5 /\ frame' = frame
      /\ tally' = r5 /\ r8' = r8 /\ r12' = r12
  BY DEF OUTH
<1>2. GInv'
  BY GInvOUTH DEF RInv
<1>3. tally + 1 = r5 /\ tally \in Nat
  BY <1>1, Numbers DEF RInv, Counted, GInv, TInv, Console
<1>4. Hit' <=> Hit
  BY <1>1 DEF Hit, InFront
<1>5. Counted' /\ Unhit'
  BY <1>1, <1>4 DEF RInv, Counted, Unhit
<1>6. ShownScore' = ShownScore
  BY <1>1, <1>3 DEF ShownScore
<1>7. \A g \in Columns : (Came1(g) => Came1(g)') /\ (Came2(g) => Came2(g)')
  BY <1>1 DEF Came1, Came2
<1>8. Seen'
  BY <1>1, <1>6, <1>7, SeenStays DEF RInv
<1> QED BY <1>2, <1>5, <1>8 DEF RInv

(* The columns of the frame that is about to be printed. *)
LEMMA NextFrame ==
  ASSUME RInv, RESRC2
  PROVE  /\ r12 \in Nat /\ r12 + 1 \in Columns /\ ShowsAt(frame'[1], r12 + 1)
         /\ r8 \in Nat /\ r8 + 1 \in Columns /\ ShowsAt(frame'[2], r8 + 1)
         /\ pc = "RESRC2" /\ pc' = "MODE" /\ r12' = r12 /\ r8' = r8
         /\ r5' = r5 /\ tally' = tally /\ tally = r5 /\ tally \in 1 .. WinAt
         /\ ShownScore = tally - 1 /\ ShownScore' = tally
<1>1. /\ pc = "RESRC2" /\ pc' = "MODE" /\ r12' = r12 /\ r8' = r8 /\ r5' = r5
      /\ tally' = tally
  BY DEF RESRC2, regs
<1>2. GInv'
  BY GInvRESRC2 DEF RInv
<1>3. Shape(screen, SCR1, r12 + 1)' /\ Shape(screen, SCR2, r8 + 1)' /\ Fresh'
  BY <1>1, <1>2 DEF GInv, GDrawn
<1>4. Shape(screen', SCR1, r12 + 1) /\ Shape(screen', SCR2, r8 + 1)
  BY <1>1, <1>3 DEF Shape
<1>5. /\ r12 \in Nat /\ r12 + 1 \in Columns /\ r8 \in Nat /\ r8 + 1 \in Columns
      /\ tally \in 0 .. WinAt /\ r5 \in 0 .. WinAt
  BY Numbers DEF RInv, GInv, TInv, Registers, Console, Fits, Columns
<1>6. tally = r5 /\ r5 > 0
  BY <1>1 DEF RInv, GInv, GDrawn
<1>7. Fresh' /\ FrameLegible'
  BY <1>2, <1>3 DEF GInv
<1>8. ShowsAt(frame'[1], r12 + 1) /\ ShowsAt(frame'[2], r8 + 1)
  <2>1. PICK d1 \in Columns, d2 \in Columns : d1 = r12 + 1 /\ d2 = r8 + 1
    BY <1>5
  <2>2. LegibleRoad(frame'[1]) /\ LegibleRoad(frame'[2])
    <3>1. frame'[1] # Nothing
      <4>1. 0 \in 0 .. Width + 1
        BY Numbers
      <4> QED BY <1>7, <4>1 DEF Fresh, Nothing
    <3> QED BY <1>7, <3>1 DEF FrameLegible, LegibleRoad, Road
  <2>3. frame'[1][d1] = screen'[SCR1 + d1] /\ frame'[2][d2] = screen'[SCR2 + d2]
    <3>1. d1 \in 0 .. Width + 1 /\ d2 \in 0 .. Width + 1
      BY Numbers DEF Columns
    <3> QED BY <1>7, <3>1 DEF Fresh
  <2>4. /\ SCR1 + d1 \in Cells(SCR1) /\ SCR1 + d1 # SCR1
        /\ SCR2 + d2 \in Cells(SCR2) /\ SCR2 + d2 # SCR2
    BY Bases, Numbers DEF Cells, Columns
  <2>5. screen'[SCR1 + d1] = Obstacle /\ screen'[SCR2 + d2] = Obstacle
    BY <1>4, <2>1, <2>4 DEF Shape
  <2> QED BY <2>1, <2>2, <2>3, <2>5, LegibleShows
<1> QED BY <1>1, <1>5, <1>6, <1>8, Numbers DEF ShownScore

LEMMA RInvRESRC2 == RInv /\ RESRC2 => RInv'
<1> SUFFICES ASSUME RInv, RESRC2 PROVE RInv'
  OBVIOUS
<1>1. GInv'
  BY GInvRESRC2 DEF RInv
<1>2. Counted' /\ Unhit'
  BY NextFrame DEF Counted, Unhit
<1>3. Seen'
  <2>1. PICK d1 \in Columns, d2 \in Columns : d1 = r12 + 1 /\ d2 = r8 + 1
    BY NextFrame
  <2>2. Came1(d1)' /\ Came2(d2)'
    BY <2>1, NextFrame DEF Came1, Came2
  <2>3. ShowsAt(frame[1], d1)' /\ ShowsAt(frame[2], d2)' /\ ShownScore' > 0
    BY <2>1, NextFrame, Numbers DEF ShowsAt
  <2> QED BY <2>2, <2>3 DEF Seen, Columns
<1> QED BY <1>1, <1>2, <1>3 DEF RInv

LEMMA RInvMODE == RInv /\ MODE => RInv'
<1> SUFFICES ASSUME RInv, MODE PROVE RInv'
  OBVIOUS
<1>1. /\ pc = "MODE" /\ pc' \in {"REWIN", "DELAY"} /\ r5' = r5 /\ r12' = r12
      /\ frame' = frame /\ tally' = tally /\ (r5 \notin {Mode1At, Mode2At} => r8' = r8)
  BY DEF MODE, MODE1, MODE2, memory, console
<1>2. GInv'
  BY GInvMODE DEF RInv
<1>3. tally = r5
  BY <1>1 DEF RInv, Counted
<1>4. Counted' /\ Unhit'
  BY <1>1, <1>3 DEF Counted, Unhit
<1>5. ShownScore' = ShownScore /\ ShownScore = r5
  BY <1>1, <1>3 DEF ShownScore
<1>6. \A g \in Columns : Came1(g) => Came1(g)'
  BY <1>1 DEF Came1
<1>7. \A g \in Columns : Came2(g) => Came2(g)' \/ ShownScore \in {Mode1At, Mode2At}
  BY <1>1, <1>5 DEF Came2
<1>8. Seen'
  BY <1>1, <1>5, <1>6, <1>7, SeenStays DEF RInv
<1> QED BY <1>2, <1>4, <1>8 DEF RInv

(* The other steps change neither the console's frames nor its score.       *)
LEMMA RInvOthers ==
  RInv /\ (START \/ DELAY \/ NEXT \/ RENON \/ REWIN \/ EXIT2 \/ UNCHANGED vars) => RInv'
<1> SUFFICES ASSUME RInv,
                    START \/ DELAY \/ NEXT \/ RENON \/ REWIN \/ EXIT2 \/ UNCHANGED vars
             PROVE  RInv'
  OBVIOUS
<1>1. GInv'
  BY GInvSTART, GInvDELAY, GInvNEXT, GInvEnding, GInvStutter DEF RInv
<1>2. frame' = frame /\ tally' = tally
  BY DEF START, DELAY, NEXT, RENON, REWIN, EXIT2, vars, console
<1>3. Hit' <=> Hit
  BY <1>2 DEF Hit, InFront
<1>4. CASE START
  <2>1. /\ pc = "START" /\ pc' = "LOOP" /\ r5' = 0 /\ tally = 0
        /\ ShownScore = 0 /\ ShownScore' = 0
    BY <1>2, <1>4 DEF START, ZERO, RInv, Counted, ShownScore
  <2>2. Seen'
    BY <1>2, <2>1 DEF RInv, Seen, NoFrame
  <2> QED BY <1>1, <1>2, <2>1, <2>2 DEF RInv, Counted, Unhit
<1>5. CASE DELAY \/ NEXT
  <2>1. \/ pc = "DELAY" /\ pc' = "NEXT" /\ r5' = r5 /\ r8' = r8 /\ r12' = r12
        \/ pc = "NEXT" /\ pc' \in {"LOOP", "EXIT2"} /\ r5' = r5 /\ r8' = r8 /\ r6' = r12
    BY <1>5 DEF DELAY, NEXT
  <2>2. Counted' /\ Unhit'
    BY <1>2, <2>1 DEF RInv, Counted, Unhit
  <2>3. ShownScore' = ShownScore
    BY <1>2, <2>1 DEF ShownScore
  <2>4. \A g \in Columns : (Came1(g) => Came1(g)') /\ (Came2(g) => Came2(g)')
    BY <2>1 DEF Came1, Came2
  <2>5. Seen'
    BY <1>2, <2>3, <2>4, SeenStays DEF RInv
  <2> QED BY <1>1, <2>2, <2>5 DEF RInv
<1>6. CASE RENON \/ REWIN \/ EXIT2
  <2>1. pc \in {"RENON", "REWIN", "EXIT2"} /\ pc' \in {"EXIT2", "halted"}
    BY <1>6 DEF RENON, REWIN, EXIT2
  <2>2. Counted' /\ Unhit'
    BY <2>1 DEF Counted, Unhit
  <2>3. ShownScore' = ShownScore
    BY <1>2, <2>1 DEF ShownScore
  <2>4. \A g \in Columns : (Came1(g) => Came1(g)') /\ (Came2(g) => Came2(g)')
    BY <2>1 DEF Came1, Came2
  <2>5. Seen'
    BY <1>2, <2>3, <2>4, SeenStays DEF RInv
  <2> QED BY <1>1, <2>2, <2>5 DEF RInv
<1>7. CASE UNCHANGED vars
  <2>1. pc' = pc /\ r5' = r5 /\ r6' = r6 /\ r8' = r8 /\ r12' = r12
    BY <1>7 DEF vars, regs
  <2>2. Counted' /\ Unhit'
    BY <1>2, <1>3, <2>1 DEF RInv, Counted, Unhit
  <2>3. ShownScore' = ShownScore
    BY <1>2, <2>1 DEF ShownScore
  <2>4. \A g \in Columns : (Came1(g) => Came1(g)') /\ (Came2(g) => Came2(g)')
    BY <2>1 DEF Came1, Came2
  <2>5. Seen'
    BY <1>2, <2>3, <2>4, SeenStays DEF RInv
  <2> QED BY <1>1, <2>2, <2>5 DEF RInv
<1> QED BY <1>4, <1>5, <1>6, <1>7

LEMMA RInvNext == RInv /\ [Next]_vars => RInv'
BY RInvLOOP, RInvROAD1, RInvROAD2, RInvOP, RInvOUTH, RInvRESRC2, RInvMODE, RInvOthers
DEF Next, Processor

(* The registers follow from the frame the player sees, at every call.      *)
THEOREM RInvInvariant == Spec => []RInv
BY RInvInit, RInvNext, PTL DEF Spec

-----------------------------------------------------------------------------
(* An obstacle is never seen to skip a column.                              *)

LEMMA ApproachStep ==
  ASSUME RInv, RESRC2, NEW i \in Road, NEW j \in 2 .. Width - 1,
         ObstacleIn(frame[i], j), ~(i = 2 /\ tally \in {Mode1At + 1, Mode2At + 1})
  PROVE  ObstacleIn(frame'[i], j - 1)
<1>1. ShownScore = tally - 1 /\ tally \in Nat /\ pc = "RESRC2"
  BY NextFrame, Numbers
<1>2. ~NoFrame
  BY DEF NoFrame, ObstacleIn, Nothing, Road
<1>3. PICK g1 \in Columns, g2 \in Columns :
        /\ ShowsAt(frame[1], g1) /\ ShowsAt(frame[2], g2)
        /\ Came1(g1) /\ (Came2(g2) \/ ShownScore \in {Mode1At, Mode2At})
  BY <1>2 DEF RInv, Seen
<1>4. j \in Int /\ j > 1
  BY Numbers
<1>5. CASE i = 1
  <2>1. j = g1
    BY <1>3, <1>5 DEF ObstacleIn, ShowsAt
  <2>2. g1 = r12 + 2
    BY <1>1, <1>3, <1>4, <2>1 DEF Came1
  <2>3. j - 1 = r12 + 1
    BY <2>1, <2>2, NextFrame
  <2> QED BY <1>5, <2>3, NextFrame DEF ShowsAt, ObstacleIn
<1>6. CASE i = 2
  <2>1. j = g2
    BY <1>3, <1>6 DEF ObstacleIn, ShowsAt
  <2>2. ShownScore \notin {Mode1At, Mode2At}
    BY <1>1, <1>6, Numbers
  <2>3. g2 = r8 + 2
    BY <1>1, <1>3, <1>4, <2>1, <2>2 DEF Came2
  <2>4. j - 1 = r8 + 1
    BY <2>1, <2>3, NextFrame
  <2> QED BY <1>6, <2>4, NextFrame DEF ShowsAt, ObstacleIn
<1> QED BY <1>5, <1>6 DEF Road

(* From one frame to the next an obstacle comes one column closer, for all  *)
(* numbers the assumptions admit; it jumps only from next to the car's      *)
(* column, or, on road 2, when MODE1 or MODE2 has pushed it back.           *)
THEOREM ObstaclesComeCloser == Spec => ObstaclesApproach
<1>1. RInv /\ [Next]_vars
      => [\A i \in Road : \A j \in 2 .. Width - 1 :
            /\ frame' # frame /\ ObstacleIn(frame[i], j)
            /\ ~(i = 2 /\ tally \in {Mode1At + 1, Mode2At + 1})
            => ObstacleIn(frame'[i], j - 1)]_vars
  <2> SUFFICES ASSUME RInv, Next, frame' # frame
               PROVE  \A i \in Road : \A j \in 2 .. Width - 1 :
                        /\ ObstacleIn(frame[i], j)
                        /\ ~(i = 2 /\ tally \in {Mode1At + 1, Mode2At + 1})
                        => ObstacleIn(frame'[i], j - 1)
    OBVIOUS
  <2>1. RESRC2
    BY DEF Next, Processor, START, LOOP, ROAD1, ROAD2, OP, OUTH, MODE, DELAY,
       NEXT, RENON, REWIN, EXIT2, console
  <2> QED BY <2>1, ApproachStep
<1> QED BY <1>1, RInvInvariant, PTL DEF Spec, ObstaclesApproach

-----------------------------------------------------------------------------
(* Every run of the program is a game by the rules it prints.               *)

LEMMA NearestShown ==
  ASSUME NEW row, NEW d, ShowsAt(row, d)
  PROVE  NearestIn(row) = d
BY DEF ShowsAt, NearestIn

(* One lane has the car. *)
LEMMA OneCar ==
  ASSUME FrameLegible, Shown
  PROVE  /\ frame[1][0] = Car \/ frame[2][0] = Car
         /\ ~(frame[1][0] = Car /\ frame[2][0] = Car)
BY DEF FrameLegible, Shown, LegibleRoad, Road

(* The abstract state. *)
CarSeen    == IF Shown /\ frame[2][0] = Car THEN 2 ELSE 1
GapSeen    == [i \in Road |-> IF Shown THEN NearestIn(frame[i]) ELSE 2]
StatusSeen == CASE banner = GameOver -> "lost"
                [] banner = YouWin   -> "won"
                [] OTHER             -> "playing"

(* A hit by the rules is one the frame shows. *)
LEMMA SameHit ==
  ASSUME RInv
  PROVE  Rules!Hit <=> Hit
<1>1. CASE ShownScore = 0 /\ NoFrame
  BY <1>1 DEF Rules!Hit, Hit, InFront, NoFrame, ShownScore, Road
<1>2. CASE ~(ShownScore = 0 /\ NoFrame)
  <2>1. PICK g1 \in Columns, g2 \in Columns :
          ShowsAt(frame[1], g1) /\ ShowsAt(frame[2], g2) /\ ShownScore > 0
    BY <1>2 DEF RInv, Seen
  <2>2. Shown
    BY <2>1 DEF Shown, ShowsAt
  <2>3. NearestIn(frame[1]) = g1 /\ NearestIn(frame[2]) = g2
    BY <2>1, NearestShown
  <2>4. /\ frame[1][0] = Car \/ frame[2][0] = Car
        /\ ~(frame[1][0] = Car /\ frame[2][0] = Car)
    BY <2>2, OneCar DEF RInv, GInv
  <2>5. LegibleRoad(frame[1]) /\ LegibleRoad(frame[2])
    BY <2>2 DEF RInv, GInv, FrameLegible, Shown, Road
  <2>6. (frame[1][1] = Obstacle <=> g1 = 1) /\ (frame[2][1] = Obstacle <=> g2 = 1)
    <3>1. 1 \in DOMAIN frame[1] /\ 1 \in DOMAIN frame[2]
      BY <2>5, Numbers DEF LegibleRoad
    <3> QED BY <2>1, <3>1 DEF ShowsAt
  <2>7. Hit <=> (frame[1][0] = Car /\ g1 = 1) \/ (frame[2][0] = Car /\ g2 = 1)
    BY <2>1, <2>6 DEF Hit, InFront, ShowsAt, Road
  <2>8. Rules!Hit <=> IF frame[2][0] = Car THEN g2 = 1 ELSE g1 = 1
    BY <2>1, <2>2, <2>3 DEF Rules!Hit, ShownScore, Road
  <2> QED BY <2>4, <2>7, <2>8
<1> QED BY <1>1, <1>2

(* The rules read off the console. *)
LEMMA RulesSeen ==
  /\ Rules!Frame <=>
       /\ StatusSeen = "playing" /\ ShownScore < WinAt /\ ~Rules!Hit
       /\ ShownScore' = ShownScore + 1
       /\ CarSeen' \in Road
       /\ GapSeen' \in [Road -> 1 .. Width]
       /\ \E i \in Road : GapSeen'[i] # 1
       /\ ShownScore > 0 =>
            /\ GapSeen'[1] = GapSeen[1] - 1 \/ GapSeen[1] = 1
            /\ \/ GapSeen'[2] = GapSeen[2] - 1 \/ GapSeen[2] = 1
               \/ ShownScore \in {Mode1At, Mode2At}
       /\ StatusSeen' = StatusSeen
  /\ Rules!rules = <<ShownScore, CarSeen, GapSeen, StatusSeen>>
  /\ Rules!rules' = <<ShownScore', CarSeen', GapSeen', StatusSeen'>>
BY DEF Rules!Frame, Rules!Moves, Rules!Lane, Rules!rules, Road,
       ShownScore, CarSeen, GapSeen, StatusSeen

LEMMA VerdictsSeen ==
  /\ Rules!Lose <=>
       /\ StatusSeen = "playing" /\ Rules!Hit /\ StatusSeen' = "lost"
       /\ ShownScore' = ShownScore /\ CarSeen' = CarSeen /\ GapSeen' = GapSeen
  /\ Rules!Quit <=>
       /\ StatusSeen = "playing" /\ ~Rules!Hit /\ ShownScore < WinAt /\ StatusSeen' = "lost"
       /\ ShownScore' = ShownScore /\ CarSeen' = CarSeen /\ GapSeen' = GapSeen
  /\ Rules!Win <=>
       /\ StatusSeen = "playing" /\ ShownScore = WinAt /\ ~Rules!Hit /\ StatusSeen' = "won"
       /\ ShownScore' = ShownScore /\ CarSeen' = CarSeen /\ GapSeen' = GapSeen
BY DEF Rules!Lose, Rules!Quit, Rules!Win, ShownScore, CarSeen, GapSeen, StatusSeen, Road

LEMMA RulesInit == Init => Rules!Init
<1> SUFFICES ASSUME Init PROVE Rules!Init
  OBVIOUS
<1>1. pc = "START" /\ tally = 0 /\ banner = "none" /\ ~Shown
  BY DEF Init, Shown, Road
<1>2. 2 \in 1 .. Width
  BY Numbers
<1> QED BY <1>1, <1>2 DEF Rules!Init, Rules!Lane, Road, GameOver, YouWin

(* While the game goes on no verdict is shown. *)
LEMMA Playing ==
  ASSUME RInv, pc \notin {"EXIT2", "halted"}
  PROVE  StatusSeen = "playing"
BY DEF RInv, GInv, GEnd, StatusSeen, HowToPlay, GameOver, YouWin

(* RESRC2 shows the next frame of the rules. *)
LEMMA FrameByRules ==
  ASSUME RInv, RESRC2
  PROVE  Rules!Frame
<1>1. RInv'
  BY RInvRESRC2
<1>2. StatusSeen = "playing" /\ StatusSeen' = "playing"
  <2>1. pc = "RESRC2" /\ banner' = banner
    BY DEF RESRC2
  <2>2. StatusSeen = "playing"
    BY <2>1, Playing
  <2> QED BY <2>1, <2>2 DEF StatusSeen
<1>3. /\ ShownScore = tally - 1 /\ ShownScore' = tally /\ tally \in Nat
      /\ tally <= WinAt /\ WinAt \in Nat
  BY NextFrame, Numbers
<1>4. ~Rules!Hit
  BY SameHit, NextFrame DEF RInv, Unhit
<1>5. PICK d1 \in Columns, d2 \in Columns :
        d1 = r12 + 1 /\ d2 = r8 + 1 /\ ShowsAt(frame'[1], d1) /\ ShowsAt(frame'[2], d2)
  BY NextFrame
<1>6. /\ NearestIn(frame'[1]) = d1 /\ NearestIn(frame'[2]) = d2 /\ Shown'
  BY <1>5, NearestShown DEF ShowsAt, Shown
<1>7. GapSeen'[1] = d1 /\ GapSeen'[2] = d2 /\ GapSeen' \in [Road -> 1 .. Width]
  <2>1. d1 \in 1 .. Width /\ d2 \in 1 .. Width
    BY Numbers DEF Columns
  <2> QED BY <1>6, <2>1 DEF GapSeen, Road
<1>8. CarSeen' \in Road
  BY DEF CarSeen, Road
<1>9. \E i \in Road : GapSeen'[i] # 1
  <2>1. RoadOpen'
    BY <1>1 DEF RInv, GInv
  <2>2. LegibleRoad(frame'[1]) /\ LegibleRoad(frame'[2])
    BY <1>1, <1>6 DEF RInv, GInv, FrameLegible, Shown, Road
  <2>3. ~(d1 = 1 /\ d2 = 1)
    BY <1>5, <2>1 DEF RoadOpen, ShowsAt, Road
  <2> QED BY <1>7, <2>3 DEF Road
<1>10. ASSUME ShownScore > 0
       PROVE  /\ GapSeen'[1] = GapSeen[1] - 1 \/ GapSeen[1] = 1
              /\ \/ GapSeen'[2] = GapSeen[2] - 1 \/ GapSeen[2] = 1
                 \/ ShownScore \in {Mode1At, Mode2At}
  <2>1. PICK g1 \in Columns, g2 \in Columns :
          /\ ShowsAt(frame[1], g1) /\ ShowsAt(frame[2], g2)
          /\ Came1(g1) /\ (Came2(g2) \/ ShownScore \in {Mode1At, Mode2At})
    BY <1>3, <1>10 DEF RInv, Seen
  <2>2. NearestIn(frame[1]) = g1 /\ NearestIn(frame[2]) = g2 /\ Shown
    BY <2>1, NearestShown DEF ShowsAt, Shown
  <2>3. GapSeen[1] = g1 /\ GapSeen[2] = g2
    BY <2>2 DEF GapSeen, Road
  <2>4. g1 = r12 + 2 \/ g1 = 1
    BY <2>1, NextFrame DEF Came1
  <2>5. g2 = r8 + 2 \/ g2 = 1 \/ ShownScore \in {Mode1At, Mode2At}
    BY <2>1, NextFrame DEF Came2
  <2>6. (d1 = g1 - 1 \/ g1 = 1) /\ (d2 = g2 - 1 \/ g2 = 1 \/ ShownScore \in {Mode1At, Mode2At})
    BY <1>5, <2>4, <2>5, NextFrame
  <2> QED BY <1>7, <2>3, <2>6
<1>11. ShownScore < WinAt /\ ShownScore' = ShownScore + 1
  BY <1>3
<1> QED BY <1>2, <1>4, <1>7, <1>8, <1>9, <1>10, <1>11, RulesSeen

(* What does not print is no step of the rules, and a verdict is one.       *)
LEMMA SameFrame ==
  ASSUME frame' = frame, ShownScore' = ShownScore
  PROVE  ShownScore' = ShownScore /\ CarSeen' = CarSeen /\ GapSeen' = GapSeen
BY DEF CarSeen, GapSeen, Shown

LEMMA StepByRules ==
  ASSUME RInv, [Next]_vars
  PROVE  [Rules!Next]_(Rules!rules)
<1>1. CASE RESRC2
  BY <1>1, FrameByRules DEF Rules!Next
<1>2. CASE RENON
  <2>1. /\ pc = "RENON" /\ pc' = "EXIT2" /\ frame' = frame /\ tally' = tally
        /\ banner' = GameOver
    BY <1>2 DEF RENON
  <2>2. ShownScore' = ShownScore /\ ShownScore = tally
    BY <2>1 DEF ShownScore
  <2>3. StatusSeen = "playing" /\ StatusSeen' = "lost"
    BY <2>1, Playing DEF StatusSeen, GameOver, YouWin
  <2>4. Hit \/ tally < WinAt
    BY <2>1 DEF RInv, Counted
  <2>5. Rules!Lose \/ Rules!Quit
    BY <2>1, <2>2, <2>3, <2>4, SameFrame, SameHit, VerdictsSeen
  <2> QED BY <2>5 DEF Rules!Next
<1>3. CASE REWIN
  <2>1. /\ pc = "REWIN" /\ pc' = "EXIT2" /\ frame' = frame /\ tally' = tally
        /\ banner' = YouWin
    BY <1>3 DEF REWIN
  <2>2. ShownScore' = ShownScore /\ ShownScore = tally
    BY <2>1 DEF ShownScore
  <2>3. StatusSeen = "playing" /\ StatusSeen' = "won"
    BY <2>1, Playing DEF StatusSeen, GameOver, YouWin
  <2>4. tally = WinAt /\ ~Hit
    BY <2>1 DEF RInv, GInv, GEnd
  <2>5. Rules!Win
    BY <2>1, <2>2, <2>3, <2>4, SameFrame, SameHit, VerdictsSeen
  <2> QED BY <2>5 DEF Rules!Next
<1>4. CASE START
  <2>1. /\ pc = "START" /\ pc' = "LOOP" /\ frame' = frame /\ tally' = tally
        /\ banner' = HowToPlay
    BY <1>4 DEF START
  <2>2. ShownScore' = ShownScore
    BY <2>1 DEF ShownScore
  <2>3. StatusSeen = "playing" /\ StatusSeen' = "playing"
    BY <2>1, Playing DEF StatusSeen, HowToPlay, GameOver, YouWin
  <2> QED BY <2>1, <2>2, <2>3, SameFrame, RulesSeen
<1>5. CASE OUTH
  <2>1. /\ pc = "OUTH" /\ pc' = "RESRC2" /\ frame' = frame /\ tally' = r5
        /\ banner' = banner
    BY <1>5 DEF OUTH
  <2>2. tally + 1 = r5 /\ tally \in Nat
    BY <2>1, Numbers DEF RInv, Counted, GInv, TInv, Console
  <2>3. ShownScore' = ShownScore
    BY <2>1, <2>2 DEF ShownScore
  <2> QED BY <2>1, <2>3, SameFrame, RulesSeen DEF StatusSeen
<1>6. CASE \/ LOOP \/ ROAD1 \/ ROAD2 \/ OP \/ MODE \/ DELAY \/ NEXT \/ EXIT2
           \/ UNCHANGED vars
  <2>1. /\ frame' = frame /\ tally' = tally /\ banner' = banner
        /\ pc' = "RESRC2" <=> pc = "RESRC2"
    BY <1>6 DEF LOOP, ROAD1, ROAD2, OP, MODE, MODE1, MODE2, DELAY, NEXT, EXIT2, vars,
                console
  <2>2. ShownScore' = ShownScore
    BY <2>1 DEF ShownScore
  <2> QED BY <2>1, <2>2, SameFrame, RulesSeen DEF StatusSeen
<1> QED BY <1>1, <1>2, <1>3, <1>4, <1>5, <1>6 DEF Next, Processor

(* The program plays by the rules it prints, for all numbers the            *)
(* assumptions admit: the safety part of ImplementsRules.                   *)
THEOREM RulesFollowed == Spec => Rules!Init /\ [][Rules!Next]_(Rules!rules)
<1>1. Init => Rules!Init
  BY RulesInit
<1>2. RInv /\ [Next]_vars => [Rules!Next]_(Rules!rules)
  BY StepByRules
<1> QED BY <1>1, <1>2, RInvInvariant, PTL DEF Spec
=============================================================================
