-------------------------- MODULE DodgeRoad_proofs --------------------------
(***************************************************************************)
(* Proofs about DodgeRoad: the loops of SPACE and LEFT draw the road that  *)
(* SPACE_LEFT describes, for any distance that fits it.                    *)
(***************************************************************************)
EXTENDS DodgeRoad, TLAPS

(* The distance SPACE draws: r6 after the reload. *)
D == Spaced(entry.r6)

(* What area holds when the first n bytes from b are stored.               *)
Painted(old, b, d, n) ==
  [a \in Address |->
     IF a >= b /\ a < b + n
     THEN IF a = b + d THEN Obstacle ELSE Blank
     ELSE old[a]]

(* r1 has advanced by as many bytes as are stored, and r4 tells how many.  *)
Progress ==
  /\ pc = "SPACE"  => r1 = base /\ r6 \in {entry.r6, Reload1}
                      /\ (r6 # entry.r6 => entry.r6 = 0)
  /\ pc = "SPACEL" => r4 \in 0 .. D - 1 /\ r1 = base + r4
  /\ pc = "B"      => r1 = base + D
  /\ pc = "LEFT"   => r1 = base + D + 1
  /\ pc = "LEFTL"  => r4 \in 0 .. D /\ r1 = base + D + 1 + (D - r4)
  /\ pc = "LEFTX"  => r1 = base + 2 * D + 2
  /\ pc # "SPACE"  => r6 = D

Inv ==
  /\ pc \in {"SPACE", "SPACEL", "B", "LEFT", "LEFTL", "LEFTX"}
  /\ base \in {SCR1, SCR2}
  /\ entry.r6 \in Nat /\ 2 * entry.r6 + 2 <= Width
  /\ entry.area \in [Address -> Byte]
  /\ Progress
  /\ area = Painted(entry.area, base, D, r1 - base)

-----------------------------------------------------------------------------

LEMMA DFits ==
  ASSUME entry.r6 \in Nat, 2 * entry.r6 + 2 <= Width
  PROVE  D \in Nat \ {0} /\ 2 * D + 2 <= Width /\ Width \in Nat /\ Reload1 \in Nat \ {0}
BY GeometryAssumption DEF D, Spaced, Distances

(* Storing the right byte behind a painted stretch makes it one longer.    *)
LEMMA StorePaints ==
  ASSUME Inv, NEW n, n \in 0 .. Width - 1, r1 = base + n, NEW b,
         b = (IF n = D THEN Obstacle ELSE Blank),
         Store(b)
  PROVE  /\ area' = Painted(entry.area, base, D, n + 1)
         /\ r1' = base + n + 1
<1>1. Width \in Nat /\ D \in Nat /\ base \in Nat
  BY DFits DEF Inv, SCR1, SCR2, Stride
<1>2. area = Painted(entry.area, base, D, n)
  <2>1. r1 - base = n
    BY <1>1
  <2> QED BY <2>1 DEF Inv
<1>3. area' = [area EXCEPT ![base + n] = b]
  BY DEF Store
<1>4. \A a \in Address : area'[a] = Painted(entry.area, base, D, n + 1)[a]
  <2> TAKE a \in Address
  <2>1. a \in Int
    BY <1>1 DEF Address, Stride
  <2>2. area'[a] = IF a = base + n THEN b ELSE Painted(entry.area, base, D, n)[a]
    BY <1>2, <1>3 DEF Painted
  <2>3. CASE a = base + n
    BY <1>1, <2>1, <2>2, <2>3 DEF Painted
  <2>4. CASE a # base + n
    BY <1>1, <2>1, <2>2, <2>4 DEF Painted
  <2> QED BY <2>3, <2>4
<1>5. area' = Painted(entry.area, base, D, n + 1)
  BY <1>2, <1>3, <1>4 DEF Painted
<1> QED BY <1>1, <1>5 DEF Store

LEMMA InvInit == Init => Inv
<1> SUFFICES ASSUME Init PROVE Inv
  OBVIOUS
<1>1. Width \in Nat /\ r1 = base /\ entry.r6 = r6 /\ entry.area = area
  BY GeometryAssumption DEF Init
<1>2. base \in Nat /\ base - base = 0
  BY <1>1 DEF Init, SCR1, SCR2, Stride
<1>3. area \in [Address -> Byte]
  BY AreasAssumption DEF Init
<1>4. area = Painted(entry.area, base, D, 0)
  <2>1. \A a \in Address : Painted(entry.area, base, D, 0)[a] = area[a]
    <3> TAKE a \in Address
    <3>1. a \in Int
      BY <1>1 DEF Address, Stride
    <3> QED BY <1>1, <1>2, <3>1 DEF Painted
  <2> QED BY <2>1, <1>3 DEF Painted
<1>5. Progress
  BY <1>1 DEF Init, Progress
<1> QED BY <1>1, <1>2, <1>3, <1>4, <1>5 DEF Init, Inv

LEMMA InvNext == Inv /\ [Next]_vars => Inv'
<1> SUFFICES ASSUME Inv, [Next]_vars PROVE Inv'
  OBVIOUS
<1>d. /\ D \in Nat \ {0} /\ 2 * D + 2 <= Width /\ Width \in Nat
      /\ Reload1 \in Nat \ {0} /\ base \in Nat
  BY DFits DEF Inv, SCR1, SCR2, Stride
<1>same. UNCHANGED <<base, entry>> => D' = D
  BY DEF D, Spaced
<1>1. CASE SPACE
  <2>1. /\ r6 \in {entry.r6, Reload1} /\ r1 = base
        /\ r6 # entry.r6 => entry.r6 = 0
    BY <1>1 DEF SPACE, Inv, Progress
  <2>2. r6 = 0 => entry.r6 = 0
    BY <2>1, <1>d
  <2>3. r6 # 0 => r6 = D
    BY <2>1 DEF D, Spaced
  <2>4. Progress'
    BY <1>1, <1>d, <1>same, <2>1, <2>2, <2>3 DEF SPACE, Progress
  <2>5. pc' \in {"SPACE", "SPACEL"}
    BY <1>1 DEF SPACE
  <2> QED BY <1>1, <1>same, <2>4, <2>5 DEF SPACE, Inv
<1>2. CASE SPACEL
  <2>1. r4 \in 0 .. D - 1 /\ r1 = base + r4 /\ r4 \in 0 .. Width - 1 /\ r4 # D
    BY <1>2, <1>d DEF SPACEL, Inv, Progress
  <2>2. area' = Painted(entry.area, base, D, r4 + 1) /\ r1' = base + r4 + 1 /\ D' = D
    BY <1>2, <2>1, <1>same, StorePaints DEF SPACEL
  <2>3. Progress'
    BY <1>2, <1>d, <2>1, <2>2 DEF SPACEL, Inv, Progress
  <2>4. r1' - base' = r4 + 1
    BY <1>2, <1>d, <2>1, <2>2 DEF SPACEL
  <2> QED BY <1>2, <2>2, <2>3, <2>4 DEF SPACEL, Inv
<1>3. CASE B
  <2>1. r1 = base + D /\ D \in 0 .. Width - 1
    BY <1>3, <1>d DEF B, Inv, Progress
  <2>2. area' = Painted(entry.area, base, D, D + 1) /\ r1' = base + D + 1 /\ D' = D
    BY <1>3, <2>1, <1>same, StorePaints DEF B
  <2>3. Progress'
    BY <1>3, <1>d, <2>1, <2>2 DEF B, Inv, Progress
  <2>4. r1' - base' = D + 1
    BY <1>3, <1>d, <2>1, <2>2 DEF B
  <2> QED BY <1>3, <2>2, <2>3, <2>4 DEF B, Inv
<1>4. CASE LEFT
  BY <1>4, <1>d, <1>same DEF LEFT, Inv, Progress
<1>5. CASE LEFTL
  <2> DEFINE n == D + 1 + (D - r4)
  <2>1. r4 \in 0 .. D /\ r1 = base + n /\ n \in 0 .. Width - 1 /\ n # D
    BY <1>5, <1>d DEF LEFTL, Inv, Progress
  <2>2. area' = Painted(entry.area, base, D, n + 1) /\ r1' = base + n + 1 /\ D' = D
    BY <1>5, <2>1, <1>same, StorePaints DEF LEFTL
  <2>3. Progress'
    BY <1>5, <1>d, <2>1, <2>2 DEF LEFTL, Inv, Progress
  <2>4. r1' - base' = n + 1
    BY <1>5, <1>d, <2>1, <2>2 DEF LEFTL
  <2> QED BY <1>5, <2>2, <2>3, <2>4 DEF LEFTL, Inv
<1>6. CASE UNCHANGED vars
  BY <1>6, <1>same DEF vars, Inv, Progress
<1> QED BY <1>1, <1>2, <1>3, <1>4, <1>5, <1>6 DEF Next

(* Memory is the picture painted so far, at every store of SPACE and LEFT.  *)
THEOREM InvInvariant == Spec => []Inv
BY InvInit, InvNext, PTL DEF Spec

(* No store of SPACE or LEFT leaves the road it draws, for every geometry. *)
THEOREM StoresStayInRoad == Spec => []StoresInRoad
<1>1. Inv => StoresInRoad
  <2> SUFFICES ASSUME Inv PROVE StoresInRoad
    OBVIOUS
  <2>1. D \in Nat \ {0} /\ 2 * D + 2 <= Width /\ Width \in Nat /\ base \in Nat
    BY DFits DEF Inv, SCR1, SCR2, Stride
  <2> QED BY <2>1 DEF Inv, Progress, StoresInRoad
<1> QED BY <1>1, InvInvariant, PTL

(* The loops return what DodgeGame's single step computes. *)
THEOREM RoadRefined == Spec => []DrawnAsOneStep
<1>1. Inv => DrawnAsOneStep
  <2> SUFFICES ASSUME Inv, pc = "LEFTX"
               PROVE  r6 = D /\ area = SPACE_LEFT(entry.area, Blank, base, D)
    BY DEF DrawnAsOneStep, D
  <2>1. D \in Nat \ {0} /\ 2 * D + 2 <= Width /\ Width \in Nat /\ base \in Nat
    BY DFits DEF Inv, SCR1, SCR2, Stride
  <2>2. r6 = D /\ r1 - base = 2 * D + 2
    BY <2>1 DEF Inv, Progress
  <2>3. area = Painted(entry.area, base, D, 2 * D + 2)
    BY <2>2 DEF Inv
  <2>4. \A a \in Address : Painted(entry.area, base, D, 2 * D + 2)[a] = SPACE_LEFT(entry.area, Blank, base, D)[a]
    <3> TAKE a \in Address
    <3>1. a \in Int /\ Blank % 256 = Blank
      BY <2>1 DEF Address, Stride, Blank
    <3> QED BY <2>1, <3>1 DEF Painted, SPACE_LEFT
  <2>5. Painted(entry.area, base, D, 2 * D + 2) = SPACE_LEFT(entry.area, Blank, base, D)
    BY <2>4 DEF Painted, SPACE_LEFT
  <2> QED BY <2>2, <2>3, <2>5
<1> QED BY <1>1, InvInvariant, PTL
=============================================================================
