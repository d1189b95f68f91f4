-------------------------- MODULE DodgeOuth_proofs --------------------------
(***************************************************************************)
(* Proofs about DodgeOuth, for every score that is not negative in its     *)
(* register and wherever the stack is: OUTH writes the decimal digits of   *)
(* the score, leaves the stack pointer as it found it and writes no word   *)
(* but the ones of Pushed.                                                 *)
(***************************************************************************)
EXTENDS DodgeOuth, TLAPS, WellFoundedInduction

(* Quotient and remainder are unique. *)
LEMMA ModUnique ==
  ASSUME NEW n \in Nat \ {0}, NEW q \in Int, NEW r \in 0 .. n - 1
  PROVE  (n * q + r) % n = r
<1> DEFINE x == n * q + r
           p == x \div n
           m == x % n
<1>0. x \in Int
  OBVIOUS
<1>1. p \in Int /\ m \in 0 .. n - 1 /\ x = n * p + m
  BY <1>0
<1> HIDE DEF p, m
<1>2. n * q - n * p = m - r
  BY <1>1
<1>3. n * (q - p) = n * q - n * p
  BY <1>1
<1>4. \A t \in Int : (t >= 1 => n * t >= n) /\ (t <= -1 => n * t <= -n)
  OBVIOUS
<1>5. q - p \in Int /\ n * (q - p) < n /\ n * (q - p) > -n
  BY <1>1, <1>2, <1>3
<1>6. q - p = 0
  BY <1>4, <1>5
<1>7. m = r
  BY <1>1, <1>2, <1>3, <1>6
<1> QED BY <1>7 DEF m

LEMMA DivMod ==
  ASSUME NEW n \in Nat \ {0}, NEW a \in Int
  PROVE  \E p \in Int : \E s \in 0 .. n - 1 : a = n * p + s /\ s = a % n
<1>1. a \div n \in Int /\ a % n \in 0 .. n - 1 /\ a = n * (a \div n) + (a % n)
  OBVIOUS
<1> QED BY <1>1

(* Adding to a remainder is adding before the remainder is taken. *)
LEMMA ModShift ==
  ASSUME NEW n \in Nat \ {0}, NEW a \in Int, NEW k \in Int
  PROVE  ((a % n) + k) % n = (a + k) % n
<1> DEFINE y == (a % n) + k
<1>1. PICK p \in Int : \E s \in 0 .. n - 1 : a = n * p + s /\ s = a % n
  BY DivMod
<1>2. PICK s \in 0 .. n - 1 : a = n * p + s /\ s = a % n
  BY <1>1
<1>3. y \in Int
  BY <1>2
<1>c. PICK q \in Int : \E r \in 0 .. n - 1 : y = n * q + r /\ r = y % n
  BY <1>3, DivMod
<1>4. PICK r \in 0 .. n - 1 : y = n * q + r /\ r = y % n
  BY <1>c
<1>5. a + k = n * (p + q) + r
  <2>1. n * (p + q) = n * p + n * q
    OBVIOUS
  <2>2. y = s + k
    BY <1>2
  <2> HIDE DEF y
  <2>3. n * p \in Int /\ n * q \in Int
    OBVIOUS
  <2> QED BY <1>2, <1>4, <2>1, <2>2, <2>3
<1>6. (n * (p + q) + r) % n = r
  <2>1. p + q \in Int
    OBVIOUS
  <2> QED BY <2>1, ModUnique
<1> QED BY <1>4, <1>5, <1>6
-----------------------------------------------------------------------------

Digit == 48 .. 57

(* Where the i-th character pushed is stored. *)
Slot(i) == WordAt((Entry(r5) - 4 * i) % Word)

(* What is still to be divided is part of the score, so none of it is      *)
(* negative to BLT.                                                        *)
Small ==
  /\ Signed(r5) = r5 /\ r5 < Word \div 2
  /\ pc = "NXT" => r0 <= r5
  /\ pc \in {"DIV0", "DIV1"} => 10 * r1 + r0 <= r5

OInv ==
  /\ Small
  /\ pc \in {"OUTH", "NXT", "DIV0", "DIV1", "NXT1", "CPLT"}
  /\ r5 \in Nat /\ r0 \in Nat /\ r1 \in Nat /\ r2 \in Nat
  /\ pc = "DIV1" => r0 \in 0 .. 9
  /\ pc = "OUTH" => r13 = Entry(r5)
  /\ pc = "CPLT" => r2 = 0
  /\ Balanced
  /\ pc # "OUTH" => \A i \in 1 .. r2 : Slot(i) \in DOMAIN stack
  /\ \A a \in DOMAIN stack : stack[a] \in Digit
  /\ console \in Seq(Digit)

LEMMA EntryFits ==
  ASSUME NEW s
  PROVE  Entry(s) \in 0 .. Word - 1 /\ Word \in Nat \ {0}
BY WordAssumption DEF Entry

LEMMA OInvInit == Init => OInv
<1> SUFFICES ASSUME Init PROVE OInv
  OBVIOUS
<1>1. r5 \in Nat
  BY ScoresAssumption DEF Init
<1>2. console \in Seq(Digit)
  BY DEF Init
<1>3. Small
  <2>1. r5 < Word \div 2 /\ pc = "OUTH"
    BY ScoresAssumption, WordAssumption DEF Init
  <2> QED BY <2>1 DEF Small, Signed
<1> QED BY <1>1, <1>2, <1>3 DEF Init, OInv, Balanced, Car

(* What BLT tests is the number itself. *)
LEMMA SmallSigned ==
  ASSUME NEW x \in Nat, x < Word \div 2
  PROVE  Signed(x) = x
BY DEF Signed

LEMMA SmallNext == OInv /\ [Next]_vars => Small'
<1> SUFFICES ASSUME OInv, [Next]_vars PROVE Small'
  OBVIOUS
<1>1. Small /\ r5 \in Nat /\ r0 \in Nat /\ r1 \in Nat /\ Word \in Nat /\ Word > 1024
  BY WordAssumption DEF OInv
<1>2. r5' = r5
  BY DEF Next, vars, OUTH, NXT, DIV0, DIV1, NXT1
<1>3. Signed(r5') = r5' /\ r5' < Word \div 2
  BY <1>1, <1>2 DEF Small
<1>4. /\ pc' = "NXT" => r0' <= r5'
      /\ pc' \in {"DIV0", "DIV1"} => 10 * r1' + r0' <= r5'
  <2>1. CASE OUTH
    BY <1>1, <1>2, <2>1 DEF OUTH
  <2>2. CASE NXT
    <3>1. pc' = "DIV0" /\ r1' = 0 /\ r0' = r0 /\ r0 <= r5
      BY <1>1, <2>2 DEF NXT, Small
    <3> QED BY <1>1, <1>2, <3>1
  <2>3. CASE DIV0
    <3>1. 10 * r1 + r0 <= r5 /\ pc' \in {"DIV0", "DIV1"}
      BY <1>1, <2>3 DEF DIV0, Small
    <3>2. CASE r0' = r0 /\ r1' = r1
      BY <1>2, <3>1, <3>2
    <3>3. CASE r0' = r0 - 10 /\ r1' = (r1 + 1) % Word /\ r0 >= 10
      <4>1. r1 + 1 \in 0 .. Word - 1
        BY <1>1, <3>1, <3>3 DEF Small
      <4>2. (Word * 0 + (r1 + 1)) % Word = r1 + 1
        BY <1>1, <4>1, ModUnique
      <4>3. r1' = r1 + 1
        BY <1>1, <3>3, <4>2
      <4> QED BY <1>1, <1>2, <3>1, <3>3, <4>3
    <3>4. Signed(r0) = r0
      BY <1>1, <3>1, SmallSigned DEF Small
    <3> QED BY <1>1, <2>3, <3>2, <3>3, <3>4 DEF DIV0
  <2>4. CASE DIV1
    <3>1. 10 * r1 + r0 <= r5 /\ r0' = r1 /\ pc' \in {"NXT", "NXT1"}
      BY <1>1, <2>4 DEF DIV1, Small
    <3> QED BY <1>1, <1>2, <3>1
  <2>5. CASE NXT1
    BY <2>5 DEF NXT1
  <2>6. CASE UNCHANGED vars
    BY <1>1, <2>6 DEF vars, Small
  <2> QED BY <2>1, <2>2, <2>3, <2>4, <2>5, <2>6 DEF Next
<1> QED BY <1>3, <1>4 DEF Small

LEMMA OInvNext == OInv /\ [Next]_vars => OInv'
<1> SUFFICES ASSUME OInv, [Next]_vars PROVE OInv'
  OBVIOUS
<1> USE DEF OInv
<1>e. Entry(r5) \in Int /\ Word \in Nat \ {0}
  BY EntryFits
<1>m. Small'
  BY SmallNext
<1>1. CASE OUTH
  <2>1. (Word * 0 + Entry(r5)) % Word = Entry(r5)
    BY EntryFits, ModUnique
  <2>2. Word * 0 + Entry(r5) = Entry(r5) - 4 * 0
    BY <1>e
  <2>3. Balanced'
    BY <1>1, <2>1, <2>2 DEF OUTH, Balanced, Entry
  <2>4. \A i \in 1 .. r2' : Slot(i)' \in DOMAIN stack'
    <3>1. r2' = 0
      BY <1>1 DEF OUTH
    <3> QED BY <3>1
  <2>5. /\ pc' = "NXT" /\ r2' = 0 /\ r0' = r5
        /\ r1' = r1 /\ r5' = r5 /\ stack' = stack /\ console' = console
    BY <1>1 DEF OUTH
  <2> QED BY <1>m, <2>3, <2>4, <2>5
<1>same. UNCHANGED <<r2, r5, r13, stack, console>> /\ pc # "OUTH" =>
           /\ Balanced'
           /\ \A i \in 1 .. r2' : Slot(i)' \in DOMAIN stack'
           /\ \A a \in DOMAIN stack' : stack'[a] \in Digit
           /\ console' \in Seq(Digit) /\ r5' \in Nat /\ r2' \in Nat
  BY DEF Balanced, Slot, Entry
<1>2. CASE NXT
  <2>1. pc' = "DIV0" /\ r0' \in Nat /\ r1' \in Nat
    BY <1>2 DEF NXT
  <2> QED BY <1>2, <1>m, <1>same, <2>1 DEF NXT
<1>3. CASE DIV0
  <2>1. /\ pc' \in {"DIV0", "DIV1"} /\ r0' \in Nat /\ r1' \in Nat
        /\ pc' = "DIV1" => r0' \in 0 .. 9
    <3>1. Signed(r0) = r0
      <4>1. r0 \in Nat /\ r0 < Word \div 2
        BY <1>3, WordAssumption DEF DIV0, Small
      <4> QED BY <4>1, SmallSigned
    <3> QED BY <1>e, <1>3, <3>1 DEF DIV0
  <2> QED BY <1>3, <1>m, <1>same, <2>1 DEF DIV0
<1>4. CASE DIV1
  <2>1. /\ r13' = (r13 - 4) % Word /\ stack' = Push(r13', r0 + 48)
        /\ r0' = r1 /\ r2' = r2 + 1 /\ r1' = r1 /\ r5' = r5 /\ console' = console
        /\ pc' \in {"NXT", "NXT1"} /\ r0 \in 0 .. 9
        /\ pc = "DIV1"
    BY <1>4 DEF DIV1
  <2>2. Balanced'
    <3>1. (((Entry(r5) - 4 * r2) % Word) + (-4)) % Word = ((Entry(r5) - 4 * r2) + (-4)) % Word
      <4>1. Entry(r5) - 4 * r2 \in Int /\ -4 \in Int
        BY <1>e
      <4> QED BY <4>1, <1>e, ModShift
    <3>2. (Entry(r5) - 4 * r2) + (-4) = Entry(r5) - 4 * (r2 + 1)
      BY <1>e
    <3>3. r13 - 4 = ((Entry(r5) - 4 * r2) % Word) + (-4)
      BY <1>e, <2>1 DEF Balanced
    <3> QED BY <2>1, <3>1, <3>2, <3>3 DEF Balanced, Entry
  <2>3. Slot(r2 + 1) = WordAt(r13')
    BY <2>1, <2>2 DEF Balanced, Slot, Entry
  <2>4. DOMAIN stack' = DOMAIN stack \cup {Slot(r2 + 1)}
    BY <2>1, <2>3 DEF Push
  <2>5. \A i \in 1 .. r2 + 1 : Slot(i) \in DOMAIN stack'
    <3> TAKE i \in 1 .. r2 + 1
    <3>1. i = r2 + 1 \/ i \in 1 .. r2
      OBVIOUS
    <3> QED BY <3>1, <2>1, <2>4
  <2>6. \A i : Slot(i)' = Slot(i)
    BY <2>1 DEF Slot, Entry
  <2>7. \A a \in DOMAIN stack' : stack'[a] \in Digit
    BY <2>1 DEF Push, Digit
  <2> QED BY <1>m, <2>1, <2>2, <2>5, <2>6, <2>7
<1>5. CASE NXT1
  <2>1. CASE r2 = 0
    BY <1>5, <1>m, <2>1 DEF NXT1, Balanced, Slot, Entry
  <2>2. CASE r2 # 0
    <3>1. /\ r0' = stack[WordAt(r13)] /\ r13' = (r13 + 4) % Word
          /\ console' = Append(console, r0') /\ r2' = r2 - 1
          /\ pc = "NXT1" /\ pc' = pc /\ r1' = r1 /\ r5' = r5 /\ stack' = stack
      BY <1>5, <2>2 DEF NXT1
    <3>2. r0' \in Digit
      BY <3>1, <2>2 DEF Balanced, Slot
    <3>3. Balanced'
      <4>1. (((Entry(r5) - 4 * r2) % Word) + 4) % Word = ((Entry(r5) - 4 * r2) + 4) % Word
        <5>1. Entry(r5) - 4 * r2 \in Int /\ 4 \in Int
          BY <1>e
        <5> QED BY <5>1, <1>e, ModShift
      <4>2. (Entry(r5) - 4 * r2) + 4 = Entry(r5) - 4 * (r2 - 1)
        BY <1>e
      <4> QED BY <3>1, <4>1, <4>2 DEF Balanced, Entry
    <3>4. \A i \in 1 .. r2' : Slot(i)' \in DOMAIN stack'
      BY <3>1 DEF Slot, Entry
    <3>5. console' \in Seq(Digit) /\ r0' \in Nat
      BY <3>1, <3>2 DEF Digit
    <3> QED BY <1>m, <2>2, <3>1, <3>3, <3>4, <3>5
  <2> QED BY <2>1, <2>2
<1>6. CASE UNCHANGED vars
  BY <1>6, <1>m DEF vars, Balanced, Slot, Entry
<1> QED BY <1>1, <1>2, <1>3, <1>4, <1>5, <1>6 DEF Next

(* OUTH's stack holds digits it has pushed, at every pass of its loops.     *)
THEOREM OInvInvariant == Spec => []OInv
BY OInvInit, OInvNext, PTL DEF Spec

(* At every instruction r13 is r2 words below where OUTH found it, modulo  *)
(* the register, so the caller gets its stack back for any score.          *)
THEOREM StackBalanced == Spec => []Balanced
<1>1. OInv => Balanced
  BY DEF OInv
<1> QED BY <1>1, OInvInvariant, PTL

(* Only digits are ever written: every pop finds a word OUTH pushed, even  *)
(* when the stack MODE2 left is unaligned and wraps below address 0.       *)
THEOREM OnlyDigits == Spec => []DigitsOnly
<1>1. OInv => DigitsOnly
  BY DEF OInv, DigitsOnly, Digit
<1> QED BY <1>1, OInvInvariant, PTL
-----------------------------------------------------------------------------

(* A set of numbers that is not empty has a least element. *)
LEMMA Least ==
  ASSUME NEW S, S \subseteq Nat, S # {}
  PROVE  \E m \in S : \A x \in S : m <= x
<1> DEFINE Less == {p \in Nat \X Nat : p[1] < p[2]}
<1>1. IsWellFoundedOn(Less, Nat)
  BY NatLessThanWellFounded, Zenon DEF OpToRel
<1>2. \E m \in S : \A y \in S : ~(<<y, m>> \in Less)
  <2> HIDE DEF Less
  <2> QED BY <1>1, WFMin
<1>3. PICK m \in S : \A y \in S : ~(<<y, m>> \in Less)
  BY <1>2
<1>4. ASSUME NEW y \in S PROVE m <= y
  <2>1. y \in Nat /\ m \in Nat
    OBVIOUS
  <2>2. CASE y < m
    <3>1. <<y, m>> \in Nat \X Nat /\ <<y, m>>[1] < <<y, m>>[2]
      BY <2>1, <2>2
    <3>2. <<y, m>> \in Less
      BY <3>1
    <3> QED BY <3>2, <1>3
  <2> QED BY <2>1, <2>2
<1> QED BY <1>4

-----------------------------------------------------------------------------
(* The table of the digits of the numbers up to m. *)
Table(g, m) ==
  /\ m \in Nat /\ DOMAIN g = 0 .. m
  /\ \A i \in 0 .. m : g[i] = IF i < 10 THEN <<i>> ELSE Append(g[i \div 10], i % 10)

(* Division by ten makes a number of two digits smaller. *)
LEMMA Tenth ==
  ASSUME NEW n \in Nat
  PROVE  /\ n \div 10 \in 0 .. n /\ n % 10 \in 0 .. 9
         /\ n = 10 * (n \div 10) + (n % 10)
         /\ n >= 10 => n \div 10 \in 1 .. n - 1
OBVIOUS

LEMMA TableUnique ==
  ASSUME NEW g, NEW h, NEW m, NEW k, Table(g, m), Table(h, k),
         NEW i \in 0 .. m, i \in 0 .. k
  PROVE  g[i] = h[i]
<1> DEFINE S == {j \in 0 .. m : j \in 0 .. k /\ g[j] # h[j]}
<1>0. m \in Nat /\ k \in Nat
  BY DEF Table
<1>1. CASE S # {}
  <2>0. S \subseteq Nat
    BY <1>0
  <2>1. PICK j \in S : \A x \in S : j <= x
    <3> HIDE DEF S
    <3> QED BY <2>0, <1>1, Least
  <2>2. j \in Nat /\ j \in 0 .. m /\ j \in 0 .. k /\ g[j] # h[j]
    BY <1>0, <2>1
  <2>3. CASE j < 10
    BY <2>2, <2>3 DEF Table
  <2>4. CASE ~(j < 10)
    <3>1. j \div 10 \in 0 .. j - 1
      BY <2>2, <2>4, Tenth
    <3>2. j \div 10 \in 0 .. m /\ j \div 10 \in 0 .. k /\ ~(j <= j \div 10)
      BY <1>0, <2>2, <3>1
    <3>3. g[j \div 10] = h[j \div 10]
      BY <2>1, <3>2
    <3> QED BY <2>2, <2>4, <3>3 DEF Table
  <2> QED BY <2>3, <2>4
<1>2. CASE S = {}
  BY <1>2
<1> QED BY <1>1, <1>2

LEMMA TableExists ==
  ASSUME NEW m \in Nat
  PROVE  \E g : Table(g, m)
<1> DEFINE S == {j \in Nat : ~ \E g : Table(g, j)}
<1>1. CASE S # {}
  <2>1. PICK j \in S : \A x \in S : j <= x
    BY <1>1, Least
  <2>2. j \in Nat /\ ~ \E g : Table(g, j)
    BY <2>1
  <2>3. CASE j = 0
    <3> DEFINE g == [i \in 0 .. 0 |-> <<i>>]
    <3>1. Table(g, 0)
      BY DEF Table
    <3> QED BY <2>2, <2>3, <3>1
  <2>4. CASE j # 0
    <3>1. j - 1 \in Nat /\ ~(j <= j - 1)
      BY <2>2, <2>4
    <3>2. PICK g : Table(g, j - 1)
      BY <2>1, <3>1
    <3> DEFINE d == IF j < 10 THEN <<j>> ELSE Append(g[j \div 10], j % 10)
               h == [i \in 0 .. j |-> IF i = j THEN d ELSE g[i]]
    <3>3. ASSUME NEW i \in 0 .. j
          PROVE  h[i] = IF i < 10 THEN <<i>> ELSE Append(h[i \div 10], i % 10)
      <4>1. i \in Nat /\ (i >= 10 => i \div 10 \in 1 .. i - 1)
        BY <2>2, <3>3, Tenth
      <4>2. i >= 10 => i \div 10 \in 0 .. j /\ i \div 10 # j
        BY <2>2, <4>1
      <4>3. i >= 10 => h[i \div 10] = g[i \div 10]
        BY <4>2
      <4>4. CASE i = j
        <5>1. h[i] = d
          BY <4>4
        <5> QED BY <5>1, <4>1, <4>3, <4>4
      <4>5. CASE i # j
        <5>1. h[i] = g[i] /\ i \in 0 .. j - 1
          BY <2>2, <4>5
        <5>2. g[i] = IF i < 10 THEN <<i>> ELSE Append(g[i \div 10], i % 10)
          BY <3>2, <5>1 DEF Table
        <5> HIDE DEF h
        <5> QED BY <4>1, <4>3, <5>1, <5>2
      <4> QED BY <4>4, <4>5
    <3>4. DOMAIN h = 0 .. j
      OBVIOUS
    <3> HIDE DEF h
    <3>5. Table(h, j)
      BY <2>2, <3>3, <3>4 DEF Table
    <3> QED BY <2>2, <3>5
  <2> QED BY <2>3, <2>4
<1>2. CASE S = {}
  BY <1>2
<1> QED BY <1>1, <1>2

(* Decimal satisfies the equation it is declared by. *)
LEMMA DecimalUnfold ==
  ASSUME NEW n \in Nat
  PROVE  Decimal[n] = IF n < 10 THEN <<n>> ELSE Append(Decimal[n \div 10], n % 10)
<1> DEFINE t(j) == CHOOSE g : Table(g, j)
           f == [j \in Nat |-> t(j)[j]]
           Body(F) == [j \in Nat |-> IF j < 10 THEN <<j>> ELSE Append(F[j \div 10], j % 10)]
<1>1. \A j \in Nat : Table(t(j), j)
  BY TableExists
<1> HIDE DEF t
<1>2. ASSUME NEW j \in Nat
      PROVE  f[j] = IF j < 10 THEN <<j>> ELSE Append(f[j \div 10], j % 10)
  <2>1. CASE j < 10
    <3>0. Table(t(j), j) /\ j \in 0 .. j
      BY <1>1
    <3>1. t(j)[j] = <<j>>
      BY <3>0, <2>1 DEF Table
    <3> QED BY <2>1, <3>1
  <2>2. CASE ~(j < 10)
    <3>1. j \div 10 \in Nat /\ j \div 10 \in 0 .. j
      BY <2>2, Tenth
    <3>2. Table(t(j), j) /\ Table(t(j \div 10), j \div 10) /\ j \div 10 \in 0 .. j \div 10
      BY <1>1, <3>1
    <3>3. t(j)[j \div 10] = t(j \div 10)[j \div 10]
      BY <3>1, <3>2, TableUnique
    <3>4. t(j)[j] = Append(t(j)[j \div 10], j % 10)
      BY <2>2, <3>2 DEF Table
    <3> QED BY <2>2, <3>1, <3>3, <3>4
  <2> QED BY <2>1, <2>2
<1>3. f = Body(f)
  <2>1. f = [j \in Nat |-> f[j]]
    OBVIOUS
  <2> HIDE DEF f
  <2> QED BY <1>2, <2>1
<1>4. \E F : F = Body(F)
  BY <1>3
<1>5. Decimal = CHOOSE F : F = Body(F)
  BY DEF Decimal
<1>6. Decimal = Body(Decimal)
  BY <1>4, <1>5
<1>7. Decimal[n] = Body(Decimal)[n]
  BY <1>6
<1> QED BY <1>7

(* It is written with digits, without a leading zero, and its length is far *)
(* below the number.                                                        *)
Numeral(n) ==
  /\ Decimal[n] \in Seq(0 .. 9)
  /\ Len(Decimal[n]) \in 1 .. (n \div 10) + 1
  /\ n > 0 => Decimal[n][1] # 0

LEMMA DecimalNumeral == \A n \in Nat : Numeral(n)
<1> DEFINE S == {j \in Nat : ~ Numeral(j)}
<1> SUFFICES ASSUME S # {} PROVE FALSE
  OBVIOUS
<1>1. PICK n \in S : \A x \in S : n <= x
  <2>1. S \subseteq Nat
    OBVIOUS
  <2> HIDE DEF S
  <2> QED BY <2>1, Least
<1>2. n \in Nat /\ ~ Numeral(n)
  BY <1>1
<1>3. CASE n < 10
  <2>1. Decimal[n] = <<n>>
    BY <1>2, <1>3, DecimalUnfold
  <2> QED BY <1>2, <1>3, <2>1 DEF Numeral
<1>4. CASE ~(n < 10)
  <2> DEFINE q == n \div 10
             d == n % 10
  <2>1. q \in 1 .. n - 1 /\ d \in 0 .. 9 /\ q \in Nat
    BY <1>2, <1>4, Tenth
  <2>2. q \div 10 \in 0 .. q - 1
    <3>1. q \in Nat /\ (q >= 10 => q \div 10 \in 1 .. q - 1)
      BY <2>1, Tenth
    <3>2. q >= 1 /\ (q < 10 => q \div 10 = 0)
      BY <2>1
    <3> HIDE DEF q
    <3> QED BY <3>1, <3>2
  <2>3. Numeral(q)
    <3>1. q \in Nat /\ ~(n <= q)
      BY <1>2, <2>1
    <3> QED BY <1>1, <3>1
  <2>4. Decimal[n] = Append(Decimal[q], d)
    BY <1>2, <1>4, DecimalUnfold
  <2> HIDE DEF q, d
  <2>5. Decimal[n] \in Seq(0 .. 9) /\ Len(Decimal[n]) = Len(Decimal[q]) + 1
    BY <2>1, <2>3, <2>4 DEF Numeral
  <2>6. Decimal[n][1] = Decimal[q][1]
    BY <2>1, <2>3, <2>4 DEF Numeral
  <2>7. Len(Decimal[n]) \in 1 .. q + 1
    BY <2>1, <2>2, <2>3, <2>5 DEF Numeral
  <2>8. Numeral(n)
    BY <2>1, <2>3, <2>5, <2>6, <2>7 DEF Numeral, q
  <2> QED BY <1>2, <2>8
<1> QED BY <1>3, <1>4

(* Reading the digits of a number from the left gives the number. *)
Reads(v, digits) ==
  v[0] = 0 /\ \A k \in 1 .. Len(digits) : v[k] = 10 * v[k - 1] + digits[k]

LEMMA DecimalReads ==
  \A n \in Nat : \A v : Reads(v, Decimal[n]) => v[Len(Decimal[n])] = n
<1> DEFINE P(n) == \A v : Reads(v, Decimal[n]) => v[Len(Decimal[n])] = n
           S == {j \in Nat : ~ P(j)}
<1> SUFFICES ASSUME S # {} PROVE FALSE
  OBVIOUS
<1>1. PICK n \in S : \A x \in S : n <= x
  <2>1. S \subseteq Nat
    OBVIOUS
  <2> HIDE DEF S
  <2> QED BY <2>1, Least
<1>2. n \in Nat /\ ~ P(n)
  BY <1>1
<1>3. PICK v : Reads(v, Decimal[n]) /\ v[Len(Decimal[n])] # n
  BY <1>2
<1>4. CASE n < 10
  <2>1. Decimal[n] = <<n>>
    BY <1>2, <1>4, DecimalUnfold
  <2>2. v[1] = 10 * v[1 - 1] + n /\ v[0] = 0
    BY <1>3, <2>1 DEF Reads
  <2> QED BY <1>2, <1>3, <2>1, <2>2
<1>5. CASE ~(n < 10)
  <2> DEFINE q == n \div 10
             d == n % 10
  <2>1. q \in 1 .. n - 1 /\ d \in 0 .. 9 /\ q \in Nat /\ n = 10 * q + d
    BY <1>2, <1>5, Tenth
  <2>2. P(q)
    <3>1. q \in Nat /\ ~(n <= q)
      BY <1>2, <2>1
    <3> QED BY <1>1, <3>1
  <2>3. Decimal[n] = Append(Decimal[q], d)
    BY <1>2, <1>5, DecimalUnfold
  <2>4. Decimal[q] \in Seq(0 .. 9) /\ Len(Decimal[q]) \in Nat
    <3>1. q \in Nat
      BY <2>1
    <3> HIDE DEF q
    <3>2. Decimal[q] \in Seq(0 .. 9)
      BY <3>1, DecimalNumeral DEF Numeral
    <3> QED BY <3>2
  <2> HIDE DEF q, d
  <2>5. /\ Len(Decimal[n]) = Len(Decimal[q]) + 1
        /\ Decimal[n][Len(Decimal[q]) + 1] = d
        /\ \A k \in 1 .. Len(Decimal[q]) : Decimal[n][k] = Decimal[q][k]
    BY <2>1, <2>3, <2>4
  <2>6. Reads(v, Decimal[q])
    BY <1>3, <2>4, <2>5 DEF Reads
  <2>7. v[Len(Decimal[q])] = q
    BY <2>2, <2>6
  <2>8. v[Len(Decimal[q]) + 1] = 10 * v[(Len(Decimal[q]) + 1) - 1] + d
    <3>1. PICK l \in Nat : l = Len(Decimal[q]) + 1
      BY <2>4
    <3>2. l \in 1 .. Len(Decimal[n]) /\ Decimal[n][l] = d
      BY <2>5, <3>1
    <3>3. v[l] = 10 * v[l - 1] + Decimal[n][l]
      BY <1>3, <3>2 DEF Reads
    <3> QED BY <3>1, <3>2, <3>3
  <2>9. (Len(Decimal[q]) + 1) - 1 = Len(Decimal[q])
    BY <2>4
  <2> QED BY <1>3, <2>1, <2>5, <2>7, <2>8, <2>9
<1> QED BY <1>4, <1>5
-----------------------------------------------------------------------------

(* Words that start four bytes apart are different words. *)
LEMMA WordsApart ==
  ASSUME NEW a \in Int, NEW b \in Int, a + 4 <= b
  PROVE  WordAt(a) # WordAt(b)
BY DEF WordAt

(* No two characters are pushed to one word, also when the stack wraps.     *)
LEMMA SlotsDiffer ==
  ASSUME r5 \in 0 .. Word - 1,
         NEW i \in 1 .. Len(Decimal[r5]), NEW j \in 1 .. Len(Decimal[r5]), i < j
  PROVE  Slot(i) # Slot(j)
<1> DEFINE E == Entry(r5)
           a == E - 4 * i
           b == E - 4 * j
<1>1. Word \in Nat /\ Word > 1024 /\ r5 \in Nat /\ r5 < Word
  BY WordAssumption
<1>2. Len(Decimal[r5]) \in 1 .. (r5 \div 10) + 1
  BY <1>1, DecimalNumeral DEF Numeral
<1>3. 4 * Len(Decimal[r5]) < Word - 4
  <2> DEFINE q == r5 \div 10
  <2>1. q \in Nat /\ 10 * q <= r5
    BY <1>1, Tenth
  <2>2. Len(Decimal[r5]) \in 1 .. q + 1
    BY <1>2
  <2> HIDE DEF q
  <2> QED BY <1>1, <2>1, <2>2
<1>4. E \in 0 .. Word - 1
  BY EntryFits
<1> HIDE DEF E
<1>n. i \in Nat /\ j \in Nat /\ i >= 1 /\ i + 1 <= j /\ 4 * j < Word - 4
  <2>1. Len(Decimal[r5]) \in Nat
    BY <1>2
  <2> QED BY <2>1, <1>1, <1>3
<1>5. /\ a \in Int /\ b \in Int /\ b + 4 <= a
      /\ b > 0 - Word /\ a < Word /\ a + 4 <= b + Word
  BY <1>1, <1>4, <1>n
<1> HIDE DEF a, b
<1>6. ASSUME NEW x \in Int, x > 0 - Word, x < Word
      PROVE  x % Word = IF x >= 0 THEN x ELSE x + Word
  <2>1. CASE x >= 0
    <3>1. (Word * 0 + x) % Word = x
      BY <1>1, <1>6, <2>1, ModUnique
    <3> QED BY <1>1, <2>1, <3>1
  <2>2. CASE x < 0
    <3>1. (Word * (-1) + (x + Word)) % Word = x + Word
      <4>1. x + Word \in 0 .. Word - 1 /\ -1 \in Int /\ Word \in Nat \ {0}
        BY <1>1, <1>6, <2>2
      <4> QED BY <4>1, ModUnique
    <3>2. Word * (-1) + (x + Word) = x
      BY <1>1
    <3> QED BY <2>2, <3>1, <3>2
  <2> QED BY <2>1, <2>2
<1>b. a > 0 - Word /\ b < Word
  BY <1>1, <1>5
<1>7. a % Word = (IF a >= 0 THEN a ELSE a + Word) /\ b % Word = (IF b >= 0 THEN b ELSE b + Word)
  BY <1>5, <1>6, <1>b
<1>8. a % Word \in Int /\ b % Word \in Int /\ ((b % Word) + 4 <= a % Word \/ (a % Word) + 4 <= b % Word)
  BY <1>1, <1>5, <1>7
<1>9. WordAt(a % Word) # WordAt(b % Word)
  BY <1>8, WordsApart
<1> QED BY <1>9 DEF Slot, a, b, E
-----------------------------------------------------------------------------

Digits == Decimal[r5]

(* The number n is what is left of the score when its last k digits are cut *)
(* off.                                                                     *)
Leads(n, k) ==
  /\ n \in 0 .. r5
  /\ Len(Decimal[n]) = Len(Digits) - k
  /\ \A i \in 1 .. Len(Decimal[n]) : Decimal[n][i] = Digits[i]

(* The stack holds the last k digits of the score, and nothing else. *)
Kept(k) ==
  /\ DOMAIN stack = {Slot(i) : i \in 1 .. k}
  /\ \A i \in 1 .. k : stack[Slot(i)] = Digits[Len(Digits) - i + 1] + 48

(* The console shows the first k digits of the score, and nothing else. *)
Written(k) ==
  /\ console \in Seq(Digit) /\ Len(console) = k
  /\ \A i \in 1 .. k : console[i] = Digits[i] + 48

DInv ==
  /\ r5 \in 0 .. Word - 1
  /\ pc = "OUTH" => DOMAIN stack = {} /\ console = <<>>
  /\ pc = "NXT" => Leads(r0, r2)
  /\ pc \in {"DIV0", "DIV1"} => Leads(10 * r1 + r0, r2)
  /\ pc \in {"NXT", "DIV0", "DIV1"} => Kept(r2) /\ console = <<>>
  /\ pc \in {"NXT1", "CPLT"} =>
       /\ r2 <= Len(Digits)
       /\ Kept(Len(Digits)) /\ Written(Len(Digits) - r2)

(* The remainder of a division is the last digit that is left, the quotient *)
(* what is left after it; a quotient of zero means that it was the first.   *)
LEMMA LeadsStep ==
  ASSUME r5 \in 0 .. Word - 1, NEW q \in Nat, NEW d \in 0 .. 9, NEW k \in Nat,
         Leads(10 * q + d, k)
  PROVE  /\ Len(Digits) - k >= 1 /\ Digits[Len(Digits) - k] = d
         /\ q # 0 => Leads(q, k + 1)
         /\ q = 0 => Len(Digits) = k + 1
<1> DEFINE n == 10 * q + d
<1>1. n \in Nat /\ n <= r5 /\ r5 \in Nat
  BY WordAssumption DEF Leads
<1>2. n \div 10 = q /\ n % 10 = d /\ (q = 0 => n = d) /\ (q # 0 => n >= 10 /\ q <= n)
  OBVIOUS
<1>3. Digits \in Seq(0 .. 9) /\ Len(Digits) \in Nat
  <2>1. Digits \in Seq(0 .. 9)
    BY <1>1, DecimalNumeral DEF Numeral, Digits
  <2> QED BY <2>1
<1>4. Decimal[q] \in Seq(0 .. 9) /\ Len(Decimal[q]) \in Nat
  <2>1. Decimal[q] \in Seq(0 .. 9)
    BY DecimalNumeral DEF Numeral
  <2> QED BY <2>1
<1>5. /\ Len(Decimal[n]) = Len(Digits) - k
      /\ \A i \in 1 .. Len(Decimal[n]) : Decimal[n][i] = Digits[i]
  BY DEF Leads
<1> HIDE DEF n
<1>u. Decimal[n] = IF n < 10 THEN <<n>> ELSE Append(Decimal[n \div 10], n % 10)
  BY <1>1, DecimalUnfold
<1>6. CASE q = 0
  <2>1. Decimal[n] = <<d>>
    BY <1>2, <1>6, <1>u
  <2>2. Len(Decimal[n]) = 1 /\ Decimal[n][1] = d
    BY <2>1
  <2> QED BY <1>3, <1>5, <1>6, <2>2
<1>7. CASE q # 0
  <2>1. Decimal[n] = Append(Decimal[q], d)
    <3>1. ~(n < 10) /\ n \div 10 = q /\ n % 10 = d
      BY <1>1, <1>2, <1>7
    <3>2. Decimal[n] = Append(Decimal[n \div 10], n % 10)
      BY <3>1, <1>u
    <3> QED BY <3>1, <3>2, Zenon
  <2>2. q <= r5
    BY <1>1, <1>2, <1>7
  <2>3. /\ Len(Decimal[n]) = Len(Decimal[q]) + 1
        /\ Decimal[n][Len(Decimal[q]) + 1] = d
        /\ \A i \in 1 .. Len(Decimal[q]) : Decimal[n][i] = Decimal[q][i]
    BY <1>4, <2>1
  <2>4. PICK l \in Nat : l = Len(Decimal[q])
    BY <1>4
  <2>l. /\ Len(Decimal[n]) = l + 1 /\ Decimal[n][l + 1] = d
        /\ \A i \in 1 .. l : Decimal[n][i] = Decimal[q][i]
        /\ l = Len(Digits) - (k + 1) /\ Len(Digits) - k = l + 1
    BY <1>3, <1>4, <1>5, <2>3, <2>4
  <2>5. Len(Digits) - k >= 1 /\ Digits[Len(Digits) - k] = d
    BY <1>5, <2>4, <2>l
  <2>6. \A i \in 1 .. l : Decimal[q][i] = Digits[i]
    BY <1>5, <2>l
  <2>7. Leads(q, k + 1)
    BY <1>1, <2>2, <2>4, <2>l, <2>6 DEF Leads
  <2> QED BY <1>7, <2>5, <2>7
<1> QED BY <1>6, <1>7

(* One more digit pushed leaves the earlier ones as they are.               *)
LEMMA KeptStep ==
  ASSUME r5 \in 0 .. Word - 1, r5' = r5, NEW k \in Nat, k + 1 <= Len(Digits),
         NEW sp, WordAt(sp) = Slot(k + 1),
         Kept(k), stack' = Push(sp, Digits[Len(Digits) - k] + 48)
  PROVE  Kept(k + 1)'
<1>1. r5 \in Nat /\ Len(Digits) \in Nat
  <2>1. r5 \in Nat
    BY WordAssumption
  <2>2. Digits \in Seq(0 .. 9)
    BY <2>1, DecimalNumeral DEF Numeral, Digits
  <2> QED BY <2>1, <2>2
<1>2. \A i : Slot(i)' = Slot(i)
  BY DEF Slot, Entry
<1>3. Digits' = Digits
  BY DEF Digits
<1>4. DOMAIN stack' = {Slot(i) : i \in 1 .. k + 1}
  <2>1. DOMAIN stack' = {Slot(i) : i \in 1 .. k} \cup {Slot(k + 1)}
    BY DEF Push, Kept
  <2>2. \A i : i \in 1 .. k + 1 <=> i \in 1 .. k \/ i = k + 1
    OBVIOUS
  <2> QED BY <2>1, <2>2
<1>5. ASSUME NEW i \in 1 .. k + 1
      PROVE  stack'[Slot(i)] = Digits[Len(Digits) - i + 1] + 48
  <2>1. Slot(i) \in DOMAIN stack'
    BY <1>4
  <2>2. CASE i = k + 1
    <3>1. stack'[Slot(i)] = Digits[Len(Digits) - k] + 48
      BY <2>1, <2>2 DEF Push
    <3>2. Len(Digits) - i + 1 = Len(Digits) - k
      BY <1>1, <2>2
    <3> QED BY <3>1, <3>2
  <2>3. CASE i # k + 1
    <3>1. i \in 1 .. k /\ i \in 1 .. Len(Digits) /\ k + 1 \in 1 .. Len(Digits) /\ i < k + 1
      BY <1>1, <2>3
    <3>2. Slot(i) # Slot(k + 1)
      BY <3>1, SlotsDiffer DEF Digits
    <3>3. stack'[Slot(i)] = stack[Slot(i)]
      BY <2>1, <3>2 DEF Push
    <3> QED BY <3>1, <3>3 DEF Kept
  <2> QED BY <2>2, <2>3
<1> QED BY <1>2, <1>3, <1>4, <1>5 DEF Kept

LEMMA DInvInit == Init => DInv
BY ScoresAssumption, WordAssumption DEF Init, DInv

LEMMA DInvNext == OInv /\ DInv /\ [Next]_vars => DInv'
<1> SUFFICES ASSUME OInv, DInv, [Next]_vars PROVE DInv'
  OBVIOUS
<1>r. r5' = r5 /\ r5 \in 0 .. Word - 1 /\ r5 \in Nat /\ Word \in Nat /\ Word > 1024
  <2>1. r5' = r5
    BY DEF Next, vars, OUTH, NXT, DIV0, DIV1, NXT1
  <2> QED BY <2>1, WordAssumption DEF DInv
<1>t. r0 \in Nat /\ r1 \in Nat /\ r2 \in Nat /\ (pc = "DIV1" => r0 \in 0 .. 9)
  BY DEF OInv
<1>d. Digits' = Digits /\ Digits \in Seq(0 .. 9) /\ Len(Digits) \in Nat
  <2>1. Digits \in Seq(0 .. 9)
    BY <1>r, DecimalNumeral DEF Numeral, Digits
  <2> QED BY <1>r, <2>1 DEF Digits
<1>s. \A i : Slot(i)' = Slot(i)
  BY <1>r DEF Slot, Entry
<1>k. stack' = stack => \A k : Kept(k) => Kept(k)'
  BY <1>d, <1>s DEF Kept
<1>l. \A n, k : Leads(n, k) => n \in 0 .. r5
  BY DEF Leads
<1>1. CASE OUTH
  <2>1. /\ pc' = "NXT" /\ r2' = 0 /\ r0' = r5 /\ stack' = stack /\ console' = console
        /\ DOMAIN stack = {} /\ console = <<>>
    BY <1>1 DEF OUTH, DInv
  <2>2. Leads(r5, 0)'
    BY <1>r, <1>d DEF Leads, Digits
  <2>3. Kept(0)'
    BY <2>1 DEF Kept
  <2> QED BY <1>r, <2>1, <2>2, <2>3 DEF DInv
<1>2. CASE NXT
  <2>1. /\ pc = "NXT" /\ pc' = "DIV0" /\ r1' = 0 /\ r0' = r0 /\ r2' = r2
        /\ stack' = stack /\ console' = console
    BY <1>2 DEF NXT
  <2>2. Leads(r0, r2) /\ Kept(r2) /\ console = <<>>
    BY <2>1 DEF DInv
  <2>3. 10 * r1' + r0' = r0
    BY <1>t, <2>1
  <2>4. Leads(10 * r1 + r0, r2)'
    BY <1>r, <1>d, <2>1, <2>2, <2>3 DEF Leads
  <2>5. Kept(r2)'
    BY <1>d, <1>s, <2>1, <2>2 DEF Kept
  <2> QED BY <1>r, <2>1, <2>2, <2>4, <2>5 DEF DInv
<1>3. CASE DIV0
  <2>1. /\ pc = "DIV0" /\ pc' \in {"DIV0", "DIV1"} /\ r2' = r2
        /\ stack' = stack /\ console' = console
    BY <1>3 DEF DIV0
  <2>2. Leads(10 * r1 + r0, r2) /\ Kept(r2) /\ console = <<>>
    BY <2>1 DEF DInv
  <2>3. 10 * r1' + r0' = 10 * r1 + r0
    <3>s. Signed(r0) = r0
      <4>1. r0 < Word \div 2
        BY <1>r, <1>t, <2>1 DEF OInv, Small
      <4> QED BY <1>t, <4>1, SmallSigned
    <3>1. CASE r0 < 10
      BY <1>3, <3>1, <3>s DEF DIV0
    <3>2. CASE ~(r0 < 10)
      <4>1. r0' = r0 - 10 /\ r1' = (r1 + 1) % Word
        BY <1>3, <3>2, <3>s DEF DIV0
      <4>2. 10 * r1 + r0 <= r5
        BY <1>l, <1>t, <1>r, <2>2
      <4>3. r1 + 1 \in 0 .. Word - 1
        BY <1>r, <1>t, <3>2, <4>2
      <4>4. (Word * 0 + (r1 + 1)) % Word = r1 + 1
        BY <1>r, <4>3, ModUnique
      <4>5. r1' = r1 + 1
        BY <1>r, <1>t, <4>1, <4>4
      <4> QED BY <1>t, <4>1, <4>5
    <3> QED BY <3>1, <3>2
  <2>4. Leads(10 * r1 + r0, r2)'
    BY <1>r, <1>d, <2>1, <2>2, <2>3 DEF Leads
  <2>5. Kept(r2)'
    BY <1>d, <1>s, <2>1, <2>2 DEF Kept
  <2> QED BY <1>r, <2>1, <2>2, <2>4, <2>5 DEF DInv
<1>4. CASE DIV1
  <2>1. /\ pc = "DIV1" /\ r13' = (r13 - 4) % Word /\ stack' = Push(r13', r0 + 48)
        /\ r0' = r1 /\ r2' = r2 + 1 /\ console' = console
        /\ pc' = IF r1 # 0 THEN "NXT" ELSE "NXT1"
    BY <1>4 DEF DIV1
  <2>2. Leads(10 * r1 + r0, r2) /\ Kept(r2) /\ console = <<>>
    BY <2>1 DEF DInv
  <2>3. /\ Len(Digits) - r2 >= 1 /\ Digits[Len(Digits) - r2] = r0
        /\ r1 # 0 => Leads(r1, r2 + 1)
        /\ r1 = 0 => Len(Digits) = r2 + 1
    BY <1>r, <1>t, <2>1, <2>2, LeadsStep
  <2>4. WordAt(r13') = Slot(r2 + 1)
    <3>1. Balanced'
      BY OInvNext DEF OInv
    <3>2. r13' = (Entry(r5) - 4 * (r2 + 1)) % Word
      BY <1>r, <2>1, <3>1 DEF Balanced
    <3> QED BY <3>2 DEF Slot
  <2>5. PICK k \in Nat : k = r2
    BY <1>t
  <2>e. /\ WordAt(r13') = Slot(k + 1) /\ Kept(k) /\ k + 1 <= Len(Digits)
        /\ stack' = Push(r13', Digits[Len(Digits) - k] + 48)
    BY <1>d, <2>1, <2>2, <2>3, <2>4, <2>5
  <2>f. Kept(k + 1)'
    BY <1>r, <2>e, KeptStep
  <2>6. Kept(r2)' /\ console' = <<>>
    <3>1. r2' = k + 1
      BY <2>1, <2>5
    <3> QED BY <2>1, <2>2, <2>f, <3>1 DEF Kept
  <2>7. CASE r1 # 0
    <3>1. Leads(r0, r2)'
      BY <1>d, <1>r, <2>1, <2>3, <2>7 DEF Leads
    <3> QED BY <1>r, <2>1, <2>6, <2>7, <3>1 DEF DInv
  <2>8. CASE r1 = 0
    <3>1. r2' = Len(Digits)'
      BY <1>d, <2>1, <2>3, <2>8
    <3>2. Len(Digits)' - r2' = 0
      BY <1>d, <3>1
    <3>3. Written(Len(Digits) - r2)'
      BY <2>6, <3>2 DEF Written
    <3> QED BY <1>d, <1>r, <2>1, <2>6, <2>8, <3>1, <3>3 DEF DInv
  <2> QED BY <2>7, <2>8
<1>5. CASE NXT1
  <2>1. /\ pc = "NXT1" /\ stack' = stack /\ r2 <= Len(Digits)
        /\ Kept(Len(Digits)) /\ Written(Len(Digits) - r2)
    BY <1>5 DEF NXT1, DInv
  <2>2. Kept(Len(Digits))'
    BY <1>d, <1>s, <2>1 DEF Kept
  <2>3. CASE r2 = 0
    <3>1. r2' = r2 /\ pc' = "CPLT" /\ console' = console
      BY <1>5, <2>3 DEF NXT1
    <3>2. Written(Len(Digits) - r2)'
      BY <1>d, <2>1, <3>1 DEF Written
    <3> QED BY <1>d, <1>r, <2>1, <2>2, <3>1, <3>2 DEF DInv
  <2>4. CASE r2 # 0
    <3>1. /\ r0' = stack[WordAt(r13)] /\ console' = Append(console, r0')
          /\ r2' = r2 - 1 /\ pc' = pc
      BY <1>5, <2>4 DEF NXT1
    <3>2. WordAt(r13) = Slot(r2) /\ r2 \in 1 .. Len(Digits)
      BY <1>d, <1>t, <2>1, <2>4 DEF OInv, Balanced, Slot
    <3> DEFINE k == Len(Digits) - r2
    <3>3. k \in Nat /\ Len(Digits) - r2' = k + 1 /\ Len(Digits) - r2 + 1 = k + 1
      BY <1>d, <1>t, <3>1, <3>2
    <3>4. r0' = Digits[k + 1] + 48
      BY <2>1, <3>1, <3>2, <3>3 DEF Kept
    <3>5. r0' \in Digit
      BY <3>1, <3>2, <2>1 DEF OInv, Kept
    <3>6. /\ console \in Seq(Digit) /\ Len(console) = k
          /\ \A i \in 1 .. k : console[i] = Digits[i] + 48
      BY <2>1 DEF Written
    <3> HIDE DEF k
    <3>7. /\ console' \in Seq(Digit) /\ Len(console') = k + 1
          /\ \A i \in 1 .. k + 1 : console'[i] = Digits[i] + 48
      BY <3>1, <3>3, <3>4, <3>5, <3>6
    <3>8. Written(Len(Digits) - r2)'
      BY <1>d, <3>3, <3>7 DEF Written
    <3> QED BY <1>d, <1>r, <1>t, <2>1, <2>2, <2>4, <3>1, <3>8 DEF DInv
  <2> QED BY <2>3, <2>4
<1>6. CASE UNCHANGED vars
  BY <1>6 DEF vars, DInv, Leads, Kept, Written, Digits, Slot, Entry
<1> QED BY <1>1, <1>2, <1>3, <1>4, <1>5, <1>6 DEF Next

(* Stack and console together hold the decimal digits of the score, at every
   pass of OUTH's loops.                                                    *)
THEOREM DInvInvariant == Spec => []DInv
BY DInvInit, DInvNext, OInvInvariant, PTL DEF Spec

(* OUTH is what DodgeGame takes it for, for every score not negative in r5: *)
(* at CPLT the stack pointer is back, r2 is zero, the words written are the *)
(* ones of Pushed, and the console shows the decimal digits of the score.   *)
THEOREM OuthIsOneStep == Spec => []ReturnsAsOneStep
<1>1. OInv /\ DInv => ReturnsAsOneStep
  <2> SUFFICES ASSUME OInv, DInv, pc = "CPLT" PROVE ReturnsAsOneStep
    BY DEF ReturnsAsOneStep
  <2>1. r2 = 0 /\ r13 = (Entry(r5) - 4 * r2) % Word
    BY DEF OInv, Balanced
  <2>2. r13 = Entry(r5)
    <3>1. Entry(r5) \in 0 .. Word - 1 /\ Word \in Nat \ {0}
      BY EntryFits
    <3>2. (Word * 0 + Entry(r5)) % Word = Entry(r5)
      BY <3>1, ModUnique
    <3> QED BY <2>1, <3>1, <3>2
  <2>3. Kept(Len(Digits)) /\ Written(Len(Digits) - r2)
    BY DEF DInv
  <2>4. DOMAIN stack = Pushed(Entry(r5), r5)
    BY <2>3 DEF Kept, Pushed, Slot, Digits
  <2>5. Digits \in Seq(0 .. 9) /\ Len(Digits) \in Nat
    <3>1. r5 \in Nat
      BY DEF OInv
    <3>2. Digits \in Seq(0 .. 9)
      BY <3>1, DecimalNumeral DEF Numeral, Digits
    <3> QED BY <3>2
  <2>6. /\ console \in Seq(Digit) /\ Len(console) = Len(Digits)
        /\ \A i \in 1 .. Len(Digits) : console[i] = Digits[i] + 48
    BY <2>1, <2>3, <2>5 DEF Written
  <2>7. console = [i \in DOMAIN Digits |-> Digits[i] + 48]
    BY <2>5, <2>6
  <2> QED BY <2>1, <2>2, <2>4, <2>7 DEF ReturnsAsOneStep, Digits
<1> QED BY <1>1, OInvInvariant, DInvInvariant, PTL

(* Value satisfies the equation it is declared by. *)
LEMMA ValueReads ==
  ASSUME NEW l \in Nat, l = Len(console)
  PROVE  /\ Value[0] = 0
         /\ \A k \in 1 .. l : Value[k] = 10 * Value[k - 1] + (console[k] - 48)
<1> DEFINE Body(F, m) == [n \in 0 .. m |-> IF n = 0 THEN 0 ELSE 10 * F[n - 1] + (console[n] - 48)]
           S == {m \in Nat : ~ \E F : F = Body(F, m)}
<1>1. CASE S # {}
  <2>1. PICK m \in S : \A x \in S : m <= x
    <3>1. S \subseteq Nat
      OBVIOUS
    <3> HIDE DEF S
    <3> QED BY <1>1, <3>1, Least
  <2>2. m \in Nat /\ ~ \E F : F = Body(F, m)
    BY <2>1
  <2>3. CASE m = 0
    <3> DEFINE F == [n \in 0 .. 0 |-> 0]
    <3>1. F = Body(F, 0)
      OBVIOUS
    <3> QED BY <2>2, <2>3, <3>1
  <2>4. CASE m # 0
    <3>1. m - 1 \in Nat /\ ~(m <= m - 1)
      BY <2>2, <2>4
    <3>2. PICK F : F = Body(F, m - 1)
      BY <2>1, <3>1
    <3> DEFINE G == [n \in 0 .. m |-> IF n = m THEN 10 * F[m - 1] + (console[m] - 48) ELSE F[n]]
    <3>3. ASSUME NEW n \in 0 .. m
          PROVE  G[n] = IF n = 0 THEN 0 ELSE 10 * G[n - 1] + (console[n] - 48)
      <4>1. n # 0 => n - 1 \in 0 .. m - 1
        BY <2>2
      <4>2. n # 0 => G[n - 1] = F[n - 1]
        BY <2>2, <4>1
      <4>3. CASE n = m
        BY <2>4, <4>2, <4>3
      <4>4. CASE n # m
        <5>1. n \in 0 .. m - 1 /\ G[n] = F[n]
          BY <2>2, <4>4
        <5>2. F[n] = IF n = 0 THEN 0 ELSE 10 * F[n - 1] + (console[n] - 48)
          BY <3>2, <5>1
        <5> HIDE DEF G
        <5> QED BY <4>2, <5>1, <5>2
      <4> QED BY <4>3, <4>4
    <3>4. G = [n \in 0 .. m |-> G[n]]
      OBVIOUS
    <3> HIDE DEF G
    <3>5. G = Body(G, m)
      BY <3>3, <3>4
    <3> QED BY <2>2, <3>5
  <2> QED BY <2>3, <2>4
<1>2. CASE S = {}
  <2>1. \E F : F = Body(F, l)
    BY <1>2
  <2>2. Value = CHOOSE F : F = Body(F, l)
    BY DEF Value
  <2>3. Value = Body(Value, l)
    BY <2>1, <2>2
  <2>4. \A k \in 0 .. l : Value[k] = Body(Value, l)[k]
    BY <2>3
  <2>5. \A k \in 0 .. l : Value[k] = IF k = 0 THEN 0 ELSE 10 * Value[k - 1] + (console[k] - 48)
    BY <2>4
  <2> QED BY <2>5
<1> QED BY <1>1, <1>2

(* What OUTH leaves on the console, read as a decimal number, is the score, *)
(* and it does not start with a zero unless it is one character.            *)
THEOREM ScoreIsPrinted == Spec => []ScoreReadsBack
<1>1. OInv /\ DInv => ScoreReadsBack
  <2> SUFFICES ASSUME OInv, DInv, pc = "CPLT" PROVE ScoreReadsBack
    BY DEF ScoreReadsBack
  <2>1. r2 = 0 /\ r5 \in Nat /\ Written(Len(Digits) - r2)
    BY DEF OInv, DInv
  <2>2. Numeral(r5) /\ (\A v : Reads(v, Digits) => v[Len(Digits)] = r5)
    BY <2>1, DecimalNumeral, DecimalReads DEF Digits
  <2>3. Digits \in Seq(0 .. 9) /\ Len(Digits) \in Nat /\ Len(Digits) >= 1
    BY <2>2 DEF Numeral, Digits
  <2>4. PICK l \in Nat : l = Len(Digits)
    BY <2>3
  <2>5. Len(console) = l /\ \A i \in 1 .. l : console[i] = Digits[i] + 48
    BY <2>1, <2>3, <2>4 DEF Written
  <2>6. \A i \in 1 .. l : Digits[i] \in 0 .. 9 /\ console[i] - 48 = Digits[i]
    BY <2>3, <2>4, <2>5
  <2>7. Reads(Value, Digits)
    <3>1. /\ Value[0] = 0
          /\ \A k \in 1 .. l : Value[k] = 10 * Value[k - 1] + (console[k] - 48)
      BY <2>4, <2>5, ValueReads
    <3>2. \A k \in 1 .. l : Value[k] = 10 * Value[k - 1] + Digits[k]
      BY <2>6, <3>1
    <3> QED BY <2>4, <3>1, <3>2 DEF Reads
  <2>8. Value[Len(console)] = r5
    BY <2>2, <2>4, <2>5, <2>7
  <2>9. Len(console) > 1 => console[1] # 48
    <3>1. CASE r5 > 0
      BY <2>2, <2>3, <2>4, <2>5, <2>6, <3>1 DEF Numeral, Digits
    <3>2. CASE r5 = 0
      <4>1. Digits = <<0>>
        <5>1. 0 \in Nat /\ 0 < 10
          OBVIOUS
        <5>2. Decimal[0] = <<0>>
          BY <5>1, DecimalUnfold
        <5> QED BY <3>2, <5>2 DEF Digits
      <4> QED BY <4>1, <2>4, <2>5
    <3> QED BY <2>1, <3>1, <3>2
  <2> QED BY <2>8, <2>9 DEF ScoreReadsBack
<1> QED BY <1>1, OInvInvariant, DInvInvariant, PTL
=============================================================================
