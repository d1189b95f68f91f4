------------------------ MODULE AngelProtocol_proofs ------------------------
(***************************************************************************)
(* Proofs about AngelProtocol, for every circle of numbers that is longer  *)
(* than the line.                                                          *)
(***************************************************************************)
EXTENDS AngelProtocol, TLAPS, WellFoundedInduction, FiniteSetTheorems

-----------------------------------------------------------------------------
(* Numbers on the circle stand for integers that only grow.  On is the     *)
(* number that stands for x; integers less than a turn apart are told      *)
(* apart by their numbers.                                                 *)

Turn == MAX_SEQ + 1
On(x) == x % Turn

LEMMA ModUnique ==
  ASSUME NEW n \in Nat \ {0}, NEW q \in Int, NEW r \in 0 .. n - 1
  PROVE  (n * q + r) % n = r
<1> DEFINE x == n * q + r
           p == x \div n
           m == x % n
<1>0. x \in Int
  OBVIOUS
<1>1. p \in Int /\ m \in 0 .. n - 1 /\ x = n * p + m
  BY <1>0
<1> HIDE DEF p, m
<1>2. n * q - n * p = m - r
  BY <1>1
<1>3. n * (q - p) = n * q - n * p
  BY <1>1
<1>4. \A t \in Int : (t >= 1 => n * t >= n) /\ (t <= -1 => n * t <= -n)
  OBVIOUS
<1>5. q - p \in Int /\ n * (q - p) < n /\ n * (q - p) > -n
  BY <1>1, <1>2, <1>3
<1>6. q - p = 0
  BY <1>4, <1>5
<1>7. m = r
  BY <1>1, <1>2, <1>3, <1>6
<1> QED BY <1>7 DEF m

LEMMA TurnFacts == Turn \in Nat \ {0} /\ Turn = MAX_SEQ + 1 /\ MAX_SEQ \in Nat /\ MAX_SEQ >= 3
BY SeqAssumption DEF Turn

(* Going forward by less than a turn. *)
LEMMA OnShift ==
  ASSUME NEW x \in Int, NEW d \in 0 .. Turn
  PROVE  /\ On(x) \in 0 .. MAX_SEQ
         /\ On(x + d) = IF On(x) + d <= MAX_SEQ THEN On(x) + d ELSE On(x) + d - Turn
<1>1. PICK q \in Int, r \in 0 .. Turn - 1 : x = Turn * q + r /\ r = x % Turn
  <2>1. /\ x \div Turn \in Int /\ x % Turn \in 0 .. Turn - 1
        /\ x = Turn * (x \div Turn) + (x % Turn)
    BY TurnFacts
  <2> QED BY <2>1
<1>2. On(x) = r /\ r \in 0 .. MAX_SEQ
  BY <1>1, TurnFacts DEF On
<1>3. CASE r + d <= MAX_SEQ
  <2>1. (Turn * q + (r + d)) % Turn = r + d
    <3>1. r + d \in 0 .. Turn - 1
      BY <1>2, <1>3, TurnFacts
    <3> QED BY <3>1, TurnFacts, ModUnique
  <2>2. x + d = Turn * q + (r + d)
    <3>1. Turn * q \in Int
      BY TurnFacts
    <3> QED BY <1>1, <3>1, TurnFacts
  <2> QED BY <1>2, <1>3, <2>1, <2>2 DEF On
<1>4. CASE ~(r + d <= MAX_SEQ)
  <2>1. (Turn * (q + 1) + (r + d - Turn)) % Turn = r + d - Turn
    <3>1. r + d - Turn \in 0 .. Turn - 1 /\ q + 1 \in Int
      BY <1>2, <1>4, TurnFacts
    <3> QED BY <3>1, TurnFacts, ModUnique
  <2>2. x + d = Turn * (q + 1) + (r + d - Turn)
    <3>1. Turn * q \in Int /\ Turn * (q + 1) = Turn * q + Turn
      BY TurnFacts
    <3> QED BY <1>1, <3>1, TurnFacts
  <2> QED BY <1>2, <1>4, <2>1, <2>2 DEF On
<1> QED BY <1>2, <1>3, <1>4

LEMMA OnRange == ASSUME NEW x \in Int PROVE On(x) \in SequenceNR
BY OnShift, TurnFacts DEF SequenceNR

LEMMA OnNext == ASSUME NEW x \in Int PROVE nextSEQ(On(x)) = On(x + 1)
<1>1. 1 \in 0 .. Turn
  BY TurnFacts
<1>2. /\ On(x) \in 0 .. MAX_SEQ
      /\ On(x + 1) = IF On(x) + 1 <= MAX_SEQ THEN On(x) + 1 ELSE On(x) + 1 - Turn
  BY <1>1, OnShift
<1> HIDE DEF On
<1> QED BY <1>2, TurnFacts DEF nextSEQ

LEMMA OnLast == ASSUME NEW x \in Int PROVE lastSEQ(On(x)) = On(x - 1)
<1>1. 1 \in 0 .. Turn /\ x - 1 \in Int
  BY TurnFacts
<1>2. /\ On(x - 1) \in 0 .. MAX_SEQ
      /\ On((x - 1) + 1) =
           IF On(x - 1) + 1 <= MAX_SEQ THEN On(x - 1) + 1 ELSE On(x - 1) + 1 - Turn
  BY <1>1, OnShift
<1>3. (x - 1) + 1 = x
  OBVIOUS
<1> QED BY <1>2, <1>3, TurnFacts DEF lastSEQ

LEMMA OnEqual ==
  ASSUME NEW x \in Int, NEW y \in Int, x - y \in -MAX_SEQ .. MAX_SEQ, On(x) = On(y)
  PROVE  x = y
<1>1. CASE x <= y
  <2>1. y - x \in 0 .. Turn /\ x + (y - x) = y
    BY <1>1, TurnFacts
  <2>2. /\ On(x) \in 0 .. MAX_SEQ
        /\ On(x + (y - x)) =
             IF On(x) + (y - x) <= MAX_SEQ THEN On(x) + (y - x) ELSE On(x) + (y - x) - Turn
    BY <2>1, OnShift
  <2> QED BY <2>1, <2>2, TurnFacts
<1>2. CASE y <= x
  <2>1. x - y \in 0 .. Turn /\ y + (x - y) = x
    BY <1>2, TurnFacts
  <2>2. /\ On(y) \in 0 .. MAX_SEQ
        /\ On(y + (x - y)) =
             IF On(y) + (x - y) <= MAX_SEQ THEN On(y) + (x - y) ELSE On(y) + (x - y) - Turn
    BY <2>1, OnShift
  <2> QED BY <2>1, <2>2, TurnFacts
<1> QED BY <1>1, <1>2

(* adp_between on the circle is the order of the integers. *)
LEMMA Between ==
  ASSUME NEW a \in Int, NEW b \in Int, NEW c \in Int,
         a <= c, c <= a + MAX_SEQ, c - Turn <= b, b <= a + MAX_SEQ
  PROVE  adp_between(On(a), On(b), On(c)) <=> a <= b /\ b < c
<1>1. c - a \in 0 .. Turn /\ a + (c - a) = c
  BY TurnFacts
<1>2. /\ On(a) \in 0 .. MAX_SEQ
      /\ On(c) = IF On(a) + (c - a) <= MAX_SEQ THEN On(a) + (c - a)
                 ELSE On(a) + (c - a) - Turn
  BY <1>1, OnShift
<1>3. CASE a <= b
  <2>1. b - a \in 0 .. Turn /\ a + (b - a) = b
    BY <1>3, TurnFacts
  <2>2. On(b) = IF On(a) + (b - a) <= MAX_SEQ THEN On(a) + (b - a)
                ELSE On(a) + (b - a) - Turn
    BY <2>1, OnShift
  <2> QED BY <1>2, <1>3, <2>2, TurnFacts DEF adp_between
<1>4. CASE b < a
  <2>1. a - b \in 0 .. Turn /\ b + (a - b) = a
    BY <1>4, TurnFacts
  <2>2. /\ On(b) \in 0 .. MAX_SEQ
        /\ On(a) = IF On(b) + (a - b) <= MAX_SEQ THEN On(b) + (a - b)
                   ELSE On(b) + (a - b) - Turn
    BY <2>1, OnShift
  <2> QED BY <1>2, <1>4, <2>2, TurnFacts DEF adp_between
<1> QED BY <1>3, <1>4

-----------------------------------------------------------------------------
(* The resend list. *)

LEMMA Least ==
  ASSUME NEW S, S \subseteq Nat, S # {}
  PROVE  Min(S) \in S /\ \A x \in S : Min(S) <= x
<1> DEFINE Less == {p \in Nat \X Nat : p[1] < p[2]}
<1>1. IsWellFoundedOn(Less, Nat)
  BY NatLessThanWellFounded, Zenon DEF OpToRel
<1>2. \E m \in S : \A y \in S : ~(<<y, m>> \in Less)
  <2> HIDE DEF Less
  <2> QED BY <1>1, WFMin
<1>3. PICK m \in S : \A y \in S : ~(<<y, m>> \in Less)
  BY <1>2
<1>4. ASSUME NEW y \in S PROVE m <= y
  <2>1. y \in Nat /\ m \in Nat
    OBVIOUS
  <2>2. CASE y < m
    <3>1. <<y, m>> \in Nat \X Nat /\ <<y, m>>[1] < <<y, m>>[2]
      BY <2>1, <2>2
    <3>2. <<y, m>> \in Less
      BY <3>1
    <3> QED BY <3>2, <1>3
  <2> QED BY <2>1, <2>2
<1> QED BY <1>4 DEF Min

Entry == [seq : SequenceNR, chan : Channel, body : Body]

(* The list holds the packets lo .. hi in the order of their numbers. *)
Listed(L, lo, hi) ==
  /\ lo \in Int /\ hi \in Int
  /\ L \in Seq(Entry) /\ Len(L) = hi - lo + 1
  /\ \A k \in 1 .. Len(L) : L[k].seq = On(lo + k - 1)

(* Kept takes away the first j elements of the list if these are the ones   *)
(* whose numbers are acknowledged.                                          *)
LEMMA KeptRest ==
  ASSUME NEW L \in Seq(Entry), NEW S, NEW j \in 0 .. Len(L),
         \A k \in 1 .. Len(L) : L[k].seq \in S <=> k <= j
  PROVE  Kept(L, S) = SubSeq(L, j + 1, Len(L))
<1> DEFINE Body1(F) == [k \in 0 .. Len(L) |->
                          IF k = 0 THEN <<>>
                          ELSE IF L[k].seq \in S THEN F[k - 1]
                          ELSE Append(F[k - 1], L[k])]
           rest == [k \in 0 .. Len(L) |->
                      IF k <= j THEN <<>> ELSE SubSeq(L, j + 1, k)]
           kept == CHOOSE F : F = Body1(F)
<1>0. Len(L) \in Nat /\ j \in Nat /\ j <= Len(L)
  OBVIOUS
<1>1. ASSUME NEW k \in 0 .. Len(L)
      PROVE  rest[k] = IF k = 0 THEN <<>>
                       ELSE IF L[k].seq \in S THEN rest[k - 1]
                       ELSE Append(rest[k - 1], L[k])
  <2>1. CASE k <= j
    <3>1. k # 0 => L[k].seq \in S /\ k - 1 \in 0 .. Len(L) /\ k - 1 <= j
      BY <1>0, <2>1
    <3> QED BY <2>1, <3>1
  <2>2. CASE k > j
    <3>1. k # 0 /\ L[k].seq \notin S /\ k - 1 \in 0 .. Len(L) /\ k \in Nat
      BY <1>0, <2>2
    <3>2. rest[k] = SubSeq(L, j + 1, k)
      BY <1>0, <2>2
    <3>3. rest[k - 1] = SubSeq(L, j + 1, k - 1)
      <4>1. CASE k - 1 <= j
        <5>1. SubSeq(L, j + 1, j) = <<>> /\ k - 1 = j
          BY <1>0, <2>2, <3>1, <4>1
        <5> QED BY <3>1, <4>1, <5>1
      <4>2. CASE k - 1 > j
        BY <1>0, <3>1, <4>2
      <4> QED BY <1>0, <3>1, <4>1, <4>2
    <3>4. SubSeq(L, j + 1, k) = Append(SubSeq(L, j + 1, k - 1), L[k])
      BY <1>0, <2>2, <3>1
    <3> HIDE DEF rest
    <3> QED BY <3>1, <3>2, <3>3, <3>4
  <2> QED BY <1>0, <2>1, <2>2
<1>2. rest = Body1(rest)
  <2>1. rest = [k \in 0 .. Len(L) |-> rest[k]]
    OBVIOUS
  <2> HIDE DEF rest
  <2> QED BY <1>1, <2>1
<1>3. kept = Body1(kept)
  <2> HIDE DEF rest
  <2> QED BY <1>2
<1>4. ASSUME NEW m \in 0 .. Len(L), \A k \in 0 .. Len(L) : k < m => kept[k] = rest[k]
      PROVE  kept[m] = rest[m]
  <2> HIDE DEF kept
  <2>1. kept[m] = IF m = 0 THEN <<>>
                  ELSE IF L[m].seq \in S THEN kept[m - 1]
                  ELSE Append(kept[m - 1], L[m])
    BY <1>3
  <2>2. m # 0 => kept[m - 1] = rest[m - 1]
    BY <1>0, <1>4
  <2> HIDE DEF rest
  <2> QED BY <1>1, <2>1, <2>2
<1>5. kept[Len(L)] = rest[Len(L)]
  <2> DEFINE T == {m \in 0 .. Len(L) : kept[m] # rest[m]}
  <2> HIDE DEF kept, rest
  <2>1. CASE T # {}
    <3>1. T \subseteq Nat
      BY <1>0
    <3>2. Min(T) \in T /\ \A x \in T : Min(T) <= x
      <4> HIDE DEF T
      <4> QED BY <2>1, <3>1, Least
    <3>3. PICK m \in T : \A x \in T : m <= x
      BY <3>2
    <3>4. \A k \in 0 .. Len(L) : k < m => kept[k] = rest[k]
      BY <1>0, <3>3
    <3> QED BY <1>4, <3>3, <3>4
  <2>2. CASE T = {}
    BY <1>0, <2>2
  <2> QED BY <2>1, <2>2
<1>6. Kept(L, S) = kept[Len(L)]
  BY DEF Kept
<1>7. rest[Len(L)] = SubSeq(L, j + 1, Len(L))
  <2>1. CASE Len(L) <= j
    <3>1. Len(L) = j /\ SubSeq(L, j + 1, j) = <<>>
      BY <1>0, <2>1
    <3> QED BY <1>0, <2>1, <3>1
  <2>2. CASE Len(L) > j
    BY <1>0, <2>2
  <2> QED BY <1>0, <2>1, <2>2
<1> QED BY <1>5, <1>6, <1>7

(* What an acknowledgement of packet a leaves of the list.  x is the number *)
(* from which on packets have not been acknowledged: the list begins there, *)
(* or at the next one before anything was sent.                             *)
AckLeaves(L, lo, hi, x, a, lo1) ==
  /\ lo1 \in lo .. hi + 1 /\ a < lo1 /\ (lo1 = lo \/ lo1 = a + 1)
  /\ Kept(L, Acked(On(x), On(a), On(hi))) = SubSeq(L, lo1 - lo + 1, Len(L))
  /\ AckedTo(On(x), On(a), On(hi)) \in {On(lo1 - 1), On(lo1)}

LEMMA Acknowledged ==
  ASSUME NEW L, NEW lo, NEW hi, Listed(L, lo, hi), Len(L) + 1 <= MAX_SEQ,
         NEW x \in {lo - 1, lo}, NEW a \in Int, hi - MAX_SEQ <= a, a <= hi
  PROVE  \E lo1 \in Int : AckLeaves(L, lo, hi, x, a, lo1)
<1>1. /\ lo \in Int /\ hi \in Int /\ x \in Int /\ Len(L) \in Nat /\ Len(L) = hi - lo + 1
      /\ L \in Seq(Entry) /\ lo - 1 <= x /\ x <= lo
      /\ \A k \in 1 .. Len(L) : L[k].seq = On(lo + k - 1)
  BY DEF Listed
<1>2. adp_between(On(x), On(a), nextSEQ(On(hi))) <=> x <= a
  <2>1. /\ hi + 1 \in Int /\ x <= hi + 1 /\ hi + 1 <= x + MAX_SEQ
        /\ (hi + 1) - Turn <= a /\ a <= x + MAX_SEQ
    BY <1>1, TurnFacts
  <2>2. adp_between(On(x), On(a), On(hi + 1)) <=> x <= a /\ a < hi + 1
    BY <1>1, <2>1, Between
  <2>3. a < hi + 1
    BY <1>1
  <2> QED BY <1>1, <2>2, <2>3, OnNext
<1>3. CASE a < x
  <2>1. Acked(On(x), On(a), On(hi)) = {} /\ AckedTo(On(x), On(a), On(hi)) = On(x)
    BY <1>1, <1>2, <1>3 DEF Acked, AckedTo
  <2>2. Kept(L, {}) = SubSeq(L, 0 + 1, Len(L))
    <3>1. PICK j : j = 0
      OBVIOUS
    <3>2. PICK S : S = {}
      OBVIOUS
    <3>3. j \in 0 .. Len(L) /\ \A k \in 1 .. Len(L) : L[k].seq \in S <=> k <= j
      BY <1>1, <3>1, <3>2
    <3>4. Kept(L, S) = SubSeq(L, j + 1, Len(L))
      BY <1>1, <3>3, KeptRest
    <3> QED BY <3>1, <3>2, <3>4
  <2>3. lo \in lo .. hi + 1 /\ a < lo /\ lo - lo + 1 = 0 + 1
    BY <1>1, <1>3
  <2>4. On(x) \in {On(lo - 1), On(lo)}
    BY <1>1
  <2>5. AckLeaves(L, lo, hi, x, a, lo)
    BY <2>1, <2>2, <2>3, <2>4 DEF AckLeaves
  <2> QED BY <1>1, <2>5
<1>4. CASE ~(a < x)
  <2> DEFINE S == Acked(On(x), On(a), On(hi))
             j == a - lo + 1
  <2>1. /\ S = {n \in SequenceNR : adp_between(On(x), n, On(a + 1))}
        /\ AckedTo(On(x), On(a), On(hi)) = On(a + 1)
    <3>1. adp_between(On(x), On(a), nextSEQ(On(hi)))
      BY <1>1, <1>2, <1>4
    <3>2. nextSEQ(On(a)) = On(a + 1)
      BY OnNext
    <3>3. S = {n \in SequenceNR : adp_between(On(x), n, nextSEQ(On(a)))}
      BY <3>1 DEF Acked
    <3>4. AckedTo(On(x), On(a), On(hi)) = nextSEQ(On(a))
      BY <3>1 DEF AckedTo
    <3> QED BY <3>2, <3>3, <3>4
  <2>2. j \in 0 .. Len(L) /\ a + 1 \in lo .. hi + 1 /\ a < a + 1
        /\ (a + 1) - lo + 1 = j + 1 /\ (a + 1) - 1 = a
    BY <1>1, <1>4
  <2>3. ASSUME NEW k \in 1 .. Len(L)
        PROVE  L[k].seq \in S <=> k <= j
    <3> DEFINE b == lo + k - 1
    <3>1. /\ b \in Int /\ a + 1 \in Int /\ x <= a + 1 /\ a + 1 <= x + MAX_SEQ
          /\ (a + 1) - Turn <= b /\ b <= x + MAX_SEQ /\ x <= b
          /\ (b < a + 1 <=> k <= j)
      BY <1>1, <1>4, TurnFacts
    <3> HIDE DEF b, j
    <3>2. adp_between(On(x), On(b), On(a + 1)) <=> x <= b /\ b < a + 1
      BY <1>1, <3>1, Between
    <3>3. On(b) \in SequenceNR /\ L[k].seq = On(b)
      BY <1>1, <3>1, OnRange DEF b
    <3> QED BY <2>1, <3>1, <3>2, <3>3
  <2> HIDE DEF S, j
  <2>4. Kept(L, S) = SubSeq(L, j + 1, Len(L))
    BY <1>1, <2>2, <2>3, KeptRest
  <2>5. AckLeaves(L, lo, hi, x, a, a + 1)
    BY <2>1, <2>2, <2>4 DEF AckLeaves, S
  <2> QED BY <2>5
<1> QED BY <1>1, <1>3, <1>4

(* What is sent again from packet start on: all packets up to hi in the     *)
(* order of their numbers, or none if the first has been acknowledged.      *)
Again(r, L, lo, hi, start, expected) ==
  /\ r = [k \in 1 .. Len(r) |-> r[k]] /\ Len(r) \in Nat
  /\ start < lo => r = <<>>
  /\ start >= lo => Len(r) = hi - start + 1
  /\ \A k \in 1 .. Len(r) :
       /\ start >= lo
       /\ r[k] = Packet("CF_RELIABLE", On(start + k - 1), lastSEQ(expected),
                        L[start - lo + k].chan, L[start - lo + k].body)

LEMMA SentAgain ==
  ASSUME NEW L, NEW lo, NEW hi, Listed(L, lo, hi), Len(L) <= MAX_SEQ,
         NEW start \in Int, hi + 1 - MAX_SEQ <= start, start <= hi + 1,
         NEW expected
  PROVE  Again(Resent(L, On(start), On(hi), expected), L, lo, hi, start, expected)
<1> DEFINE Available(n) == /\ adp_between(On(start), n, nextSEQ(On(hi)))
                           /\ \E e \in ToSet(L) : e.seq = n
           nth(k) == (On(start) + k) % (MAX_SEQ + 1)
           Missing == {k \in 0 .. Len(L) : ~Available(nth(k))}
           n == Min(Missing)
           r == [k \in 1 .. n |->
                  LET e == CHOOSE e \in ToSet(L) : e.seq = nth(k - 1) IN
                  Packet("CF_RELIABLE", e.seq, lastSEQ(expected), e.chan, e.body)]
<1>1. /\ lo \in Int /\ hi \in Int /\ Len(L) \in Nat /\ Len(L) = hi - lo + 1
      /\ L \in Seq(Entry)
      /\ \A k \in 1 .. Len(L) : L[k].seq = On(lo + k - 1)
  BY DEF Listed
<1>2. Resent(L, On(start), On(hi), expected) = r
  BY DEF Resent
<1>3. \A e : e \in ToSet(L) <=> \E j \in 1 .. Len(L) : e = L[j]
  BY <1>1 DEF ToSet
<1>4. ASSUME NEW k \in 0 .. MAX_SEQ
      PROVE  nth(k) = On(start + k)
  <2>1. k \in 0 .. Turn /\ k \in Nat
    BY TurnFacts
  <2>2. /\ On(start) \in 0 .. MAX_SEQ
        /\ On(start + k) = IF On(start) + k <= MAX_SEQ THEN On(start) + k
                           ELSE On(start) + k - Turn
    BY <2>1, OnShift
  <2>3. nth(k) = On(On(start) + k)
    BY DEF On, Turn
  <2>4. On(On(start) + k) = On(start + k)
    <3>1. CASE On(start) + k <= MAX_SEQ
      <4>1. (Turn * 0 + (On(start) + k)) % Turn = On(start) + k
        <5>1. On(start) + k \in 0 .. Turn - 1 /\ 0 \in Int
          BY <2>1, <2>2, <3>1, TurnFacts
        <5> QED BY <5>1, TurnFacts, ModUnique
      <4>2. Turn * 0 + (On(start) + k) = On(start) + k
        BY <2>1, <2>2, TurnFacts
      <4>3. On(On(start) + k) = On(start) + k
        BY <4>1, <4>2 DEF On
      <4> QED BY <2>2, <3>1, <4>3
    <3>2. CASE ~(On(start) + k <= MAX_SEQ)
      <4>1. (Turn * 1 + (On(start) + k - Turn)) % Turn = On(start) + k - Turn
        <5>1. On(start) + k - Turn \in 0 .. Turn - 1 /\ 1 \in Int
          BY <2>1, <2>2, <3>2, TurnFacts
        <5> QED BY <5>1, TurnFacts, ModUnique
      <4>2. Turn * 1 + (On(start) + k - Turn) = On(start) + k
        BY <2>1, <2>2, TurnFacts
      <4>3. On(On(start) + k) = On(start) + k - Turn
        BY <4>1, <4>2 DEF On
      <4> QED BY <2>2, <3>2, <4>3
    <3> QED BY <3>1, <3>2
  <2> QED BY <2>3, <2>4
<1> HIDE DEF nth
<1>5. ASSUME NEW k \in 0 .. Len(L)
      PROVE  /\ k \in 0 .. MAX_SEQ /\ nth(k) = On(start + k)
             /\ adp_between(On(start), nth(k), nextSEQ(On(hi))) <=> start + k <= hi
  <2>1. k \in 0 .. MAX_SEQ /\ k \in Nat /\ start + k \in Int /\ hi + 1 \in Int
    BY <1>1, TurnFacts
  <2>2. /\ start <= hi + 1 /\ hi + 1 <= start + MAX_SEQ
        /\ (hi + 1) - Turn <= start + k /\ start + k <= start + MAX_SEQ
        /\ (start <= start + k /\ start + k < hi + 1 <=> start + k <= hi)
    BY <1>1, <2>1, TurnFacts
  <2>3. adp_between(On(start), On(start + k), On(hi + 1))
          <=> start <= start + k /\ start + k < hi + 1
    BY <2>1, <2>2, Between
  <2> QED BY <1>1, <1>4, <2>1, <2>2, <2>3, OnNext
<1>6. ASSUME start < lo
      PROVE  n = 0
  <2>1. ~Available(nth(0))
    <3> SUFFICES ASSUME Available(nth(0)) PROVE FALSE
      OBVIOUS
    <3>1. 0 \in 0 .. Len(L)
      BY <1>1
    <3>2. start <= hi /\ nth(0) = On(start)
      BY <1>5, <3>1
    <3>3. PICK j \in 1 .. Len(L) : L[j].seq = On(start)
      BY <1>3, <3>2
    <3>4. On(lo + j - 1) = On(start) /\ lo + j - 1 \in Int
      BY <1>1, <3>3
    <3>5. (lo + j - 1) - start \in -MAX_SEQ .. MAX_SEQ
      BY <1>1, <1>6, <3>2, TurnFacts
    <3>6. lo + j - 1 = start
      BY <3>4, <3>5, OnEqual
    <3> QED BY <1>1, <1>6, <3>6
  <2>2. 0 \in Missing /\ Missing \subseteq Nat
    BY <1>1, <2>1
  <2> HIDE DEF Missing
  <2>3. n \in Missing /\ n <= 0 /\ n \in Nat
    BY <2>2, Least
  <2> QED BY <2>3
<1>7. ASSUME start >= lo, NEW k \in 0 .. Len(L), start + k <= hi
      PROVE  /\ start - lo + (k + 1) \in 1 .. Len(L)
             /\ L[start - lo + (k + 1)].seq = nth(k)
             /\ \A j \in 1 .. Len(L) : L[j].seq = nth(k) => j = start - lo + (k + 1)
  <2>1. start - lo + (k + 1) \in 1 .. Len(L)
    BY <1>1, <1>7
  <2>2. lo + (start - lo + (k + 1)) - 1 = start + k /\ start + k \in Int
    BY <1>1
  <2>3. L[start - lo + (k + 1)].seq = nth(k)
    BY <1>1, <1>5, <2>1, <2>2
  <2>4. ASSUME NEW j \in 1 .. Len(L), L[j].seq = nth(k)
        PROVE  j = start - lo + (k + 1)
    <3>0. L[j].seq = On(lo + j - 1) /\ lo + j - 1 \in Int /\ nth(k) = On(start + k)
      BY <1>1, <1>5
    <3>1. On(lo + j - 1) = On(start + k) /\ lo + j - 1 \in Int
      BY <2>4, <3>0
    <3>2. (lo + j - 1) - (start + k) \in -MAX_SEQ .. MAX_SEQ
      BY <1>1, <1>7, TurnFacts
    <3>3. lo + j - 1 = start + k
      BY <2>2, <3>1, <3>2, OnEqual
    <3> QED BY <1>1, <3>3
  <2> QED BY <2>1, <2>3, <2>4
<1>8. ASSUME start >= lo
      PROVE  n = hi - start + 1
  <2> DEFINE m == hi - start + 1
  <2>1. m \in 0 .. Len(L) /\ m \in Nat
    BY <1>1, <1>8
  <2>2. m \in Missing
    <3>1. ~(start + m <= hi)
      BY <1>1
    <3> HIDE DEF m
    <3> QED BY <1>5, <2>1, <3>1
  <2>3. ASSUME NEW k \in Missing
        PROVE  k >= m
    <3> SUFFICES ASSUME k < m PROVE FALSE
      BY <1>1, <2>1
    <3>1. k \in 0 .. Len(L) /\ start + k <= hi /\ k \in Nat
      BY <1>1, <2>1
    <3>2. adp_between(On(start), nth(k), nextSEQ(On(hi)))
      BY <1>5, <3>1
    <3>3. \E e \in ToSet(L) : e.seq = nth(k)
      BY <1>3, <1>7, <1>8, <3>1
    <3> QED BY <3>2, <3>3
  <2>4. Missing \subseteq Nat
    BY <1>1
  <2> HIDE DEF Missing, m
  <2>5. n \in Missing /\ n <= m /\ n \in Nat
    BY <2>2, <2>4, Least
  <2>6. n >= m
    BY <2>3, <2>5
  <2>7. n = m
    BY <2>1, <2>5, <2>6
  <2> QED BY <2>7 DEF m
<1>9. n \in Nat
  BY <1>1, <1>6, <1>8
<1>10. ASSUME NEW k \in 1 .. n
       PROVE  /\ start >= lo
              /\ r[k] = Packet("CF_RELIABLE", On(start + k - 1), lastSEQ(expected),
                               L[start - lo + k].chan, L[start - lo + k].body)
  <2> HIDE DEF n
  <2>1. start >= lo /\ n = hi - start + 1
    BY <1>1, <1>6, <1>8, <1>9
  <2>2. k - 1 \in 0 .. Len(L) /\ start + (k - 1) <= hi /\ k \in Nat /\ (k - 1) + 1 = k
    BY <1>1, <1>9, <2>1
  <2>3. /\ start - lo + k \in 1 .. Len(L) /\ L[start - lo + k].seq = nth(k - 1)
        /\ \A j \in 1 .. Len(L) : L[j].seq = nth(k - 1) => j = start - lo + k
    BY <1>7, <2>1, <2>2
  <2>4. (CHOOSE e \in ToSet(L) : e.seq = nth(k - 1)) = L[start - lo + k]
    BY <1>3, <2>3
  <2>5. r[k] = Packet("CF_RELIABLE", L[start - lo + k].seq, lastSEQ(expected),
                      L[start - lo + k].chan, L[start - lo + k].body)
    BY <2>4
  <2>6. nth(k - 1) = On(start + k - 1)
    <3>1. start + (k - 1) = start + k - 1
      BY <2>2
    <3> QED BY <1>5, <2>2, <3>1
  <2> QED BY <2>1, <2>3, <2>5, <2>6
<1>11. r = [k \in 1 .. Len(r) |-> r[k]] /\ Len(r) = n
  <2> HIDE DEF n
  <2>1. r = [k \in 1 .. n |-> r[k]]
    OBVIOUS
  <2>2. Len(r) = n
    BY <1>9
  <2> HIDE DEF r
  <2> QED BY <2>1, <2>2
<1>12. start < lo => r = <<>>
  <2>1. start < lo => n = 0
    BY <1>6
  <2> HIDE DEF n
  <2> QED BY <2>1
<1> HIDE DEF n, r
<1>13. Again(r, L, lo, hi, start, expected)
  BY <1>8, <1>9, <1>10, <1>11, <1>12 DEF Again
<1> QED BY <1>2, <1>13

-----------------------------------------------------------------------------
(* The calls.  A channel is idle, or its request is on its way, being       *)
(* served, or answered by a reply on its way.                               *)

Idle(cr, ce, c)    == ~cr[c].waiting
Asked(cr, ce, c)   == cr[c].waiting /\ ~ce[c].serving /\ cr[c].body # ce[c].body
Serving(cr, ce, c) == ce[c].serving
Replied(cr, ce, c) == cr[c].waiting /\ ~ce[c].serving /\ cr[c].body = ce[c].body

CallsOK(cr, ce) ==
  /\ cr \in [Channel -> [waiting : BOOLEAN, body : Body, answer : Body]]
  /\ ce \in [Channel -> [serving : BOOLEAN, body : Body]]
  /\ \A c \in Channel :
       /\ ce[c].serving => cr[c].waiting
       /\ cr[c].body # ce[c].body => cr[c].waiting /\ ~ce[c].serving

SameCall(cr, ce, cr1, ce1, c) == cr1[c] = cr[c] /\ ce1[c] = ce[c]

(* One way of the link.  Its sender asks on the channel ask and replies on  *)
(* serve; f is the packet the other end expects next.  Every packet the     *)
(* other end has not accepted belongs to a call, which waits for it; the    *)
(* list holds no two packets of one channel.                                *)
Outstanding(cr, ce, ask, serve) ==
  (IF Asked(cr, ce, ask) THEN 1 ELSE 0) + (IF Replied(cr, ce, serve) THEN 1 ELSE 0)

Belongs(e, n, f, ask, serve, cr, ce) ==
  \/ /\ e.chan = ask /\ ~Idle(cr, ce, ask)
     /\ n >= f => Asked(cr, ce, ask) /\ e.body = cr[ask].body
  \/ /\ e.chan = serve /\ ~Serving(cr, ce, serve)
     /\ n >= f => Replied(cr, ce, serve) /\ e.body = ce[serve].body

Way(L, lo, hi, f, ask, serve, cr, ce) ==
  /\ Listed(L, lo, hi) /\ f \in Int /\ lo <= f
  /\ hi - f + 1 = Outstanding(cr, ce, ask, serve)
  /\ \A k \in 1 .. Len(L) : Belongs(L[k], lo + k - 1, f, ask, serve, cr, ce)
  /\ \A j, k \in 1 .. Len(L) : L[j].chan = L[k].chan => j = k

Ends(ask, serve) == ask \in Channel /\ serve \in Channel /\ ask # serve

LEMMA WayBounds ==
  ASSUME NEW L, NEW lo, NEW hi, NEW f, NEW ask, NEW serve, NEW cr, NEW ce,
         Way(L, lo, hi, f, ask, serve, cr, ce)
  PROVE  /\ lo \in Int /\ hi \in Int /\ f \in Int /\ L \in Seq(Entry)
         /\ Len(L) \in 0 .. 2 /\ Len(L) = hi - lo + 1
         /\ lo <= f /\ f <= hi + 1 /\ hi <= f + 1
<1>1. /\ lo \in Int /\ hi \in Int /\ f \in Int /\ L \in Seq(Entry) /\ Len(L) \in Nat
      /\ Len(L) = hi - lo + 1 /\ lo <= f
  BY DEF Way, Listed
<1>2. \A k \in 1 .. Len(L) : L[k].chan = ask \/ L[k].chan = serve
  BY DEF Way, Belongs
<1>3. ~(Len(L) > 2)
  <2> SUFFICES ASSUME Len(L) > 2 PROVE FALSE
    OBVIOUS
  <2>1. 1 \in 1 .. Len(L) /\ 2 \in 1 .. Len(L) /\ 3 \in 1 .. Len(L)
    BY <1>1
  <2>2. \A j, k \in 1 .. Len(L) : L[j].chan = L[k].chan => j = k
    BY DEF Way
  <2>3. L[1].chan # L[2].chan /\ L[1].chan # L[3].chan /\ L[2].chan # L[3].chan
    BY <2>1, <2>2
  <2> QED BY <1>2, <2>1, <2>3
<1>4. hi - f + 1 \in 0 .. 2
  BY DEF Way, Outstanding
<1> QED BY <1>1, <1>3, <1>4

(* A packet is appended: a new request, or the reply to a request served.   *)
LEMMA WaySend ==
  ASSUME NEW L, NEW lo, NEW hi, NEW f, NEW ask, NEW serve, NEW cr, NEW ce,
         Ends(ask, serve), Way(L, lo, hi, f, ask, serve, cr, ce),
         NEW e \in Entry, e.seq = On(hi + 1), NEW cr1, NEW ce1,
         \/ /\ Idle(cr, ce, ask) /\ Asked(cr1, ce1, ask)
            /\ e.chan = ask /\ e.body = cr1[ask].body
            /\ SameCall(cr, ce, cr1, ce1, serve)
         \/ /\ Serving(cr, ce, serve) /\ Replied(cr1, ce1, serve)
            /\ e.chan = serve /\ e.body = ce1[serve].body
            /\ SameCall(cr, ce, cr1, ce1, ask)
  PROVE  Way(Append(L, e), lo, hi + 1, f, ask, serve, cr1, ce1)
<1> DEFINE M == Append(L, e)
           l == Len(L)
<1>1. /\ lo \in Int /\ hi \in Int /\ f \in Int /\ L \in Seq(Entry)
      /\ l \in Nat /\ l = hi - lo + 1 /\ lo <= f /\ f <= hi + 1
  BY WayBounds
<1>2. /\ M \in Seq(Entry) /\ Len(M) = l + 1 /\ M[l + 1] = e
      /\ \A k \in 1 .. l : M[k] = L[k]
  BY <1>1
<1> HIDE DEF M
<1>3. \A k \in 1 .. l + 1 : k \in 1 .. l \/ k = l + 1
  BY <1>1
<1>4. /\ \A k \in 1 .. l : L[k].seq = On(lo + k - 1)
      /\ \A k \in 1 .. l : Belongs(L[k], lo + k - 1, f, ask, serve, cr, ce)
      /\ \A j, k \in 1 .. l : L[j].chan = L[k].chan => j = k
      /\ hi - f + 1 = Outstanding(cr, ce, ask, serve)
  BY DEF Way, Listed
<1>5. \A k \in 1 .. l : L[k].chan # e.chan
  <2> TAKE k \in 1 .. l
  <2>1. Belongs(L[k], lo + k - 1, f, ask, serve, cr, ce)
    BY <1>4
  <2> QED BY <2>1 DEF Belongs, Ends, Idle, Serving
<1>6. Listed(M, lo, hi + 1)
  <2>1. lo + (l + 1) - 1 = hi + 1 /\ l + 1 = (hi + 1) - lo + 1
    BY <1>1
  <2>2. \A k \in 1 .. l + 1 : M[k].seq = On(lo + k - 1)
    BY <1>2, <1>3, <1>4, <2>1
  <2> HIDE DEF l
  <2> QED BY <1>1, <1>2, <2>1, <2>2 DEF Listed
<1>7. (hi + 1) - f + 1 = Outstanding(cr1, ce1, ask, serve)
  <2>1. Outstanding(cr1, ce1, ask, serve) = Outstanding(cr, ce, ask, serve) + 1
    BY DEF Outstanding, Idle, Asked, Serving, Replied, SameCall
  <2> QED BY <1>1, <1>4, <2>1
<1>8. ASSUME NEW k \in 1 .. l + 1
      PROVE  Belongs(M[k], lo + k - 1, f, ask, serve, cr1, ce1)
  <2>1. CASE k \in 1 .. l
    <3>1. Belongs(L[k], lo + k - 1, f, ask, serve, cr, ce) /\ M[k] = L[k]
      BY <1>2, <1>4, <2>1
    <3>2. L[k].chan # e.chan
      BY <1>5, <2>1
    <3> QED BY <3>1, <3>2 DEF Belongs, Ends, Idle, Asked, Serving, Replied, SameCall
  <2>2. CASE k = l + 1
    <3>1. M[k] = e
      BY <1>2, <2>2
    <3> QED BY <3>1 DEF Belongs, Ends, Idle, Asked, Serving, Replied, SameCall
  <2> QED BY <1>3, <2>1, <2>2
<1>9. \A j, k \in 1 .. l + 1 : M[j].chan = M[k].chan => j = k
  BY <1>2, <1>3, <1>4, <1>5
<1>10. Len(M) = l + 1
  BY <1>2
<1> HIDE DEF l
<1>11. Way(M, lo, hi + 1, f, ask, serve, cr1, ce1)
  BY <1>1, <1>6, <1>7, <1>8, <1>9, <1>10 DEF Way
<1> QED BY <1>11 DEF M

(* The packet the other end expects is accepted there.                      *)
LEMMA WayAccept ==
  ASSUME NEW L, NEW lo, NEW hi, NEW f, NEW ask, NEW serve, NEW cr, NEW ce,
         Ends(ask, serve), Way(L, lo, hi, f, ask, serve, cr, ce),
         f <= hi, NEW c, c = L[f - lo + 1].chan, NEW cr1, NEW ce1,
         \/ /\ c = ask /\ Serving(cr1, ce1, ask) /\ ~Idle(cr1, ce1, ask)
            /\ SameCall(cr, ce, cr1, ce1, serve)
         \/ /\ c = serve /\ Idle(cr1, ce1, serve) /\ ~Serving(cr1, ce1, serve)
            /\ SameCall(cr, ce, cr1, ce1, ask)
  PROVE  Way(L, lo, hi, f + 1, ask, serve, cr1, ce1)
<1>1. /\ lo \in Int /\ hi \in Int /\ f \in Int /\ L \in Seq(Entry)
      /\ Len(L) \in Nat /\ Len(L) = hi - lo + 1 /\ lo <= f /\ f <= hi + 1
  BY WayBounds
<1>2. f - lo + 1 \in 1 .. Len(L)
  BY <1>1
<1>3. /\ \A k \in 1 .. Len(L) : Belongs(L[k], lo + k - 1, f, ask, serve, cr, ce)
      /\ \A j, k \in 1 .. Len(L) : L[j].chan = L[k].chan => j = k
      /\ hi - f + 1 = Outstanding(cr, ce, ask, serve) /\ Listed(L, lo, hi)
  BY DEF Way
<1>4. /\ c = ask => Asked(cr, ce, ask)
      /\ c = serve => Replied(cr, ce, serve)
  <2>1. Belongs(L[f - lo + 1], lo + (f - lo + 1) - 1, f, ask, serve, cr, ce)
    BY <1>2, <1>3
  <2>2. lo + (f - lo + 1) - 1 >= f
    BY <1>1
  <2> QED BY <2>1, <2>2 DEF Belongs, Ends
<1>5. hi - (f + 1) + 1 = Outstanding(cr1, ce1, ask, serve)
  <2>1. Outstanding(cr1, ce1, ask, serve) = Outstanding(cr, ce, ask, serve) - 1
    BY <1>4 DEF Outstanding, Idle, Asked, Serving, Replied, SameCall
  <2> QED BY <1>1, <1>3, <2>1
<1>6. ASSUME NEW k \in 1 .. Len(L)
      PROVE  Belongs(L[k], lo + k - 1, f + 1, ask, serve, cr1, ce1)
  <2>1. Belongs(L[k], lo + k - 1, f, ask, serve, cr, ce)
    BY <1>3
  <2>2. CASE k = f - lo + 1
    <3>1. ~(lo + k - 1 >= f + 1) /\ L[k].chan = c
      BY <1>1, <2>2
    <3> QED BY <3>1 DEF Belongs, Ends, Idle, Serving
  <2>3. CASE k # f - lo + 1
    <3>1. L[k].chan # c
      BY <1>2, <1>3, <2>3
    <3>2. lo + k - 1 >= f + 1 => lo + k - 1 >= f
      BY <1>1
    <3> QED BY <2>1, <3>1, <3>2 DEF Belongs, Ends, Idle, Asked, Serving, Replied, SameCall
  <2> QED BY <2>2, <2>3
<1> QED BY <1>1, <1>3, <1>5, <1>6 DEF Way

(* The list after an acknowledgement, up to a packet the other end has      *)
(* accepted; and what the other end's calls may do meanwhile.  c is the     *)
(* channel of a packet accepted here: nothing on it is still in the list.   *)
LEMMA WayCut ==
  ASSUME NEW L, NEW lo, NEW hi, NEW f, NEW ask, NEW serve, NEW cr, NEW ce,
         Ends(ask, serve), Way(L, lo, hi, f, ask, serve, cr, ce),
         NEW lo1 \in Int, lo <= lo1, lo1 <= f, NEW cr1, NEW ce1, NEW c,
         \A k \in 1 .. Len(L) : L[k].chan = c => lo + k - 1 < lo1,
         \/ /\ c = serve /\ Asked(cr, ce, serve) /\ Serving(cr1, ce1, serve)
            /\ SameCall(cr, ce, cr1, ce1, ask)
         \/ /\ c = ask /\ Replied(cr, ce, ask)
            /\ Idle(cr1, ce1, ask) /\ ~Serving(cr1, ce1, ask)
            /\ SameCall(cr, ce, cr1, ce1, serve)
  PROVE  Way(SubSeq(L, lo1 - lo + 1, Len(L)), lo1, hi, f, ask, serve, cr1, ce1)
<1>1. /\ lo \in Int /\ hi \in Int /\ f \in Int /\ L \in Seq(Entry)
      /\ Len(L) \in Nat /\ Len(L) = hi - lo + 1 /\ lo <= f /\ f <= hi + 1
  BY WayBounds
<1>2. PICK d \in Nat : d = lo1 - lo
  BY <1>1
<1>3. PICK l \in Nat : l = Len(L)
  BY <1>1
<1> DEFINE M == SubSeq(L, d + 1, l)
<1>4. /\ M \in Seq(Entry) /\ Len(M) = l - d /\ l - d \in Nat
      /\ \A k \in 1 .. l - d : M[k] = L[k + d] /\ k + d \in 1 .. l
  BY <1>1, <1>2, <1>3
<1>5. /\ \A k \in 1 .. l : L[k].seq = On(lo + k - 1)
      /\ \A k \in 1 .. l : Belongs(L[k], lo + k - 1, f, ask, serve, cr, ce)
      /\ \A j, k \in 1 .. l : L[j].chan = L[k].chan => j = k
      /\ hi - f + 1 = Outstanding(cr, ce, ask, serve)
  BY <1>3 DEF Way, Listed
<1> HIDE DEF M
<1>6. ASSUME NEW k \in 1 .. l - d
      PROVE  lo + (k + d) - 1 = lo1 + k - 1 /\ k + d \in 1 .. l /\ M[k] = L[k + d]
  BY <1>1, <1>2, <1>4
<1>7. Listed(M, lo1, hi)
  <2>1. \A k \in 1 .. l - d : M[k].seq = On(lo1 + k - 1)
    <3> TAKE k \in 1 .. l - d
    <3>1. L[k + d].seq = On(lo + (k + d) - 1)
      BY <1>5, <1>6
    <3> QED BY <1>6, <3>1
  <2>2. l - d = hi - lo1 + 1
    BY <1>1, <1>2, <1>3
  <2> QED BY <1>1, <1>4, <2>1, <2>2 DEF Listed
<1>8. hi - f + 1 = Outstanding(cr1, ce1, ask, serve)
  <2>1. Outstanding(cr1, ce1, ask, serve) = Outstanding(cr, ce, ask, serve)
    BY DEF Outstanding, Ends, Idle, Asked, Serving, Replied, SameCall
  <2> QED BY <1>5, <2>1
<1>9. ASSUME NEW k \in 1 .. l - d
      PROVE  Belongs(M[k], lo1 + k - 1, f, ask, serve, cr1, ce1)
  <2>1. Belongs(M[k], lo1 + k - 1, f, ask, serve, cr, ce)
    <3>1. Belongs(L[k + d], lo + (k + d) - 1, f, ask, serve, cr, ce)
      BY <1>5, <1>6
    <3> QED BY <1>6, <3>1
  <2>2. M[k].chan # c
    <3>1. ~(lo + (k + d) - 1 < lo1)
      BY <1>1, <1>2, <1>4
    <3> QED BY <1>3, <1>6, <3>1
  <2> QED BY <2>1, <2>2 DEF Belongs, Ends, Idle, Asked, Serving, Replied, SameCall
<1>10. \A j, k \in 1 .. l - d : M[j].chan = M[k].chan => j = k
  <2> TAKE j, k \in 1 .. l - d
  <2> HAVE M[j].chan = M[k].chan
  <2>1. /\ j + d \in 1 .. l /\ k + d \in 1 .. l
        /\ L[j + d].chan = L[k + d].chan
    BY <1>6
  <2>2. j + d = k + d
    BY <1>5, <2>1
  <2> QED BY <1>2, <2>2
<1>11. Way(M, lo1, hi, f, ask, serve, cr1, ce1)
  BY <1>1, <1>2, <1>4, <1>7, <1>8, <1>9, <1>10 DEF Way
<1> QED BY <1>1, <1>2, <1>3, <1>11 DEF M

(* The other end asks, or replies to what was asked here.                   *)
LEMMA WayOther ==
  ASSUME NEW L, NEW lo, NEW hi, NEW f, NEW ask, NEW serve, NEW cr, NEW ce,
         Ends(ask, serve), Way(L, lo, hi, f, ask, serve, cr, ce),
         NEW cr1, NEW ce1,
         \/ /\ Idle(cr, ce, serve) /\ Asked(cr1, ce1, serve)
            /\ SameCall(cr, ce, cr1, ce1, ask)
         \/ /\ Serving(cr, ce, ask) /\ Replied(cr1, ce1, ask)
            /\ SameCall(cr, ce, cr1, ce1, serve)
  PROVE  Way(L, lo, hi, f, ask, serve, cr1, ce1)
<1>1. Outstanding(cr1, ce1, ask, serve) = Outstanding(cr, ce, ask, serve)
  BY DEF Outstanding, Ends, Idle, Asked, Serving, Replied, SameCall
<1>2. ASSUME NEW k \in 1 .. Len(L)
      PROVE  Belongs(L[k], lo + k - 1, f, ask, serve, cr1, ce1)
  <2>1. Belongs(L[k], lo + k - 1, f, ask, serve, cr, ce)
    BY DEF Way
  <2> QED BY <2>1 DEF Belongs, Ends, Idle, Asked, Serving, Replied, SameCall
<1> QED BY <1>1, <1>2 DEF Way

(* Before it sends, an end has nothing on that channel in its list, so that *)
(* there is room.                                                           *)
LEMMA RoomForTwo == MAX_UNACKED = 2
<1>1. Cardinality({"CI_HADP"}) = 1 /\ IsFiniteSet({"CI_HADP"})
  BY FS_Singleton
<1>2. "CI_CLIB" \notin {"CI_HADP"} /\ {"CI_HADP"} \cup {"CI_CLIB"} = Channel
  BY DEF Channel
<1>3. Cardinality({"CI_HADP"} \cup {"CI_CLIB"}) = Cardinality({"CI_HADP"}) + 1
  BY <1>1, <1>2, FS_AddElement
<1> QED BY <1>1, <1>2, <1>3 DEF MAX_UNACKED

LEMMA WayRoom ==
  ASSUME NEW L, NEW lo, NEW hi, NEW f, NEW ask, NEW serve, NEW cr, NEW ce,
         Ends(ask, serve), Way(L, lo, hi, f, ask, serve, cr, ce),
         Idle(cr, ce, ask) \/ Serving(cr, ce, serve)
  PROVE  Len(L) < MAX_UNACKED
<1>1. Len(L) \in 0 .. 2
  BY WayBounds
<1>2. MAX_UNACKED = 2
  BY RoomForTwo
<1>3. Len(L) # 2
  <2> SUFFICES ASSUME Len(L) = 2 PROVE FALSE
    OBVIOUS
  <2>1. 1 \in 1 .. Len(L) /\ 2 \in 1 .. Len(L)
    OBVIOUS
  <2>2. \A j, k \in 1 .. Len(L) : L[j].chan = L[k].chan => j = k
    BY DEF Way
  <2>3. \A k \in 1 .. Len(L) : Belongs(L[k], lo + k - 1, f, ask, serve, cr, ce)
    BY DEF Way
  <2>4. L[1].chan # L[2].chan
    BY <2>1, <2>2
  <2>5. Belongs(L[1], lo + 1 - 1, f, ask, serve, cr, ce)
    BY <2>1, <2>3
  <2>6. Belongs(L[2], lo + 2 - 1, f, ask, serve, cr, ce)
    BY <2>1, <2>3
  <2> QED BY <2>4, <2>5, <2>6 DEF Belongs, Ends, Idle, Serving
<1> QED BY <1>1, <1>2, <1>3

-----------------------------------------------------------------------------
(* The four steps of a call.                                                *)

Asks(cr, ce, cr1, ce1, c) ==
  /\ Idle(cr, ce, c) /\ ce1 = ce
  /\ \E b \in Body \ {cr[c].body} :
       cr1 = [cr EXCEPT ![c].waiting = TRUE, ![c].body = b]
Served(cr, ce, cr1, ce1, c) ==
  /\ Asked(cr, ce, c) /\ cr1 = cr
  /\ ce1 = [ce EXCEPT ![c] = [serving |-> TRUE, body |-> cr[c].body]]
Replies(cr, ce, cr1, ce1, c) ==
  /\ Serving(cr, ce, c) /\ cr1 = cr
  /\ ce1 = [ce EXCEPT ![c].serving = FALSE]
Answered(cr, ce, cr1, ce1, c) ==
  /\ Replied(cr, ce, c) /\ ce1 = ce
  /\ cr1 = [cr EXCEPT ![c].waiting = FALSE, ![c].answer = cr[c].body]

(* The phases before and after, and the other channels.                     *)
Moved(cr, ce, cr1, ce1, c) ==
  CallsOK(cr1, ce1) /\ \A d \in Channel \ {c} : SameCall(cr, ce, cr1, ce1, d)

LEMMA AsksMoves ==
  ASSUME NEW cr, NEW ce, NEW cr1, NEW ce1, NEW c \in Channel,
         CallsOK(cr, ce), Asks(cr, ce, cr1, ce1, c)
  PROVE  Moved(cr, ce, cr1, ce1, c) /\ Asked(cr1, ce1, c)
<1>1. PICK b \in Body \ {cr[c].body} :
        cr1 = [cr EXCEPT ![c].waiting = TRUE, ![c].body = b]
  BY DEF Asks
<1>2. ~cr[c].waiting /\ ce1 = ce
  BY DEF Asks, Idle
<1>3. /\ cr \in [Channel -> [waiting : BOOLEAN, body : Body, answer : Body]]
      /\ ce \in [Channel -> [serving : BOOLEAN, body : Body]]
      /\ \A d \in Channel :
           /\ ce[d].serving => cr[d].waiting
           /\ cr[d].body # ce[d].body => cr[d].waiting /\ ~ce[d].serving
  BY DEF CallsOK
<1>4. /\ cr1 \in [Channel -> [waiting : BOOLEAN, body : Body, answer : Body]]
      /\ cr1[c].waiting = TRUE /\ cr1[c].body = b
      /\ \A d \in Channel \ {c} : cr1[d] = cr[d]
  BY <1>1, <1>3
<1>5. cr1[c].waiting /\ b # cr[c].body
  BY <1>1, <1>4
<1>6. ~ce[c].serving /\ cr[c].body = ce[c].body
  BY <1>2, <1>3
<1>7. \A d \in Channel : /\ ce1[d].serving => cr1[d].waiting
                         /\ cr1[d].body # ce1[d].body => cr1[d].waiting /\ ~ce1[d].serving
  <2> TAKE d \in Channel
  <2>1. CASE d = c
    BY <1>2, <1>4, <1>5, <1>6, <2>1
  <2>2. CASE d # c
    BY <1>2, <1>3, <1>4, <2>2
  <2> QED BY <2>1, <2>2
<1>8. CallsOK(cr1, ce1)
  BY <1>2, <1>3, <1>4, <1>7 DEF CallsOK
<1> QED BY <1>2, <1>4, <1>5, <1>6, <1>8 DEF Moved, SameCall, Asked

LEMMA ServedMoves ==
  ASSUME NEW cr, NEW ce, NEW cr1, NEW ce1, NEW c \in Channel,
         CallsOK(cr, ce), Served(cr, ce, cr1, ce1, c)
  PROVE  Moved(cr, ce, cr1, ce1, c) /\ Serving(cr1, ce1, c) /\ ~Idle(cr1, ce1, c)
<1>1. cr[c].waiting /\ cr1 = cr
  BY DEF Served, Asked
<1>2. /\ cr \in [Channel -> [waiting : BOOLEAN, body : Body, answer : Body]]
      /\ ce \in [Channel -> [serving : BOOLEAN, body : Body]]
      /\ \A d \in Channel :
           /\ ce[d].serving => cr[d].waiting
           /\ cr[d].body # ce[d].body => cr[d].waiting /\ ~ce[d].serving
  BY DEF CallsOK
<1>3. ce1 = [ce EXCEPT ![c] = [serving |-> TRUE, body |-> cr[c].body]]
  BY DEF Served
<1>4. /\ ce1 \in [Channel -> [serving : BOOLEAN, body : Body]]
      /\ ce1[c].serving = TRUE /\ ce1[c].body = cr[c].body
      /\ \A d \in Channel \ {c} : ce1[d] = ce[d]
  BY <1>2, <1>3
<1>5. ce1[c].serving
  BY <1>4
<1>6. \A d \in Channel : /\ ce1[d].serving => cr1[d].waiting
                         /\ cr1[d].body # ce1[d].body => cr1[d].waiting /\ ~ce1[d].serving
  <2> TAKE d \in Channel
  <2>1. CASE d = c
    BY <1>1, <1>4, <2>1
  <2>2. CASE d # c
    BY <1>1, <1>2, <1>4, <2>2
  <2> QED BY <2>1, <2>2
<1>7. CallsOK(cr1, ce1)
  BY <1>1, <1>2, <1>4, <1>6 DEF CallsOK
<1> QED BY <1>1, <1>4, <1>5, <1>7 DEF Moved, SameCall, Serving, Idle

LEMMA RepliesMoves ==
  ASSUME NEW cr, NEW ce, NEW cr1, NEW ce1, NEW c \in Channel,
         CallsOK(cr, ce), Replies(cr, ce, cr1, ce1, c)
  PROVE  Moved(cr, ce, cr1, ce1, c) /\ Replied(cr1, ce1, c)
<1>1. ce[c].serving /\ cr1 = cr /\ ce1 = [ce EXCEPT ![c].serving = FALSE]
  BY DEF Replies, Serving
<1>2. /\ cr \in [Channel -> [waiting : BOOLEAN, body : Body, answer : Body]]
      /\ ce \in [Channel -> [serving : BOOLEAN, body : Body]]
      /\ \A d \in Channel :
           /\ ce[d].serving => cr[d].waiting
           /\ cr[d].body # ce[d].body => cr[d].waiting /\ ~ce[d].serving
  BY DEF CallsOK
<1>3. /\ ce1 \in [Channel -> [serving : BOOLEAN, body : Body]]
      /\ ce1[c].serving = FALSE /\ ce1[c].body = ce[c].body
      /\ \A d \in Channel \ {c} : ce1[d] = ce[d]
  BY <1>1, <1>2
<1>4. ~ce1[c].serving
  BY <1>3
<1>5. cr[c].waiting /\ cr[c].body = ce[c].body
  BY <1>1, <1>2
<1>6. \A d \in Channel : /\ ce1[d].serving => cr1[d].waiting
                         /\ cr1[d].body # ce1[d].body => cr1[d].waiting /\ ~ce1[d].serving
  <2> TAKE d \in Channel
  <2>1. CASE d = c
    BY <1>1, <1>3, <1>4, <1>5, <2>1
  <2>2. CASE d # c
    BY <1>1, <1>2, <1>3, <2>2
  <2> QED BY <2>1, <2>2
<1>7. CallsOK(cr1, ce1)
  BY <1>1, <1>2, <1>3, <1>6 DEF CallsOK
<1> QED BY <1>1, <1>3, <1>4, <1>5, <1>7 DEF Moved, SameCall, Replied

LEMMA AnsweredMoves ==
  ASSUME NEW cr, NEW ce, NEW cr1, NEW ce1, NEW c \in Channel,
         CallsOK(cr, ce), Answered(cr, ce, cr1, ce1, c)
  PROVE  Moved(cr, ce, cr1, ce1, c) /\ Idle(cr1, ce1, c) /\ ~Serving(cr1, ce1, c)
<1>1. /\ ce1 = ce
      /\ cr1 = [cr EXCEPT ![c].waiting = FALSE, ![c].answer = cr[c].body]
  BY DEF Answered
<1>2. ~ce[c].serving /\ cr[c].body = ce[c].body
  BY DEF Answered, Replied
<1>3. /\ cr \in [Channel -> [waiting : BOOLEAN, body : Body, answer : Body]]
      /\ ce \in [Channel -> [serving : BOOLEAN, body : Body]]
      /\ \A d \in Channel :
           /\ ce[d].serving => cr[d].waiting
           /\ cr[d].body # ce[d].body => cr[d].waiting /\ ~ce[d].serving
  BY DEF CallsOK
<1>4. cr[c].body \in Body
  BY <1>3
<1>5. /\ cr1 \in [Channel -> [waiting : BOOLEAN, body : Body, answer : Body]]
      /\ cr1[c].waiting = FALSE /\ cr1[c].body = cr[c].body
      /\ \A d \in Channel \ {c} : cr1[d] = cr[d]
  BY <1>1, <1>3, <1>4
<1>6. ~cr1[c].waiting
  BY <1>5
<1>7. \A d \in Channel : /\ ce1[d].serving => cr1[d].waiting
                         /\ cr1[d].body # ce1[d].body => cr1[d].waiting /\ ~ce1[d].serving
  <2> TAKE d \in Channel
  <2>1. CASE d = c
    BY <1>1, <1>2, <1>5, <2>1
  <2>2. CASE d # c
    BY <1>1, <1>3, <1>5, <2>2
  <2> QED BY <2>1, <2>2
<1>8. CallsOK(cr1, ce1)
  BY <1>1, <1>3, <1>5, <1>7 DEF CallsOK
<1> QED BY <1>1, <1>2, <1>5, <1>6, <1>8 DEF Moved, SameCall, Idle, Serving

-----------------------------------------------------------------------------
(* The two ends of the link together.  One end asks on x and replies on y;  *)
(* its list L holds lo .. hi, it expects f next.  The other asks on y and   *)
(* replies on x; its list M holds lm .. hm, it expects g next.  An end may  *)
(* send as often as it has no call of its own and a request to reply to.    *)

Credit(cr, ce, ask, serve) ==
  (IF Idle(cr, ce, ask) THEN 1 ELSE 0) + (IF Serving(cr, ce, serve) THEN 1 ELSE 0)

Joined(L, lo, hi, f, M, lm, hm, g, x, y, cr, ce) ==
  /\ CallsOK(cr, ce)
  /\ Way(L, lo, hi, g, x, y, cr, ce)
  /\ Way(M, lm, hm, f, y, x, cr, ce)
  /\ hi + Credit(cr, ce, x, y) = f
  /\ hm + Credit(cr, ce, y, x) = g

LEMMA JoinedBothWays ==
  ASSUME NEW L, NEW lo, NEW hi, NEW f, NEW M, NEW lm, NEW hm, NEW g,
         NEW x, NEW y, NEW cr, NEW ce,
         Joined(L, lo, hi, f, M, lm, hm, g, x, y, cr, ce)
  PROVE  Joined(M, lm, hm, g, L, lo, hi, f, y, x, cr, ce)
BY DEF Joined

LEMMA JoinedBounds ==
  ASSUME NEW L, NEW lo, NEW hi, NEW f, NEW M, NEW lm, NEW hm, NEW g,
         NEW x, NEW y, NEW cr, NEW ce,
         Joined(L, lo, hi, f, M, lm, hm, g, x, y, cr, ce)
  PROVE  /\ lo \in Int /\ hi \in Int /\ f \in Int /\ L \in Seq(Entry)
         /\ Len(L) \in 0 .. 2 /\ Len(L) = hi - lo + 1
         /\ lm \in Int /\ hm \in Int /\ g \in Int /\ M \in Seq(Entry)
         /\ Len(M) \in 0 .. 2 /\ Len(M) = hm - lm + 1
         /\ lo <= g /\ g <= hi + 1 /\ hi <= g + 1
         /\ lm <= f /\ f <= hm + 1 /\ hm <= f + 1
         /\ hi <= f /\ f <= hi + 2 /\ hm <= g /\ g <= hm + 2
<1>1. Way(L, lo, hi, g, x, y, cr, ce) /\ Way(M, lm, hm, f, y, x, cr, ce)
  BY DEF Joined
<1>2. /\ lo \in Int /\ hi \in Int /\ g \in Int /\ L \in Seq(Entry)
      /\ Len(L) \in 0 .. 2 /\ Len(L) = hi - lo + 1
      /\ lo <= g /\ g <= hi + 1 /\ hi <= g + 1
  BY <1>1, WayBounds
<1>3. /\ lm \in Int /\ hm \in Int /\ f \in Int /\ M \in Seq(Entry)
      /\ Len(M) \in 0 .. 2 /\ Len(M) = hm - lm + 1
      /\ lm <= f /\ f <= hm + 1 /\ hm <= f + 1
  BY <1>1, WayBounds
<1>4. Credit(cr, ce, x, y) \in 0 .. 2 /\ Credit(cr, ce, y, x) \in 0 .. 2
  BY DEF Credit
<1>5. hi + Credit(cr, ce, x, y) = f /\ hm + Credit(cr, ce, y, x) = g
  BY DEF Joined
<1> QED BY <1>2, <1>3, <1>4, <1>5

(* An end sends a request or a reply.                                       *)
LEMMA JoinedSends ==
  ASSUME NEW L, NEW lo, NEW hi, NEW f, NEW M, NEW lm, NEW hm, NEW g,
         NEW x, NEW y, NEW cr, NEW ce, Ends(x, y),
         Joined(L, lo, hi, f, M, lm, hm, g, x, y, cr, ce),
         NEW cr1, NEW ce1, NEW e \in Entry, e.seq = On(hi + 1),
         \/ Asks(cr, ce, cr1, ce1, x) /\ e.chan = x /\ e.body = cr1[x].body
         \/ Replies(cr, ce, cr1, ce1, y) /\ e.chan = y /\ e.body = ce1[y].body
  PROVE  /\ Len(L) < MAX_UNACKED
         /\ Joined(Append(L, e), lo, hi + 1, f, M, lm, hm, g, x, y, cr1, ce1)
<1>1. /\ Way(L, lo, hi, g, x, y, cr, ce) /\ Way(M, lm, hm, f, y, x, cr, ce)
      /\ CallsOK(cr, ce) /\ Ends(y, x) /\ x \in Channel /\ y \in Channel /\ x # y
      /\ hi + Credit(cr, ce, x, y) = f /\ hm + Credit(cr, ce, y, x) = g
  BY DEF Joined, Ends
<1>2. hi \in Int /\ f \in Int
  BY JoinedBounds
<1>3. CASE Asks(cr, ce, cr1, ce1, x) /\ e.chan = x /\ e.body = cr1[x].body
  <2>1. Moved(cr, ce, cr1, ce1, x) /\ Asked(cr1, ce1, x) /\ Idle(cr, ce, x)
    BY <1>1, <1>3, AsksMoves DEF Asks
  <2>2. CallsOK(cr1, ce1) /\ SameCall(cr, ce, cr1, ce1, y)
    BY <1>1, <2>1 DEF Moved
  <2>3. Len(L) < MAX_UNACKED
    BY <1>1, <2>1, WayRoom
  <2>4. Way(Append(L, e), lo, hi + 1, g, x, y, cr1, ce1)
    BY <1>1, <1>3, <2>1, <2>2, WaySend
  <2>5. Way(M, lm, hm, f, y, x, cr1, ce1)
    BY <1>1, <2>1, <2>2, WayOther
  <2>6. /\ Credit(cr1, ce1, x, y) = Credit(cr, ce, x, y) - 1
        /\ Credit(cr1, ce1, y, x) = Credit(cr, ce, y, x)
    <3>1. ~Serving(cr, ce, x) /\ ~Serving(cr1, ce1, x)
      BY <1>1, <2>1 DEF CallsOK, Serving, Idle, Asked
    <3> QED BY <2>1, <2>2, <3>1 DEF Credit, Idle, Asked, Serving, SameCall
  <2>7. Credit(cr, ce, x, y) \in Int
    BY DEF Credit
  <2>8. (hi + 1) + Credit(cr1, ce1, x, y) = f /\ hm + Credit(cr1, ce1, y, x) = g
    BY <1>1, <1>2, <2>6, <2>7
  <2> QED BY <2>2, <2>3, <2>4, <2>5, <2>8 DEF Joined
<1>4. CASE Replies(cr, ce, cr1, ce1, y) /\ e.chan = y /\ e.body = ce1[y].body
  <2>1. Moved(cr, ce, cr1, ce1, y) /\ Replied(cr1, ce1, y) /\ Serving(cr, ce, y)
    BY <1>1, <1>4, RepliesMoves DEF Replies
  <2>2. CallsOK(cr1, ce1) /\ SameCall(cr, ce, cr1, ce1, x)
    BY <1>1, <2>1 DEF Moved
  <2>3. Len(L) < MAX_UNACKED
    BY <1>1, <2>1, WayRoom
  <2>4. Way(Append(L, e), lo, hi + 1, g, x, y, cr1, ce1)
    BY <1>1, <1>4, <2>1, <2>2, WaySend
  <2>5. Way(M, lm, hm, f, y, x, cr1, ce1)
    BY <1>1, <2>1, <2>2, WayOther
  <2>6. /\ Credit(cr1, ce1, x, y) = Credit(cr, ce, x, y) - 1
        /\ Credit(cr1, ce1, y, x) = Credit(cr, ce, y, x)
    <3>1. ~Idle(cr, ce, y) /\ ~Idle(cr1, ce1, y) /\ ~Serving(cr1, ce1, y)
      BY <1>1, <2>1 DEF CallsOK, Serving, Idle, Replied
    <3> QED BY <2>1, <2>2, <3>1 DEF Credit, Idle, Serving, SameCall
  <2>7. Credit(cr, ce, x, y) \in Int
    BY DEF Credit
  <2>8. (hi + 1) + Credit(cr1, ce1, x, y) = f /\ hm + Credit(cr1, ce1, y, x) = g
    BY <1>1, <1>2, <2>6, <2>7
  <2> QED BY <2>2, <2>3, <2>4, <2>5, <2>8 DEF Joined
<1> QED BY <1>3, <1>4

(* What an end has still to send again has a purpose: the phase of its call *)
(* tells that nothing the other end may still have sent on that channel is  *)
(* to be accepted.                                                          *)
LEMMA JoinedPurpose ==
  ASSUME NEW L, NEW lo, NEW hi, NEW f, NEW M, NEW lm, NEW hm, NEW g,
         NEW x, NEW y, NEW cr, NEW ce, Ends(x, y),
         Joined(L, lo, hi, f, M, lm, hm, g, x, y, cr, ce),
         NEW j \in 1 .. Len(M), lm + j - 1 >= f
  PROVE  /\ \/ M[j].chan = y /\ Asked(cr, ce, y) /\ M[j].body = cr[y].body
            \/ M[j].chan = x /\ Replied(cr, ce, x) /\ M[j].body = ce[x].body
         /\ \A k \in 1 .. Len(L) : L[k].chan = M[j].chan => lo + k - 1 < g
<1>1. Way(L, lo, hi, g, x, y, cr, ce) /\ Way(M, lm, hm, f, y, x, cr, ce)
  BY DEF Joined
<1>2. /\ lo \in Int /\ g \in Int /\ Len(L) \in Nat
  BY JoinedBounds
<1>3. Belongs(M[j], lm + j - 1, f, y, x, cr, ce)
  BY <1>1 DEF Way
<1>4. \/ M[j].chan = y /\ Asked(cr, ce, y) /\ M[j].body = cr[y].body
      \/ M[j].chan = x /\ Replied(cr, ce, x) /\ M[j].body = ce[x].body
  BY <1>3 DEF Belongs
<1>5. ASSUME NEW k \in 1 .. Len(L), L[k].chan = M[j].chan
      PROVE  lo + k - 1 < g
  <2>1. Belongs(L[k], lo + k - 1, g, x, y, cr, ce)
    BY <1>1 DEF Way
  <2>2. ~(lo + k - 1 >= g)
    BY <1>4, <1>5, <2>1 DEF Belongs, Ends, Asked, Replied
  <2> QED BY <1>2, <2>2
<1> QED BY <1>4, <1>5

(* An end accepts the packet it expects, which acknowledges all packets on  *)
(* that channel the end has still in its list.                              *)
LEMMA JoinedAccepts ==
  ASSUME NEW L, NEW lo, NEW hi, NEW f, NEW M, NEW lm, NEW hm, NEW g,
         NEW x, NEW y, NEW cr, NEW ce, Ends(x, y),
         Joined(L, lo, hi, f, M, lm, hm, g, x, y, cr, ce),
         f <= hm, NEW c, c = M[f - lm + 1].chan,
         NEW lo1 \in Int, lo <= lo1, lo1 <= g,
         \A k \in 1 .. Len(L) : L[k].chan = c => lo + k - 1 < lo1,
         NEW cr1, NEW ce1,
         \/ c = x /\ Answered(cr, ce, cr1, ce1, x)
         \/ c = y /\ Served(cr, ce, cr1, ce1, y)
  PROVE  Joined(SubSeq(L, lo1 - lo + 1, Len(L)), lo1, hi, f + 1, M, lm, hm, g,
                x, y, cr1, ce1)
<1>1. /\ Way(L, lo, hi, g, x, y, cr, ce) /\ Way(M, lm, hm, f, y, x, cr, ce)
      /\ CallsOK(cr, ce) /\ Ends(y, x) /\ x \in Channel /\ y \in Channel /\ x # y
      /\ hi + Credit(cr, ce, x, y) = f /\ hm + Credit(cr, ce, y, x) = g
  BY DEF Joined, Ends
<1>2. hi \in Int /\ f \in Int
  BY JoinedBounds
<1>3. CASE c = x /\ Answered(cr, ce, cr1, ce1, x)
  <2>1. /\ Moved(cr, ce, cr1, ce1, x) /\ Replied(cr, ce, x)
        /\ Idle(cr1, ce1, x) /\ ~Serving(cr1, ce1, x)
    <3>1. Replied(cr, ce, x)
      BY <1>3 DEF Answered
    <3> QED BY <1>1, <1>3, <3>1, AnsweredMoves
  <2>2. CallsOK(cr1, ce1) /\ SameCall(cr, ce, cr1, ce1, y)
    BY <1>1, <2>1 DEF Moved
  <2>3. Way(SubSeq(L, lo1 - lo + 1, Len(L)), lo1, hi, g, x, y, cr1, ce1)
    BY <1>1, <1>3, <2>1, <2>2, WayCut
  <2>4. Way(M, lm, hm, f + 1, y, x, cr1, ce1)
    BY <1>1, <1>3, <2>1, <2>2, WayAccept
  <2>5. /\ Credit(cr1, ce1, x, y) = Credit(cr, ce, x, y) + 1
        /\ Credit(cr1, ce1, y, x) = Credit(cr, ce, y, x)
    BY <2>1, <2>2 DEF Credit, Idle, Replied, Serving, SameCall
  <2>6. Credit(cr, ce, x, y) \in Int
    BY DEF Credit
  <2>7. hi + Credit(cr1, ce1, x, y) = f + 1 /\ hm + Credit(cr1, ce1, y, x) = g
    BY <1>1, <1>2, <2>5, <2>6
  <2> QED BY <2>2, <2>3, <2>4, <2>7 DEF Joined
<1>4. CASE c = y /\ Served(cr, ce, cr1, ce1, y)
  <2>1. /\ Moved(cr, ce, cr1, ce1, y) /\ Asked(cr, ce, y)
        /\ Serving(cr1, ce1, y) /\ ~Idle(cr1, ce1, y)
    BY <1>1, <1>4, ServedMoves DEF Served
  <2>2. CallsOK(cr1, ce1) /\ SameCall(cr, ce, cr1, ce1, x)
    BY <1>1, <2>1 DEF Moved
  <2>3. Way(SubSeq(L, lo1 - lo + 1, Len(L)), lo1, hi, g, x, y, cr1, ce1)
    BY <1>1, <1>4, <2>1, <2>2, WayCut
  <2>4. Way(M, lm, hm, f + 1, y, x, cr1, ce1)
    BY <1>1, <1>4, <2>1, <2>2, WayAccept
  <2>5. /\ Credit(cr1, ce1, x, y) = Credit(cr, ce, x, y) + 1
        /\ Credit(cr1, ce1, y, x) = Credit(cr, ce, y, x)
    BY <2>1, <2>2 DEF Credit, Idle, Asked, Serving, SameCall
  <2>6. Credit(cr, ce, x, y) \in Int
    BY DEF Credit
  <2>7. hi + Credit(cr1, ce1, x, y) = f + 1 /\ hm + Credit(cr1, ce1, y, x) = g
    BY <1>1, <1>2, <2>5, <2>6
  <2> QED BY <2>2, <2>3, <2>4, <2>7 DEF Joined
<1> QED BY <1>3, <1>4

-----------------------------------------------------------------------------
(* What is on its way.  The host's packets in the line to the target and    *)
(* among the callbacks are at most Wire packets old; a reliable one that    *)
(* may still be accepted is in the host's list, and acknowledges all the    *)
(* target has still in its list on that channel.                            *)

PacketSet == [flags : {"CF_RELIABLE", "CF_RESEND", "CF_HEARTBEAT"},
              seq : SequenceNR, ack : SequenceNR,
              chan : Channel \cup {"CI_PRIVATE"}, body : Body \cup {0}]

Copies(p, e) == p.chan = e.chan /\ p.body = e.body

InFlight(p, s, a, H, ha, hc, he, T, ta, te) ==
  /\ p.seq = On(s) /\ p.ack = On(a)
  /\ hc - Wire <= s /\ s <= hc /\ hc - 1 - Wire <= a /\ a <= he - 1
  /\ p.flags = "CF_RELIABLE" /\ s >= te =>
       /\ Copies(p, H[s - ha + 1])
       /\ \A k \in 1 .. Len(T) : T[k].chan = p.chan => ta + k - 1 <= a

Held(q, H, ha, hc, he, T, ta, te) ==
  /\ q \in Seq(PacketSet)
  /\ \A i \in 1 .. Len(q) : \E s, a \in Int :
       InFlight(q[i], s, a, H, ha, hc, he, T, ta, te)

(* The line is in order but for what is sent again.                         *)
Line(q, H, ha, hc, he, T, ta, te) ==
  /\ q \in Seq(PacketSet)
  /\ \A i \in 1 .. Len(q) : \E s, a \in Int :
       /\ InFlight(q[i], s, a, H, ha, hc, he, T, ta, te)
       /\ s >= hc - (Len(q) - i) /\ a >= hc - 1 - (Len(q) - i)

(* The acknowledgement a covers what is in the list on channel c.           *)
Covers(a, L, lo, c) == \A k \in 1 .. Len(L) : L[k].chan = c => lo + k - 1 <= a

(* What is sent to the host arrives before anything else happens.  A packet *)
(* of a send may have an older acknowledgement than the newest.             *)
FromTarget(p, s, a, H, ha, he, T, ta, tc, te) ==
  /\ p.ack = On(a) /\ tc - 1 <= a /\ a <= te - 1
  /\ IF p.flags = "CF_RELIABLE"
     THEN /\ p.seq = On(s) /\ tc - 1 <= s /\ s <= tc
          /\ s >= ta /\ Copies(p, T[s - ta + 1])
          /\ s >= he => Covers(a, H, ha, p.chan)
     ELSE a = te - 1

Back(q, H, ha, he, T, ta, tc, te) ==
  /\ q \in Seq(PacketSet)
  /\ \A i \in 1 .. Len(q) : \E s, a \in Int :
       FromTarget(q[i], s, a, H, ha, he, T, ta, tc, te)

LEMMA HeldHead ==
  ASSUME NEW q, NEW H, NEW ha, NEW hc, NEW he, NEW T, NEW ta, NEW te,
         Held(q, H, ha, hc, he, T, ta, te), q # <<>>
  PROVE  /\ Head(q) \in PacketSet
         /\ \E s, a \in Int : InFlight(Head(q), s, a, H, ha, hc, he, T, ta, te)
         /\ Held(Tail(q), H, ha, hc, he, T, ta, te)
<1>1. q \in Seq(PacketSet) /\ Len(q) \in Nat /\ Len(q) > 0
  BY DEF Held
<1>2. /\ Head(q) = q[1] /\ 1 \in 1 .. Len(q) /\ q[1] \in PacketSet
      /\ Tail(q) \in Seq(PacketSet) /\ Len(Tail(q)) = Len(q) - 1
      /\ \A i \in 1 .. Len(q) - 1 : Tail(q)[i] = q[i + 1] /\ i + 1 \in 1 .. Len(q)
  BY <1>1
<1>3. \A i \in 1 .. Len(q) : \E s, a \in Int :
        InFlight(q[i], s, a, H, ha, hc, he, T, ta, te)
  BY DEF Held
<1>4. \A i \in 1 .. Len(Tail(q)) : \E s, a \in Int :
        InFlight(Tail(q)[i], s, a, H, ha, hc, he, T, ta, te)
  BY <1>2, <1>3
<1> QED BY <1>2, <1>3, <1>4 DEF Held

LEMMA HeldPush ==
  ASSUME NEW q, NEW H, NEW ha, NEW hc, NEW he, NEW T, NEW ta, NEW te,
         Held(q, H, ha, hc, he, T, ta, te),
         NEW p \in PacketSet, NEW s \in Int, NEW a \in Int,
         InFlight(p, s, a, H, ha, hc, he, T, ta, te)
  PROVE  Held(<<p>> \o q, H, ha, hc, he, T, ta, te)
<1>1. q \in Seq(PacketSet) /\ Len(q) \in Nat
  BY DEF Held
<1> DEFINE r == <<p>> \o q
<1>2. /\ r \in Seq(PacketSet) /\ Len(r) = Len(q) + 1 /\ r[1] = p
      /\ \A i \in 1 .. Len(q) + 1 : i # 1 => i - 1 \in 1 .. Len(q) /\ r[i] = q[i - 1]
  BY <1>1
<1> HIDE DEF r
<1>3. ASSUME NEW i \in 1 .. Len(q) + 1
      PROVE  \E t, b \in Int : InFlight(r[i], t, b, H, ha, hc, he, T, ta, te)
  <2>1. CASE i = 1
    BY <1>2, <2>1
  <2>2. CASE i # 1
    BY <1>2, <2>2 DEF Held
  <2> QED BY <2>1, <2>2
<1>4. Held(r, H, ha, hc, he, T, ta, te)
  BY <1>2, <1>3 DEF Held
<1> QED BY <1>4 DEF r

LEMMA LineTail ==
  ASSUME NEW q, NEW H, NEW ha, NEW hc, NEW he, NEW T, NEW ta, NEW te, hc \in Int,
         Line(q, H, ha, hc, he, T, ta, te), q # <<>>
  PROVE  /\ Head(q) \in PacketSet
         /\ \E s, a \in Int : InFlight(Head(q), s, a, H, ha, hc, he, T, ta, te)
         /\ Line(Tail(q), H, ha, hc, he, T, ta, te)
<1>1. q \in Seq(PacketSet) /\ Len(q) \in Nat /\ Len(q) > 0
  BY DEF Line
<1>2. /\ Head(q) = q[1] /\ 1 \in 1 .. Len(q) /\ q[1] \in PacketSet
      /\ Tail(q) \in Seq(PacketSet) /\ Len(Tail(q)) = Len(q) - 1
      /\ \A i \in 1 .. Len(q) - 1 : Tail(q)[i] = q[i + 1] /\ i + 1 \in 1 .. Len(q)
  BY <1>1
<1>3. \A i \in 1 .. Len(q) : \E s, a \in Int :
        /\ InFlight(q[i], s, a, H, ha, hc, he, T, ta, te)
        /\ s >= hc - (Len(q) - i) /\ a >= hc - 1 - (Len(q) - i)
  BY DEF Line
<1>4. ASSUME NEW i \in 1 .. Len(Tail(q))
      PROVE  \E s, a \in Int :
               /\ InFlight(Tail(q)[i], s, a, H, ha, hc, he, T, ta, te)
               /\ s >= hc - (Len(Tail(q)) - i) /\ a >= hc - 1 - (Len(Tail(q)) - i)
  <2>1. /\ i + 1 \in 1 .. Len(q) /\ Tail(q)[i] = q[i + 1]
        /\ Len(Tail(q)) - i = Len(q) - (i + 1)
    BY <1>1, <1>2
  <2> QED BY <1>3, <2>1
<1>5. Line(Tail(q), H, ha, hc, he, T, ta, te)
  BY <1>2, <1>4 DEF Line
<1> QED BY <1>2, <1>3, <1>5

(* The newest packet is appended. *)
LEMMA LinePush ==
  ASSUME NEW q, NEW H, NEW ha, NEW hc, NEW he, NEW T, NEW ta, NEW te, hc \in Int,
         Line(q, H, ha, hc, he, T, ta, te),
         NEW p \in PacketSet, NEW a \in Int, a >= hc - 1,
         InFlight(p, hc, a, H, ha, hc, he, T, ta, te)
  PROVE  Line(Append(q, p), H, ha, hc, he, T, ta, te)
<1>1. q \in Seq(PacketSet) /\ Len(q) \in Nat
  BY DEF Line
<1> DEFINE r == Append(q, p)
<1>2. /\ r \in Seq(PacketSet) /\ Len(r) = Len(q) + 1 /\ r[Len(q) + 1] = p
      /\ \A i \in 1 .. Len(q) : r[i] = q[i]
  BY <1>1
<1> HIDE DEF r
<1>3. ASSUME NEW i \in 1 .. Len(q) + 1
      PROVE  \E t, b \in Int :
               /\ InFlight(r[i], t, b, H, ha, hc, he, T, ta, te)
               /\ t >= hc - (Len(q) + 1 - i) /\ b >= hc - 1 - (Len(q) + 1 - i)
  <2>1. CASE i = Len(q) + 1
    <3>1. hc >= hc - (Len(q) + 1 - i) /\ a >= hc - 1 - (Len(q) + 1 - i)
      BY <1>1, <2>1
    <3> QED BY <1>2, <2>1, <3>1
  <2>2. CASE i # Len(q) + 1
    <3>1. i \in 1 .. Len(q)
      BY <1>1, <2>2
    <3>2. PICK t \in Int, b \in Int :
            /\ InFlight(q[i], t, b, H, ha, hc, he, T, ta, te)
            /\ t >= hc - (Len(q) - i) /\ b >= hc - 1 - (Len(q) - i)
      BY <3>1 DEF Line
    <3>3. t >= hc - (Len(q) + 1 - i) /\ b >= hc - 1 - (Len(q) + 1 - i)
      BY <1>1, <3>1, <3>2
    <3> QED BY <1>2, <3>1, <3>2, <3>3
  <2> QED BY <2>1, <2>2
<1>4. Line(r, H, ha, hc, he, T, ta, te)
  BY <1>2, <1>3 DEF Line
<1> QED BY <1>4 DEF r

LEMMA BackTail ==
  ASSUME NEW q, NEW H, NEW ha, NEW he, NEW T, NEW ta, NEW tc, NEW te,
         Back(q, H, ha, he, T, ta, tc, te), q # <<>>
  PROVE  /\ Head(q) \in PacketSet
         /\ \E s, a \in Int : FromTarget(Head(q), s, a, H, ha, he, T, ta, tc, te)
         /\ Back(Tail(q), H, ha, he, T, ta, tc, te)
<1>1. q \in Seq(PacketSet) /\ Len(q) \in Nat /\ Len(q) > 0
  BY DEF Back
<1>2. /\ Head(q) = q[1] /\ 1 \in 1 .. Len(q) /\ q[1] \in PacketSet
      /\ Tail(q) \in Seq(PacketSet) /\ Len(Tail(q)) = Len(q) - 1
      /\ \A i \in 1 .. Len(q) - 1 : Tail(q)[i] = q[i + 1] /\ i + 1 \in 1 .. Len(q)
  BY <1>1
<1>3. \A i \in 1 .. Len(q) : \E s, a \in Int :
        FromTarget(q[i], s, a, H, ha, he, T, ta, tc, te)
  BY DEF Back
<1>4. \A i \in 1 .. Len(Tail(q)) : \E s, a \in Int :
        FromTarget(Tail(q)[i], s, a, H, ha, he, T, ta, tc, te)
  BY <1>2, <1>3
<1>5. Back(Tail(q), H, ha, he, T, ta, tc, te)
  BY <1>2, <1>4 DEF Back
<1> QED BY <1>2, <1>3, <1>5

(* One packet to the host. *)
LEMMA BackOne ==
  ASSUME NEW q, q = <<>>, NEW H, NEW ha, NEW he, NEW T, NEW ta, NEW tc, NEW te,
         NEW p \in PacketSet, NEW s \in Int, NEW a \in Int,
         FromTarget(p, s, a, H, ha, he, T, ta, tc, te)
  PROVE  Back(Append(q, p), H, ha, he, T, ta, tc, te)
<1>1. /\ Append(q, p) \in Seq(PacketSet) /\ Len(Append(q, p)) = 1
      /\ Append(q, p)[1] = p
  OBVIOUS
<1>2. \A i \in 1 .. Len(Append(q, p)) : Append(q, p)[i] = p
  BY <1>1
<1> QED BY <1>1, <1>2 DEF Back

(* The host accepts: what is still on its way to it stays so.               *)
LEMMA CoversCut ==
  ASSUME NEW H \in Seq(Entry), NEW ha \in Int, NEW ha1 \in Int,
         ha <= ha1, ha1 <= ha + Len(H), NEW a \in Int, NEW c, Covers(a, H, ha, c)
  PROVE  Covers(a, SubSeq(H, ha1 - ha + 1, Len(H)), ha1, c)
<1>0. ha1 - ha \in Nat /\ Len(H) \in Nat
  OBVIOUS
<1>a. PICK d \in Nat : d = ha1 - ha
  BY <1>0
<1>b. PICK l \in Nat : l = Len(H)
  BY <1>0
<1>1. d = ha1 - ha /\ l = Len(H) /\ d <= l
  BY <1>a, <1>b
<1> DEFINE R == SubSeq(H, d + 1, l)
<1>2. /\ Len(R) = l - d /\ l - d \in Nat
      /\ \A k \in 1 .. l - d : R[k] = H[k + d] /\ k + d \in 1 .. l
  BY <1>1
<1> HIDE DEF R
<1>3. ASSUME NEW k \in 1 .. l - d, R[k].chan = c
      PROVE  ha1 + k - 1 <= a
  <2>1. k + d \in 1 .. l /\ H[k + d].chan = c
    BY <1>2, <1>3
  <2>2. ha + (k + d) - 1 <= a
    BY <1>1, <2>1 DEF Covers
  <2>3. ha + (k + d) - 1 = ha1 + k - 1
    BY <1>1
  <2> QED BY <2>2, <2>3
<1>4. Covers(a, R, ha1, c)
  BY <1>2, <1>3 DEF Covers
<1> QED BY <1>1, <1>4 DEF R

LEMMA BackHostAccepts ==
  ASSUME NEW q, NEW H \in Seq(Entry), NEW ha \in Int, NEW he \in Int,
         NEW T, NEW ta \in Int, NEW tc \in Int, NEW te \in Int,
         NEW ha1 \in Int, ha <= ha1, ha1 <= ha + Len(H),
         Back(q, H, ha, he, T, ta, tc, te)
  PROVE  Back(q, SubSeq(H, ha1 - ha + 1, Len(H)), ha1, he + 1, T, ta, tc, te)
<1> DEFINE R == SubSeq(H, ha1 - ha + 1, Len(H))
<1>1. ASSUME NEW i \in 1 .. Len(q)
      PROVE  \E s, a \in Int : FromTarget(q[i], s, a, R, ha1, he + 1, T, ta, tc, te)
  <2>1. PICK s \in Int, a \in Int : FromTarget(q[i], s, a, H, ha, he, T, ta, tc, te)
    BY DEF Back
  <2>2. \A c : Covers(a, H, ha, c) => Covers(a, R, ha1, c)
    BY CoversCut
  <2>3. s >= he + 1 => s >= he
    OBVIOUS
  <2> HIDE DEF R
  <2>4. FromTarget(q[i], s, a, R, ha1, he + 1, T, ta, tc, te)
    BY <2>1, <2>2, <2>3 DEF FromTarget
  <2> QED BY <2>4
<1> HIDE DEF R
<1>2. Back(q, R, ha1, he + 1, T, ta, tc, te)
  BY <1>1 DEF Back
<1> QED BY <1>2 DEF R

(* The host sends again all the target has not accepted.                    *)
LEMMA AgainPackets ==
  ASSUME NEW r, NEW L, NEW lo, NEW hi, NEW start \in Int, NEW n \in Int,
         Listed(L, lo, hi), Again(r, L, lo, hi, start, On(n))
  PROVE  /\ r \in Seq(PacketSet)
         /\ \A k \in 1 .. Len(r) :
              /\ start >= lo /\ start - lo + k \in 1 .. Len(L)
              /\ r[k].flags = "CF_RELIABLE"
              /\ r[k].seq = On(start + k - 1) /\ r[k].ack = On(n - 1)
              /\ Copies(r[k], L[start - lo + k])
<1>1. /\ lo \in Int /\ hi \in Int /\ Len(L) \in Nat /\ Len(L) = hi - lo + 1
      /\ L \in Seq(Entry)
  BY DEF Listed
<1>2. /\ r = [k \in 1 .. Len(r) |-> r[k]] /\ Len(r) \in Nat
      /\ start >= lo => Len(r) = hi - start + 1
  BY DEF Again
<1>3. ASSUME NEW k \in 1 .. Len(r)
      PROVE  /\ r[k] \in PacketSet
             /\ start >= lo /\ start - lo + k \in 1 .. Len(L)
             /\ r[k].flags = "CF_RELIABLE"
             /\ r[k].seq = On(start + k - 1) /\ r[k].ack = On(n - 1)
             /\ Copies(r[k], L[start - lo + k])
  <2>1. /\ start >= lo
        /\ r[k] = Packet("CF_RELIABLE", On(start + k - 1), lastSEQ(On(n)),
                         L[start - lo + k].chan, L[start - lo + k].body)
    BY DEF Again
  <2>2. start - lo + k \in 1 .. Len(L) /\ start + k - 1 \in Int /\ n - 1 \in Int
    <3>1. PICK m, l : m = Len(r) /\ l = Len(L)
      OBVIOUS
    <3>2. m = hi - start + 1 /\ l = hi - lo + 1 /\ k \in 1 .. m /\ start >= lo
      BY <1>1, <1>2, <2>1, <3>1
    <3>3. start - lo + k \in 1 .. l /\ start + k - 1 \in Int /\ n - 1 \in Int
      BY <1>1, <3>2
    <3> QED BY <3>1, <3>3
  <2>3. lastSEQ(On(n)) = On(n - 1)
    BY OnLast
  <2>4. On(n - 1) \in SequenceNR /\ On(start + k - 1) \in SequenceNR
    BY <2>2, OnRange
  <2>5. L[start - lo + k] \in Entry
    BY <1>1, <2>2
  <2> HIDE DEF On
  <2>6. /\ L[start - lo + k].chan \in Channel /\ L[start - lo + k].body \in Body
    BY <2>5 DEF Entry
  <2> QED BY <2>1, <2>2, <2>3, <2>4, <2>6 DEF Packet, PacketSet, Copies
<1>4. r \in [1 .. Len(r) -> PacketSet]
  BY <1>2, <1>3
<1>5. r \in Seq(PacketSet)
  BY <1>2, <1>4
<1> QED BY <1>3, <1>5

LEMMA Joint ==
  ASSUME NEW q, NEW r, q \in Seq(PacketSet), r \in Seq(PacketSet)
  PROVE  /\ q \o r \in Seq(PacketSet) /\ Len(q \o r) = Len(q) + Len(r)
         /\ Len(q) \in Nat /\ Len(r) \in Nat
         /\ \A i \in 1 .. Len(q) : (q \o r)[i] = q[i]
         /\ \A i \in 1 .. Len(q) + Len(r) : i > Len(q) =>
              i - Len(q) \in 1 .. Len(r) /\ (q \o r)[i] = r[i - Len(q)]
OBVIOUS

LEMMA LineAgain ==
  ASSUME NEW q, NEW H, NEW ha, NEW hc, NEW he, NEW T, NEW ta, NEW tc, NEW te,
         NEW x, NEW y, NEW cr, NEW ce, Ends(x, y),
         Joined(T, ta, tc, te, H, ha, hc, he, x, y, cr, ce),
         Line(q, H, ha, hc, he, T, ta, te)
  PROVE  Line(q \o Resent(H, On(te), On(hc), On(he)), H, ha, hc, he, T, ta, te)
<1>1. /\ ha \in Int /\ hc \in Int /\ he \in Int /\ te \in Int /\ Len(H) \in 0 .. 2
      /\ Len(H) = hc - ha + 1 /\ ha <= te /\ te <= hc + 1 /\ hc <= te + 1
      /\ ta \in Int /\ Len(T) \in 0 .. 2 /\ hc <= he
  BY JoinedBounds
<1>2. Listed(H, ha, hc)
  BY DEF Joined, Way
<1>3. PICK r : r = Resent(H, On(te), On(hc), On(he))
  OBVIOUS
<1>4. Again(r, H, ha, hc, te, On(he))
  <2>1. hc + 1 - MAX_SEQ <= te /\ Len(H) <= MAX_SEQ
    BY <1>1, TurnFacts
  <2>2. PICK v : v = On(he)
    OBVIOUS
  <2>3. Again(Resent(H, On(te), On(hc), v), H, ha, hc, te, v)
    BY <1>1, <1>2, <2>1, SentAgain
  <2> QED BY <1>3, <2>2, <2>3
<1>5. /\ r \in Seq(PacketSet)
      /\ \A k \in 1 .. Len(r) :
           /\ te >= ha /\ te - ha + k \in 1 .. Len(H)
           /\ r[k].flags = "CF_RELIABLE"
           /\ r[k].seq = On(te + k - 1) /\ r[k].ack = On(he - 1)
           /\ Copies(r[k], H[te - ha + k])
  BY <1>1, <1>2, <1>4, AgainPackets
<1>6. Len(r) = hc - te + 1
  BY <1>1, <1>4 DEF Again
<1>7. q \in Seq(PacketSet)
  BY DEF Line
<1> DEFINE z == q \o r
<1>8. /\ z \in Seq(PacketSet) /\ Len(z) = Len(q) + Len(r)
      /\ Len(q) \in Nat /\ Len(r) \in Nat
      /\ \A i \in 1 .. Len(q) : z[i] = q[i]
      /\ \A i \in 1 .. Len(q) + Len(r) : i > Len(q) =>
           i - Len(q) \in 1 .. Len(r) /\ z[i] = r[i - Len(q)]
  BY <1>5, <1>7, Joint
<1> HIDE DEF z
<1>9. ASSUME NEW i \in 1 .. Len(z)
      PROVE  \E s, a \in Int :
               /\ InFlight(z[i], s, a, H, ha, hc, he, T, ta, te)
               /\ s >= hc - (Len(z) - i) /\ a >= hc - 1 - (Len(z) - i)
  <2>1. CASE i <= Len(q)
    <3>1. i \in 1 .. Len(q)
      BY <1>8, <2>1
    <3>2. PICK s \in Int, a \in Int :
            /\ InFlight(q[i], s, a, H, ha, hc, he, T, ta, te)
            /\ s >= hc - (Len(q) - i) /\ a >= hc - 1 - (Len(q) - i)
      BY <3>1 DEF Line
    <3>3. s >= hc - (Len(z) - i) /\ a >= hc - 1 - (Len(z) - i)
      <4>1. PICK lz \in Nat, lq \in Nat, lr \in Nat :
              lz = Len(z) /\ lq = Len(q) /\ lr = Len(r)
        BY <1>8
      <4>2. lz = lq + lr /\ s >= hc - (lq - i) /\ a >= hc - 1 - (lq - i)
        BY <1>8, <3>2, <4>1
      <4>3. s >= hc - (lz - i) /\ a >= hc - 1 - (lz - i)
        BY <1>1, <3>1, <4>2
      <4> QED BY <4>1, <4>3
    <3> QED BY <1>8, <3>1, <3>2, <3>3
  <2>2. CASE i > Len(q)
    <3>1. PICK k \in 1 .. Len(r) :
            k = i - Len(q) /\ z[i] = r[k]
      BY <1>8, <2>2
    <3>11. PICK n \in Int : n = k /\ n >= 1 /\ n <= Len(r) /\ n = i - Len(q)
      BY <1>8, <3>1
    <3>12. n >= 1 /\ n <= Len(r) /\ n = i - Len(q)
      BY <3>11
    <3>2. PICK s \in Int : s = te + n - 1
      BY <1>1
    <3>13. s = te + k - 1 /\ te - ha + k = s - ha + 1
      <4>1. te + k - 1 = te + n - 1 /\ te - ha + k = te - ha + n
        BY <3>11
      <4>2. te - ha + n = s - ha + 1
        BY <1>1, <3>2
      <4> QED BY <3>2, <4>1, <4>2
    <3>3. PICK a \in Int : a = he - 1
      BY <1>1
    <3>0. /\ Len(z) - i = hc - s /\ s <= hc /\ s >= te
          /\ te - ha + k = s - ha + 1 /\ i \in Int
      <4>1. PICK lq \in Int, lr \in Int :
              /\ lq = Len(q) /\ lr = Len(r) /\ Len(z) = lq + lr /\ i \in Int
              /\ lr = hc - te + 1 /\ n = i - lq /\ n <= lr
        BY <1>6, <1>8, <3>12
      <4>2. (lq + lr) - i = hc - s /\ s <= hc /\ s >= te
        BY <1>1, <3>12, <3>2, <4>1
      <4> QED BY <3>13, <4>1, <4>2
    <3>4. /\ s >= hc - (Len(z) - i) /\ a >= hc - 1 - (Len(z) - i)
          /\ hc - Wire <= s /\ s <= hc /\ hc - 1 - Wire <= a /\ a <= he - 1
          /\ te - ha + k = s - ha + 1
      BY <1>1, <3>0, <3>3, BoundAssumption
    <3>5. /\ te - ha + k \in 1 .. Len(H)
          /\ r[k].seq = On(s) /\ r[k].ack = On(a) /\ Copies(r[k], H[te - ha + k])
      BY <1>5, <3>13, <3>3
    <3>6. \A j \in 1 .. Len(T) : T[j].chan = r[k].chan => ta + j - 1 <= a
      <4>1. PICK m \in 1 .. Len(H) : m = s - ha + 1 /\ ha + m - 1 >= te
        BY <1>1, <3>0, <3>5
      <4>2. \A j \in 1 .. Len(T) : T[j].chan = H[m].chan => ta + j - 1 < he
        BY <4>1, JoinedPurpose
      <4>3. r[k].chan = H[m].chan
        BY <3>4, <3>5, <4>1 DEF Copies
      <4>4. \A j \in 1 .. Len(T) : ta + j - 1 < he => ta + j - 1 <= a
        <5>1. \A j \in Int : ta + j - 1 < he => ta + j - 1 <= a
          BY <1>1, <3>3
        <5>2. \A j \in 1 .. Len(T) : j \in Int
          BY <1>1
        <5> QED BY <5>1, <5>2
      <4> QED BY <4>2, <4>3, <4>4
    <3>7. InFlight(r[k], s, a, H, ha, hc, he, T, ta, te)
      BY <3>4, <3>5, <3>6 DEF InFlight
    <3> QED BY <3>1, <3>4, <3>7
  <2> QED BY <1>8, <2>1, <2>2
<1>10. Line(z, H, ha, hc, he, T, ta, te)
  BY <1>8, <1>9 DEF Line
<1> QED BY <1>3, <1>10 DEF z

(* The target sends again what the host has not acknowledged.               *)
LEMMA BackAgain ==
  ASSUME NEW q, q = <<>>, NEW H, NEW ha, NEW hc, NEW he, NEW T, NEW ta, NEW tc, NEW te,
         NEW x, NEW y, NEW cr, NEW ce, Ends(x, y),
         Joined(H, ha, hc, he, T, ta, tc, te, x, y, cr, ce),
         NEW a \in Int, tc - MAX_SEQ <= a, a <= tc
  PROVE  Back(q \o Resent(T, On(a + 1), On(tc), On(te)), H, ha, he, T, ta, tc, te)
<1>1. /\ ta \in Int /\ tc \in Int /\ te \in Int /\ Len(T) \in 0 .. 2
      /\ Len(T) = tc - ta + 1 /\ a + 1 \in Int /\ tc <= te
      /\ ha \in Int /\ he \in Int /\ Len(H) \in 0 .. 2
  BY JoinedBounds
<1>2. Listed(T, ta, tc)
  BY DEF Joined, Way
<1>3. PICK r : r = Resent(T, On(a + 1), On(tc), On(te))
  OBVIOUS
<1>4. PICK b \in Int : b = a + 1
  BY <1>1
<1>5. Again(r, T, ta, tc, b, On(te))
  <2>1. /\ tc + 1 - MAX_SEQ <= b /\ b <= tc + 1 /\ Len(T) <= MAX_SEQ
    BY <1>1, <1>4, TurnFacts
  <2>2. PICK v : v = On(te)
    OBVIOUS
  <2>3. Again(Resent(T, On(b), On(tc), v), T, ta, tc, b, v)
    BY <1>1, <1>2, <2>1, SentAgain
  <2> QED BY <1>3, <1>4, <2>2, <2>3
<1>6. /\ r \in Seq(PacketSet)
      /\ \A k \in 1 .. Len(r) :
           /\ b >= ta /\ b - ta + k \in 1 .. Len(T) /\ r[k].flags = "CF_RELIABLE"
           /\ r[k].seq = On(b + k - 1) /\ r[k].ack = On(te - 1)
           /\ Copies(r[k], T[b - ta + k])
  <2> HIDE DEF On
  <2> QED BY <1>1, <1>2, <1>5, AgainPackets
<1>7. q \o r = r /\ Len(r) \in Nat
  BY <1>6
<1>8. ASSUME NEW k \in 1 .. Len(r)
      PROVE  \E s, v \in Int : FromTarget(r[k], s, v, H, ha, he, T, ta, tc, te)
  <2>1. /\ b >= ta /\ b - ta + k \in 1 .. Len(T) /\ r[k].flags = "CF_RELIABLE"
        /\ r[k].seq = On(b + k - 1) /\ r[k].ack = On(te - 1)
        /\ Copies(r[k], T[b - ta + k])
    BY <1>6
  <2>2. PICK n \in Int : n = k /\ n >= 1
    BY <1>7
  <2>3. PICK s \in Int, v \in Int :
          s = b + n - 1 /\ b - ta + n = s - ta + 1 /\ v = te - 1
    BY <1>1, <2>2
  <2>4. PICK j \in 1 .. Len(T) : j = b - ta + n /\ j = s - ta + 1 /\ ta + j - 1 = s
    BY <1>1, <2>1, <2>2, <2>3
  <2>5. s >= ta /\ s <= tc /\ tc - 1 <= s /\ tc - 1 <= v /\ v <= te - 1
    BY <1>1, <2>3, <2>4
  <2>6. r[k].seq = On(s) /\ r[k].ack = On(v) /\ Copies(r[k], T[s - ta + 1])
    BY <2>1, <2>2, <2>3
  <2>7. s >= he => Covers(v, H, ha, r[k].chan)
    <3> SUFFICES ASSUME s >= he PROVE Covers(v, H, ha, r[k].chan)
      OBVIOUS
    <3>1. \A i \in 1 .. Len(H) : H[i].chan = T[j].chan => ha + i - 1 < te
      BY <2>4, JoinedPurpose
    <3>2. r[k].chan = T[j].chan
      BY <2>4, <2>6 DEF Copies
    <3>3. \A i \in Int : ha + i - 1 < te => ha + i - 1 <= v
      BY <1>1, <2>3
    <3>4. \A i \in 1 .. Len(H) : i \in Int
      BY <1>1
    <3> QED BY <3>1, <3>2, <3>3, <3>4 DEF Covers
  <2> HIDE DEF On
  <2>8. FromTarget(r[k], s, v, H, ha, he, T, ta, tc, te)
    BY <2>1, <2>5, <2>6, <2>7 DEF FromTarget
  <2> QED BY <2>8
<1>9. Back(r, H, ha, he, T, ta, tc, te)
  BY <1>6, <1>8 DEF Back
<1> QED BY <1>3, <1>7, <1>9

(* The host sends: its packets on the way are one packet older.             *)
LEMMA LineSend ==
  ASSUME NEW q, NEW H, NEW ha, NEW hc, NEW he, NEW T, NEW ta, NEW tc, NEW te,
         NEW x, NEW y, NEW cr, NEW ce, Ends(x, y),
         Joined(T, ta, tc, te, H, ha, hc, he, x, y, cr, ce),
         Line(q, H, ha, hc, he, T, ta, te), Len(q) < Wire,
         NEW cr1, NEW ce1, NEW e \in Entry,
         \/ Asks(cr, ce, cr1, ce1, y) /\ e.chan = y
         \/ Replies(cr, ce, cr1, ce1, x) /\ e.chan = x,
         hc + 1 <= he,
         NEW p \in PacketSet, p.seq = On(hc + 1), p.ack = On(he - 1), Copies(p, e)
  PROVE  Line(Append(q, p), Append(H, e), ha, hc + 1, he, T, ta, te)
<1>1. /\ ha \in Int /\ hc \in Int /\ he \in Int /\ te \in Int /\ Len(H) \in 0 .. 2
      /\ Len(H) = hc - ha + 1 /\ ha <= te /\ H \in Seq(Entry)
      /\ ta \in Int /\ Len(T) \in 0 .. 2
  BY JoinedBounds
<1>2. q \in Seq(PacketSet) /\ Len(q) \in Nat /\ Wire \in Nat /\ Wire >= 1
  BY BoundAssumption DEF Line
<1> DEFINE r == Append(q, p)
           G == Append(H, e)
<1>3. /\ r \in Seq(PacketSet) /\ Len(r) = Len(q) + 1 /\ r[Len(q) + 1] = p
      /\ \A i \in 1 .. Len(q) : r[i] = q[i]
  BY <1>2
<1>4. /\ Len(G) = Len(H) + 1 /\ G[Len(H) + 1] = e
      /\ \A k \in 1 .. Len(H) : G[k] = H[k]
  BY <1>1
<1> HIDE DEF r, G
<1>5. ASSUME NEW i \in 1 .. Len(q)
      PROVE  \E s, a \in Int :
               /\ InFlight(q[i], s, a, G, ha, hc + 1, he, T, ta, te)
               /\ s >= (hc + 1) - (Len(q) + 1 - i) /\ a >= (hc + 1) - 1 - (Len(q) + 1 - i)
  <2>1. PICK s \in Int, a \in Int :
          /\ InFlight(q[i], s, a, H, ha, hc, he, T, ta, te)
          /\ s >= hc - (Len(q) - i) /\ a >= hc - 1 - (Len(q) - i)
    BY DEF Line
  <2>2. /\ q[i].seq = On(s) /\ q[i].ack = On(a) /\ s <= hc /\ a <= he - 1
        /\ q[i].flags = "CF_RELIABLE" /\ s >= te =>
             /\ Copies(q[i], H[s - ha + 1])
             /\ \A k \in 1 .. Len(T) : T[k].chan = q[i].chan => ta + k - 1 <= a
    BY <2>1 DEF InFlight
  <2>3. PICK d \in Int : d = Len(q) - i /\ d + 1 = Len(q) + 1 - i /\ d + 1 < Wire
    <3>1. PICK l \in Nat : l = Len(q) /\ l < Wire
      BY <1>2
    <3>2. PICK j \in Int : j = i /\ 1 <= j
      BY <1>2
    <3>3. l - j \in Int /\ (l - j) + 1 = l + 1 - j /\ (l - j) + 1 < Wire
      BY <1>2, <3>1, <3>2
    <3> QED BY <3>1, <3>2, <3>3
  <2>4. /\ s >= (hc + 1) - (Len(q) + 1 - i) /\ a >= (hc + 1) - 1 - (Len(q) + 1 - i)
        /\ (hc + 1) - Wire <= s /\ s <= hc + 1 /\ (hc + 1) - 1 - Wire <= a
    <3>1. s >= hc - d /\ a >= hc - 1 - d
      BY <2>1, <2>3
    <3>2. s >= (hc + 1) - (d + 1) /\ a >= (hc + 1) - 1 - (d + 1)
      BY <1>1, <2>3, <3>1
    <3>3. (hc + 1) - Wire <= s /\ s <= hc + 1 /\ (hc + 1) - 1 - Wire <= a
      <4>1. s <= hc /\ d + 1 < Wire
        BY <2>2, <2>3
      <4> QED BY <1>1, <1>2, <3>1, <4>1
    <3> QED BY <2>3, <3>2, <3>3
  <2>5. s >= te => s - ha + 1 \in 1 .. Len(H)
    BY <1>1, <2>2
  <2>6. s >= te => G[s - ha + 1] = H[s - ha + 1]
    BY <1>4, <2>5
  <2>7. InFlight(q[i], s, a, G, ha, hc + 1, he, T, ta, te)
    BY <2>2, <2>4, <2>6 DEF InFlight
  <2> QED BY <2>4, <2>7
<1>6. InFlight(p, hc + 1, he - 1, G, ha, hc + 1, he, T, ta, te)
  <2>1. (hc + 1) - ha + 1 = Len(H) + 1
    BY <1>1
  <2>2. ASSUME NEW k \in 1 .. Len(T), T[k].chan = p.chan
        PROVE  ta + k - 1 <= he - 1
    <3>1. Belongs(T[k], ta + k - 1, he, x, y, cr, ce)
      BY DEF Joined, Way
    <3>2. ~(ta + k - 1 >= he)
      BY <2>2, <3>1 DEF Belongs, Ends, Asks, Replies, Idle, Asked, Serving, Replied, Copies
    <3>3. k \in Int
      BY <1>1
    <3> QED BY <1>1, <3>2, <3>3
  <2>3. /\ (hc + 1) - Wire <= hc + 1 /\ hc + 1 <= hc + 1
        /\ (hc + 1) - 1 - Wire <= he - 1 /\ he - 1 <= he - 1
    BY <1>1, <1>2
  <2>4. Copies(p, G[(hc + 1) - ha + 1])
    BY <1>4, <2>1
  <2> QED BY <2>2, <2>3, <2>4 DEF InFlight
<1>7. ASSUME NEW i \in 1 .. Len(q) + 1
      PROVE  \E s, a \in Int :
               /\ InFlight(r[i], s, a, G, ha, hc + 1, he, T, ta, te)
               /\ s >= (hc + 1) - (Len(q) + 1 - i) /\ a >= (hc + 1) - 1 - (Len(q) + 1 - i)
  <2>1. CASE i = Len(q) + 1
    <3>1. /\ hc + 1 >= (hc + 1) - (Len(q) + 1 - i) /\ hc + 1 \in Int
          /\ he - 1 >= (hc + 1) - 1 - (Len(q) + 1 - i) /\ he - 1 \in Int
      BY <1>1, <1>2, <2>1
    <3> QED BY <1>3, <1>6, <2>1, <3>1
  <2>2. CASE i # Len(q) + 1
    <3>1. i \in 1 .. Len(q)
      BY <1>2, <2>2
    <3> QED BY <1>3, <1>5, <3>1
  <2> QED BY <2>1, <2>2
<1>8. Line(r, G, ha, hc + 1, he, T, ta, te)
  BY <1>3, <1>7 DEF Line
<1> QED BY <1>8 DEF r, G

(* The target sends: what is on its way does not have to acknowledge that,  *)
(* for nothing on its way may still be accepted on that channel.            *)
LEMMA FlightTargetSends ==
  ASSUME NEW H, NEW ha, NEW hc, NEW he, NEW T, NEW ta, NEW tc, NEW te,
         NEW x, NEW y, NEW cr, NEW ce, Ends(x, y),
         Joined(T, ta, tc, te, H, ha, hc, he, x, y, cr, ce),
         NEW cr1, NEW ce1, NEW e \in Entry,
         \/ Asks(cr, ce, cr1, ce1, x) /\ e.chan = x
         \/ Replies(cr, ce, cr1, ce1, y) /\ e.chan = y,
         NEW p, NEW s \in Int, NEW a \in Int,
         InFlight(p, s, a, H, ha, hc, he, T, ta, te)
  PROVE  InFlight(p, s, a, H, ha, hc, he, Append(T, e), ta, te)
<1>1. /\ ha \in Int /\ hc \in Int /\ te \in Int /\ Len(H) \in 0 .. 2
      /\ Len(H) = hc - ha + 1 /\ ha <= te /\ T \in Seq(Entry) /\ Len(T) \in 0 .. 2
  BY JoinedBounds
<1> DEFINE R == Append(T, e)
<1>2. /\ Len(R) = Len(T) + 1 /\ R[Len(T) + 1] = e
      /\ \A k \in 1 .. Len(T) : R[k] = T[k]
      /\ \A k \in 1 .. Len(T) + 1 : k \in 1 .. Len(T) \/ k = Len(T) + 1
  BY <1>1
<1> HIDE DEF R
<1>3. ASSUME p.flags = "CF_RELIABLE", s >= te
      PROVE  \A k \in 1 .. Len(R) : R[k].chan = p.chan => ta + k - 1 <= a
  <2>1. /\ Copies(p, H[s - ha + 1]) /\ s <= hc
        /\ \A k \in 1 .. Len(T) : T[k].chan = p.chan => ta + k - 1 <= a
    BY <1>3 DEF InFlight
  <2>2. PICK j \in 1 .. Len(H) : j = s - ha + 1 /\ ha + j - 1 >= te
    BY <1>1, <1>3, <2>1
  <2>3. \/ H[j].chan = y /\ Asked(cr, ce, y) /\ H[j].body = cr[y].body
        \/ H[j].chan = x /\ Replied(cr, ce, x) /\ H[j].body = ce[x].body
    BY <2>2, JoinedPurpose
  <2>4. p.chan # e.chan
    BY <2>1, <2>2, <2>3
      DEF Copies, Ends, Asks, Replies, Idle, Asked, Serving, Replied
  <2> QED BY <1>2, <2>1, <2>4
<1>4. InFlight(p, s, a, H, ha, hc, he, R, ta, te)
  BY <1>3 DEF InFlight
<1> QED BY <1>4 DEF R

(* The target accepts; its list is cut.                                     *)
LEMMA FlightTargetAccepts ==
  ASSUME NEW H, NEW ha, NEW hc, NEW he, NEW T \in Seq(Entry), NEW ta \in Int,
         NEW te \in Int, NEW ta1 \in Int, ta <= ta1, ta1 <= ta + Len(T),
         NEW p, NEW s \in Int, NEW a \in Int,
         InFlight(p, s, a, H, ha, hc, he, T, ta, te)
  PROVE  InFlight(p, s, a, H, ha, hc, he, SubSeq(T, ta1 - ta + 1, Len(T)), ta1, te + 1)
<1>1. PICK d \in Nat : d = ta1 - ta
  OBVIOUS
<1>2. PICK l \in Nat : l = Len(T)
  OBVIOUS
<1> DEFINE R == SubSeq(T, d + 1, l)
<1>3. /\ Len(R) = l - d /\ l - d \in Nat
      /\ \A k \in 1 .. l - d : R[k] = T[k + d] /\ k + d \in 1 .. l
  BY <1>1, <1>2
<1> HIDE DEF R
<1>4. ASSUME p.flags = "CF_RELIABLE", s >= te + 1
      PROVE  /\ Copies(p, H[s - ha + 1])
             /\ \A k \in 1 .. Len(R) : R[k].chan = p.chan => ta1 + k - 1 <= a
  <2>1. s >= te
    BY <1>4
  <2>2. /\ Copies(p, H[s - ha + 1])
        /\ \A k \in 1 .. l : T[k].chan = p.chan => ta + k - 1 <= a
    BY <1>2, <1>4, <2>1 DEF InFlight
  <2>3. ASSUME NEW k \in 1 .. l - d, R[k].chan = p.chan
        PROVE  ta1 + k - 1 <= a
    <3>1. k + d \in 1 .. l /\ T[k + d].chan = p.chan
      BY <1>3, <2>3
    <3>2. ta + (k + d) - 1 <= a
      BY <2>2, <3>1
    <3>3. ta + (k + d) - 1 = ta1 + k - 1
      BY <1>1
    <3> QED BY <3>2, <3>3
  <2> QED BY <1>3, <2>2, <2>3
<1>5. InFlight(p, s, a, H, ha, hc, he, R, ta1, te + 1)
  BY <1>4 DEF InFlight
<1> QED BY <1>1, <1>2, <1>5 DEF R

(* The host accepts; its list is cut.                                       *)
LEMMA FlightHostAccepts ==
  ASSUME NEW H \in Seq(Entry), NEW ha \in Int, NEW hc \in Int, NEW he \in Int, NEW T,
         NEW ta, NEW te \in Int, Len(H) = hc - ha + 1,
         NEW ha1 \in Int, ha <= ha1, ha1 <= te, ha1 <= hc + 1,
         NEW p, NEW s \in Int, NEW a \in Int,
         InFlight(p, s, a, H, ha, hc, he, T, ta, te)
  PROVE  InFlight(p, s, a, SubSeq(H, ha1 - ha + 1, Len(H)), ha1, hc, he + 1, T, ta, te)
<1>1. PICK d \in Nat : d = ha1 - ha
  OBVIOUS
<1>2. PICK l \in Nat : l = Len(H)
  OBVIOUS
<1> DEFINE R == SubSeq(H, d + 1, l)
<1>3. /\ Len(R) = l - d /\ l - d \in Nat
      /\ \A k \in 1 .. l - d : R[k] = H[k + d] /\ k + d \in 1 .. l
  BY <1>1, <1>2
<1> HIDE DEF R
<1>4. /\ p.seq = On(s) /\ p.ack = On(a)
      /\ hc - Wire <= s /\ s <= hc /\ hc - 1 - Wire <= a /\ a <= he - 1
      /\ p.flags = "CF_RELIABLE" /\ s >= te =>
           /\ Copies(p, H[s - ha + 1])
           /\ \A k \in 1 .. Len(T) : T[k].chan = p.chan => ta + k - 1 <= a
  BY DEF InFlight
<1>5. s >= te => s - ha1 + 1 \in 1 .. l - d /\ (s - ha1 + 1) + d = s - ha + 1
  BY <1>1, <1>2, <1>4
<1>6. s >= te => R[s - ha1 + 1] = H[s - ha + 1]
  <2>1. PICK j \in Int, m \in Int : j = s - ha1 + 1 /\ m = s - ha + 1
    OBVIOUS
  <2>2. s >= te => j \in 1 .. l - d /\ j + d = m
    BY <1>5, <2>1
  <2>3. s >= te => R[j] = H[m]
    BY <1>3, <2>2
  <2> QED BY <2>1, <2>3
<1>7. a <= (he + 1) - 1
  BY <1>4
<1>8. InFlight(p, s, a, R, ha1, hc, he + 1, T, ta, te)
  BY <1>4, <1>6, <1>7 DEF InFlight
<1> QED BY <1>1, <1>2, <1>8 DEF R

(* What is in flight stays so. *)
StaysInFlight(H, ha, hc, he, T, ta, te, H1, ha1, he1, T1, ta1, te1) ==
  \A p \in PacketSet : \A s, a \in Int :
    InFlight(p, s, a, H, ha, hc, he, T, ta, te) =>
    InFlight(p, s, a, H1, ha1, hc, he1, T1, ta1, te1)

LEMMA LineStays ==
  ASSUME NEW q, NEW H, NEW ha, NEW hc, NEW he, NEW T, NEW ta, NEW te,
         NEW H1, NEW ha1, NEW he1, NEW T1, NEW ta1, NEW te1,
         StaysInFlight(H, ha, hc, he, T, ta, te, H1, ha1, he1, T1, ta1, te1),
         Line(q, H, ha, hc, he, T, ta, te)
  PROVE  Line(q, H1, ha1, hc, he1, T1, ta1, te1)
<1>1. q \in Seq(PacketSet) /\ \A i \in 1 .. Len(q) : q[i] \in PacketSet
  BY DEF Line
<1>2. ASSUME NEW i \in 1 .. Len(q)
      PROVE  \E s, a \in Int :
               /\ InFlight(q[i], s, a, H1, ha1, hc, he1, T1, ta1, te1)
               /\ s >= hc - (Len(q) - i) /\ a >= hc - 1 - (Len(q) - i)
  BY <1>1 DEF Line, StaysInFlight
<1> QED BY <1>1, <1>2 DEF Line

LEMMA HeldStays ==
  ASSUME NEW q, NEW H, NEW ha, NEW hc, NEW he, NEW T, NEW ta, NEW te,
         NEW H1, NEW ha1, NEW he1, NEW T1, NEW ta1, NEW te1,
         StaysInFlight(H, ha, hc, he, T, ta, te, H1, ha1, he1, T1, ta1, te1),
         Held(q, H, ha, hc, he, T, ta, te)
  PROVE  Held(q, H1, ha1, hc, he1, T1, ta1, te1)
<1>1. q \in Seq(PacketSet) /\ \A i \in 1 .. Len(q) : q[i] \in PacketSet
  BY DEF Held
<1>2. ASSUME NEW i \in 1 .. Len(q)
      PROVE  \E s, a \in Int : InFlight(q[i], s, a, H1, ha1, hc, he1, T1, ta1, te1)
  BY <1>1 DEF Held, StaysInFlight
<1> QED BY <1>1, <1>2 DEF Held

-----------------------------------------------------------------------------
(* The inductive invariant: until sends overlap there are integers for the  *)
(* two ends' counters with which the ends are joined, and what is on its    *)
(* way, or about to be sent, fits them.                                     *)

HostSet == [current : SequenceNR, ackExpected : SequenceNR, expected : SequenceNR,
            unacked : Seq(Entry)]

HostAt(hc, ha, he) ==
  /\ host \in HostSet
  /\ host.current = On(hc) /\ host.expected = On(he)
  /\ host.ackExpected \in {On(ha - 1), On(ha)}
TargetAt(tc, ta, te) ==
  /\ currentFrame = IF sending.pc = "none" THEN On(tc) ELSE On(tc + 1)
  /\ frameExpected = On(te)
  /\ ackExpected \in {On(ta - 1), On(ta)}
  /\ lastReceived \in SequenceNR /\ lastReceived # frameExpected
LinkAt(hc, ha, he, tc, ta, te) ==
  Joined(unacked, ta, tc, te, host.unacked, ha, hc, he, "CI_CLIB", "CI_HADP",
         caller, callee)
LineAt(hc, ha, he, ta, te) == Line(toTarget, host.unacked, ha, hc, he, unacked, ta, te)
HeldAt(hc, ha, he, ta, te) == Held(pending, host.unacked, ha, hc, he, unacked, ta, te)
BackAt(ha, he, ta, tc, te) == Back(toHost, host.unacked, ha, he, unacked, ta, tc, te)

(* A send in progress: its call has not begun to wait, or is being served;  *)
(* its acknowledgement covers what the host has still in its list on that   *)
(* channel.                                                                 *)
MayCount(cr, ce, c) == \/ c = "CI_CLIB" /\ Idle(cr, ce, c)
                       \/ c = "CI_HADP" /\ Serving(cr, ce, c)
Stamped(snd, H, ha, tc, te) ==
  /\ snd.seq = On(tc + 1)
  /\ \E a \in Int : /\ snd.ack = On(a) /\ tc <= a /\ a <= te - 1
                    /\ Covers(a, H, ha, snd.chan)
SendOK(snd, cr, ce, H, ha, tc, te) ==
  /\ snd.pc # "none" => MayCount(cr, ce, snd.chan)
  /\ snd.pc = "store" => Stamped(snd, H, ha, tc, te)

SendSet == [pc : {"none", "number", "store"}, chan : Channel,
            seq : SequenceNR, ack : SequenceNR]
SendingAt(ha, tc, te) ==
  /\ sending \in SendSet /\ {writer, refused, overlapped} \subseteq BOOLEAN
  /\ SendOK(sending, caller, callee, host.unacked, ha, tc, te)

Linked(hc, ha, he, tc, ta, te) ==
  /\ HostAt(hc, ha, he) /\ TargetAt(tc, ta, te) /\ LinkAt(hc, ha, he, tc, ta, te)
  /\ LineAt(hc, ha, he, ta, te) /\ HeldAt(hc, ha, he, ta, te)
  /\ BackAt(ha, he, ta, tc, te) /\ SendingAt(ha, tc, te)
  /\ lost \in 0 .. Losses

Links == \E hc, ha, he, tc, ta, te \in Int : Linked(hc, ha, he, tc, ta, te)

IInv == overlapped \/ Links

(* A step of some call, or of none.                                         *)
CallsStep ==
  \/ UNCHANGED calls
  \/ \E c \in Channel : \/ Asks(caller, callee, caller', callee', c)
                        \/ Served(caller, callee, caller', callee', c)
                        \/ Replies(caller, callee, caller', callee', c)
                        \/ Answered(caller, callee, caller', callee', c)

LEMMA TwoEnds == /\ Ends("CI_CLIB", "CI_HADP") /\ Ends("CI_HADP", "CI_CLIB")
                 /\ "CI_CLIB" \in Channel /\ "CI_HADP" \in Channel
BY DEF Ends, Channel

Bounds(hc, ha, he, tc, ta, te) ==
  /\ ta \in Int /\ tc \in Int /\ te \in Int /\ unacked \in Seq(Entry)
  /\ Len(unacked) \in 0 .. 2 /\ Len(unacked) = tc - ta + 1
  /\ ha \in Int /\ hc \in Int /\ he \in Int /\ host.unacked \in Seq(Entry)
  /\ Len(host.unacked) \in 0 .. 2 /\ Len(host.unacked) = hc - ha + 1
  /\ ta <= he /\ he <= tc + 1 /\ tc <= he + 1
  /\ ha <= te /\ te <= hc + 1 /\ hc <= te + 1
  /\ tc <= te /\ te <= tc + 2 /\ hc <= he /\ he <= hc + 2

LEMMA LinkBounds ==
  ASSUME NEW hc, NEW ha, NEW he, NEW tc, NEW ta, NEW te,
         LinkAt(hc, ha, he, tc, ta, te)
  PROVE  Bounds(hc, ha, he, tc, ta, te)
BY JoinedBounds DEF LinkAt, Bounds

(* What a step of a call leaves of a send in progress.                      *)
LEMMA MayCountStays ==
  ASSUME NEW cr, NEW ce, CallsOK(cr, ce), NEW c, MayCount(cr, ce, c),
         NEW cr1, NEW ce1, NEW d \in Channel,
         \/ Asks(cr, ce, cr1, ce1, d) /\ d # "CI_CLIB"
         \/ Served(cr, ce, cr1, ce1, d)
         \/ Replies(cr, ce, cr1, ce1, d) /\ d # "CI_HADP"
         \/ Answered(cr, ce, cr1, ce1, d)
  PROVE  MayCount(cr1, ce1, c)
<1>1. /\ c \in Channel
      /\ cr \in [Channel -> [waiting : BOOLEAN, body : Body, answer : Body]]
      /\ ce \in [Channel -> [serving : BOOLEAN, body : Body]]
      /\ ce[d].serving => cr[d].waiting
  BY DEF CallsOK, MayCount, Channel
<1>2. CASE Asks(cr, ce, cr1, ce1, d) /\ d # "CI_CLIB"
  BY <1>1, <1>2 DEF Asks, MayCount, Idle, Serving
<1>3. CASE Served(cr, ce, cr1, ce1, d)
  BY <1>1, <1>3 DEF Served, MayCount, Idle, Serving, Asked
<1>4. CASE Replies(cr, ce, cr1, ce1, d) /\ d # "CI_HADP"
  BY <1>1, <1>4 DEF Replies, MayCount, Idle, Serving
<1>5. CASE Answered(cr, ce, cr1, ce1, d)
  BY <1>1, <1>5 DEF Answered, MayCount, Idle, Serving, Replied
<1> QED BY <1>2, <1>3, <1>4, <1>5

(* In the middle of a send the list has room for its packet, and the target *)
(* has accepted at least one packet since it sent the last one.             *)
LEMMA MidSend ==
  ASSUME NEW hc, NEW ha, NEW he, NEW tc, NEW ta, NEW te,
         Linked(hc, ha, he, tc, ta, te), sending.pc # "none"
  PROVE  Len(unacked) \in 0 .. 1 /\ tc + 1 <= te
<1>1. /\ Bounds(hc, ha, he, tc, ta, te)
      /\ Joined(unacked, ta, tc, te, host.unacked, ha, hc, he, "CI_CLIB", "CI_HADP",
                caller, callee)
      /\ MayCount(caller, callee, sending.chan)
  BY LinkBounds DEF Linked, LinkAt, SendingAt, SendOK
<1>2. PICK cr, ce : cr = caller /\ ce = callee
  OBVIOUS
<1>3. Idle(cr, ce, "CI_CLIB") \/ Serving(cr, ce, "CI_HADP")
  BY <1>1, <1>2 DEF MayCount
<1>4. /\ Way(unacked, ta, tc, he, "CI_CLIB", "CI_HADP", cr, ce)
      /\ tc + Credit(cr, ce, "CI_CLIB", "CI_HADP") = te
  BY <1>1, <1>2 DEF Joined
<1>5. Len(unacked) < MAX_UNACKED
  BY <1>3, <1>4, TwoEnds, WayRoom
<1>6. MAX_UNACKED = 2
  BY RoomForTwo
<1>7. Credit(cr, ce, "CI_CLIB", "CI_HADP") \in 1 .. 2
  BY <1>3 DEF Credit
<1> QED BY <1>1, <1>4, <1>5, <1>6, <1>7 DEF Bounds

(* To the resend list the number already counted makes no difference.       *)
LEMMA ResentMid ==
  ASSUME NEW hc \in Int, NEW ha \in Int, NEW he \in Int,
         NEW tc \in Int, NEW ta \in Int, NEW te \in Int,
         Linked(hc, ha, he, tc, ta, te), NEW start \in Int, start <= tc + 1,
         sending.pc # "none" => tc + 2 - MAX_SEQ <= start, NEW expected
  PROVE  Resent(unacked, On(start), currentFrame, expected)
           = Resent(unacked, On(start), On(tc), expected)
<1>1. CASE sending.pc = "none"
  BY <1>1 DEF Linked, TargetAt
<1>2. CASE sending.pc # "none"
  <2>1. /\ Len(unacked) \in 0 .. 1 /\ Len(unacked) = tc - ta + 1
        /\ unacked \in Seq(Entry)
    <3>1. LinkAt(hc, ha, he, tc, ta, te)
      BY DEF Linked
    <3>2. Bounds(hc, ha, he, tc, ta, te)
      BY <3>1, LinkBounds
    <3>3. unacked \in Seq(Entry) /\ Len(unacked) = tc - ta + 1
      BY <3>2 DEF Bounds
    <3>4. Len(unacked) \in 0 .. 1
      BY <1>2, MidSend
    <3> QED BY <3>3, <3>4
  <2>2. \A k \in 1 .. Len(unacked) : unacked[k].seq = On(ta + k - 1)
    BY DEF Linked, LinkAt, Joined, Way, Listed
  <2>3. PICK t \in Int, u \in Int : t = tc + 1 /\ u = tc + 2
    OBVIOUS
  <2>4. nextSEQ(On(tc)) = On(t) /\ nextSEQ(currentFrame) = On(u)
    <3>1. currentFrame = On(t)
      BY <1>2, <2>3 DEF Linked, TargetAt
    <3>2. nextSEQ(On(tc)) = On(tc + 1) /\ nextSEQ(On(t)) = On(t + 1) /\ t + 1 = u
      BY <2>3, OnNext
    <3> QED BY <2>3, <3>1, <3>2
  <2>5. ASSUME NEW k \in 1 .. Len(unacked)
        PROVE  adp_between(On(start), unacked[k].seq, On(u))
                 <=> adp_between(On(start), unacked[k].seq, On(t))
    <3>1. unacked[k].seq = On(tc)
      BY <2>1, <2>2
    <3>2. /\ start <= u /\ u <= start + MAX_SEQ /\ u - Turn <= tc /\ tc <= start + MAX_SEQ
          /\ start <= t /\ t <= start + MAX_SEQ /\ t - Turn <= tc
          /\ tc < u /\ tc < t
      BY <1>2, <2>3, TurnFacts
    <3>3. adp_between(On(start), On(tc), On(u)) <=> start <= tc /\ tc < u
      BY <3>2, Between
    <3>4. adp_between(On(start), On(tc), On(t)) <=> start <= tc /\ tc < t
      BY <3>2, Between
    <3> QED BY <3>1, <3>2, <3>3, <3>4
  <2>6. ASSUME NEW n
        PROVE  (adp_between(On(start), n, On(u)) /\ \E e \in ToSet(unacked) : e.seq = n)
                 <=> (adp_between(On(start), n, On(t)) /\ \E e \in ToSet(unacked) : e.seq = n)
    <3>1. \A e \in ToSet(unacked) : \E k \in 1 .. Len(unacked) : e = unacked[k]
      BY <2>1 DEF ToSet
    <3> QED BY <2>5, <3>1
  <2> HIDE DEF On
  <2> QED BY <2>4, <2>6 DEF Resent
<1> QED BY <1>1, <1>2

LEMMA AckedMid ==
  ASSUME NEW hc \in Int, NEW ha \in Int, NEW he \in Int,
         NEW tc \in Int, NEW ta \in Int, NEW te \in Int,
         Linked(hc, ha, he, tc, ta, te), NEW a \in Int, a <= tc,
         sending.pc # "none" => tc + 2 - Turn <= a
  PROVE  /\ Acked(ackExpected, On(a), currentFrame) = Acked(ackExpected, On(a), On(tc))
         /\ AckedTo(ackExpected, On(a), currentFrame) = AckedTo(ackExpected, On(a), On(tc))
<1>1. CASE sending.pc = "none"
  BY <1>1 DEF Linked, TargetAt
<1>2. CASE sending.pc # "none"
  <2>1. Len(unacked) \in 0 .. 1 /\ Len(unacked) = tc - ta + 1
    <3>1. LinkAt(hc, ha, he, tc, ta, te)
      BY DEF Linked
    <3>2. Bounds(hc, ha, he, tc, ta, te)
      BY <3>1, LinkBounds
    <3>3. Len(unacked) = tc - ta + 1
      BY <3>2 DEF Bounds
    <3>4. Len(unacked) \in 0 .. 1
      BY <1>2, MidSend
    <3> QED BY <3>3, <3>4
  <2>2. PICK w \in Int : ackExpected = On(w) /\ ta - 1 <= w /\ w <= ta
    BY DEF Linked, TargetAt
  <2>3. PICK t \in Int, u \in Int : t = tc + 1 /\ u = tc + 2
    OBVIOUS
  <2>4. nextSEQ(On(tc)) = On(t) /\ nextSEQ(currentFrame) = On(u)
    <3>1. currentFrame = On(t)
      BY <1>2, <2>3 DEF Linked, TargetAt
    <3>2. nextSEQ(On(tc)) = On(tc + 1) /\ nextSEQ(On(t)) = On(t + 1) /\ t + 1 = u
      BY <2>3, OnNext
    <3> QED BY <2>3, <3>1, <3>2
  <2>5. /\ w <= u /\ u <= w + MAX_SEQ /\ u - Turn <= a /\ a <= w + MAX_SEQ
        /\ w <= t /\ t <= w + MAX_SEQ /\ t - Turn <= a /\ a < u /\ a < t
    BY <1>2, <2>1, <2>2, <2>3, TurnFacts
  <2>6. adp_between(On(w), On(a), On(u)) <=> w <= a /\ a < u
    BY <2>5, Between
  <2>7. adp_between(On(w), On(a), On(t)) <=> w <= a /\ a < t
    BY <2>5, Between
  <2>8. adp_between(ackExpected, On(a), nextSEQ(currentFrame))
          <=> adp_between(ackExpected, On(a), nextSEQ(On(tc)))
    BY <2>2, <2>4, <2>5, <2>6, <2>7
  <2> HIDE DEF On
  <2> QED BY <2>8 DEF Acked, AckedTo
<1> QED BY <1>1, <1>2

(* One packet of the target's, kept in its list and sent.                   *)
Stores(chan, body) ==
  /\ Ready /\ sending.pc = "store" /\ sending' = NotSending
  /\ unacked' = IF Len(unacked) < MAX_UNACKED
                THEN Append(unacked, Stored(currentFrame, chan, body)) ELSE unacked
  /\ toHost' = Append(toHost, Packet("CF_RELIABLE", sending.seq, sending.ack, chan, body))
  /\ UNCHANGED <<currentFrame, ackExpected, frameExpected, lastReceived,
                 pending, host, toTarget, writer, refused, overlapped, lost>>

LEMMA TargetStores ==
  ASSUME NEW hc \in Int, NEW ha \in Int, NEW he \in Int,
         NEW tc \in Int, NEW ta \in Int, NEW te \in Int,
         Linked(hc, ha, he, tc, ta, te),
         NEW chan, chan = sending.chan, NEW body \in Body, Stores(chan, body),
         \/ /\ Asks(caller, callee, caller', callee', "CI_CLIB")
            /\ chan = "CI_CLIB" /\ body = caller'["CI_CLIB"].body
         \/ /\ Replies(caller, callee, caller', callee', "CI_HADP")
            /\ chan = "CI_HADP" /\ body = callee'["CI_HADP"].body
  PROVE  Links'
<1>1. /\ HostAt(hc, ha, he) /\ TargetAt(tc, ta, te) /\ LinkAt(hc, ha, he, tc, ta, te)
      /\ LineAt(hc, ha, he, ta, te) /\ HeldAt(hc, ha, he, ta, te)
      /\ SendingAt(ha, tc, te) /\ lost \in 0 .. Losses
  BY DEF Linked
<1>0. /\ sending.pc = "store" /\ sending' = NotSending
      /\ UNCHANGED <<pending, host, toTarget, writer, refused, overlapped, lost>>
  BY DEF Stores
<1>a. PICK a \in Int : /\ sending.seq = On(tc + 1) /\ sending.ack = On(a)
                      /\ tc <= a /\ a <= te - 1 /\ Covers(a, host.unacked, ha, chan)
  BY <1>0, <1>1 DEF SendingAt, SendOK, Stamped
<1>2. PICK n \in Int : n = tc + 1
  OBVIOUS
<1>3. /\ currentFrame = On(n) /\ frameExpected = On(te)
      /\ ackExpected \in {On(ta - 1), On(ta)}
      /\ lastReceived \in SequenceNR /\ lastReceived # frameExpected
  BY <1>0, <1>1, <1>2 DEF TargetAt
<1>4. currentFrame' = On(n) /\ On(n) \in SequenceNR /\ On(a) \in SequenceNR
  <2>1. On(n) \in SequenceNR /\ On(a) \in SequenceNR
    BY OnRange
  <2> QED BY <1>3, <2>1 DEF Stores
<1>6. chan \in Channel
  BY TwoEnds
<1>7. PICK e : e = Stored(On(n), chan, body)
  OBVIOUS
<1>8. e \in Entry /\ e.seq = On(tc + 1) /\ e.chan = chan /\ e.body = body
  <2> HIDE DEF On
  <2> QED BY <1>2, <1>4, <1>6, <1>7 DEF Entry, Stored
<1>9. Joined(unacked, ta, tc, te, host.unacked, ha, hc, he, "CI_CLIB", "CI_HADP",
             caller, callee)
  BY <1>1 DEF LinkAt
<1>10. /\ Len(unacked) < MAX_UNACKED
       /\ Joined(Append(unacked, e), ta, n, te, host.unacked, ha, hc, he,
                 "CI_CLIB", "CI_HADP", caller', callee')
  <2>1. PICK cr, ce, cr1, ce1 :
          cr = caller /\ ce = callee /\ cr1 = caller' /\ ce1 = callee'
    OBVIOUS
  <2>2. \/ /\ Asks(cr, ce, cr1, ce1, "CI_CLIB")
           /\ e.chan = "CI_CLIB" /\ e.body = cr1["CI_CLIB"].body
        \/ /\ Replies(cr, ce, cr1, ce1, "CI_HADP")
           /\ e.chan = "CI_HADP" /\ e.body = ce1["CI_HADP"].body
    BY <1>8, <2>1
  <2>3. Joined(unacked, ta, tc, te, host.unacked, ha, hc, he, "CI_CLIB", "CI_HADP",
               cr, ce)
    BY <1>9, <2>1
  <2>4. /\ Len(unacked) < MAX_UNACKED
        /\ Joined(Append(unacked, e), ta, tc + 1, te, host.unacked, ha, hc, he,
                  "CI_CLIB", "CI_HADP", cr1, ce1)
    BY <1>8, <2>2, <2>3, TwoEnds, JoinedSends
  <2> QED BY <1>2, <2>1, <2>4
<1>11. /\ unacked' = Append(unacked, e) /\ toHost = <<>>
       /\ toHost' = Append(toHost, Packet("CF_RELIABLE", On(n), On(a), chan, body))
       /\ ackExpected' = ackExpected /\ frameExpected' = frameExpected
       /\ lastReceived' = lastReceived
  BY <1>2, <1>3, <1>7, <1>10, <1>a DEF Stores, Ready
<1>12. HostAt(hc, ha, he)'
  BY <1>0, <1>1 DEF HostAt
<1>13. TargetAt(n, ta, te)'
  BY <1>0, <1>3, <1>4, <1>11 DEF TargetAt, NotSending
<1>14. LinkAt(hc, ha, he, n, ta, te)'
  BY <1>0, <1>10, <1>11 DEF LinkAt
<1>15. StaysInFlight(host.unacked, ha, hc, he, unacked, ta, te,
                     host.unacked, ha, he, Append(unacked, e), ta, te)
  <2>1. PICK cr, ce, cr1, ce1 :
          cr = caller /\ ce = callee /\ cr1 = caller' /\ ce1 = callee'
    OBVIOUS
  <2>2. \/ Asks(cr, ce, cr1, ce1, "CI_CLIB") /\ e.chan = "CI_CLIB"
        \/ Replies(cr, ce, cr1, ce1, "CI_HADP") /\ e.chan = "CI_HADP"
    BY <1>8, <2>1
  <2>3. Joined(unacked, ta, tc, te, host.unacked, ha, hc, he, "CI_CLIB", "CI_HADP",
               cr, ce)
    BY <1>9, <2>1
  <2>4. ASSUME NEW p \in PacketSet, NEW s \in Int, NEW b \in Int,
               InFlight(p, s, b, host.unacked, ha, hc, he, unacked, ta, te)
        PROVE  InFlight(p, s, b, host.unacked, ha, hc, he, Append(unacked, e), ta, te)
    BY <1>8, <2>2, <2>3, <2>4, TwoEnds, FlightTargetSends
  <2> QED BY <2>4 DEF StaysInFlight
<1>16. LineAt(hc, ha, he, ta, te)'
  <2>1. Line(toTarget, host.unacked, ha, hc, he, Append(unacked, e), ta, te)
    BY <1>1, <1>15, LineStays DEF LineAt
  <2> QED BY <1>0, <1>11, <2>1 DEF LineAt
<1>17. HeldAt(hc, ha, he, ta, te)'
  <2>1. Held(pending, host.unacked, ha, hc, he, Append(unacked, e), ta, te)
    BY <1>1, <1>15, HeldStays DEF HeldAt
  <2> QED BY <1>0, <1>11, <2>1 DEF HeldAt
<1>18. BackAt(ha, he, ta, n, te)'
  <2> DEFINE p == Packet("CF_RELIABLE", On(n), On(a), chan, body)
  <2>1. /\ p \in PacketSet /\ p.seq = On(n) /\ p.ack = On(a)
        /\ p.chan = chan /\ p.body = body /\ p.flags = "CF_RELIABLE"
    <3> HIDE DEF On
    <3> QED BY <1>4, <1>6 DEF PacketSet, Packet
  <2>2. /\ Len(unacked) \in 0 .. 2 /\ unacked \in Seq(Entry) /\ Len(unacked) = tc - ta + 1
    <3>1. Bounds(hc, ha, he, tc, ta, te)
      BY <1>1, LinkBounds
    <3> QED BY <3>1 DEF Bounds
  <2>3. /\ n >= ta /\ n - ta + 1 = Len(unacked) + 1 /\ n - 1 <= n /\ n <= n
        /\ n - 1 <= a /\ a <= te - 1
    <3>1. PICK l \in 0 .. 2 : l = Len(unacked) /\ l = tc - ta + 1
      BY <2>2
    <3>2. n = tc + 1 /\ tc <= a /\ a <= te - 1
      BY <1>2, <1>a
    <3> QED BY <3>1, <3>2
  <2>4. unacked'[n - ta + 1] = e
    <3>1. unacked' = Append(unacked, e)
      BY <1>11
    <3>2. Append(unacked, e)[Len(unacked) + 1] = e
      BY <1>8, <2>2
    <3> QED BY <2>3, <3>1, <3>2
  <2>5. Copies(p, unacked'[n - ta + 1])
    BY <1>8, <2>1, <2>4 DEF Copies
  <2> HIDE DEF p, On
  <2>6. FromTarget(p, n, a, host.unacked, ha, he, unacked', ta, n, te)
    BY <1>a, <2>1, <2>3, <2>5 DEF FromTarget
  <2>7. Back(Append(toHost, p), host.unacked, ha, he, unacked', ta, n, te)
    BY <1>11, <2>1, <2>6, BackOne
  <2> QED BY <1>0, <1>11, <2>7 DEF BackAt, p
<1>19. SendingAt(ha, n, te)' /\ lost' \in 0 .. Losses
  <2>1. NotSending \in SendSet
    BY <1>4, SeqAssumption DEF NotSending, SendSet, Channel, SequenceNR
  <2> QED BY <1>0, <1>1, <2>1 DEF SendingAt, SendOK, NotSending
<1>20. Linked(hc, ha, he, n, ta, te)'
  BY <1>12, <1>13, <1>14, <1>16, <1>17, <1>18, <1>19 DEF Linked
<1> QED BY <1>20 DEF Links

(* One packet of the host's.                                                *)
LEMMA HostSendsOne ==
  ASSUME NEW hc \in Int, NEW ha \in Int, NEW he \in Int,
         NEW tc \in Int, NEW ta \in Int, NEW te \in Int,
         Linked(hc, ha, he, tc, ta, te),
         NEW chan, NEW body \in Body, HostSends(chan, body),
         UNCHANGED <<target, pending, toHost, sends, lost>>,
         \/ /\ Asks(caller, callee, caller', callee', "CI_HADP")
            /\ chan = "CI_HADP" /\ body = caller'["CI_HADP"].body
         \/ /\ Replies(caller, callee, caller', callee', "CI_CLIB")
            /\ chan = "CI_CLIB" /\ body = callee'["CI_CLIB"].body
  PROVE  Links'
<1>1. /\ HostAt(hc, ha, he) /\ TargetAt(tc, ta, te) /\ LinkAt(hc, ha, he, tc, ta, te)
      /\ LineAt(hc, ha, he, ta, te) /\ SendingAt(ha, tc, te) /\ lost \in 0 .. Losses
  BY DEF Linked
<1>2. PICK n \in Int : n = hc + 1
  OBVIOUS
<1>3. /\ host \in HostSet /\ host.current = On(hc) /\ host.expected = On(he)
      /\ host.ackExpected \in {On(ha - 1), On(ha)}
  BY <1>1 DEF HostAt
<1>4. nextSEQ(host.current) = On(n) /\ lastSEQ(host.expected) = On(he - 1)
  BY <1>2, <1>3, OnNext, OnLast
<1>5. On(n) \in SequenceNR /\ On(he - 1) \in SequenceNR
  <2>1. PICK m \in Int : m = he - 1
    OBVIOUS
  <2>2. On(m) \in SequenceNR /\ On(n) \in SequenceNR
    BY OnRange
  <2> QED BY <2>1, <2>2
<1>6. chan \in Channel
  BY TwoEnds
<1>7. PICK e : e = Stored(On(n), chan, body)
  OBVIOUS
<1>8. e \in Entry /\ e.seq = On(hc + 1) /\ e.chan = chan /\ e.body = body
  <2> HIDE DEF On
  <2> QED BY <1>2, <1>5, <1>6, <1>7 DEF Entry, Stored
<1>9. /\ Quiet /\ Len(toTarget) < Wire
      /\ host' = [host EXCEPT !.current = On(n), !.unacked = Append(@, e)]
      /\ toTarget' = Append(toTarget, Packet("CF_RELIABLE", On(n), On(he - 1), chan, body))
  BY <1>4, <1>7 DEF HostSends
<1>10. /\ host' \in HostSet /\ host'.current = On(n) /\ host'.expected = host.expected
       /\ host'.ackExpected = host.ackExpected
       /\ host'.unacked = Append(host.unacked, e)
  <2> HIDE DEF On
  <2>1. host.unacked \in Seq(Entry) /\ Append(host.unacked, e) \in Seq(Entry)
    BY <1>3, <1>8 DEF HostSet
  <2> QED BY <1>3, <1>5, <1>9, <2>1 DEF HostSet
<1>11. PICK cr, ce, cr1, ce1 :
          cr = caller /\ ce = callee /\ cr1 = caller' /\ ce1 = callee'
  OBVIOUS
<1>12. \/ /\ Asks(cr, ce, cr1, ce1, "CI_HADP")
          /\ e.chan = "CI_HADP" /\ e.body = cr1["CI_HADP"].body
       \/ /\ Replies(cr, ce, cr1, ce1, "CI_CLIB")
          /\ e.chan = "CI_CLIB" /\ e.body = ce1["CI_CLIB"].body
  BY <1>8, <1>11
<1>13. Joined(unacked, ta, tc, te, host.unacked, ha, hc, he, "CI_CLIB", "CI_HADP", cr, ce)
  BY <1>1, <1>11 DEF LinkAt
<1>14. Joined(unacked, ta, tc, te, Append(host.unacked, e), ha, n, he,
              "CI_CLIB", "CI_HADP", cr1, ce1)
  <2>1. Joined(host.unacked, ha, hc, he, unacked, ta, tc, te, "CI_HADP", "CI_CLIB", cr, ce)
    BY <1>13, JoinedBothWays
  <2>2. Joined(Append(host.unacked, e), ha, hc + 1, he, unacked, ta, tc, te,
               "CI_HADP", "CI_CLIB", cr1, ce1)
    BY <1>8, <1>12, <2>1, TwoEnds, JoinedSends
  <2>3. Joined(Append(host.unacked, e), ha, n, he, unacked, ta, tc, te,
               "CI_HADP", "CI_CLIB", cr1, ce1)
    BY <1>2, <2>2
  <2> QED BY <2>3, JoinedBothWays
<1>15. hc + 1 <= he
  BY <1>2, <1>14, JoinedBounds
<1> DEFINE p == Packet("CF_RELIABLE", On(n), On(he - 1), chan, body)
<1>16. /\ p \in PacketSet /\ p.seq = On(hc + 1) /\ p.ack = On(he - 1) /\ Copies(p, e)
  <2> HIDE DEF On
  <2> QED BY <1>2, <1>5, <1>6, <1>8 DEF PacketSet, Packet, Copies
<1> HIDE DEF p
<1>17. LineAt(n, ha, he, ta, te)'
  <2>1. Line(toTarget, host.unacked, ha, hc, he, unacked, ta, te)
    BY <1>1 DEF LineAt
  <2>2. \/ Asks(cr, ce, cr1, ce1, "CI_HADP") /\ e.chan = "CI_HADP"
        \/ Replies(cr, ce, cr1, ce1, "CI_CLIB") /\ e.chan = "CI_CLIB"
    BY <1>12
  <2>3. Line(Append(toTarget, p), Append(host.unacked, e), ha, hc + 1, he, unacked, ta, te)
    BY <1>8, <1>9, <1>13, <1>15, <1>16, <2>1, <2>2, TwoEnds, LineSend
  <2>4. toTarget' = Append(toTarget, p) /\ unacked' = unacked
    BY <1>9 DEF p, target
  <2> QED BY <1>2, <1>10, <2>3, <2>4 DEF LineAt
<1>18. HostAt(n, ha, he)'
  BY <1>3, <1>10 DEF HostAt
<1>19. TargetAt(tc, ta, te)'
  BY <1>1 DEF TargetAt, target, sends
<1>20. LinkAt(n, ha, he, tc, ta, te)'
  BY <1>10, <1>11, <1>14 DEF LinkAt, target
<1>21. HeldAt(n, ha, he, ta, te)'
  <2>1. pending' = <<>>
    BY <1>9 DEF Quiet
  <2> QED BY <2>1 DEF HeldAt, Held
<1>22. BackAt(ha, he, ta, tc, te)'
  <2>1. toHost' = <<>>
    BY <1>9 DEF Quiet, Ready
  <2> QED BY <2>1 DEF BackAt, Back
<1>23. lost' \in 0 .. Losses
  BY <1>1
<1>24. SendOK(sending, cr, ce, host.unacked, ha, tc, te)
  BY <1>1, <1>11 DEF SendingAt
<1>25. sending.pc # "none" => MayCount(cr1, ce1, sending.chan) /\ e.chan # sending.chan
  <2> SUFFICES ASSUME sending.pc # "none"
               PROVE  MayCount(cr1, ce1, sending.chan) /\ e.chan # sending.chan
    OBVIOUS
  <2>1. MayCount(cr, ce, sending.chan) /\ CallsOK(cr, ce)
    BY <1>13, <1>24 DEF SendOK, Joined
  <2>2. \/ Asks(cr, ce, cr1, ce1, "CI_HADP") /\ "CI_HADP" # "CI_CLIB"
        \/ Replies(cr, ce, cr1, ce1, "CI_CLIB") /\ "CI_CLIB" # "CI_HADP"
    BY <1>12
  <2>3. MayCount(cr1, ce1, sending.chan)
    BY <2>1, <2>2, TwoEnds, MayCountStays
  <2>4. callee["CI_CLIB"].serving => caller["CI_CLIB"].waiting
    BY <1>11, <2>1, TwoEnds DEF CallsOK
  <2>5. callee["CI_HADP"].serving => caller["CI_HADP"].waiting
    BY <1>11, <2>1, TwoEnds DEF CallsOK
  <2>6. e.chan # sending.chan
    BY <1>11, <1>12, <2>1, <2>4, <2>5 DEF MayCount, Asks, Replies, Idle, Serving
  <2> QED BY <2>3, <2>6
<1>26. sending.pc = "store" => Stamped(sending, Append(host.unacked, e), ha, tc, te)
  <2> SUFFICES ASSUME sending.pc = "store"
               PROVE  Stamped(sending, Append(host.unacked, e), ha, tc, te)
    OBVIOUS
  <2>1. PICK a \in Int : /\ sending.seq = On(tc + 1) /\ sending.ack = On(a)
                         /\ tc <= a /\ a <= te - 1
                         /\ Covers(a, host.unacked, ha, sending.chan)
    BY <1>24 DEF SendOK, Stamped
  <2>2. PICK H \in Seq(Entry) : H = host.unacked
    BY <1>3 DEF HostSet
  <2>3. /\ Len(Append(H, e)) = Len(H) + 1 /\ Append(H, e)[Len(H) + 1] = e
        /\ \A k \in 1 .. Len(H) : Append(H, e)[k] = H[k]
        /\ \A k \in 1 .. Len(H) + 1 : k \in 1 .. Len(H) \/ k = Len(H) + 1
    BY <1>8, <2>2
  <2>4. Covers(a, Append(H, e), ha, sending.chan)
    BY <1>25, <2>1, <2>2, <2>3 DEF Covers
  <2> HIDE DEF On
  <2> QED BY <2>1, <2>2, <2>4 DEF Stamped
<1>27. SendingAt(ha, tc, te)'
  BY <1>1, <1>10, <1>11, <1>25, <1>26 DEF SendingAt, SendOK, sends
<1>28. Linked(n, ha, he, tc, ta, te)'
  BY <1>17, <1>18, <1>19, <1>20, <1>21, <1>22, <1>23, <1>27 DEF Linked
<1> QED BY <1>28 DEF Links

(* The calls' ends in terms of the steps of a call.                         *)
LEMMA AskingAsks ==
  ASSUME NEW c \in Channel, Asking(c),
         CallsOK(caller, callee)
  PROVE  Asks(caller, callee, caller', callee', c) /\ caller'[c].body \in Body
<1>1. caller \in [Channel -> [waiting : BOOLEAN, body : Body, answer : Body]]
  BY DEF CallsOK
<1>2. PICK b \in Body \ {caller[c].body} :
        caller' = [caller EXCEPT ![c].waiting = TRUE, ![c].body = b]
  BY DEF Asking
<1>3. caller'[c].body = b
  BY <1>1, <1>2
<1> QED BY <1>2, <1>3 DEF Asking, Asks, Idle

LEMMA ReplyingReplies ==
  ASSUME NEW c \in Channel, Replying(c), CallsOK(caller, callee)
  PROVE  /\ Replies(caller, callee, caller', callee', c)
         /\ callee[c].body \in Body /\ callee'[c].body = callee[c].body
<1>1. callee \in [Channel -> [serving : BOOLEAN, body : Body]]
  BY DEF CallsOK
<1>2. callee' = [callee EXCEPT ![c].serving = FALSE]
  BY DEF Replying
<1>3. callee'[c].body = callee[c].body /\ callee[c].body \in Body
  BY <1>1, <1>2
<1> QED BY <1>2, <1>3 DEF Replying, Replies, Serving

(* A send is counted. *)
LEMMA Counting ==
  ASSUME NEW hc \in Int, NEW ha \in Int, NEW he \in Int,
         NEW tc \in Int, NEW ta \in Int, NEW te \in Int,
         Linked(hc, ha, he, tc, ta, te),
         NEW c \in Channel, MayCount(caller, callee, c),
         sending.pc = "none", Count(c),
         UNCHANGED <<pending, host, toTarget, toHost, calls, lost>>,
         {writer', refused'} \subseteq BOOLEAN
  PROVE  Linked(hc, ha, he, tc, ta, te)'
<1>1. /\ HostAt(hc, ha, he) /\ TargetAt(tc, ta, te) /\ LinkAt(hc, ha, he, tc, ta, te)
      /\ LineAt(hc, ha, he, ta, te) /\ HeldAt(hc, ha, he, ta, te)
      /\ BackAt(ha, he, ta, tc, te) /\ SendingAt(ha, tc, te) /\ lost \in 0 .. Losses
  BY DEF Linked
<1>2. /\ currentFrame' = nextSEQ(currentFrame)
      /\ sending' = [NotSending EXCEPT !.pc = "number", !.chan = c]
      /\ overlapped' = overlapped
      /\ UNCHANGED <<ackExpected, frameExpected, lastReceived, unacked>>
  BY DEF Count
<1>3. /\ sending'.pc = "number" /\ sending'.chan = c /\ sending' \in SendSet
  <2>1. sending' = [pc |-> "number", chan |-> c, seq |-> 0, ack |-> 0]
    BY <1>2 DEF NotSending
  <2>2. 0 \in SequenceNR
    BY SeqAssumption DEF SequenceNR
  <2> QED BY <2>1, <2>2 DEF SendSet
<1>4. currentFrame' = On(tc + 1)
  BY <1>1, <1>2, OnNext DEF TargetAt
<1>5. TargetAt(tc, ta, te)'
  BY <1>1, <1>2, <1>3, <1>4 DEF TargetAt
<1>6. SendingAt(ha, tc, te)'
  BY <1>1, <1>2, <1>3 DEF SendingAt, SendOK, calls
<1>7. HostAt(hc, ha, he)' /\ LinkAt(hc, ha, he, tc, ta, te)' /\ lost' \in 0 .. Losses
  BY <1>1, <1>2 DEF HostAt, LinkAt, calls
<1>8. LineAt(hc, ha, he, ta, te)' /\ HeldAt(hc, ha, he, ta, te)' /\ BackAt(ha, he, ta, tc, te)'
  BY <1>1, <1>2 DEF LineAt, HeldAt, BackAt
<1> QED BY <1>5, <1>6, <1>7, <1>8 DEF Linked

(* Only the stages of a send change. *)
LEMMA SendsOnly ==
  ASSUME NEW hc \in Int, NEW ha \in Int, NEW he \in Int,
         NEW tc \in Int, NEW ta \in Int, NEW te \in Int,
         Linked(hc, ha, he, tc, ta, te),
         UNCHANGED <<target, pending, host, toTarget, toHost, calls, lost>>,
         sending'.pc = "none" <=> sending.pc = "none", SendingAt(ha, tc, te)'
  PROVE  Linked(hc, ha, he, tc, ta, te)'
<1>1. /\ HostAt(hc, ha, he) /\ TargetAt(tc, ta, te) /\ LinkAt(hc, ha, he, tc, ta, te)
      /\ LineAt(hc, ha, he, ta, te) /\ HeldAt(hc, ha, he, ta, te)
      /\ BackAt(ha, he, ta, tc, te) /\ lost \in 0 .. Losses
  BY DEF Linked
<1>2. HostAt(hc, ha, he)' /\ LinkAt(hc, ha, he, tc, ta, te)' /\ lost' \in 0 .. Losses
  BY <1>1 DEF HostAt, LinkAt, target, calls
<1>3. TargetAt(tc, ta, te)'
  BY <1>1 DEF TargetAt, target
<1>4. LineAt(hc, ha, he, ta, te)' /\ HeldAt(hc, ha, he, ta, te)' /\ BackAt(ha, he, ta, tc, te)'
  BY <1>1 DEF LineAt, HeldAt, BackAt, target
<1> QED BY <1>2, <1>3, <1>4 DEF Linked

LEMMA StepTargetAsks == ASSUME Links, TargetAsks PROVE Links' /\ CallsStep
<1>1. PICK hc \in Int, ha \in Int, he \in Int, tc \in Int, ta \in Int, te \in Int :
        Linked(hc, ha, he, tc, ta, te)
  BY DEF Links
<1>2. /\ sending.pc = "none" /\ MayCount(caller, callee, "CI_CLIB") /\ Count("CI_CLIB")
      /\ UNCHANGED <<pending, host, toTarget, toHost, calls, writer, refused, lost>>
  BY DEF TargetAsks, MayCount, Idle
<1>3. {writer', refused'} \subseteq BOOLEAN
  BY <1>1, <1>2 DEF Linked, SendingAt
<1>4. Linked(hc, ha, he, tc, ta, te)'
  BY <1>1, <1>2, <1>3, TwoEnds, Counting
<1>5. CallsStep
  BY <1>2 DEF CallsStep
<1> QED BY <1>4, <1>5 DEF Links

(* The reply is counted between the steps of the application's send.        *)
Overlaps ==
  /\ overlapped' = TRUE /\ writer' = TRUE /\ currentFrame' = nextSEQ(currentFrame)
  /\ UNCHANGED <<ackExpected, frameExpected, lastReceived, unacked, sending, refused, lost>>

LEMMA StepTargetReplies ==
  ASSUME Links, TargetReplies
  PROVE  (Overlaps \/ Links') /\ CallsStep
<1>1. PICK hc \in Int, ha \in Int, he \in Int, tc \in Int, ta \in Int, te \in Int :
        Linked(hc, ha, he, tc, ta, te)
  BY DEF Links
<1>2. /\ MayCount(caller, callee, "CI_HADP") /\ writer' = TRUE
      /\ UNCHANGED <<pending, host, toTarget, toHost, calls, lost>>
  BY DEF TargetReplies, MayCount, Serving
<1>3. CallsStep
  BY <1>2 DEF CallsStep
<1>4. SendingAt(ha, tc, te)
  BY <1>1 DEF Linked
<1>5. CASE refused' = TRUE /\ UNCHANGED <<target, sending, overlapped>>
  <2>1. SendingAt(ha, tc, te)'
    BY <1>2, <1>4, <1>5 DEF SendingAt, calls
  <2>2. Linked(hc, ha, he, tc, ta, te)'
    BY <1>1, <1>2, <1>5, <2>1, SendsOnly
  <2> QED BY <1>3, <2>2 DEF Links
<1>6. CASE Count("CI_HADP") /\ UNCHANGED refused /\ sending.pc = "none"
  <2>1. {writer', refused'} \subseteq BOOLEAN
    BY <1>2, <1>4, <1>6 DEF SendingAt
  <2>2. Linked(hc, ha, he, tc, ta, te)'
    BY <1>1, <1>2, <1>6, <2>1, TwoEnds, Counting
  <2> QED BY <1>3, <2>2 DEF Links
<1>7. CASE Count("CI_HADP") /\ UNCHANGED refused /\ sending.pc # "none"
  <2>1. Overlaps
    BY <1>2, <1>7 DEF Count, Overlaps
  <2> QED BY <1>3, <2>1
<1> QED BY <1>5, <1>6, <1>7 DEF TargetReplies

LEMMA StepNumber == ASSUME Links, Number PROVE Links' /\ CallsStep
<1>1. PICK hc \in Int, ha \in Int, he \in Int, tc \in Int, ta \in Int, te \in Int :
        Linked(hc, ha, he, tc, ta, te)
  BY DEF Links
<1>2. /\ sending.pc = "number"
      /\ sending' = [sending EXCEPT !.pc = "store", !.seq = currentFrame,
                                    !.ack = lastSEQ(frameExpected)]
      /\ UNCHANGED <<target, pending, host, toTarget, toHost, calls,
                     writer, refused, overlapped, lost>>
  BY DEF Number
<1>3. /\ SendingAt(ha, tc, te) /\ TargetAt(tc, ta, te) /\ LinkAt(hc, ha, he, tc, ta, te)
  BY <1>1 DEF Linked
<1>4. PICK a \in Int : a = te - 1
  OBVIOUS
<1>5. currentFrame = On(tc + 1) /\ lastSEQ(frameExpected) = On(a)
  BY <1>2, <1>3, <1>4, OnLast DEF TargetAt
<1>6. On(tc + 1) \in SequenceNR /\ On(a) \in SequenceNR
  <2>1. PICK n \in Int : n = tc + 1
    OBVIOUS
  <2> QED BY <2>1, OnRange
<1>7. /\ sending' \in SendSet /\ sending'.pc = "store" /\ sending'.chan = sending.chan
      /\ sending'.seq = On(tc + 1) /\ sending'.ack = On(a)
  <2> HIDE DEF On
  <2> QED BY <1>2, <1>3, <1>5, <1>6 DEF SendingAt, SendSet
<1>8. tc <= a /\ a <= te - 1
  <2>1. tc + 1 <= te
    BY <1>1, <1>2, MidSend
  <2> QED BY <1>4, <2>1
<1>9. Covers(a, host.unacked, ha, sending.chan)
  <2>1. PICK cr, ce, H : cr = caller /\ ce = callee /\ H = host.unacked
    OBVIOUS
  <2>2. MayCount(cr, ce, sending.chan)
    BY <1>2, <1>3, <2>1 DEF SendingAt, SendOK
  <2>3. Way(H, ha, hc, te, "CI_HADP", "CI_CLIB", cr, ce)
    BY <1>3, <2>1 DEF LinkAt, Joined
  <2>4. Len(H) \in 0 .. 2
    BY <2>3, WayBounds
  <2>5. ASSUME NEW k \in 1 .. Len(H), H[k].chan = sending.chan
        PROVE  ha + k - 1 <= a
    <3>1. Belongs(H[k], ha + k - 1, te, "CI_HADP", "CI_CLIB", cr, ce)
      BY <2>3 DEF Way
    <3>2. ~(ha + k - 1 >= te)
      BY <2>2, <2>5, <3>1 DEF Belongs, MayCount, Idle, Asked, Serving, Replied
    <3>3. PICK m \in Int : m = k
      BY <2>4
    <3>4. ha + m - 1 <= a
      BY <1>4, <3>2, <3>3
    <3> QED BY <3>3, <3>4
  <2> QED BY <2>1, <2>5 DEF Covers
<1>10. SendingAt(ha, tc, te)'
  <2>1. Stamped(sending', host.unacked, ha, tc, te)
    <3> HIDE DEF On
    <3> QED BY <1>7, <1>8, <1>9 DEF Stamped
  <2>2. MayCount(caller, callee, sending'.chan)
    BY <1>2, <1>3, <1>7 DEF SendingAt, SendOK
  <2> QED BY <1>2, <1>3, <1>7, <2>1, <2>2 DEF SendingAt, SendOK, calls
<1>11. Linked(hc, ha, he, tc, ta, te)'
  BY <1>1, <1>2, <1>7, <1>10, SendsOnly
<1>12. CallsStep
  BY <1>2 DEF CallsStep
<1> QED BY <1>11, <1>12 DEF Links

LEMMA StepStore == ASSUME Links, Store PROVE Links' /\ CallsStep
<1>1. PICK hc \in Int, ha \in Int, he \in Int, tc \in Int, ta \in Int, te \in Int :
        Linked(hc, ha, he, tc, ta, te)
  BY DEF Links
<1>2. CallsOK(caller, callee) /\ sending.chan \in Channel
  BY <1>1 DEF Linked, LinkAt, Joined, SendingAt, SendSet
<1>3. PICK c : c = sending.chan
  OBVIOUS
<1>4. CASE c = "CI_CLIB"
  <2>1. PICK body : body = caller'[c].body
    OBVIOUS
  <2>2. Asking("CI_CLIB") /\ Stores(c, body)
    BY <1>3, <1>4, <2>1 DEF Store, Stores
  <2>3. /\ Asks(caller, callee, caller', callee', "CI_CLIB")
        /\ caller'["CI_CLIB"].body \in Body
    BY <1>2, <2>2, TwoEnds, AskingAsks
  <2>4. Links'
    BY <1>1, <1>3, <1>4, <2>1, <2>2, <2>3, TargetStores
  <2>5. CallsStep
    BY <2>3, TwoEnds DEF CallsStep
  <2> QED BY <2>4, <2>5
<1>5. CASE c = "CI_HADP"
  <2>1. PICK body : body = callee[c].body
    OBVIOUS
  <2>2. Replying("CI_HADP") /\ Stores(c, body)
    BY <1>3, <1>5, <2>1 DEF Store, Stores
  <2>3. /\ Replies(caller, callee, caller', callee', "CI_HADP")
        /\ callee["CI_HADP"].body \in Body
        /\ callee'["CI_HADP"].body = callee["CI_HADP"].body
    BY <1>2, <2>2, TwoEnds, ReplyingReplies
  <2>4. Links'
    BY <1>1, <1>3, <1>5, <2>1, <2>2, <2>3, TargetStores
  <2>5. CallsStep
    BY <2>3, TwoEnds DEF CallsStep
  <2> QED BY <2>4, <2>5
<1> QED BY <1>2, <1>3, <1>4, <1>5 DEF Channel

LEMMA StepWriteCallback == ASSUME Links, write_callback PROVE Links' /\ CallsStep
<1>1. PICK hc \in Int, ha \in Int, he \in Int, tc \in Int, ta \in Int, te \in Int :
        Linked(hc, ha, he, tc, ta, te)
  BY DEF Links
<1>2. /\ writer' = FALSE
      /\ UNCHANGED <<target, pending, host, toTarget, toHost, calls,
                     sending, refused, overlapped, lost>>
  BY DEF write_callback
<1>3. SendingAt(ha, tc, te)'
  BY <1>1, <1>2 DEF Linked, SendingAt, calls
<1>4. Linked(hc, ha, he, tc, ta, te)'
  BY <1>1, <1>2, <1>3, SendsOnly
<1>5. CallsStep
  BY <1>2 DEF CallsStep
<1> QED BY <1>4, <1>5 DEF Links

LEMMA StepHostAsks == ASSUME Links, HostAsks PROVE Links' /\ CallsStep
<1>1. PICK hc \in Int, ha \in Int, he \in Int, tc \in Int, ta \in Int, te \in Int :
        Linked(hc, ha, he, tc, ta, te)
  BY DEF Links
<1>2. CallsOK(caller, callee)
  BY <1>1 DEF Linked, LinkAt, Joined
<1>3. /\ Asking("CI_HADP") /\ HostSends("CI_HADP", caller'["CI_HADP"].body)
      /\ UNCHANGED <<target, pending, toHost, sends, lost>>
  BY DEF HostAsks
<1>4. /\ Asks(caller, callee, caller', callee', "CI_HADP")
      /\ caller'["CI_HADP"].body \in Body
  BY <1>2, <1>3, TwoEnds, AskingAsks
<1>5. CallsStep
  BY <1>4, TwoEnds DEF CallsStep
<1>6. PICK body \in Body : body = caller'["CI_HADP"].body
  BY <1>4
<1>7. Links'
  BY <1>1, <1>3, <1>4, <1>6, HostSendsOne
<1> QED BY <1>5, <1>7

LEMMA StepHostReplies == ASSUME Links, HostReplies PROVE Links' /\ CallsStep
<1>1. PICK hc \in Int, ha \in Int, he \in Int, tc \in Int, ta \in Int, te \in Int :
        Linked(hc, ha, he, tc, ta, te)
  BY DEF Links
<1>2. CallsOK(caller, callee)
  BY <1>1 DEF Linked, LinkAt, Joined
<1>3. /\ Replying("CI_CLIB") /\ HostSends("CI_CLIB", callee["CI_CLIB"].body)
      /\ UNCHANGED <<target, pending, toHost, sends, lost>>
  BY DEF HostReplies
<1>4. /\ Replies(caller, callee, caller', callee', "CI_CLIB")
      /\ callee["CI_CLIB"].body \in Body /\ callee'["CI_CLIB"].body = callee["CI_CLIB"].body
  BY <1>2, <1>3, TwoEnds, ReplyingReplies
<1>5. CallsStep
  BY <1>4, TwoEnds DEF CallsStep
<1>6. PICK body \in Body : body = callee["CI_CLIB"].body
  BY <1>4
<1>7. Links'
  BY <1>1, <1>3, <1>4, <1>6, HostSendsOne
<1> QED BY <1>5, <1>7

(* A heartbeat or a request to send again.                                  *)
LEMMA LinePrivate ==
  ASSUME NEW hc \in Int, NEW ha \in Int, NEW he \in Int,
         NEW tc \in Int, NEW ta \in Int, NEW te \in Int,
         Linked(hc, ha, he, tc, ta, te),
         NEW flags \in {"CF_RESEND", "CF_HEARTBEAT"}
  PROVE  Line(Append(toTarget, Private(flags, host.current, lastSEQ(host.expected))),
              host.unacked, ha, hc, he, unacked, ta, te)
<1>1. HostAt(hc, ha, he) /\ LinkAt(hc, ha, he, tc, ta, te) /\ LineAt(hc, ha, he, ta, te)
  BY DEF Linked
<1>2. PICK a \in Int : a = he - 1
  OBVIOUS
<1>3. host.current = On(hc) /\ lastSEQ(host.expected) = On(a)
  BY <1>1, <1>2, OnLast DEF HostAt
<1>4. On(hc) \in SequenceNR /\ On(a) \in SequenceNR
  BY OnRange
<1>5. PICK p : p = Private(flags, On(hc), On(a))
  OBVIOUS
<1>6. /\ p \in PacketSet /\ p.seq = On(hc) /\ p.ack = On(a) /\ p.flags # "CF_RELIABLE"
  <2> HIDE DEF On
  <2> QED BY <1>4, <1>5 DEF PacketSet, Packet, Private
<1>7. a >= hc - 1 /\ hc - Wire <= hc /\ hc <= hc /\ hc - 1 - Wire <= a /\ a <= he - 1
  <2>1. hc <= he
    <3>1. Bounds(hc, ha, he, tc, ta, te)
      BY <1>1, LinkBounds
    <3> QED BY <3>1 DEF Bounds
  <2> QED BY <1>2, <2>1, BoundAssumption
<1>8. InFlight(p, hc, a, host.unacked, ha, hc, he, unacked, ta, te)
  BY <1>6, <1>7 DEF InFlight
<1>9. Line(toTarget, host.unacked, ha, hc, he, unacked, ta, te)
  BY <1>1 DEF LineAt
<1>10. Line(Append(toTarget, p), host.unacked, ha, hc, he, unacked, ta, te)
  BY <1>6, <1>7, <1>8, <1>9, LinePush
<1> QED BY <1>3, <1>5, <1>10

LEMMA StepHostBeats == ASSUME Links, HostBeats PROVE Links' /\ CallsStep
<1>1. PICK hc \in Int, ha \in Int, he \in Int, tc \in Int, ta \in Int, te \in Int :
        Linked(hc, ha, he, tc, ta, te)
  BY DEF Links
<1>2. /\ toTarget' = Append(toTarget, Private("CF_HEARTBEAT", host.current,
                                              lastSEQ(host.expected)))
      /\ UNCHANGED <<target, pending, host, toHost, calls, sends, lost>>
  BY DEF HostBeats
<1>3. Line(toTarget', host.unacked, ha, hc, he, unacked, ta, te)
  BY <1>1, <1>2, LinePrivate
<1>4. LineAt(hc, ha, he, ta, te)'
  BY <1>2, <1>3 DEF LineAt, target
<1>5. /\ HostAt(hc, ha, he)' /\ TargetAt(tc, ta, te)' /\ LinkAt(hc, ha, he, tc, ta, te)'
  BY <1>1, <1>2 DEF Linked, HostAt, TargetAt, LinkAt, target, calls, sends
<1>6. /\ HeldAt(hc, ha, he, ta, te)' /\ BackAt(ha, he, ta, tc, te)'
      /\ SendingAt(ha, tc, te)' /\ lost' \in 0 .. Losses
  BY <1>1, <1>2 DEF Linked, HeldAt, BackAt, SendingAt, target, calls, sends
<1>7. Linked(hc, ha, he, tc, ta, te)'
  BY <1>4, <1>5, <1>6 DEF Linked
<1>8. CallsStep
  BY <1>2 DEF CallsStep
<1> QED BY <1>7, <1>8 DEF Links

LEMMA StepGotPacket == ASSUME Links, angel_DD_GotPacket PROVE Links' /\ CallsStep
<1>1. PICK hc \in Int, ha \in Int, he \in Int, tc \in Int, ta \in Int, te \in Int :
        Linked(hc, ha, he, tc, ta, te)
  BY DEF Links
<1>2. /\ toTarget # <<>> /\ pending' = <<Head(toTarget)>> \o pending
      /\ toTarget' = Tail(toTarget)
      /\ UNCHANGED <<target, host, toHost, calls, sends, lost>>
  BY DEF angel_DD_GotPacket
<1>3. /\ Line(toTarget, host.unacked, ha, hc, he, unacked, ta, te)
      /\ Held(pending, host.unacked, ha, hc, he, unacked, ta, te)
  BY <1>1 DEF Linked, LineAt, HeldAt
<1>4. /\ Head(toTarget) \in PacketSet
      /\ \E s, a \in Int :
           InFlight(Head(toTarget), s, a, host.unacked, ha, hc, he, unacked, ta, te)
      /\ Line(Tail(toTarget), host.unacked, ha, hc, he, unacked, ta, te)
  BY <1>2, <1>3, LineTail
<1>5. Held(pending', host.unacked, ha, hc, he, unacked, ta, te)
  <2>1. PICK p \in PacketSet : p = Head(toTarget)
    BY <1>4
  <2>2. PICK s \in Int, a \in Int :
          InFlight(p, s, a, host.unacked, ha, hc, he, unacked, ta, te)
    BY <1>4, <2>1
  <2>3. Held(<<p>> \o pending, host.unacked, ha, hc, he, unacked, ta, te)
    BY <1>3, <2>2, HeldPush
  <2> QED BY <1>2, <2>1, <2>3
<1>6. LineAt(hc, ha, he, ta, te)' /\ HeldAt(hc, ha, he, ta, te)'
  BY <1>2, <1>4, <1>5 DEF LineAt, HeldAt, target
<1>7. /\ HostAt(hc, ha, he)' /\ TargetAt(tc, ta, te)' /\ LinkAt(hc, ha, he, tc, ta, te)'
  BY <1>1, <1>2 DEF Linked, HostAt, TargetAt, LinkAt, target, calls, sends
<1>8. BackAt(ha, he, ta, tc, te)' /\ SendingAt(ha, tc, te)' /\ lost' \in 0 .. Losses
  BY <1>1, <1>2 DEF Linked, BackAt, SendingAt, target, calls, sends
<1>9. Linked(hc, ha, he, tc, ta, te)'
  BY <1>6, <1>7, <1>8 DEF Linked
<1>10. CallsStep
  BY <1>2 DEF CallsStep
<1> QED BY <1>9, <1>10 DEF Links

LEMMA StepLose == ASSUME Links, Lose PROVE Links' /\ CallsStep
<1>1. PICK hc \in Int, ha \in Int, he \in Int, tc \in Int, ta \in Int, te \in Int :
        Linked(hc, ha, he, tc, ta, te)
  BY DEF Links
<1>2. /\ lost < Losses /\ lost' = lost + 1
      /\ UNCHANGED <<target, pending, host, calls, sends>>
  BY DEF Lose
<1>3. LineAt(hc, ha, he, ta, te)' /\ BackAt(ha, he, ta, tc, te)'
  <2>1. /\ Line(toTarget, host.unacked, ha, hc, he, unacked, ta, te)
        /\ Back(toHost, host.unacked, ha, he, unacked, ta, tc, te)
    BY <1>1 DEF Linked, LineAt, BackAt
  <2>2. CASE toTarget # <<>> /\ toTarget' = Tail(toTarget) /\ UNCHANGED toHost
    <3>1. Line(Tail(toTarget), host.unacked, ha, hc, he, unacked, ta, te)
      BY <2>1, <2>2, LineTail
    <3> QED BY <1>2, <2>1, <2>2, <3>1 DEF LineAt, BackAt, target
  <2>3. CASE toHost # <<>> /\ toHost' = Tail(toHost) /\ UNCHANGED toTarget
    <3>1. Back(Tail(toHost), host.unacked, ha, he, unacked, ta, tc, te)
      BY <2>1, <2>3, BackTail
    <3> QED BY <1>2, <2>1, <2>3, <3>1 DEF LineAt, BackAt, target
  <2> QED BY <2>2, <2>3 DEF Lose
<1>4. /\ HostAt(hc, ha, he)' /\ TargetAt(tc, ta, te)' /\ LinkAt(hc, ha, he, tc, ta, te)'
  BY <1>1, <1>2 DEF Linked, HostAt, TargetAt, LinkAt, target, calls, sends
<1>5. HeldAt(hc, ha, he, ta, te)' /\ SendingAt(ha, tc, te)'
  BY <1>1, <1>2 DEF Linked, HeldAt, SendingAt, target, calls, sends
<1>6. lost' \in 0 .. Losses
  BY <1>1, <1>2, BoundAssumption DEF Linked
<1>7. Linked(hc, ha, he, tc, ta, te)'
  BY <1>3, <1>4, <1>5, <1>6 DEF Linked
<1>8. CallsStep
  BY <1>2 DEF CallsStep
<1> QED BY <1>7, <1>8 DEF Links

(* A packet that is accepted, as its effect on the calls.                   *)
Takes(cr, ce, cr1, ce1, x, c, b) ==
  \/ /\ c = x /\ ce1 = ce
     /\ cr1 = IF cr[c].waiting
              THEN [cr EXCEPT ![c].waiting = FALSE, ![c].answer = b] ELSE cr
  \/ /\ c # x /\ cr1 = cr
     /\ ce1 = [ce EXCEPT ![c] = [serving |-> TRUE, body |-> b]]

(* An end has accepted the packet it expected, with acknowledgement a.      *)
Accepted(L, lo, hi, f, M, lm, hm, g, x, y, cr, ce, v, a, cr1, ce1, lo1) ==
  /\ lo <= lo1 /\ lo1 <= g /\ lo1 <= hi + 1
  /\ Kept(L, Acked(v, On(a), On(hi))) = SubSeq(L, lo1 - lo + 1, Len(L))
  /\ AckedTo(v, On(a), On(hi)) \in {On(lo1 - 1), On(lo1)}
  /\ Joined(SubSeq(L, lo1 - lo + 1, Len(L)), lo1, hi, f + 1, M, lm, hm, g,
            x, y, cr1, ce1)
  /\ Answered(cr, ce, cr1, ce1, x) \/ Served(cr, ce, cr1, ce1, y)

LEMMA Accepting ==
  ASSUME NEW L, NEW lo, NEW hi, NEW f, NEW M, NEW lm, NEW hm, NEW g,
         NEW x, NEW y, NEW cr, NEW ce, Ends(x, y),
         Joined(L, lo, hi, f, M, lm, hm, g, x, y, cr, ce), f <= hm,
         NEW v \in {On(lo - 1), On(lo)},
         NEW a \in Int, hi - MAX_SEQ <= a, a <= g - 1,
         Covers(a, L, lo, M[f - lm + 1].chan), NEW cr1, NEW ce1,
         Takes(cr, ce, cr1, ce1, x, M[f - lm + 1].chan, M[f - lm + 1].body)
  PROVE  \E lo1 \in Int :
           Accepted(L, lo, hi, f, M, lm, hm, g, x, y, cr, ce, v, a, cr1, ce1, lo1)
<1>1. /\ lo \in Int /\ hi \in Int /\ f \in Int /\ L \in Seq(Entry)
      /\ Len(L) \in 0 .. 2 /\ Len(L) = hi - lo + 1
      /\ lm \in Int /\ hm \in Int /\ g \in Int
      /\ Len(M) \in 0 .. 2 /\ Len(M) = hm - lm + 1
      /\ lo <= g /\ g <= hi + 1 /\ lm <= f
  BY JoinedBounds
<1>2. Listed(L, lo, hi) /\ Len(L) + 1 <= MAX_SEQ /\ a <= hi
  <2>1. Listed(L, lo, hi)
    BY DEF Joined, Way
  <2> QED BY <1>1, <2>1, TurnFacts
<1>3. PICK w \in {lo - 1, lo} : v = On(w)
  OBVIOUS
<1>4. PICK lo1 \in Int : AckLeaves(L, lo, hi, w, a, lo1)
  BY <1>2, Acknowledged
<1>5. /\ lo1 \in lo .. hi + 1 /\ a < lo1 /\ (lo1 = lo \/ lo1 = a + 1)
      /\ Kept(L, Acked(v, On(a), On(hi))) = SubSeq(L, lo1 - lo + 1, Len(L))
      /\ AckedTo(v, On(a), On(hi)) \in {On(lo1 - 1), On(lo1)}
  BY <1>3, <1>4 DEF AckLeaves
<1>6. lo <= lo1 /\ lo1 <= g /\ lo1 <= hi + 1
  BY <1>1, <1>5
<1>7. PICK j \in 1 .. Len(M) : j = f - lm + 1 /\ lm + j - 1 >= f
  BY <1>1
<1>8. PICK c, b : c = M[j].chan /\ b = M[j].body
  OBVIOUS
<1>9. \/ c = y /\ Asked(cr, ce, y) /\ b = cr[y].body
      \/ c = x /\ Replied(cr, ce, x) /\ b = ce[x].body
  BY <1>7, <1>8, JoinedPurpose
<1>10. Takes(cr, ce, cr1, ce1, x, c, b)
  BY <1>7, <1>8
<1>11. \/ c = x /\ Answered(cr, ce, cr1, ce1, x)
       \/ c = y /\ Served(cr, ce, cr1, ce1, y)
  <2>1. CASE c = y /\ Asked(cr, ce, y) /\ b = cr[y].body
    BY <1>10, <2>1 DEF Takes, Ends, Served
  <2>2. CASE c = x /\ Replied(cr, ce, x) /\ b = ce[x].body
    <3>1. cr[x].waiting /\ b = cr[x].body
      BY <2>2 DEF Replied
    <3> QED BY <1>10, <2>2, <3>1 DEF Takes, Ends, Answered
  <2> QED BY <1>9, <2>1, <2>2
<1>12. ASSUME NEW k \in 1 .. Len(L), L[k].chan = c
       PROVE  lo + k - 1 < lo1
  <2>1. lo + k - 1 <= a
    BY <1>7, <1>8, <1>12 DEF Covers
  <2>2. PICK i \in Int : i = k
    BY <1>1
  <2>3. lo + i - 1 <= a
    BY <2>1, <2>2
  <2>4. lo + i - 1 < lo1
    BY <1>1, <1>5, <2>3
  <2> QED BY <2>2, <2>4
<1>13. Joined(SubSeq(L, lo1 - lo + 1, Len(L)), lo1, hi, f + 1, M, lm, hm, g,
              x, y, cr1, ce1)
  <2>1. c = M[f - lm + 1].chan
    BY <1>7, <1>8
  <2> QED BY <1>6, <1>11, <1>12, <2>1, JoinedAccepts
<1>14. Accepted(L, lo, hi, f, M, lm, hm, g, x, y, cr, ce, v, a, cr1, ce1, lo1)
  BY <1>5, <1>6, <1>11, <1>13 DEF Accepted
<1> QED BY <1>14

(* The host takes a packet.                                                 *)
HostTakes(p) ==
  /\ host' = [host EXCEPT
       !.expected = nextSEQ(@),
       !.unacked = Kept(@, Acked(host.ackExpected, p.ack, host.current)),
       !.ackExpected = AckedTo(@, p.ack, host.current)]
  /\ IF p.chan = "CI_HADP" THEN Answer(p.chan, p.body) ELSE Serve(p.chan, p.body)
  /\ UNCHANGED <<target, pending, toTarget, sends, lost>>

LEMMA HostAccepts ==
  ASSUME NEW hc \in Int, NEW ha \in Int, NEW he \in Int,
         NEW tc \in Int, NEW ta \in Int, NEW te \in Int,
         Linked(hc, ha, he, tc, ta, te),
         NEW p \in PacketSet, NEW s \in Int, NEW a \in Int,
         FromTarget(p, s, a, host.unacked, ha, he, unacked, ta, tc, te),
         p.flags = "CF_RELIABLE", p.seq = host.expected, HostTakes(p),
         Back(toHost', host.unacked, ha, he, unacked, ta, tc, te)
  PROVE  Links' /\ CallsStep
<1>1. /\ HostAt(hc, ha, he) /\ TargetAt(tc, ta, te) /\ LinkAt(hc, ha, he, tc, ta, te)
      /\ LineAt(hc, ha, he, ta, te) /\ HeldAt(hc, ha, he, ta, te)
      /\ SendingAt(ha, tc, te) /\ lost \in 0 .. Losses
  BY DEF Linked
<1>2. /\ Len(unacked) \in 0 .. 2 /\ Len(unacked) = tc - ta + 1 /\ unacked \in Seq(Entry)
      /\ Len(host.unacked) \in 0 .. 2 /\ Len(host.unacked) = hc - ha + 1
      /\ host.unacked \in Seq(Entry) /\ ha <= te /\ te <= hc + 1 /\ hc <= te + 1
      /\ ta <= he /\ he <= tc + 1 /\ tc <= he + 1 /\ hc <= he
  <2>1. Bounds(hc, ha, he, tc, ta, te)
    BY <1>1, LinkBounds
  <2> QED BY <2>1 DEF Bounds
<1>3. /\ host \in HostSet /\ host.current = On(hc) /\ host.expected = On(he)
      /\ host.ackExpected \in {On(ha - 1), On(ha)}
  BY <1>1 DEF HostAt
<1>4. /\ s = he /\ he <= tc /\ p.ack = On(a) /\ tc - 1 <= a /\ a <= te - 1
      /\ Copies(p, unacked[he - ta + 1]) /\ Covers(a, host.unacked, ha, p.chan)
  <2>1. /\ p.seq = On(s) /\ p.ack = On(a) /\ tc - 1 <= s /\ s <= tc
        /\ tc - 1 <= a /\ a <= te - 1
        /\ s >= ta /\ Copies(p, unacked[s - ta + 1])
        /\ s >= he => Covers(a, host.unacked, ha, p.chan)
    BY DEF FromTarget
  <2>2. s - he \in -MAX_SEQ .. MAX_SEQ
    <3>1. he <= tc + 1 /\ tc <= he + 1 /\ tc - 1 <= s /\ s <= tc
      BY <1>2, <2>1
    <3> QED BY <3>1, TurnFacts
  <2>3. On(s) = On(he)
    BY <1>3, <2>1
  <2>4. s = he
    BY <2>2, <2>3, OnEqual
  <2> QED BY <2>1, <2>4
<1>5. PICK cr, ce, cr1, ce1, H, T, v :
        /\ cr = caller /\ ce = callee /\ cr1 = caller' /\ ce1 = callee'
        /\ H = host.unacked /\ T = unacked /\ v = host.ackExpected
  OBVIOUS
<1>6. Joined(T, ta, tc, te, H, ha, hc, he, "CI_CLIB", "CI_HADP", cr, ce)
  BY <1>1, <1>5 DEF LinkAt
<1>7. Joined(H, ha, hc, he, T, ta, tc, te, "CI_HADP", "CI_CLIB", cr, ce)
  BY <1>6, JoinedBothWays
<1>8. UNCHANGED <<target, pending, toTarget, sends, lost>>
  BY DEF HostTakes
<1>10. /\ hc - MAX_SEQ <= a /\ a <= te - 1 /\ he <= tc
       /\ Covers(a, H, ha, T[he - ta + 1].chan)
  <2>1. hc - MAX_SEQ <= a
    BY <1>2, <1>4, TurnFacts
  <2>2. p.chan = T[he - ta + 1].chan
    BY <1>4, <1>5 DEF Copies
  <2> QED BY <1>4, <1>5, <2>1, <2>2
<1>12. Takes(cr, ce, cr1, ce1, "CI_HADP", T[he - ta + 1].chan, T[he - ta + 1].body)
  <2>1. p.chan = T[he - ta + 1].chan /\ p.body = T[he - ta + 1].body
    BY <1>4, <1>5 DEF Copies
  <2>2. Takes(cr, ce, cr1, ce1, "CI_HADP", p.chan, p.body)
    BY <1>5 DEF Takes, Answer, Serve, HostTakes
  <2> QED BY <2>1, <2>2
<1>13. PICK ha1 \in Int :
         Accepted(H, ha, hc, he, T, ta, tc, te, "CI_HADP", "CI_CLIB", cr, ce,
                  v, a, cr1, ce1, ha1)
  <2>1. v \in {On(ha - 1), On(ha)}
    BY <1>3, <1>5
  <2>2. PICK x, y : x = "CI_HADP" /\ y = "CI_CLIB"
    OBVIOUS
  <2>3. /\ Ends(x, y) /\ Joined(H, ha, hc, he, T, ta, tc, te, x, y, cr, ce)
        /\ Takes(cr, ce, cr1, ce1, x, T[he - ta + 1].chan, T[he - ta + 1].body)
    BY <1>7, <1>12, <2>2, TwoEnds
  <2>4. \E ha1 \in Int :
          Accepted(H, ha, hc, he, T, ta, tc, te, x, y, cr, ce, v, a, cr1, ce1, ha1)
    BY <1>10, <2>1, <2>3, Accepting
  <2> QED BY <2>2, <2>4
<1>14. /\ ha <= ha1 /\ ha1 <= te /\ ha1 <= hc + 1
       /\ Kept(H, Acked(v, On(a), On(hc))) = SubSeq(H, ha1 - ha + 1, Len(H))
       /\ AckedTo(v, On(a), On(hc)) \in {On(ha1 - 1), On(ha1)}
       /\ Joined(SubSeq(H, ha1 - ha + 1, Len(H)), ha1, hc, he + 1, T, ta, tc, te,
                 "CI_HADP", "CI_CLIB", cr1, ce1)
       /\ Answered(cr, ce, cr1, ce1, "CI_HADP") \/ Served(cr, ce, cr1, ce1, "CI_CLIB")
  BY <1>13 DEF Accepted
<1>9. PICK n \in Int : n = he + 1
  OBVIOUS
<1>11. PICK R : R = SubSeq(H, ha1 - ha + 1, Len(H))
  OBVIOUS
<1>15. n = he + 1 /\ R = SubSeq(H, ha1 - ha + 1, Len(H))
  BY <1>9, <1>11
<1>16. /\ Joined(R, ha1, hc, n, T, ta, tc, te, "CI_HADP", "CI_CLIB", cr1, ce1)
       /\ R \in Seq(Entry)
  BY <1>14, <1>15, JoinedBounds
<1>17. /\ host' \in HostSet /\ host'.current = On(hc) /\ host'.expected = On(n)
       /\ host'.ackExpected \in {On(ha1 - 1), On(ha1)} /\ host'.unacked = R
  <2>1. nextSEQ(On(he)) = On(n)
    BY <1>15, OnNext
  <2>2. PICK w : w = AckedTo(v, On(a), On(hc)) /\ w \in {On(ha1 - 1), On(ha1)}
    BY <1>14
  <2>3. w \in SequenceNR /\ On(n) \in SequenceNR
    <3>1. PICK m \in Int : m = ha1 - 1
      OBVIOUS
    <3>2. On(m) \in SequenceNR /\ On(ha1) \in SequenceNR /\ On(n) \in SequenceNR
      BY OnRange
    <3> QED BY <2>2, <3>1, <3>2
  <2>4. host' = [host EXCEPT !.expected = On(n), !.unacked = R, !.ackExpected = w]
    BY <1>3, <1>4, <1>5, <1>14, <1>15, <2>1, <2>2 DEF HostTakes
  <2> HIDE DEF On
  <2> QED BY <1>3, <1>16, <2>2, <2>3, <2>4 DEF HostSet
<1>18. HostAt(hc, ha1, n)'
  BY <1>17 DEF HostAt
<1>19. TargetAt(tc, ta, te)'
  BY <1>1, <1>8 DEF TargetAt, target, sends
<1>20. LinkAt(hc, ha1, n, tc, ta, te)'
  <2>1. Joined(T, ta, tc, te, R, ha1, hc, n, "CI_CLIB", "CI_HADP", cr1, ce1)
    BY <1>16, JoinedBothWays
  <2> QED BY <1>5, <1>8, <1>17, <2>1 DEF LinkAt, target
<1>21. StaysInFlight(H, ha, hc, he, T, ta, te, R, ha1, n, T, ta, te)
  <2>1. /\ H \in Seq(Entry) /\ Len(H) = hc - ha + 1
    BY <1>2, <1>5
  <2>2. ASSUME NEW q \in PacketSet, NEW t \in Int, NEW b \in Int,
               InFlight(q, t, b, H, ha, hc, he, T, ta, te)
        PROVE  InFlight(q, t, b, R, ha1, hc, n, T, ta, te)
    BY <1>14, <1>15, <2>1, <2>2, FlightHostAccepts
  <2> QED BY <2>2 DEF StaysInFlight
<1>22. LineAt(hc, ha1, n, ta, te)'
  <2>1. Line(toTarget, R, ha1, hc, n, T, ta, te)
    BY <1>1, <1>5, <1>21, LineStays DEF LineAt
  <2> QED BY <1>5, <1>8, <1>17, <2>1 DEF LineAt, target
<1>23. HeldAt(hc, ha1, n, ta, te)'
  <2>1. Held(pending, R, ha1, hc, n, T, ta, te)
    BY <1>1, <1>5, <1>21, HeldStays DEF HeldAt
  <2> QED BY <1>5, <1>8, <1>17, <2>1 DEF HeldAt, target
<1>24. lost' \in 0 .. Losses
  BY <1>1, <1>8
<1>25. BackAt(ha1, n, ta, tc, te)'
  <2>1. PICK q : q = toHost'
    OBVIOUS
  <2>2. Back(q, H, ha, he, T, ta, tc, te)
    BY <1>5, <2>1
  <2>3. H \in Seq(Entry) /\ Len(H) = hc - ha + 1
    BY <1>2, <1>5
  <2>4. ha1 <= ha + Len(H)
    <3>1. PICK l \in Int : l = Len(H) /\ l = hc - ha + 1
      BY <2>3
    <3> QED BY <1>14, <3>1
  <2>5. Back(q, SubSeq(H, ha1 - ha + 1, Len(H)), ha1, he + 1, T, ta, tc, te)
    BY <1>14, <2>2, <2>3, <2>4, BackHostAccepts
  <2> QED BY <1>5, <1>8, <1>15, <1>17, <2>1, <2>5 DEF BackAt, target
<1>26. SendingAt(ha1, tc, te)'
  <2>1. SendOK(sending, cr, ce, H, ha, tc, te)
    BY <1>1, <1>5 DEF SendingAt
  <2>2. sending.pc # "none" => MayCount(cr1, ce1, sending.chan)
    <3>1. CallsOK(cr, ce)
      BY <1>6 DEF Joined
    <3> QED BY <1>14, <2>1, <3>1, TwoEnds, MayCountStays DEF SendOK
  <2>3. sending.pc = "store" => Stamped(sending, R, ha1, tc, te)
    <3> SUFFICES ASSUME sending.pc = "store" PROVE Stamped(sending, R, ha1, tc, te)
      OBVIOUS
    <3>1. PICK b \in Int : /\ sending.seq = On(tc + 1) /\ sending.ack = On(b)
                           /\ tc <= b /\ b <= te - 1 /\ Covers(b, H, ha, sending.chan)
      BY <2>1 DEF SendOK, Stamped
    <3>2. H \in Seq(Entry) /\ ha1 <= ha + Len(H)
      BY <1>2, <1>5, <1>14
    <3>3. Covers(b, R, ha1, sending.chan)
      BY <1>14, <1>15, <3>1, <3>2, CoversCut
    <3> HIDE DEF On
    <3> QED BY <3>1, <3>3 DEF Stamped
  <2> QED BY <1>1, <1>5, <1>8, <1>17, <2>2, <2>3 DEF SendingAt, SendOK, sends
<1>27. Linked(hc, ha1, n, tc, ta, te)'
  BY <1>18, <1>19, <1>20, <1>22, <1>23, <1>24, <1>25, <1>26 DEF Linked
<1>28. CallsStep
  BY <1>5, <1>14, TwoEnds DEF CallsStep
<1> QED BY <1>27, <1>28 DEF Links

LEMMA StepHostReceives == ASSUME Links, HostReceives PROVE Links' /\ CallsStep
<1>1. PICK hc \in Int, ha \in Int, he \in Int, tc \in Int, ta \in Int, te \in Int :
        Linked(hc, ha, he, tc, ta, te)
  BY DEF Links
<1>2. PICK p : p = Head(toHost)
  OBVIOUS
<1>3. /\ toHost # <<>> /\ toHost' = Tail(toHost) /\ UNCHANGED <<target, pending, sends, lost>>
  BY DEF HostReceives
<1>4. Back(toHost, host.unacked, ha, he, unacked, ta, tc, te)
  BY <1>1 DEF Linked, BackAt
<1>5. /\ p \in PacketSet /\ Back(toHost', host.unacked, ha, he, unacked, ta, tc, te)
      /\ \E s, a \in Int : FromTarget(p, s, a, host.unacked, ha, he, unacked, ta, tc, te)
  BY <1>2, <1>3, <1>4, BackTail
<1>6. PICK s \in Int, a \in Int :
        FromTarget(p, s, a, host.unacked, ha, he, unacked, ta, tc, te)
  BY <1>5
<1>8. /\ HostAt(hc, ha, he) /\ TargetAt(tc, ta, te) /\ LinkAt(hc, ha, he, tc, ta, te)
      /\ LineAt(hc, ha, he, ta, te) /\ HeldAt(hc, ha, he, ta, te)
      /\ SendingAt(ha, tc, te) /\ lost \in 0 .. Losses
  BY <1>1 DEF Linked
<1>9. ASSUME UNCHANGED <<host, calls>>, LineAt(hc, ha, he, ta, te)'
      PROVE  Links' /\ CallsStep
  <2>1. /\ HostAt(hc, ha, he)' /\ TargetAt(tc, ta, te)' /\ LinkAt(hc, ha, he, tc, ta, te)'
    BY <1>3, <1>8, <1>9 DEF HostAt, TargetAt, LinkAt, target, calls, sends
  <2>2. /\ HeldAt(hc, ha, he, ta, te)' /\ BackAt(ha, he, ta, tc, te)'
        /\ SendingAt(ha, tc, te)' /\ lost' \in 0 .. Losses
    BY <1>3, <1>5, <1>8, <1>9 DEF HeldAt, BackAt, SendingAt, target, calls, sends
  <2>3. Linked(hc, ha, he, tc, ta, te)'
    BY <1>9, <2>1, <2>2 DEF Linked
  <2>4. CallsStep
    BY <1>9 DEF CallsStep
  <2> QED BY <2>3, <2>4 DEF Links
<1>10. CASE /\ p.flags = "CF_RESEND"
            /\ toTarget' = toTarget \o Resent(host.unacked, nextSEQ(p.ack),
                                              host.current, host.expected)
            /\ UNCHANGED <<host, calls>>
  <2>1. nextSEQ(p.ack) = On(te)
    <3>1. a = te - 1 /\ p.ack = On(a)
      BY <1>6, <1>10 DEF FromTarget
    <3>2. a + 1 = te
      BY <3>1
    <3> QED BY <3>1, <3>2, OnNext
  <2>2. host.current = On(hc) /\ host.expected = On(he)
    BY <1>8 DEF HostAt
  <2>3. /\ Line(toTarget, host.unacked, ha, hc, he, unacked, ta, te)
        /\ Joined(unacked, ta, tc, te, host.unacked, ha, hc, he, "CI_CLIB", "CI_HADP",
                  caller, callee)
    BY <1>8 DEF LineAt, LinkAt
  <2>4. Line(toTarget \o Resent(host.unacked, On(te), On(hc), On(he)),
             host.unacked, ha, hc, he, unacked, ta, te)
    BY <2>3, TwoEnds, LineAgain
  <2>5. LineAt(hc, ha, he, ta, te)'
    BY <1>3, <1>10, <2>1, <2>2, <2>4 DEF LineAt, target
  <2> QED BY <1>9, <1>10, <2>5
<1>11. CASE /\ p.flags = "CF_RELIABLE" /\ p.seq = host.expected
            /\ host' = [host EXCEPT
                 !.expected = nextSEQ(@),
                 !.unacked = Kept(@, Acked(host.ackExpected, p.ack, host.current)),
                 !.ackExpected = AckedTo(@, p.ack, host.current)]
            /\ IF p.chan = "CI_HADP" THEN Answer(p.chan, p.body)
                                     ELSE Serve(p.chan, p.body)
            /\ UNCHANGED toTarget
  <2>1. HostTakes(p)
    BY <1>3, <1>11 DEF HostTakes
  <2> QED BY <1>1, <1>5, <1>6, <1>11, <2>1, HostAccepts
<1>12. CASE UNCHANGED <<host, toTarget, calls>>
  <2>1. LineAt(hc, ha, he, ta, te)'
    BY <1>3, <1>8, <1>12 DEF LineAt, target
  <2> QED BY <1>9, <1>12, <2>1
<1>13. CASE HostAsksAgain
  <2>1. Line(toTarget', host.unacked, ha, hc, he, unacked, ta, te)
    BY <1>1, <1>13, LinePrivate DEF HostAsksAgain
  <2>2. LineAt(hc, ha, he, ta, te)'
    BY <1>3, <1>13, <2>1 DEF LineAt, target, HostAsksAgain
  <2> QED BY <1>9, <1>13, <2>2 DEF HostAsksAgain
<1> QED BY <1>2, <1>10, <1>11, <1>12, <1>13 DEF HostReceives

(* The target takes a packet: the one it expects is accepted.               *)
TargetTakes(p) ==
  /\ lastReceived' = p.seq /\ frameExpected' = nextSEQ(frameExpected)
  /\ unacked' = Kept(unacked, Acked(ackExpected, p.ack, currentFrame))
  /\ ackExpected' = AckedTo(ackExpected, p.ack, currentFrame)
  /\ IF p.chan = "CI_CLIB" THEN Answer(p.chan, p.body) ELSE Serve(p.chan, p.body)
  /\ toHost = <<>> /\ UNCHANGED <<currentFrame, toHost, host, toTarget, sends, lost>>

LEMMA TargetAccepts ==
  ASSUME NEW hc \in Int, NEW ha \in Int, NEW he \in Int,
         NEW tc \in Int, NEW ta \in Int, NEW te \in Int,
         Linked(hc, ha, he, tc, ta, te),
         NEW p \in PacketSet, NEW s \in Int, NEW a \in Int,
         InFlight(p, s, a, host.unacked, ha, hc, he, unacked, ta, te),
         p.flags = "CF_RELIABLE", p.seq = frameExpected, TargetTakes(p),
         Held(pending', host.unacked, ha, hc, he, unacked, ta, te)
  PROVE  Links' /\ CallsStep
<1>1. /\ HostAt(hc, ha, he) /\ TargetAt(tc, ta, te) /\ LinkAt(hc, ha, he, tc, ta, te)
      /\ LineAt(hc, ha, he, ta, te) /\ SendingAt(ha, tc, te) /\ lost \in 0 .. Losses
  BY DEF Linked
<1>2. /\ Len(unacked) \in 0 .. 2 /\ Len(unacked) = tc - ta + 1 /\ unacked \in Seq(Entry)
      /\ Len(host.unacked) \in 0 .. 2 /\ Len(host.unacked) = hc - ha + 1
      /\ host.unacked \in Seq(Entry) /\ ha <= te /\ te <= hc + 1 /\ hc <= te + 1
      /\ ta <= he /\ he <= tc + 1 /\ tc <= he + 1 /\ tc <= te
  <2>1. Bounds(hc, ha, he, tc, ta, te)
    BY <1>1, LinkBounds
  <2> QED BY <2>1 DEF Bounds
<1>3. /\ currentFrame = IF sending.pc = "none" THEN On(tc) ELSE On(tc + 1)
      /\ frameExpected = On(te)
      /\ ackExpected \in {On(ta - 1), On(ta)}
  BY <1>1 DEF TargetAt
<1>4. /\ p.seq = On(s) /\ p.ack = On(a)
      /\ hc - Wire <= s /\ s <= hc /\ hc - 1 - Wire <= a /\ a <= he - 1
  BY DEF InFlight
<1>5. s = te
  <2>1. s - te \in -MAX_SEQ .. MAX_SEQ
    <3>1. te <= hc + 1 /\ hc <= te + 1 /\ hc - Wire <= s /\ s <= hc
      BY <1>2, <1>4
    <3> QED BY <3>1, BoundAssumption, TurnFacts
  <2>2. On(s) = On(te)
    BY <1>3, <1>4
  <2> QED BY <2>1, <2>2, OnEqual
<1>6. /\ te <= hc /\ Copies(p, host.unacked[te - ha + 1])
      /\ \A k \in 1 .. Len(unacked) : unacked[k].chan = p.chan => ta + k - 1 <= a
  <2>1. s >= te
    BY <1>5
  <2> QED BY <1>4, <1>5, <2>1 DEF InFlight
<1>7. PICK cr, ce, cr1, ce1, H, T, v :
        /\ cr = caller /\ ce = callee /\ cr1 = caller' /\ ce1 = callee'
        /\ H = host.unacked /\ T = unacked /\ v = ackExpected
  OBVIOUS
<1>8. Joined(T, ta, tc, te, H, ha, hc, he, "CI_CLIB", "CI_HADP", cr, ce)
  BY <1>1, <1>7 DEF LinkAt
<1>9. p.chan = H[te - ha + 1].chan /\ p.body = H[te - ha + 1].body
  BY <1>6, <1>7 DEF Copies
<1>10. Takes(cr, ce, cr1, ce1, "CI_CLIB", H[te - ha + 1].chan, H[te - ha + 1].body)
  <2>1. Takes(cr, ce, cr1, ce1, "CI_CLIB", p.chan, p.body)
    BY <1>7 DEF Takes, Answer, Serve, TargetTakes
  <2> QED BY <1>9, <2>1
<1>11. tc - MAX_SEQ <= a /\ a <= he - 1
  <2>1. tc <= te /\ te <= hc + 1 /\ hc - 1 - Wire <= a /\ a <= he - 1
    BY <1>2, <1>4
  <2> QED BY <2>1, BoundAssumption, TurnFacts
<1>12. v \in {On(ta - 1), On(ta)}
  BY <1>3, <1>7
<1>13. Covers(a, T, ta, H[te - ha + 1].chan)
  BY <1>6, <1>7, <1>9 DEF Covers
<1>14. PICK ta1 \in Int :
         Accepted(T, ta, tc, te, H, ha, hc, he, "CI_CLIB", "CI_HADP", cr, ce,
                  v, a, cr1, ce1, ta1)
  <2>1. PICK x, y : x = "CI_CLIB" /\ y = "CI_HADP"
    OBVIOUS
  <2>2. /\ Ends(x, y) /\ Joined(T, ta, tc, te, H, ha, hc, he, x, y, cr, ce)
        /\ Takes(cr, ce, cr1, ce1, x, H[te - ha + 1].chan, H[te - ha + 1].body)
    BY <1>8, <1>10, <2>1, TwoEnds
  <2>3. \E ta1 \in Int :
          Accepted(T, ta, tc, te, H, ha, hc, he, x, y, cr, ce, v, a, cr1, ce1, ta1)
    <3>1. te <= hc
      BY <1>6
    <3> QED BY <1>11, <1>12, <1>13, <2>2, <3>1, Accepting
  <2> QED BY <2>1, <2>3
<1>15. /\ ta <= ta1 /\ ta1 <= he /\ ta1 <= tc + 1
       /\ Kept(T, Acked(v, On(a), On(tc))) = SubSeq(T, ta1 - ta + 1, Len(T))
       /\ AckedTo(v, On(a), On(tc)) \in {On(ta1 - 1), On(ta1)}
       /\ Joined(SubSeq(T, ta1 - ta + 1, Len(T)), ta1, tc, te + 1, H, ha, hc, he,
                 "CI_CLIB", "CI_HADP", cr1, ce1)
       /\ Answered(cr, ce, cr1, ce1, "CI_CLIB") \/ Served(cr, ce, cr1, ce1, "CI_HADP")
  BY <1>14 DEF Accepted
<1>30. /\ Acked(ackExpected, On(a), currentFrame) = Acked(ackExpected, On(a), On(tc))
       /\ AckedTo(ackExpected, On(a), currentFrame) = AckedTo(ackExpected, On(a), On(tc))
  <2>1. a <= tc
    BY <1>2, <1>4
  <2>2. sending.pc # "none" => tc + 2 - Turn <= a
    <3> SUFFICES ASSUME sending.pc # "none" PROVE tc + 2 - Turn <= a
      OBVIOUS
    <3>1. tc + 1 <= te
      BY MidSend
    <3>2. te <= hc + 1 /\ hc - 1 - Wire <= a
      BY <1>2, <1>4
    <3> QED BY <3>1, <3>2, BoundAssumption, TurnFacts
  <2> QED BY <2>1, <2>2, AckedMid
<1>16. PICK n \in Int : n = te + 1
  OBVIOUS
<1>17. PICK R : R = SubSeq(T, ta1 - ta + 1, Len(T))
  OBVIOUS
<1>18. Joined(R, ta1, tc, n, H, ha, hc, he, "CI_CLIB", "CI_HADP", cr1, ce1)
  BY <1>15, <1>16, <1>17
<1>19. /\ lastReceived' = On(te) /\ frameExpected' = On(n) /\ unacked' = R
       /\ ackExpected' \in {On(ta1 - 1), On(ta1)}
       /\ toHost' = <<>> /\ UNCHANGED <<currentFrame, host, toTarget, sends, lost>>
  <2>1. nextSEQ(On(te)) = On(n)
    BY <1>16, OnNext
  <2>2. /\ unacked' = Kept(T, Acked(v, On(a), On(tc)))
        /\ ackExpected' = AckedTo(v, On(a), On(tc))
    BY <1>4, <1>7, <1>30 DEF TargetTakes
  <2> QED BY <1>3, <1>4, <1>5, <1>15, <1>17, <2>1, <2>2 DEF TargetTakes
<1>20. HostAt(hc, ha, he)'
  BY <1>1, <1>19 DEF HostAt
<1>21. TargetAt(tc, ta1, n)'
  <2>1. On(te) \in SequenceNR
    BY OnRange
  <2>2. On(te) # On(n)
    <3>1. te - n \in -MAX_SEQ .. MAX_SEQ /\ te # n
      BY <1>16, TurnFacts
    <3> QED BY <3>1, OnEqual
  <2> QED BY <1>3, <1>19, <2>1, <2>2 DEF TargetAt, sends
<1>22. LinkAt(hc, ha, he, tc, ta1, n)'
  BY <1>7, <1>18, <1>19 DEF LinkAt
<1>23. StaysInFlight(H, ha, hc, he, T, ta, te, H, ha, he, R, ta1, n)
  <2>1. T \in Seq(Entry) /\ ta1 <= ta + Len(T)
    <3>1. T \in Seq(Entry) /\ Len(T) \in 0 .. 2 /\ Len(T) = tc - ta + 1
      BY <1>2, <1>7
    <3> QED BY <1>15, <3>1
  <2>2. ASSUME NEW q \in PacketSet, NEW t \in Int, NEW b \in Int,
               InFlight(q, t, b, H, ha, hc, he, T, ta, te)
        PROVE  InFlight(q, t, b, H, ha, hc, he, R, ta1, n)
    BY <1>15, <1>16, <1>17, <2>1, <2>2, FlightTargetAccepts
  <2> QED BY <2>2 DEF StaysInFlight
<1>24. LineAt(hc, ha, he, ta1, n)'
  <2>1. Line(toTarget, H, ha, hc, he, R, ta1, n)
    BY <1>1, <1>7, <1>23, LineStays DEF LineAt
  <2> QED BY <1>7, <1>19, <2>1 DEF LineAt
<1>25. HeldAt(hc, ha, he, ta1, n)'
  <2>1. PICK q : q = pending'
    OBVIOUS
  <2>2. Held(q, H, ha, hc, he, T, ta, te)
    BY <1>7, <2>1
  <2>3. Held(q, H, ha, hc, he, R, ta1, n)
    BY <1>23, <2>2, HeldStays
  <2> QED BY <1>7, <1>19, <2>1, <2>3 DEF HeldAt
<1>26. BackAt(ha, he, ta1, tc, n)'
  BY <1>19 DEF BackAt, Back
<1>27. lost' \in 0 .. Losses
  BY <1>1, <1>19
<1>28. SendingAt(ha, tc, n)'
  <2>1. SendOK(sending, cr, ce, H, ha, tc, te)
    BY <1>1, <1>7 DEF SendingAt
  <2>2. sending.pc # "none" => MayCount(cr1, ce1, sending.chan)
    <3>1. CallsOK(cr, ce)
      BY <1>8 DEF Joined
    <3> QED BY <1>15, <2>1, <3>1, TwoEnds, MayCountStays DEF SendOK
  <2>3. sending.pc = "store" => Stamped(sending, H, ha, tc, n)
    <3> SUFFICES ASSUME sending.pc = "store" PROVE Stamped(sending, H, ha, tc, n)
      OBVIOUS
    <3>1. PICK b \in Int : /\ sending.seq = On(tc + 1) /\ sending.ack = On(b)
                           /\ tc <= b /\ b <= te - 1 /\ Covers(b, H, ha, sending.chan)
      BY <2>1 DEF SendOK, Stamped
    <3>2. b <= n - 1
      BY <1>16, <3>1
    <3> HIDE DEF On
    <3> QED BY <3>1, <3>2 DEF Stamped
  <2> QED BY <1>1, <1>7, <1>19, <2>2, <2>3 DEF SendingAt, SendOK, sends
<1>29. Linked(hc, ha, he, tc, ta1, n)'
  BY <1>20, <1>21, <1>22, <1>24, <1>25, <1>26, <1>27, <1>28 DEF Linked
<1>31. CallsStep
  BY <1>7, <1>15, TwoEnds DEF CallsStep
<1> QED BY <1>29, <1>31 DEF Links

(* The target asks for what is missing, or tells how far it is.             *)
LEMMA BackPrivate ==
  ASSUME NEW hc \in Int, NEW ha \in Int, NEW he \in Int,
         NEW tc \in Int, NEW ta \in Int, NEW te \in Int,
         Linked(hc, ha, he, tc, ta, te), toHost = <<>>,
         NEW flags \in {"CF_RESEND", "CF_HEARTBEAT"}
  PROVE  Back(Append(toHost, Private(flags, currentFrame, lastSEQ(frameExpected))),
              host.unacked, ha, he, unacked, ta, tc, te)
<1>1. TargetAt(tc, ta, te) /\ LinkAt(hc, ha, he, tc, ta, te)
  BY DEF Linked
<1>2. PICK b \in Int : b = te - 1
  OBVIOUS
<1>3. lastSEQ(frameExpected) = On(b)
  BY <1>1, <1>2, OnLast DEF TargetAt
<1>4. currentFrame \in SequenceNR /\ On(b) \in SequenceNR
  <2>1. PICK n \in Int : n = tc + 1
    OBVIOUS
  <2>2. On(tc) \in SequenceNR /\ On(n) \in SequenceNR /\ On(b) \in SequenceNR
    BY OnRange
  <2> QED BY <1>1, <2>1, <2>2 DEF TargetAt
<1>5. PICK p : p = Private(flags, currentFrame, On(b))
  OBVIOUS
<1>6. /\ p \in PacketSet /\ p.ack = On(b) /\ p.flags # "CF_RELIABLE"
  <2> HIDE DEF On
  <2> QED BY <1>4, <1>5 DEF PacketSet, Packet, Private
<1>7. tc - 1 <= b /\ b <= te - 1
  <2>1. Bounds(hc, ha, he, tc, ta, te)
    BY <1>1, LinkBounds
  <2> QED BY <1>2, <2>1 DEF Bounds
<1>8. FromTarget(p, tc, b, host.unacked, ha, he, unacked, ta, tc, te)
  BY <1>2, <1>6, <1>7 DEF FromTarget
<1>9. Back(Append(toHost, p), host.unacked, ha, he, unacked, ta, tc, te)
  BY <1>6, <1>8, BackOne
<1> QED BY <1>3, <1>5, <1>9

LEMMA StepReadCallback == ASSUME Links, read_callback PROVE Links' /\ CallsStep
<1>1. PICK hc \in Int, ha \in Int, he \in Int, tc \in Int, ta \in Int, te \in Int :
        Linked(hc, ha, he, tc, ta, te)
  BY DEF Links
<1>2. PICK p : p = Head(pending)
  OBVIOUS
<1>3. /\ toHost = <<>> /\ pending # <<>> /\ pending' = Tail(pending)
      /\ UNCHANGED <<host, toTarget, sends, lost>>
      /\ ReadResend(p) \/ ReadHeartbeat(p) \/ ReadReliable(p)
  BY <1>2 DEF read_callback, Ready
<1>4. /\ HostAt(hc, ha, he) /\ TargetAt(tc, ta, te) /\ LinkAt(hc, ha, he, tc, ta, te)
      /\ LineAt(hc, ha, he, ta, te) /\ HeldAt(hc, ha, he, ta, te)
      /\ BackAt(ha, he, ta, tc, te) /\ SendingAt(ha, tc, te) /\ lost \in 0 .. Losses
  BY <1>1 DEF Linked
<1>5. /\ p \in PacketSet
      /\ \E s, a \in Int : InFlight(p, s, a, host.unacked, ha, hc, he, unacked, ta, te)
      /\ Held(Tail(pending), host.unacked, ha, hc, he, unacked, ta, te)
  <2>1. Held(pending, host.unacked, ha, hc, he, unacked, ta, te)
    BY <1>4 DEF HeldAt
  <2> QED BY <1>2, <1>3, <2>1, HeldHead
<1>6. PICK s \in Int, a \in Int :
        InFlight(p, s, a, host.unacked, ha, hc, he, unacked, ta, te)
  BY <1>5
<1>7. ASSUME UNCHANGED <<currentFrame, ackExpected, frameExpected, unacked, calls>>,
             lastReceived' \in SequenceNR, lastReceived' # frameExpected,
             Back(toHost', host.unacked, ha, he, unacked, ta, tc, te)
      PROVE  Links' /\ CallsStep
  <2>1. HostAt(hc, ha, he)' /\ TargetAt(tc, ta, te)' /\ LinkAt(hc, ha, he, tc, ta, te)'
    BY <1>3, <1>4, <1>7 DEF HostAt, TargetAt, LinkAt, calls, sends
  <2>2. /\ LineAt(hc, ha, he, ta, te)' /\ BackAt(ha, he, ta, tc, te)'
        /\ HeldAt(hc, ha, he, ta, te)' /\ SendingAt(ha, tc, te)' /\ lost' \in 0 .. Losses
    BY <1>3, <1>4, <1>5, <1>7 DEF LineAt, BackAt, HeldAt, SendingAt, calls, sends
  <2>3. Linked(hc, ha, he, tc, ta, te)'
    BY <2>1, <2>2 DEF Linked
  <2>4. CallsStep
    BY <1>7 DEF CallsStep
  <2> QED BY <2>3, <2>4 DEF Links
<1>8. lastReceived \in SequenceNR /\ lastReceived # frameExpected
  BY <1>4 DEF TargetAt
<1>9. p.seq \in SequenceNR
  BY <1>5 DEF PacketSet
<1>10. CASE ReadResend(p)
  <2>1. /\ toHost' = toHost \o Resent(unacked, nextSEQ(p.ack), currentFrame, frameExpected)
        /\ UNCHANGED <<target, calls>>
    BY <1>10 DEF ReadResend
  <2>2. frameExpected = On(te)
    BY <1>4 DEF TargetAt
  <2>3. p.ack = On(a) /\ hc - 1 - Wire <= a /\ a <= he - 1
    BY <1>6 DEF InFlight
  <2>4. PICK b \in Int : b = a + 1 /\ nextSEQ(p.ack) = On(b)
    BY <2>3, OnNext
  <2>5. he <= tc + 1 /\ tc <= te /\ te <= hc + 1
    <3>1. Bounds(hc, ha, he, tc, ta, te)
      BY <1>4, LinkBounds
    <3> QED BY <3>1 DEF Bounds
  <2>6. tc - MAX_SEQ <= a /\ a <= tc
    BY <2>3, <2>5, BoundAssumption, TurnFacts
  <2>7. sending.pc # "none" => tc + 2 - MAX_SEQ <= b
    <3> SUFFICES ASSUME sending.pc # "none" PROVE tc + 2 - MAX_SEQ <= b
      OBVIOUS
    <3>1. tc + 1 <= te
      BY <1>1, MidSend
    <3> QED BY <2>3, <2>4, <2>5, <3>1, BoundAssumption, TurnFacts
  <2>8. Resent(unacked, On(b), currentFrame, frameExpected)
          = Resent(unacked, On(b), On(tc), frameExpected)
    <3>1. PICK v : v = frameExpected
      OBVIOUS
    <3>2. b <= tc + 1
      BY <2>4, <2>6
    <3>3. ASSUME NEW x \in Int, x <= tc + 1, sending.pc # "none" => tc + 2 - MAX_SEQ <= x
          PROVE  Resent(unacked, On(x), currentFrame, v) = Resent(unacked, On(x), On(tc), v)
      BY <1>1, <3>3, ResentMid, SMTT(30)
    <3>4. Resent(unacked, On(b), currentFrame, v) = Resent(unacked, On(b), On(tc), v)
      BY <2>7, <3>2, <3>3
    <3> QED BY <3>1, <3>4
  <2>9. Back(toHost', host.unacked, ha, he, unacked, ta, tc, te)
    <3>1. PICK cr, ce : cr = caller /\ ce = callee
      OBVIOUS
    <3>2. Joined(host.unacked, ha, hc, he, unacked, ta, tc, te, "CI_HADP", "CI_CLIB", cr, ce)
      BY <1>4, <3>1, JoinedBothWays DEF LinkAt
    <3>3. Back(toHost \o Resent(unacked, On(a + 1), On(tc), On(te)),
               host.unacked, ha, he, unacked, ta, tc, te)
      BY <1>3, <2>6, <3>2, TwoEnds, BackAgain
    <3> QED BY <2>1, <2>2, <2>4, <2>8, <3>3
  <2>10. /\ UNCHANGED <<currentFrame, ackExpected, frameExpected, unacked, calls>>
         /\ lastReceived' = lastReceived
    BY <2>1 DEF target
  <2> QED BY <1>7, <1>8, <2>9, <2>10
<1>11. CASE ReadHeartbeat(p)
  <2>1. UNCHANGED <<target, calls>>
    BY <1>11 DEF ReadHeartbeat
  <2>2. \E flags \in {"CF_RESEND", "CF_HEARTBEAT"} :
          toHost' = Append(toHost, Private(flags, currentFrame, lastSEQ(frameExpected)))
    BY <1>11 DEF ReadHeartbeat, send_heartbeat_ack_msg, send_resend_msg
  <2>3. Back(toHost', host.unacked, ha, he, unacked, ta, tc, te)
    <3>1. PICK flags \in {"CF_RESEND", "CF_HEARTBEAT"} :
            toHost' = Append(toHost, Private(flags, currentFrame, lastSEQ(frameExpected)))
      BY <2>2
    <3>2. Back(Append(toHost, Private(flags, currentFrame, lastSEQ(frameExpected))),
               host.unacked, ha, he, unacked, ta, tc, te)
      BY <1>1, <1>3, BackPrivate
    <3> QED BY <3>1, <3>2
  <2>4. /\ UNCHANGED <<currentFrame, ackExpected, frameExpected, unacked, calls>>
        /\ lastReceived' = lastReceived
    BY <2>1 DEF target
  <2> QED BY <1>7, <1>8, <2>3, <2>4
<1>12. CASE ReadReliable(p)
  <2>1. p.flags = "CF_RELIABLE" /\ lastReceived' = p.seq /\ UNCHANGED currentFrame
    BY <1>12 DEF ReadReliable
  <2>2. CASE p.seq = frameExpected
    <3>1. TargetTakes(p)
      BY <1>3, <1>12, <2>2 DEF ReadReliable, TargetTakes
    <3>2. Held(pending', host.unacked, ha, hc, he, unacked, ta, te)
      BY <1>3, <1>5
    <3> QED BY <1>1, <1>5, <1>6, <2>1, <2>2, <3>1, <3>2, TargetAccepts
  <2>3. CASE p.seq # frameExpected
    <3>1. UNCHANGED <<currentFrame, ackExpected, frameExpected, unacked, calls>>
      BY <1>12, <2>3 DEF ReadReliable
    <3>2. Back(toHost', host.unacked, ha, he, unacked, ta, tc, te)
      <4>1. CASE UNCHANGED toHost
        BY <1>4, <4>1 DEF BackAt
      <4>2. CASE toHost' = Append(toHost, Private("CF_RESEND", currentFrame,
                                                  lastSEQ(frameExpected)))
        BY <1>1, <1>3, <4>2, BackPrivate
      <4> QED BY <1>12, <2>3, <4>1, <4>2 DEF ReadReliable, send_resend_msg
    <3> QED BY <1>7, <1>9, <2>1, <2>3, <3>1, <3>2
  <2> QED BY <2>2, <2>3
<1> QED BY <1>3, <1>10, <1>11, <1>12

LEMMA InitLinks == ASSUME Init PROVE Links
<1>1. On(0) = 0 /\ On(1) = 1
  <2>1. PICK q \in Int : q = 0
    OBVIOUS
  <2>2. (Turn * q + 0) % Turn = 0 /\ (Turn * q + 1) % Turn = 1
    <3>1. 0 \in 0 .. Turn - 1 /\ 1 \in 0 .. Turn - 1
      BY TurnFacts
    <3> QED BY <3>1, TurnFacts, ModUnique
  <2>3. Turn * q + 0 = 0 /\ Turn * q + 1 = 1
    BY <2>1, TurnFacts
  <2> QED BY <2>2, <2>3 DEF On
<1>2. PICK z \in Int, u \in Int : z = 0 /\ u = 1 /\ u - 1 = z
  OBVIOUS
<1>3. On(z) = 0 /\ On(u) = 1 /\ On(u - 1) = 0
  BY <1>1, <1>2
<1>4. 0 \in SequenceNR /\ 1 \in SequenceNR
  BY SeqAssumption DEF SequenceNR
<1>5. /\ currentFrame = 0 /\ ackExpected = 0 /\ frameExpected = 1 /\ lastReceived = 0
      /\ unacked = <<>> /\ pending = <<>> /\ toTarget = <<>> /\ toHost = <<>> /\ lost = 0
      /\ host = [current |-> 0, ackExpected |-> 0, expected |-> 1, unacked |-> <<>>]
      /\ sending = NotSending /\ writer = FALSE /\ refused = FALSE /\ overlapped = FALSE
  BY DEF Init
<1>6. PICK b \in Body :
        /\ caller = [c \in Channel |-> [waiting |-> FALSE, body |-> b, answer |-> b]]
        /\ callee = [c \in Channel |-> [serving |-> FALSE, body |-> b]]
  BY BodyAssumption DEF Init
<1>7. CallsOK(caller, callee) /\ \A c \in Channel : Idle(caller, callee, c) /\ ~Serving(caller, callee, c)
  BY <1>6 DEF CallsOK, Idle, Serving
<1>8. /\ host.unacked = <<>> /\ host.current = 0 /\ host.expected = 1 /\ host.ackExpected = 0
      /\ host \in HostSet
  BY <1>4, <1>5 DEF HostSet
<1>9. \A x, y : Ends(x, y) =>
        /\ Outstanding(caller, callee, x, y) = 0 /\ Credit(caller, callee, x, y) = 1
  BY <1>7 DEF Ends, Outstanding, Credit, Idle, Asked, Serving, Replied
<1>10. Listed(<<>>, u, z)
  <2>1. <<>> \in Seq(Entry) /\ Len(<<>>) = 0 /\ z - u + 1 = 0
    BY <1>2
  <2> QED BY <1>2, <2>1 DEF Listed
<1>11. \A x, y : Ends(x, y) => Way(<<>>, u, z, u, x, y, caller, callee)
  <2>1. u \in Int /\ u <= u /\ z - u + 1 = 0 /\ Len(<<>>) = 0
    BY <1>2
  <2> QED BY <1>9, <1>10, <2>1 DEF Way
<1>12. LinkAt(z, u, u, z, u, u)
  <2>1. z + 1 = u
    BY <1>2
  <2> QED BY <1>5, <1>7, <1>8, <1>9, <1>11, <2>1, TwoEnds DEF LinkAt, Joined
<1>13. HostAt(z, u, u) /\ TargetAt(z, u, u)
  BY <1>3, <1>4, <1>5, <1>8 DEF HostAt, TargetAt, NotSending
<1>14. LineAt(z, u, u, u, u) /\ HeldAt(z, u, u, u, u) /\ BackAt(u, u, u, z, u)
  BY <1>5 DEF LineAt, HeldAt, BackAt, Line, Held, Back
<1>15. SendingAt(u, z, u) /\ lost \in 0 .. Losses
  <2>1. sending = NotSending /\ sending.pc = "none"
    BY <1>5 DEF NotSending
  <2>2. sending \in SendSet
    BY <2>1, <1>4 DEF NotSending, SendSet, Channel
  <2>3. {writer, refused, overlapped} \subseteq BOOLEAN /\ ~overlapped
    BY <1>5
  <2>4. lost \in 0 .. Losses
    BY <1>5, BoundAssumption
  <2> QED BY <2>1, <2>2, <2>3, <2>4 DEF SendingAt, SendOK
<1>16. Linked(z, u, u, z, u, u)
  BY <1>12, <1>13, <1>14, <1>15 DEF Linked
<1> QED BY <1>16 DEF Links

LEMMA LinksStutter == ASSUME Links, UNCHANGED vars PROVE Links' /\ CallsStep
<1>1. PICK hc \in Int, ha \in Int, he \in Int, tc \in Int, ta \in Int, te \in Int :
        Linked(hc, ha, he, tc, ta, te)
  BY DEF Links
<1>2. SendingAt(ha, tc, te)'
  BY <1>1 DEF Linked, SendingAt, vars, calls, sends
<1>3. Linked(hc, ha, he, tc, ta, te)'
  BY <1>1, <1>2, SendsOnly DEF vars, sends
<1>4. CallsStep
  BY DEF CallsStep, vars
<1> QED BY <1>3, <1>4 DEF Links

LEMMA NextLinks ==
  ASSUME Links, [Next]_vars
  PROVE  (Overlaps \/ Links') /\ CallsStep
<1>1. CASE TargetAsks
  BY <1>1, StepTargetAsks
<1>2. CASE TargetReplies
  BY <1>2, StepTargetReplies
<1>3. CASE Number \/ Store \/ write_callback
  BY <1>3, StepNumber, StepStore, StepWriteCallback
<1>4. CASE angel_DD_GotPacket \/ read_callback
  BY <1>4, StepGotPacket, StepReadCallback
<1>5. CASE HostAsks \/ HostReplies \/ HostBeats
  BY <1>5, StepHostAsks, StepHostReplies, StepHostBeats
<1>6. CASE HostReceives \/ Lose
  BY <1>6, StepHostReceives, StepLose
<1>7. CASE Overlapped \/ UNCHANGED vars
  BY <1>7, LinksStutter DEF Overlapped
<1> QED BY <1>1, <1>2, <1>3, <1>4, <1>5, <1>6, <1>7 DEF Next

(* Once sends overlap nothing happens any more.                             *)
LEMMA OverlappedStops == ASSUME overlapped, [Next]_vars PROVE UNCHANGED vars
BY DEF Next, TargetAsks, TargetReplies, Number, Store, write_callback,
       angel_DD_GotPacket, read_callback, HostAsks, HostReplies, HostSends, HostBeats,
       HostReceives, Lose, Overlapped, Ready, Quiet

LEMMA LinksTypes == ASSUME Links PROVE TypeOK
<1>1. PICK hc \in Int, ha \in Int, he \in Int, tc \in Int, ta \in Int, te \in Int :
        Linked(hc, ha, he, tc, ta, te)
  BY DEF Links
<1>2. PICK b \in Int, n \in Int : b = ta - 1 /\ n = tc + 1
  OBVIOUS
<1>3. /\ On(tc) \in SequenceNR /\ On(ta) \in SequenceNR /\ On(te) \in SequenceNR
      /\ On(b) \in SequenceNR /\ On(n) \in SequenceNR
  BY OnRange
<1>4. TargetAt(tc, ta, te) /\ SendingAt(ha, tc, te) /\ lost \in 0 .. Losses
  BY <1>1 DEF Linked
<1> HIDE DEF On
<1>5. /\ currentFrame \in SequenceNR /\ ackExpected \in SequenceNR
      /\ frameExpected \in SequenceNR /\ lastReceived \in SequenceNR
  BY <1>2, <1>3, <1>4 DEF TargetAt
<1>6. unacked \in Seq(Entry)
  <2>1. Bounds(hc, ha, he, tc, ta, te)
    BY <1>1, LinkBounds DEF Linked
  <2> QED BY <2>1 DEF Bounds
<1> QED BY <1>4, <1>5, <1>6 DEF TypeOK, Entry, SendingAt, SendSet

(* Until sends overlap, the counters of the two ends stand for integers     *)
(* that fit each other, however packets are lost, sent again and handled in *)
(* the wrong order.                                                         *)
THEOREM IInvInvariant == Spec => []IInv
<1>1. Init => IInv
  BY InitLinks DEF IInv
<1>2. IInv /\ [Next]_vars => IInv'
  <2> SUFFICES ASSUME IInv, [Next]_vars PROVE IInv'
    OBVIOUS
  <2>1. CASE overlapped
    BY <2>1, OverlappedStops DEF IInv, vars, sends
  <2>2. CASE Links
    BY <2>2, NextLinks DEF IInv, Overlaps
  <2> QED BY <2>1, <2>2 DEF IInv
<1> QED BY <1>1, <1>2, PTL DEF Spec

-----------------------------------------------------------------------------
(* The runs' properties. *)

(* The numbers are on the circle, the list holds packets of the calls'      *)
(* channels, and no more is lost than the bound says: also on the step on   *)
(* which sends overlap, which only counts.                                  *)
THEOREM TypesHold == Spec => []TypeOK
<1>1. Init => TypeOK
  BY InitLinks, LinksTypes
<1>2. Links => TypeOK
  BY LinksTypes
<1>3. IInv /\ TypeOK /\ [Next]_vars => TypeOK' \/ Links'
  <2> SUFFICES ASSUME IInv, TypeOK, [Next]_vars, ~Links' PROVE TypeOK'
    OBVIOUS
  <2>1. CASE overlapped
    BY <2>1, OverlappedStops DEF TypeOK, vars, target, sends
  <2>2. CASE Links
    <3>1. Overlaps
      BY <2>2, NextLinks
    <3>2. nextSEQ(currentFrame) \in SequenceNR
      BY SeqAssumption DEF TypeOK, nextSEQ, SequenceNR
    <3> QED BY <3>1, <3>2 DEF TypeOK, Overlaps
  <2> QED BY <2>1, <2>2 DEF IInv
<1> QED BY <1>1, <1>2, <1>3, IInvInvariant, PTL DEF Spec

(* Every integer of the circle from x on has its number, and every number   *)
(* its integer.                                                             *)
LEMMA OnFrom ==
  ASSUME NEW x \in Int, NEW n \in SequenceNR
  PROVE  \E b \in Int : x <= b /\ b <= x + MAX_SEQ /\ On(b) = n
<1>1. PICK m \in 0 .. MAX_SEQ, k \in 0 .. MAX_SEQ : m = On(x) /\ k = n
  BY OnRange DEF SequenceNR
<1>2. PICK d \in 0 .. MAX_SEQ :
        (IF m + d <= MAX_SEQ THEN m + d ELSE m + d - Turn) = k
  <2>1. CASE m <= k
    <3>1. k - m \in 0 .. MAX_SEQ /\ m + (k - m) <= MAX_SEQ /\ m + (k - m) = k
      BY <2>1, TurnFacts
    <3> QED BY <3>1
  <2>2. CASE k < m
    <3>1. /\ k - m + Turn \in 0 .. MAX_SEQ /\ ~(m + (k - m + Turn) <= MAX_SEQ)
          /\ m + (k - m + Turn) - Turn = k
      BY <2>2, TurnFacts
    <3> QED BY <3>1
  <2> QED BY <2>1, <2>2, TurnFacts
<1>3. d \in 0 .. Turn
  BY TurnFacts
<1>4. On(x + d) = IF On(x) + d <= MAX_SEQ THEN On(x) + d ELSE On(x) + d - Turn
  BY <1>3, OnShift
<1> HIDE DEF On
<1>5. On(x + d) = n
  BY <1>1, <1>2, <1>4
<1>6. PICK b \in Int : b = x + d /\ x <= b /\ b <= x + MAX_SEQ
  BY TurnFacts
<1> QED BY <1>5, <1>6

(* Until sends overlap, every packet the host has not accepted is still in  *)
(* the target's list, or just being put there.                              *)
THEOREM ResendsPossible == Spec => []ResendPossible
<1>1. IInv => ResendPossible
  <2> SUFFICES ASSUME Links, NEW n \in SequenceNR,
                      adp_between(host.expected, n, nextSEQ(currentFrame))
               PROVE  \/ \E e \in ToSet(unacked) : e.seq = n
                      \/ sending.pc # "none" /\ n = currentFrame
    BY DEF ResendPossible, IInv
  <2>1. PICK hc \in Int, ha \in Int, he \in Int, tc \in Int, ta \in Int, te \in Int :
          Linked(hc, ha, he, tc, ta, te)
    BY DEF Links
  <2>2. PICK t \in Int :
          /\ t = IF sending.pc = "none" THEN tc ELSE tc + 1
          /\ currentFrame = On(t)
    BY <2>1 DEF Linked, TargetAt
  <2>3. host.expected = On(he) /\ nextSEQ(currentFrame) = On(t + 1)
    BY <2>1, <2>2, OnNext DEF Linked, HostAt
  <2>4. /\ Len(unacked) \in 0 .. 2 /\ Len(unacked) = tc - ta + 1
        /\ ta <= he /\ he <= tc + 1 /\ tc <= he + 1
    <3>1. Bounds(hc, ha, he, tc, ta, te)
      BY <2>1, LinkBounds DEF Linked
    <3> QED BY <3>1 DEF Bounds
  <2>5. PICK b \in Int : he <= b /\ b <= he + MAX_SEQ /\ On(b) = n
    BY OnFrom
  <2>6. b <= t
    <3>1. PICK u \in Int : u = t + 1
      OBVIOUS
    <3>2. he <= u /\ u <= he + MAX_SEQ /\ u - Turn <= b
      BY <2>2, <2>4, <2>5, <3>1, TurnFacts
    <3>3. adp_between(On(he), On(b), On(u))
      BY <2>3, <2>5, <3>1
    <3>4. he <= b /\ b < u
      BY <2>5, <3>2, <3>3, Between
    <3> QED BY <3>1, <3>4
  <2>7. CASE b = t /\ sending.pc # "none"
    BY <2>2, <2>5, <2>7
  <2>8. CASE ~(b = t /\ sending.pc # "none")
    <3>1. b <= tc
      BY <2>2, <2>6, <2>8
    <3>2. PICK k \in 1 .. Len(unacked) : k = b - ta + 1 /\ ta + k - 1 = b
      BY <2>4, <2>5, <3>1
    <3>3. Listed(unacked, ta, tc)
      BY <2>1 DEF Linked, LinkAt, Joined, Way
    <3>4. unacked[k].seq = n
      BY <2>5, <3>2, <3>3 DEF Listed
    <3>5. unacked[k] \in ToSet(unacked)
      BY <3>3 DEF ToSet, Listed
    <3> QED BY <3>4, <3>5
  <2> QED BY <2>7, <2>8
<1> QED BY <1>1, IInvInvariant, PTL

-----------------------------------------------------------------------------
(* The abstract calls.                                                      *)

Shown(cr, ce, c) ==
  IF cr[c].waiting /\ cr[c].body = ce[c].body
  THEN IF ce[c].serving THEN "serving" ELSE "replied"
  ELSE IF ce[c].serving THEN "stray"
  ELSE IF cr[c].waiting THEN "asked" ELSE "idle"

LEMMA PhaseShown ==
  ASSUME NEW cr, NEW ce, NEW c \in Channel, CallsOK(cr, ce)
  PROVE  /\ Idle(cr, ce, c) => Shown(cr, ce, c) = "idle"
         /\ Asked(cr, ce, c) => Shown(cr, ce, c) = "asked"
         /\ Serving(cr, ce, c) => Shown(cr, ce, c) = "serving"
         /\ Replied(cr, ce, c) => Shown(cr, ce, c) = "replied"
<1>1. /\ ce[c].serving => cr[c].waiting
      /\ cr[c].body # ce[c].body => cr[c].waiting /\ ~ce[c].serving
  BY DEF CallsOK
<1> QED BY <1>1 DEF Shown, Idle, Asked, Serving, Replied

ShownCalls(cr, ce)    == [c \in Channel |-> Shown(cr, ce, c)]
ShownRequests(cr, ce) == [c \in Channel |-> cr[c].body]
ShownAnswers(cr, ce)  == [c \in Channel |-> cr[c].answer]

(* A step that takes one channel from one phase to the next.                *)
LEMMA ShownStep ==
  ASSUME NEW cr, NEW ce, NEW cr1, NEW ce1, NEW c \in Channel, NEW from, NEW to,
         Moved(cr, ce, cr1, ce1, c), Shown(cr, ce, c) = from, Shown(cr1, ce1, c) = to
  PROVE  /\ ShownCalls(cr, ce)[c] = from
         /\ ShownCalls(cr1, ce1) = [ShownCalls(cr, ce) EXCEPT ![c] = to]
<1>1. \A d \in Channel \ {c} : Shown(cr1, ce1, d) = Shown(cr, ce, d)
  BY DEF Moved, SameCall, Shown
<1> HIDE DEF Shown
<1> QED BY <1>1 DEF ShownCalls

LEMMA AbstractStep ==
  ASSUME NEW c \in Channel, NEW from, NEW to,
         Moved(caller, callee, caller', callee', c),
         Shown(caller, callee, c) = from, Shown(caller', callee', c) = to
  PROVE  Calls!Step(c, from, to)
<1>1. /\ ShownCalls(caller, callee)[c] = from
      /\ ShownCalls(caller', callee') = [ShownCalls(caller, callee) EXCEPT ![c] = to]
  BY ShownStep
<1> QED BY <1>1 DEF Calls!Step, ShownCalls, Shown

LEMMA AbstractInit == ASSUME Init PROVE Calls!Init
<1>1. PICK b \in Body :
        /\ caller = [c \in Channel |-> [waiting |-> FALSE, body |-> b, answer |-> b]]
        /\ callee = [c \in Channel |-> [serving |-> FALSE, body |-> b]]
  BY BodyAssumption DEF Init
<1>2. \A c \in Channel : /\ ~caller[c].waiting /\ ~callee[c].serving
                         /\ caller[c].body = b /\ caller[c].answer = b
  BY <1>1
<1> QED BY <1>2 DEF Calls!Init

LEMMA AbstractAsk ==
  ASSUME NEW c \in Channel, CallsOK(caller, callee),
         Asks(caller, callee, caller', callee', c)
  PROVE  Calls!Ask(c)
<1>0. /\ Moved(caller, callee, caller', callee', c)
      /\ Asked(caller', callee', c)
  BY AsksMoves
<1>1. /\ Moved(caller, callee, caller', callee', c) /\ Asked(caller', callee', c)
      /\ Idle(caller, callee, c) /\ CallsOK(caller', callee')
  BY <1>0 DEF Moved, Asks
<1>2. Calls!Step(c, "idle", "asked")
  BY <1>1, PhaseShown, AbstractStep
<1>3. PICK b \in Body :
        caller' = [caller EXCEPT ![c].waiting = TRUE, ![c].body = b]
  BY DEF Asks
<1>4. caller \in [Channel -> [waiting : BOOLEAN, body : Body, answer : Body]]
  BY DEF CallsOK
<1>5. /\ caller'[c].body = b /\ caller'[c].answer = caller[c].answer
      /\ \A d \in Channel \ {c} : caller'[d] = caller[d]
  BY <1>3, <1>4
<1>6. ShownRequests(caller', callee') = [ShownRequests(caller, callee) EXCEPT ![c] = b]
  BY <1>5 DEF ShownRequests
<1>7. ShownAnswers(caller', callee') = ShownAnswers(caller, callee)
  BY <1>5 DEF ShownAnswers
<1> QED BY <1>2, <1>6, <1>7 DEF Calls!Ask, ShownRequests, ShownAnswers

LEMMA AbstractServe ==
  ASSUME NEW c \in Channel, CallsOK(caller, callee),
         Served(caller, callee, caller', callee', c)
  PROVE  Calls!Serve(c)
<1>0. /\ Moved(caller, callee, caller', callee', c)
      /\ Serving(caller', callee', c)
  BY ServedMoves
<1>1. /\ Moved(caller, callee, caller', callee', c) /\ Serving(caller', callee', c)
      /\ Asked(caller, callee, c) /\ CallsOK(caller', callee') /\ caller' = caller
  BY <1>0 DEF Moved, Served
<1>2. Calls!Step(c, "asked", "serving")
  BY <1>1, PhaseShown, AbstractStep
<1> QED BY <1>1, <1>2 DEF Calls!Serve

LEMMA AbstractReply ==
  ASSUME NEW c \in Channel, CallsOK(caller, callee),
         Replies(caller, callee, caller', callee', c)
  PROVE  Calls!Reply(c)
<1>0. /\ Moved(caller, callee, caller', callee', c)
      /\ Replied(caller', callee', c)
  BY RepliesMoves
<1>1. /\ Moved(caller, callee, caller', callee', c) /\ Replied(caller', callee', c)
      /\ Serving(caller, callee, c) /\ CallsOK(caller', callee') /\ caller' = caller
  BY <1>0 DEF Moved, Replies
<1>2. Calls!Step(c, "serving", "replied")
  BY <1>1, PhaseShown, AbstractStep
<1> QED BY <1>1, <1>2 DEF Calls!Reply

LEMMA AbstractAnswer ==
  ASSUME NEW c \in Channel, CallsOK(caller, callee),
         Answered(caller, callee, caller', callee', c)
  PROVE  Calls!Answer(c)
<1>0. /\ Moved(caller, callee, caller', callee', c)
      /\ Idle(caller', callee', c)
  BY AnsweredMoves
<1>1. /\ Moved(caller, callee, caller', callee', c) /\ Idle(caller', callee', c)
      /\ Replied(caller, callee, c) /\ CallsOK(caller', callee')
  BY <1>0 DEF Moved, Answered
<1>2. Calls!Step(c, "replied", "idle")
  BY <1>1, PhaseShown, AbstractStep
<1>3. caller' = [caller EXCEPT ![c].waiting = FALSE, ![c].answer = caller[c].body]
  BY DEF Answered
<1>4. caller \in [Channel -> [waiting : BOOLEAN, body : Body, answer : Body]]
  BY DEF CallsOK
<1>5. /\ caller'[c].answer = caller[c].body /\ caller'[c].body = caller[c].body
      /\ \A d \in Channel \ {c} : caller'[d] = caller[d]
  BY <1>3, <1>4
<1>6. ShownAnswers(caller', callee')
        = [ShownAnswers(caller, callee) EXCEPT ![c] = ShownRequests(caller, callee)[c]]
  BY <1>5 DEF ShownAnswers, ShownRequests
<1>7. ShownRequests(caller', callee') = ShownRequests(caller, callee)
  BY <1>5 DEF ShownRequests
<1> QED BY <1>2, <1>6, <1>7 DEF Calls!Answer, ShownRequests, ShownAnswers

LEMMA AbstractNext ==
  ASSUME IInv, [Next]_vars
  PROVE  [Calls!Next]_(Calls!vars)
<1>1. CASE overlapped
  <2>1. UNCHANGED calls
    BY <1>1, OverlappedStops DEF vars
  <2> QED BY <2>1 DEF Calls!vars, calls
<1>2. CASE Links /\ ~UNCHANGED calls
  <2>1. CallsStep
    BY <1>2, NextLinks
  <2>2. CallsOK(caller, callee)
    BY <1>2 DEF Links, Linked, LinkAt, Joined
  <2>3. PICK c \in Channel : \/ Asks(caller, callee, caller', callee', c)
                             \/ Served(caller, callee, caller', callee', c)
                             \/ Replies(caller, callee, caller', callee', c)
                             \/ Answered(caller, callee, caller', callee', c)
    BY <1>2, <2>1 DEF CallsStep
  <2>4. Calls!Ask(c) \/ Calls!Serve(c) \/ Calls!Reply(c) \/ Calls!Answer(c)
    BY <2>2, <2>3, AbstractAsk, AbstractServe, AbstractReply, AbstractAnswer
  <2> QED BY <2>4 DEF Calls!Next
<1>3. CASE UNCHANGED calls
  BY <1>3 DEF Calls!vars, calls
<1> QED BY <1>1, <1>2, <1>3 DEF IInv

(* However packets are lost, sent again and handled in the wrong order,     *)
(* every request is served once, and answered once after that, with its own *)
(* answer: the channels implement AngelCalls.                               *)
THEOREM CallsImplemented == Spec => ImplementsCalls
<1>1. Init => Calls!Init
  BY AbstractInit
<1>2. IInv /\ [Next]_vars => [Calls!Next]_(Calls!vars)
  BY AbstractNext
<1> QED BY <1>1, <1>2, IInvInvariant, PTL DEF Spec, ImplementsCalls, Calls!Spec

-----------------------------------------------------------------------------
(* Heartbeats. *)

(* The number after the expected one is not low.                            *)
LEMMA NextNotLow ==
  ASSUME NEW e \in SequenceNR
  PROVE  ~SeqLow(nextSEQ(e), e)
<1>1. PICK h \in Int : h = MAX_SEQ \div 2
  BY TurnFacts
<1>2. 2 * h <= MAX_SEQ /\ MAX_SEQ <= 2 * h + 1
  BY <1>1, TurnFacts
<1>3. 1 <= h /\ h + 1 < MAX_SEQ /\ e \in Int /\ 0 <= e /\ e <= MAX_SEQ
  BY <1>2, TurnFacts DEF SequenceNR
<1>4. PICK low \in Int : low = IF e - h < 0 THEN e - h + MAX_SEQ ELSE e - h
  <2>1. PICK x \in Int, y \in Int : x = e - h /\ y = e - h + MAX_SEQ
    BY <1>1, <1>3, TurnFacts
  <2>2. CASE x < 0
    BY <2>1, <2>2
  <2>3. CASE ~(x < 0)
    BY <2>1, <2>3
  <2> QED BY <2>2, <2>3
<1>5. PICK s \in Int : s = IF e < MAX_SEQ THEN e + 1 ELSE 0
  BY <1>3, TurnFacts
<1>6. ~adp_between(low, s, e)
  BY <1>3, <1>4, <1>5, TurnFacts DEF adp_between
<1>7. s = nextSEQ(e)
  BY <1>5 DEF nextSEQ
<1>8. SeqLow(s, e) <=> adp_between(low, s, e)
  BY <1>1, <1>4 DEF SeqLow
<1> QED BY <1>6, <1>7, <1>8

(* Only a callback takes a packet from those that wait.                     *)
LEMMA TakenByCallback ==
  ASSUME Links, [Next]_vars, pending # <<>>, pending' = Tail(pending)
  PROVE  read_callback
<1>1. pending \in Seq(PacketSet)
  BY DEF Links, Linked, HeldAt, Held
<1>2. PICK n \in Nat : n = Len(pending) /\ n # 0
  BY <1>1
<1>3. pending' \in Seq(PacketSet) /\ Len(pending') = n - 1
  BY <1>1, <1>2
<1>4. pending' # pending
  BY <1>2, <1>3
<1>5. ~angel_DD_GotPacket
  <2> SUFFICES ASSUME angel_DD_GotPacket PROVE FALSE
    OBVIOUS
  <2>1. PICK p : pending' = <<p>> \o pending
    BY DEF angel_DD_GotPacket
  <2>2. Len(<<p>> \o pending) = 1 + n
    BY <1>1, <1>2
  <2> QED BY <1>2, <1>3, <2>1, <2>2
<1>6. ~UNCHANGED vars /\ ~Overlapped
  BY <1>4 DEF vars, Overlapped
<1>7. ~(TargetAsks \/ TargetReplies \/ HostAsks \/ HostReplies)
  BY <1>4 DEF TargetAsks, TargetReplies, HostAsks, HostReplies
<1>8. ~(HostBeats \/ HostReceives \/ Lose)
  BY <1>4 DEF HostBeats, HostReceives, Lose
<1>9. ~(Number \/ Store \/ write_callback)
  BY <1>4 DEF Number, Store, write_callback
<1> QED BY <1>5, <1>6, <1>7, <1>8, <1>9 DEF Next

LEMMA HonestStep ==
  ASSUME Links, [Next]_vars, pending # <<>>, pending' = Tail(pending),
         Head(pending).flags = "CF_HEARTBEAT", Last(toHost').flags = "CF_HEARTBEAT",
         adp_between(frameExpected, Head(pending).seq, nextSEQ(host.current))
  PROVE  FALSE
<1>1. PICK p : p = Head(pending)
  OBVIOUS
<1>2. p.flags = "CF_HEARTBEAT" /\ toHost = <<>> /\ ReadHeartbeat(p)
  <2>1. toHost = <<>> /\ (ReadResend(p) \/ ReadHeartbeat(p) \/ ReadReliable(p))
    BY <1>1, TakenByCallback DEF read_callback, Ready
  <2> QED BY <1>1, <2>1 DEF ReadResend, ReadReliable
<1>3. IF p.seq = frameExpected THEN p.seq = lastReceived
                               ELSE SeqLow(p.seq, frameExpected)
  <2> SUFFICES ASSUME toHost' = Append(toHost, Private("CF_RESEND", currentFrame,
                                                       lastSEQ(frameExpected)))
               PROVE  FALSE
    BY <1>2 DEF ReadHeartbeat, send_resend_msg
  <2>1. Last(toHost') = Private("CF_RESEND", currentFrame, lastSEQ(frameExpected))
    BY <1>2 DEF Last
  <2> QED BY <2>1 DEF Private, Packet
<1>4. PICK hc \in Int, ha \in Int, he \in Int, tc \in Int, ta \in Int, te \in Int :
        Linked(hc, ha, he, tc, ta, te)
  BY DEF Links
<1>5. PICK s \in Int, a \in Int :
        InFlight(p, s, a, host.unacked, ha, hc, he, unacked, ta, te)
  <2>1. Held(pending, host.unacked, ha, hc, he, unacked, ta, te)
    BY <1>4 DEF Linked, HeldAt
  <2> QED BY <1>1, <2>1, HeldHead
<1>6. p.seq = On(s) /\ hc - Wire <= s /\ s <= hc
  BY <1>5 DEF InFlight
<1>7. /\ frameExpected = On(te) /\ lastReceived # frameExpected
      /\ nextSEQ(host.current) = On(hc + 1)
  BY <1>4, OnNext DEF Linked, TargetAt, HostAt
<1>8. te <= hc + 1 /\ hc <= te + 1
  <2>1. Bounds(hc, ha, he, tc, ta, te)
    BY <1>4, LinkBounds DEF Linked
  <2> QED BY <2>1 DEF Bounds
<1>9. te <= s /\ s <= te + 1
  <2>1. PICK t \in Int : t = hc + 1
    OBVIOUS
  <2>2. adp_between(On(te), On(s), On(t))
    BY <1>1, <1>6, <1>7, <2>1
  <2>3. te <= t /\ t <= te + MAX_SEQ /\ t - Turn <= s /\ s <= te + MAX_SEQ
    BY <1>6, <1>8, <2>1, BoundAssumption, TurnFacts
  <2>4. te <= s /\ s < t
    BY <2>2, <2>3, Between
  <2> QED BY <1>8, <2>1, <2>4
<1>10. CASE s = te
  BY <1>3, <1>6, <1>7, <1>10
<1>11. CASE s = te + 1
  <2>1. p.seq = nextSEQ(frameExpected)
    BY <1>6, <1>7, <1>11, OnNext
  <2>2. p.seq # frameExpected
    <3> SUFFICES ASSUME On(s) = On(te) PROVE FALSE
      BY <1>6, <1>7
    <3>1. s - te \in -MAX_SEQ .. MAX_SEQ
      BY <1>11, TurnFacts
    <3>2. s = te
      BY <3>1, OnEqual
    <3> QED BY <1>11, <3>2
  <2>3. frameExpected \in SequenceNR
    BY <1>7, OnRange
  <2> QED BY <1>3, <2>1, <2>2, <2>3, NextNotLow
<1> QED BY <1>9, <1>10, <1>11

(* A heartbeat is acknowledged only if every packet the host has sent up to *)
(* it has been accepted, although callbacks run newest first and the number *)
(* of the last packet is recorded before it is looked at.                   *)
THEOREM HeartbeatsHonest == Spec => HeartbeatAckHonest
<1>1. IInv /\ [Next]_vars
      => [pending # <<>> /\ pending' = Tail(pending) /\ toHost' # toHost
            /\ Head(pending).flags = "CF_HEARTBEAT" /\ Last(toHost').flags = "CF_HEARTBEAT"
          => ~adp_between(frameExpected, Head(pending).seq, nextSEQ(host.current))]_vars
  BY HonestStep, OverlappedStops DEF IInv
<1> QED BY <1>1, IInvInvariant, PTL DEF Spec, HeartbeatAckHonest
=============================================================================
