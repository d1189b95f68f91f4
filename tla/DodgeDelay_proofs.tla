------------------------- MODULE DodgeDelay_proofs --------------------------
(***************************************************************************)
(* Proofs about DodgeDelay: no counter passes its bound, and the result is *)
(* the one DodgeGame uses, for every score that is not negative in r5.      *)
(***************************************************************************)
EXTENDS DodgeDelay, TLAPS

(* While the loops run r3 is the bound for the score; the counter a loop   *)
(* compares is below it, and the other one has reached it or is zero.      *)
DInv ==
  /\ pc \in {"DELAY", "FAST1", "FAST2", "DELAY1", "DELAY3", "DELAY2", "DEEXIT"}
  /\ r5 \in Nat /\ Signed(r5) = r5
  /\ pc = "FAST1" => r5 > 100 /\ r5 <= 200 /\ r9 = 0
  /\ pc = "FAST2" => r5 > 200 /\ r9 = 0
  /\ pc \in {"DELAY1", "DELAY3", "DELAY2", "DEEXIT"} => r3 = DelayTime(r5)
  /\ pc \in {"DELAY1", "DELAY3", "DELAY2"} => r9 \in 0 .. r3 - 1
  /\ pc = "DELAY3" => r2 \in 0 .. r3 - 1 /\ r7 = 0
  /\ pc = "DELAY2" => r7 \in 0 .. r3 - 1
  /\ pc = "DEEXIT" => r2 = 0

LEMMA DInvInit == Init => DInv
<1>1. Init => r5 \in Nat /\ Signed(r5) = r5
  BY DelayScoresAssumption, WordAssumption DEF Init, Signed
<1> QED BY <1>1 DEF Init, DInv

LEMMA DInvNext == DInv /\ [Next]_vars => DInv'
<1> SUFFICES ASSUME DInv, [Next]_vars PROVE DInv'
  OBVIOUS
<1>1. DelayTime(r5) \in {1, 100, 500}
  BY DEF DelayTime
<1>2. \A x \in 0 .. 499 : (x + 1) % Word = x + 1
  BY WordAssumption
<1>r. Signed(r5') = Signed(r5) /\ r5' = r5 /\ Signed(r5) = r5
  BY DEF DInv, Next, DELAY, FAST, DELAY1, DELAY3, DELAY2, vars
<1>3. CASE DELAY
  BY <1>3, <1>r DEF DELAY, DInv, DelayTime
<1>4. CASE FAST
  BY <1>4, <1>r DEF FAST, DInv, DelayTime
<1>5. CASE DELAY1
  BY <1>1, <1>2, <1>5, <1>r DEF DELAY1, DInv, DelayTime
<1>6. CASE DELAY3
  BY <1>1, <1>2, <1>6, <1>r DEF DELAY3, DInv, DelayTime
<1>7. CASE DELAY2
  BY <1>1, <1>2, <1>7, <1>r DEF DELAY2, DInv, DelayTime
<1>8. CASE UNCHANGED vars
  BY <1>8, <1>r DEF vars, DInv
<1> QED BY <1>3, <1>4, <1>5, <1>6, <1>7, <1>8 DEF Next

(* Each counter of DELAY is on its bound's side in every reachable state.   *)
THEOREM DInvInvariant == Spec => []DInv
BY DInvInit, DInvNext, PTL DEF Spec

(* The equality tests of the three loops are met: no counter is ever past  *)
(* the bound its loop waits for, so none runs through the register.        *)
THEOREM NeverOvershoots == Spec => []NoOvershoot
<1>1. DInv => NoOvershoot
  <2>1. DelayTime(r5) \in Nat
    BY DEF DelayTime
  <2> QED BY <2>1 DEF DInv, NoOvershoot
<1> QED BY <1>1, DInvInvariant, PTL

(* DELAY returns what the step DELAY of DodgeGame assigns, and nothing     *)
(* MODE1 loads into r3 survives it.                                        *)
THEOREM DelayRefined == Spec => []DelaysAsOneStep
<1>1. DInv => DelaysAsOneStep
  BY DEF DInv, DelaysAsOneStep
<1> QED BY <1>1, DInvInvariant, PTL
=============================================================================
