----------------------------- MODULE DodgeOuth -----------------------------
(***************************************************************************)
(* OUTH of code/dodge-game.s: the score in r5 is divided by ten with       *)
(* repeated subtraction, every remainder is pushed as a character, and the *)
(* characters are popped and written.  r2 counts them.                     *)
(*                                                                         *)
(* The stack is memory like any other.  STM and LDM through r13 reach the  *)
(* word below it whatever r13 holds: MODE2 leaves 10 in it, which is not a *)
(* multiple of four and so close to zero that the stack wraps.             *)
(***************************************************************************)
EXTENDS DodgeMachine

CONSTANT
  Scores       \* the scores OUTH is called with

(* BLT compares signed: a score from Word \div 2 on is below ten to it.     *)
ASSUME ScoresAssumption == Scores \subseteq 0 .. (Word \div 2) - 1

VARIABLES
  pc,          \* label the processor is at
  r0, r1,      \* dividend and quotient; r0 also the character
  r2,          \* characters on the stack
  r5,          \* score
  r13,         \* stack pointer
  stack,       \* words pushed, by address; absent words are as they were
  console      \* characters written

vars == <<pc, r0, r1, r2, r5, r13, stack, console>>

(* MODE2 has moved the stack by the time the score is above Mode2At.       *)
Entry(score) == IF score > Mode2At THEN 10 ELSE StackBase

Init ==
  /\ pc = "OUTH"
  /\ r0 = 0 /\ r1 = 0 /\ r2 = Car
  /\ r5 \in Scores /\ r13 = Entry(r5)
  /\ stack = [a \in {} |-> 0]
  /\ console = <<>>

OUTH ==
  /\ pc = "OUTH" /\ pc' = "NXT"
  /\ r2' = 0 /\ r0' = r5
  /\ UNCHANGED <<r1, r5, r13, stack, console>>

NXT ==
  /\ pc = "NXT" /\ pc' = "DIV0"
  /\ r1' = 0
  /\ UNCHANGED <<r0, r2, r5, r13, stack, console>>

(* Mutant: BLE for BLT. *)
DIV0_LE ==
  /\ pc = "DIV0"
  /\ IF Signed(r0) <= 10
     THEN pc' = "DIV1" /\ UNCHANGED <<r0, r1>>
     ELSE r0' = r0 - 10 /\ r1' = (r1 + 1) % Word /\ UNCHANGED pc
  /\ UNCHANGED <<r2, r5, r13, stack, console>>

DIV0 ==
  /\ pc = "DIV0"
  /\ IF Signed(r0) < 10
     THEN pc' = "DIV1" /\ UNCHANGED <<r0, r1>>
     ELSE r0' = r0 - 10 /\ r1' = (r1 + 1) % Word /\ UNCHANGED pc
  /\ UNCHANGED <<r2, r5, r13, stack, console>>

(* STMFD r13!,{r0} *)
Push(sp, x) == [a \in DOMAIN stack \cup {WordAt(sp)} |->
                  IF a = WordAt(sp) THEN x ELSE stack[a]]

(* Mutant: the quotient is pushed. *)
DIV1_Quotient ==
  /\ pc = "DIV1"
  /\ r13' = (r13 - 4) % Word
  /\ stack' = Push(r13', r1 + 48)
  /\ r0' = r1
  /\ r2' = r2 + 1
  /\ pc' = IF r1 # 0 THEN "NXT" ELSE "NXT1"
  /\ UNCHANGED <<r1, r5, console>>

(* ADDGE finds a remainder below ten and adds nothing. *)
DIV1 ==
  /\ pc = "DIV1"
  /\ r13' = (r13 - 4) % Word
  /\ stack' = Push(r13', r0 + 48)
  /\ r0' = r1
  /\ r2' = r2 + 1
  /\ pc' = IF r1 # 0 THEN "NXT" ELSE "NXT1"
  /\ UNCHANGED <<r1, r5, console>>

(* Mutant: CMP r2,#1. *)
NXT1_OneShort ==
  /\ pc = "NXT1"
  /\ IF r2 = 1
     THEN pc' = "CPLT" /\ UNCHANGED <<r0, r2, r13, console>>
     ELSE /\ r0' = stack[WordAt(r13)]
          /\ r13' = (r13 + 4) % Word
          /\ console' = Append(console, r0')
          /\ r2' = r2 - 1
          /\ UNCHANGED pc
  /\ UNCHANGED <<r1, r5, stack>>

NXT1 ==
  /\ pc = "NXT1"
  /\ IF r2 = 0
     THEN pc' = "CPLT" /\ UNCHANGED <<r0, r2, r13, console>>
     ELSE /\ r0' = stack[WordAt(r13)]
          /\ r13' = (r13 + 4) % Word
          /\ console' = Append(console, r0')
          /\ r2' = r2 - 1
          /\ UNCHANGED pc
  /\ UNCHANGED <<r1, r5, stack>>

Next == OUTH \/ NXT \/ DIV0 \/ DIV1 \/ NXT1

Spec == Init /\ [][Next]_vars

-----------------------------------------------------------------------------

(* What has been written reads as a decimal number. *)
Value[n \in 0 .. Len(console)] ==
  IF n = 0 THEN 0 ELSE 10 * Value[n - 1] + (console[n] - 48)

(* Nothing but digits is written: a pop finds a character OUTH pushed, not *)
(* another word of memory, also when the stack is unaligned and wraps.     *)
DigitsOnly == console \in Seq(48 .. 57)

(* The score on the console is the score, most significant digit first and *)
(* without a leading zero.                                                 *)
ScoreReadsBack ==
  pc = "CPLT" =>
    /\ Value[Len(console)] = r5
    /\ Len(console) > 1 => console[1] # 48

(* r13 is back where it was, r2 is zero, and the words pushed are the ones *)
(* DodgeGame's single step looks up in Pushed.                             *)
ReturnsAsOneStep ==
  pc = "CPLT" =>
    /\ r13 = Entry(r5) /\ r2 = 0
    /\ DOMAIN stack = Pushed(Entry(r5), r5)
    /\ console = [i \in DOMAIN Decimal[r5] |-> Decimal[r5][i] + 48]

(* At every label of the loops r2 counts the words between r13 and the      *)
(* stack of the caller.                                                    *)
Balanced == pc # "OUTH" => r13 = (Entry(r5) - 4 * r2) % Word

=============================================================================
