------------------------------- MODULE Words -------------------------------
(***************************************************************************)
(* Machine words of the two register widths.  A word is the set of its     *)
(* one bits, so that masking is an intersection and the logical operations *)
(* are those of sets; a W register has 2^WLog bits (32), an X register     *)
(* twice as many.                                                          *)
(***************************************************************************)
EXTENDS Integers

CONSTANT WLog

ASSUME WLogAssumption == WLog \in Nat \ {0}

(* Follows from it; stated because the provers take a power to be some     *)
(* integer and no more.                                                    *)
ASSUME PowerAssumption == 2 ^ WLog \in Nat

Widths == {"W32", "X64"}
NBits(width) == IF width = "W32" THEN 2 ^ WLog ELSE 2 * 2 ^ WLog
Bits(width) == 0 .. NBits(width) - 1
XWord == SUBSET Bits("X64")

(* mask_width: a W32 value is zero-extended. *)
Mask(v, width) == v \cap Bits(width)
Complement(v, width) == Bits(width) \ v
Negative(v, width) == NBits(width) - 1 \in v

(* The sign extension of the low 32 bits, as x86-64 does to an imm32.      *)
SignExtend(v) ==
  Mask(v, "W32") \cup
    (IF Negative(v, "W32") THEN Bits("X64") \ Bits("W32") ELSE {})

(* The carry into bit i of a sum: cin or a carry out of a lower bit, which *)
(* every bit in between passes on.                                         *)
Carry(a, b, cin, i) ==
  \E j \in 0 .. i :
    /\ IF j = 0 THEN cin ELSE j - 1 \in a /\ j - 1 \in b
    /\ \A k \in j .. i - 1 : k \in a \/ k \in b

(* The sum of two words and a carry, with the carry out and the signed     *)
(* overflow; a - b is a + ~b + 1.  A bit of the sum is set if one or all   *)
(* three of those added are.                                               *)
AddWithCarry(a, b, cin, width) ==
  LET n == NBits(width)
  IN  [val |-> {i \in Bits(width) : i \in a <=> (i \in b <=> Carry(a, b, cin, i))},
       c   |-> Carry(a, b, cin, n),
       v   |-> ~ (Carry(a, b, cin, n) <=> Carry(a, b, cin, n - 1))]

Add(a, b, width) == AddWithCarry(a, b, FALSE, width)
Sub(a, b, width) == AddWithCarry(a, Complement(b, width), TRUE, width)

(* The number a word stands for. *)
Number(v) ==
  LET sum[n \in 0 .. NBits("X64")] ==
        IF n = 0 THEN 0
        ELSE sum[n - 1] + IF n - 1 \in v THEN 2 ^ (n - 1) ELSE 0
  IN  sum[NBits("X64")]

ShiftKinds == {"Lsl", "Lsr", "Asr", "Ror"}

(* v, a word of the width, shifted by k places. *)
Shift(kind, v, k, width) ==
  CASE kind = "Lsl" -> {i \in Bits(width) : i - k \in v}
    [] kind = "Lsr" -> {i \in Bits(width) : i + k \in v}
    [] kind = "Asr" -> {i \in Bits(width) :
                          i + k \in v \/ (i + k >= NBits(width) /\ Negative(v, width))}
    [] kind = "Ror" -> {i \in Bits(width) : (i + k) % NBits(width) \in v}

(* A shift count held in a register: its value modulo the width, which is  *)
(* what both the A64 variable shifts and the x86 shifts by CL take.        *)
Count(v, width) ==
  CHOOSE n \in Bits(width) :
    \A j \in 0 .. IF width = "W32" THEN WLog - 1 ELSE WLog :
      (j \in v) <=> ((n \div 2 ^ j) % 2 = 1)
=============================================================================
