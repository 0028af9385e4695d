------------------------------ MODULE Encoding ------------------------------
(***************************************************************************)
(* The reference for Decoder: how the Arm architecture encodes the four    *)
(* classes of instructions that lift/mod.rs decodes by hand.  An encoding  *)
(* is the set of the one bits of a 32-bit word; a pattern gives its first  *)
(* bits from bit 31 down.                                                  *)
(***************************************************************************)
EXTENDS Arm, Sequences

X == 2   \* a bit of a pattern that may be either

Top(pattern) == {32 - i : i \in {j \in DOMAIN pattern : pattern[j] = 1}}
Matches(word, pattern) ==
  \A i \in DOMAIN pattern : pattern[i] = X \/ (32 - i \in word) = (pattern[i] = 1)

Place(bits, low) == {i + low : i \in bits}
Twos(n, k) == {i \in 0 .. k - 1 : ((n % 2 ^ k) \div 2 ^ i) % 2 = 1}

Sf(w) == IF w.width = "X64" THEN 1 ELSE 0
Scale(w) == IF w.width = "X64" THEN 3 ELSE 2

(* The quarter of the register that a MOVZ or MOVN immediate fills; a W    *)
(* register has two.                                                       *)
Fills(v, hw) == v \subseteq 16 * hw .. 16 * hw + 15
Quarters(width) == 0 .. IF width = "X64" THEN 3 ELSE 1
Quarter(w) == CHOOSE hw \in Quarters(w.width) : Fills(w.v, hw)

(* The instructions of the four classes, by what their fields can express. *)
RegField5 == 0 .. 31
Offset19 == -(2 ^ 18) .. 2 ^ 18 - 1
Encodable(w) ==
  \/ w \in [op : {"BCOND"}, offset : Offset19, cond : 0 .. 15]
  \/ w \in [op : {"CBZ", "CBNZ"}, width : Widths, rt : RegField5, offset : Offset19]
  \/ /\ w \in [op : {"MOVZ", "MOVN"}, width : Widths, rd : RegField5, v : SUBSET (0 .. 63)]
     /\ \E hw \in Quarters(w.width) : Fills(w.v, hw)
  \/ /\ w \in [op : {"LDR", "STR"}, width : Widths, rt : RegField5, rn : RegField5,
               offset : SUBSET (0 .. 63)]
     /\ w.offset \subseteq Scale(w) .. Scale(w) + 11

Encode(w) ==
  CASE w.op = "BCOND" ->
         Top(<<0, 1, 0, 1, 0, 1, 0, 0>>) \cup Place(Twos(w.offset, 19), 5)
           \cup Twos(w.cond, 4)
    [] w.op \in {"CBZ", "CBNZ"} ->
         Top(<<Sf(w), 0, 1, 1, 0, 1, 0, IF w.op = "CBZ" THEN 0 ELSE 1>>)
           \cup Place(Twos(w.offset, 19), 5) \cup Twos(w.rt, 5)
    [] w.op \in {"MOVZ", "MOVN"} ->
         Top(<<Sf(w), IF w.op = "MOVZ" THEN 1 ELSE 0, 0, 1, 0, 0, 1, 0, 1>>)
           \cup Place(Twos(Quarter(w), 2), 21)
           \cup Place(w.v, 5 - 16 * Quarter(w)) \cup Twos(w.rd, 5)
    [] w.op \in {"LDR", "STR"} ->
         Top(<<1, Sf(w), 1, 1, 1, 0, 0, 1, 0, IF w.op = "LDR" THEN 1 ELSE 0>>)
           \cup Place(w.offset, 10 - Scale(w)) \cup Place(Twos(w.rn, 5), 5)
           \cup Twos(w.rt, 5)

MoveWide == <<X, X, 0, 1, 0, 0, 1, 0, 1>>

(* The words of the four classes: B.cond, not BC.cond (bit 4); CBZ, CBNZ;  *)
(* MOVZ, MOVN, not MOVK nor opc 01; LDR, STR of 4 or 8 bytes with an       *)
(* unsigned offset, no SIMD register and no sign extension.                *)
Handled(word) ==
  \/ Matches(word, <<0, 1, 0, 1, 0, 1, 0, 0>>) /\ 4 \notin word
  \/ Matches(word, <<X, 0, 1, 1, 0, 1, 0>>)
  \/ Matches(word, MoveWide)
  \/ Matches(word, <<1, X, 1, 1, 1, 0, 0, 1, 0>>)

(* A move of a W register to its absent upper half is not allocated.       *)
Unallocated(word) ==
  Handled(word) /\ Matches(word, MoveWide) /\ 31 \notin word /\ 22 \in word
=============================================================================
