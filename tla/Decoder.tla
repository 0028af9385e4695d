------------------------------ MODULE Decoder ------------------------------
(***************************************************************************)
(* The bit fields of lift/mod.rs: lift_conditional_branch, lift_move_wide  *)
(* and lower_unsigned_mem look at the instruction word themselves, with    *)
(* masks, before lift_one_at asks the decoder crate.  A word is the set of *)
(* its one bits, at the program's own width (WLog = 5, LR = 30).           *)
(***************************************************************************)
EXTENDS Lifter, Encoding

CONSTANTS
  Samples,  \* instructions of the four classes
  RawWords, \* words of any kind
  Pcs       \* guest PCs

Word32 == SUBSET (0 .. 31)

ASSUME DecoderAssumption ==
  /\ WLog = 5 /\ LR = 30
  /\ \A w \in Samples : Encodable(w)
  /\ RawWords \subseteq Word32 /\ Pcs \subseteq Int

VARIABLES
  word,   \* the word lift_one_at is given
  p,      \* its guest PC
  inst,   \* the instruction it encodes, when it comes from Samples
  ir      \* what becomes of it

dvars == <<word, p, inst, ir>>

Raw == [op |-> "raw"]
Pending == [opcode |-> "Pending"]

Init ==
  /\ \/ inst \in Samples /\ word = Encode(inst)
     \/ inst = Raw /\ word \in RawWords
  /\ p \in Pcs
  /\ ir = Pending
-----------------------------------------------------------------------------
(* word & mask == value. *)
Masked(mask, value) == word \cap mask = value

Field(low, n) == {i - low : i \in word \cap low .. low + n - 1}

(* A deliberately wrong RegField: mixes in a bit of the next field.        *)
RegField_Six(low) == Number(Field(low, 6))

RegField(low) == Number(Field(low, 5))

WidthBit == IF 31 \in word THEN "X64" ELSE "W32"

(* A deliberately wrong SignExtend19: the sign bit is bit 19.              *)
SignExtend19_Wide(bits) ==
  Number(bits) - (IF 19 \in bits THEN 2 ^ 20 ELSE 0)

(* sign_extend_19, in instructions. *)
SignExtend19(bits) == Number(bits) - (IF 18 \in bits THEN 2 ^ 19 ELSE 0)

(* lift_conditional_branch: 0xff000010 with 0x54000000, and 0x7f000000     *)
(* with 0x34000000 or 0x35000000. *)
IsBcond == Masked((24 .. 31) \cup {4}, {30, 28, 26})
IsCbz == Masked(24 .. 30, {29, 28, 26})
IsCbnz == Masked(24 .. 30, {29, 28, 26, 24})

BcondFields ==
  [op |-> "BCOND", offset |-> SignExtend19(Field(5, 19)), cond |-> Number(Field(0, 4))]
CompareFields ==
  [op |-> IF IsCbnz THEN "CBNZ" ELSE "CBZ", width |-> WidthBit, rt |-> RegField(0),
   offset |-> SignExtend19(Field(5, 19))]

(* lift_move_wide: 0x7f800000 with 0x52800000 or 0x12800000. *)
IsMovz == Masked(23 .. 30, {30, 28, 25, 23})
IsMovn == Masked(23 .. 30, {28, 25, 23})
BadHalf == WidthBit = "W32" /\ Number(Field(21, 2)) > 1

MoveFields ==
  [op |-> IF IsMovn THEN "MOVN" ELSE "MOVZ", width |-> WidthBit, rd |-> RegField(0),
   v |-> Shift("Lsl", Field(5, 16), 16 * Number(Field(21, 2)), "X64")]

(* A deliberately wrong IsLoad: the mask ends a bit too high, and the      *)
(* sign-extending loads come through. *)
IsLoad_SignExtending == Masked((24 .. 29) \cup {22}, {29, 28, 27, 24, 22})

(* lower_unsigned_mem: 0x3fc00000 with 0x39400000 or 0x39000000; the size  *)
(* field is 2 or 3, and scales the offset.                                 *)
IsLoad == Masked(22 .. 29, {29, 28, 27, 24, 22})

IsStore == Masked(22 .. 29, {29, 28, 27, 24})
Size == Number(Field(30, 2))

MemFields ==
  [op |-> IF IsLoad THEN "LDR" ELSE "STR", width |-> IF Size = 2 THEN "W32" ELSE "X64",
   rt |-> RegField(0), rn |-> RegField(5), offset |-> Shift("Lsl", Field(10, 12), Size, "X64")]

Unsupported == IRInst("Unsupported", FALSE, None, None, None)
ToCrate == [opcode |-> "ToCrate"]   \* on to aarch64::decode

(* lift_one_at, in the order in which it tries its helpers. *)
LiftWord ==
  CASE IsBcond -> LiftOneAt(BcondFields, p)
    [] IsCbz \/ IsCbnz -> LiftOneAt(CompareFields, p)
    [] IsMovz \/ IsMovn ->
         IF BadHalf THEN Unsupported ELSE LiftOneAt(MoveFields, p)
    [] (IsLoad \/ IsStore) /\ Size \in {2, 3} -> LiftOneAt(MemFields, p)
    [] OTHER -> ToCrate

Lift ==
  /\ ir = Pending
  /\ ir' = LiftWord
  /\ UNCHANGED <<word, p, inst>>

Spec == Init /\ [][Lift]_dvars
-----------------------------------------------------------------------------
(* An instruction of one of the four classes is lifted from its bits to    *)
(* the IR of that instruction: both ends of every field, signs, scales and *)
(* the register number 31 (lift/mod.rs:15, :21-25).                        *)
FieldsExact == ir # Pending /\ inst # Raw => ir = LiftOneAt(inst, p)

(* The hand-written masks claim the words of their classes and no others,  *)
(* which would be lifted as something they are not: PRFM, the sign-        *)
(* extending and byte loads, SIMD accesses, MOVK and BC.cond go to the     *)
(* decoder (lift/mod.rs:15, :23, :25).                                     *)
ClaimsExact ==
  ir # Pending =>
    /\ (ir = ToCrate) = ~ Handled(word)
    /\ (ir = Unsupported) = Unallocated(word)

(* Whatever word is claimed, assembled or not, what comes out is the IR of *)
(* an instruction as the passes after it expect it: register numbers,      *)
(* conditions and immediates of their ranges, no bit of a neighbouring     *)
(* field (lift/mod.rs:15, :21-25).                                         *)
Decoded ==
  CASE IsBcond -> BcondFields
    [] IsCbz \/ IsCbnz -> CompareFields
    [] IsMovz \/ IsMovn -> MoveFields
    [] OTHER -> MemFields
FieldsWellFormed ==
  ir \notin {Pending, ToCrate, Unsupported} => WellFormed(Decoded) /\ ir = LiftOneAt(Decoded, p)
=============================================================================
