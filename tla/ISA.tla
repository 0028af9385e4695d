-------------------------------- MODULE ISA --------------------------------
(***************************************************************************)
(* What the launcher, the dispatcher and the block lifter know of AArch64: *)
(* the control class of an instruction word and, for a direct branch, its  *)
(* PC-relative offset.  Everything an instruction does to registers, flags *)
(* and memory is left to the constant operators Effect and Stored, so      *)
(* that what is proved about the control holds for every instruction set.  *)
(*                                                                         *)
(* Addresses count 4-byte words: a guest pc p stands for the byte 4*p.     *)
(***************************************************************************)
EXTENDS Integers

CONSTANTS
  MemWords,         \* words of guest memory (GuestMemory.size / 4)
  Word,             \* the instruction words that occur
  ZeroWord,         \* the word 0x00000000, which pads a short fetch
  GState,           \* GuestState without pc: x0..x30, sp, nzcv
  Effect(_, _),     \* Effect(w, g): registers after w
  Stored(_, _),     \* Stored(w, g): the words of memory w writes, as a function
  Taken(_, _),      \* Taken(w, g): does the conditional branch w branch in g
  Link(_)           \* Link(g): x30, as a word address

(***************************************************************************)
(* Control classes.  "Plain" is every instruction that lift_one_at lowers  *)
(* and that falls through.  "Call" is BL, BLR and BR: they end a block but *)
(* are not lowered.  "Other" decodes but is not lowered (SVC, LDRB, MOVK,  *)
(* ...).  "Undef" does not decode.                                         *)
(***************************************************************************)
Class == {"Plain", "B", "Bcond", "RET", "Call", "Other", "Undef"}

Addr == 0 .. MemWords - 1
Memory == [Addr -> Word]

ASSUME MemAssumption == MemWords \in Nat \ {0}
ASSUME WordAssumption ==
  /\ \A w \in Word : w.k \in Class /\ w.o \in Int
  /\ ZeroWord \in Word
  /\ ZeroWord.k = "Undef"
ASSUME EffectAssumption ==
  /\ \A w \in Word, g \in GState : Effect(w, g) \in GState
  /\ \A w \in Word, g \in GState : Taken(w, g) \in BOOLEAN
  /\ \A g \in GState : Link(g) \in Int
ASSUME StoredAssumption ==
  \A w \in Word, g \in GState :
    \A a \in DOMAIN Stored(w, g) : Stored(w, g)[a] \in Word

(* Guest memory after w runs in g. *)
MemEffect(w, g, m) ==
  [a \in Addr |-> IF a \in DOMAIN Stored(w, g) THEN Stored(w, g)[a] ELSE m[a]]

(* Where block discovery stops: matches_terminal, and every word that the  *)
(* decoder rejects.                                                        *)
Terminal(w) == w.k \in {"B", "Bcond", "RET", "Call", "Undef"}

(* The words lift_one_at turns into something other than Unsupported.      *)
Lowered(w) == w.k \in {"Plain", "B", "Bcond", "RET"}
=============================================================================
