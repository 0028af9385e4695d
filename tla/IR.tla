--------------------------------- MODULE IR ---------------------------------
(***************************************************************************)
(* ir/operand.rs, ir/inst.rs and runtime/state.rs: the operands and        *)
(* instructions that pass from the lifter to the code generator, and the   *)
(* architectural state that translated code works on.                      *)
(***************************************************************************)
EXTENDS Words

CONSTANT LR   \* the link register is the last general register (X30)

ASSUME LRAssumption == LR \in Nat

GPR == 0 .. LR

(* Register number 31 names no general register. *)
R31 == LR + 1

(* GuestReg::x and GuestReg::w, and the forms whose number 31 is SP.       *)
Reg(n, width) ==
  [num |-> n, width |-> width, kind |-> IF n = R31 THEN "Zero" ELSE "General"]
RegOrSP(n, width) ==
  [num |-> n, width |-> width,
   kind |-> IF n = R31 THEN "StackPointer" ELSE "General"]

None == [t |-> "None"]
Imm(v) == [t |-> "Imm", v |-> v]
RegOp(r) == [t |-> "Reg", r |-> r]
ShiftedImm(v, amount) == [t |-> "ShiftedImm", v |-> v, amount |-> amount]
ShiftedReg(r, kind, amount) ==
  [t |-> "ShiftedReg", r |-> r, kind |-> kind, amount |-> amount]
ShiftReg(value, amount, kind) ==
  [t |-> "ShiftReg", value |-> value, amount |-> amount, kind |-> kind]
Mem(base, offset, width) ==
  [t |-> "Mem", base |-> base, offset |-> offset, width |-> width]
GuestPc(target) == [t |-> "GuestPc", pc |-> target]

IRInst(opcode, flags, a, b, c) ==
  [opcode |-> opcode, flags |-> flags, a |-> a, b |-> b, c |-> c]

Binops == {"Add", "Sub", "And", "Orr", "Eor"}

IsGeneral(op) == op.t = "Reg" /\ op.r.kind = "General"

(* GuestState without pc, and guest memory.  Memory is an array of W-sized *)
(* cells, little-endian: an X64 access at a covers the cells a and a + 1.  *)
Flags == {"N", "Z", "C", "V"}
Cell == SUBSET Bits("W32")
GuestState ==
  [x : [GPR -> XWord], sp : XWord, nzcv : SUBSET Flags, mem : [XWord -> Cell]]

ReadReg(st, r) ==
  CASE r.kind = "Zero"         -> {}
    [] r.kind = "StackPointer" -> Mask(st.sp, r.width)
    [] r.kind = "General"      -> Mask(st.x[r.num], r.width)

(* A register write always writes all 64 bits. *)
WriteReg(st, r, v) ==
  CASE r.kind = "Zero"         -> st
    [] r.kind = "StackPointer" -> [st EXCEPT !.sp = v]
    [] r.kind = "General"      -> [st EXCEPT !.x[r.num] = v]

Upper(addr) == Add(addr, {0}, "X64").val

ReadMem(mem, addr, width) ==
  mem[addr] \cup
    (IF width = "X64" THEN Shift("Lsl", mem[Upper(addr)], NBits("W32"), "X64")
     ELSE {})

WriteMem(mem, addr, width, v) ==
  LET low == [mem EXCEPT ![addr] = Mask(v, "W32")]
  IN  IF width = "W32" THEN low
      ELSE [low EXCEPT ![Upper(addr)] =
              Mask(Shift("Lsr", v, NBits("W32"), "X64"), "W32")]

(* What a flag-setting operation leaves in NZCV. *)
NZCV(r, width) ==
  {f \in Flags : \/ f = "N" /\ Negative(r.val, width)
                 \/ f = "Z" /\ r.val = {}
                 \/ f = "C" /\ r.c
                 \/ f = "V" /\ r.v}
=============================================================================
