------------------------------- MODULE Lifter -------------------------------
(***************************************************************************)
(* lift/mod.rs: lift_one_at, from a decoded instruction at PC p to one IR  *)
(* instruction.  Decoding (the yaxpeax crate) is external: it hands over   *)
(* the fields of Arm.tla, and says of each register whether number 31 is   *)
(* SP there (Dest, Source).                                                *)
(***************************************************************************)
EXTENDS Arm

(* lower_operand, for a second operand; an extended register has no form   *)
(* in the IR.                                                              *)
LowerOperand2(w) ==
  CASE w.rm.t = "imm"   -> Imm(w.rm.v)
    [] w.rm.t = "immsh" -> ShiftedImm(w.rm.v, w.rm.amount)
    [] w.rm.t = "reg"   -> RegOp(Reg(w.rm.n, w.width))
    [] w.rm.t = "regsh" -> ShiftedReg(Reg(w.rm.n, w.width), w.rm.kind, w.rm.amount)
    [] w.rm.t = "ext"   -> None

Opcode == [ADD |-> "Add", SUB |-> "Sub", AND |-> "And", ORR |-> "Orr", EOR |-> "Eor"]

LiftData(w) ==
  IRInst(Opcode[w.op], w.s, RegOp(Dest(w)), RegOp(Source(w)), LowerOperand2(w))

LiftVariableShift(w) ==
  LET value == Reg(w.rn, w.width)
  IN  IRInst("Shift", FALSE, RegOp(Reg(w.rd, w.width)), RegOp(value),
             ShiftReg(value, Reg(w.rm, w.width), VariableShift[w.op]))

(* MOVN complements in 64 bits and then keeps the width's. *)
LiftMoveWide(w) ==
  LET value == IF w.op = "MOVN" THEN Complement(w.v, "X64") ELSE w.v
  IN  IRInst("Mov", FALSE, RegOp(Reg(w.rd, w.width)), Imm(Mask(value, w.width)), None)

LiftMem(w) ==
  LET mem == Mem(RegOrSP(w.rn, "X64"), w.offset, w.width)
      reg == RegOp(Reg(w.rt, w.width))
  IN  IF w.op = "LDR" THEN IRInst("Load", FALSE, reg, mem, None)
      ELSE IRInst("Store", FALSE, mem, reg, None)

(* The kind of a compare-and-branch is 0 for CBZ and 1 for CBNZ. *)
LiftBranch(w, p) ==
  CASE w.op = "B"     -> IRInst("Branch", FALSE, GuestPc(p + w.offset), None, None)
    [] w.op = "BCOND" -> IRInst("BranchCond", FALSE, GuestPc(p + w.offset),
                                Imm(w.cond), None)
    [] w.op = "CBZ"   -> IRInst("BranchCond", FALSE, GuestPc(p + w.offset),
                                RegOp(Reg(w.rt, w.width)), Imm(0))
    [] w.op = "CBNZ"  -> IRInst("BranchCond", FALSE, GuestPc(p + w.offset),
                                RegOp(Reg(w.rt, w.width)), Imm(1))
    [] w.op = "RET"   -> IRInst("Ret", FALSE, RegOp(Reg(w.rn, "X64")), None, None)

LiftOneAt(w, p) ==
  CASE w.op \in Branches -> LiftBranch(w, p)
    [] w.op \in {"MOVZ", "MOVN"} -> LiftMoveWide(w)
    [] w.op \in {"LDR", "STR"} -> LiftMem(w)
    [] w.op \in DOMAIN VariableShift -> LiftVariableShift(w)
    [] w.op \in DataProcessing -> LiftData(w)
    [] w.op = "NOP" -> IRInst("Nop", FALSE, None, None, None)
    [] OTHER -> IRInst("Unsupported", FALSE, None, None, None)
=============================================================================
