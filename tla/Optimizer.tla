----------------------------- MODULE Optimizer -----------------------------
(***************************************************************************)
(* jit/optimizer.rs: one iteration of optimize_block, which rewrites an    *)
(* instruction with the register constants known so far and updates them.  *)
(***************************************************************************)
EXTENDS IR

(* The None of Option<u64>: a value that is no word. *)
NoConst == {-1}

Known == [GPR -> XWord \cup {NoConst}]
NothingKnown == [r \in GPR |-> NoConst]

KnownReg(r, known) ==
  IF known[r.num] = NoConst THEN NoConst ELSE Mask(known[r.num], r.width)

RewriteOperand(op, known) ==
  IF IsGeneral(op) /\ known[op.r.num] # NoConst THEN Imm(KnownReg(op.r, known))
  ELSE op

ConstantOperand(op, known) ==
  CASE op.t = "Imm" -> op.v
    [] op.t = "Reg" /\ op.r.kind = "Zero" -> {}
    [] IsGeneral(op) -> KnownReg(op.r, known)
    [] OTHER -> NoConst

FoldBinop(opcode, lhs, rhs, width) ==
  Mask(CASE opcode = "Add" -> Add(lhs, rhs, "X64").val
         [] opcode = "Sub" -> Sub(lhs, rhs, "X64").val
         [] opcode = "And" -> lhs \cap rhs
         [] opcode = "Orr" -> lhs \cup rhs
         [] opcode = "Eor" -> (lhs \ rhs) \cup (rhs \ lhs), width)

(* The value is masked to the width and then shifted as a u64, except that *)
(* an arithmetic shift goes through i32 or i64.                            *)
FoldShift(value, amount, kind, width) ==
  LET v == Mask(value, width)
      k == Count(amount, width)
  IN  Mask(Shift(kind, v, k, IF kind = "Asr" THEN width ELSE "X64"), width)

(* A deliberately wrong MovOf: the source stays where operand c was.       *)
MovOf_InC(inst, op) == [inst EXCEPT !.opcode = "Mov", !.b = None, !.c = op]

MovOf(inst, op) == [inst EXCEPT !.opcode = "Mov", !.b = op, !.c = None]

(* simplify_identity: the algebraic identities, else the instruction as is.*)
Simplify(inst, width) ==
  LET Is(op, v) == op.t = "Imm" /\ Mask(op.v, width) = Mask(v, width)
      zero == inst.c.t = "Imm" /\ inst.c.v = {}
      ones == Is(inst.c, Bits("X64"))
      same == IsGeneral(inst.b) /\ inst.b = inst.c
  IN  CASE inst.opcode \in {"Add", "Sub", "Orr", "Eor"} /\ zero -> MovOf(inst, inst.b)
        [] inst.opcode \in {"Sub", "Eor"} /\ same -> MovOf(inst, Imm({}))
        [] inst.opcode = "And" /\ zero -> MovOf(inst, Imm({}))
        [] inst.opcode = "And" /\ ~ zero /\ ones -> MovOf(inst, inst.b)
        [] inst.opcode = "Orr" /\ ~ zero /\ ones -> MovOf(inst, Imm(Bits(width)))
        [] OTHER -> inst

(* What is known of the destination after a Mov. *)
KnownMov(inst, known) ==
  LET b == inst.b
      dst == inst.a.r
  IN  CASE b.t = "Imm" -> Mask(b.v, dst.width)
        [] b.t = "Reg" /\ b.r.kind = "Zero" -> {}
        [] IsGeneral(b) /\ known[b.r.num] # NoConst -> Mask(known[b.r.num], dst.width)
        [] OTHER -> NoConst

(* An arithmetic or logical instruction whose destination is general; the  *)
(* first form is deliberately wrong, and remembers what it overwrites.     *)
OptBinop_Stale(inst, known) ==
  LET lhs == ConstantOperand(inst.b, known)
      rhs == ConstantOperand(inst.c, known)
  IN  IF ~ inst.flags /\ lhs # NoConst /\ rhs # NoConst
      THEN LET value == FoldBinop(inst.opcode, lhs, rhs, inst.a.r.width)
           IN  [inst |-> MovOf(inst, Imm(value)),
                known |-> [known EXCEPT ![inst.a.r.num] = value]]
      ELSE [inst |-> inst, known |-> known]

OptBinop(inst, known) ==
  LET dst == inst.a.r
      lhs == ConstantOperand(inst.b, known)
      rhs == ConstantOperand(inst.c, known)
      Forget == [known EXCEPT ![dst.num] = NoConst]
  IN  IF inst.flags THEN [inst |-> inst, known |-> Forget]
      ELSE IF lhs # NoConst /\ rhs # NoConst
      THEN LET value == FoldBinop(inst.opcode, lhs, rhs, dst.width)
           IN  [inst |-> MovOf(inst, Imm(value)),
                known |-> [known EXCEPT ![dst.num] = value]]
      ELSE [inst |-> Simplify(inst, dst.width), known |-> Forget]

OptShift(inst, known) ==
  LET dst == inst.a.r
      v == ConstantOperand(RegOp(inst.c.value), known)
      amount == ConstantOperand(RegOp(inst.c.amount), known)
  IN  IF v # NoConst /\ amount # NoConst
      THEN LET value == FoldShift(v, amount, inst.c.kind, dst.width)
           IN  [inst |-> MovOf(inst, Imm(value)),
                known |-> [known EXCEPT ![dst.num] = value]]
      ELSE [inst |-> inst, known |-> [known EXCEPT ![dst.num] = NoConst]]

Rewrite(inst, known) ==
  [inst EXCEPT !.b = RewriteOperand(@, known), !.c = RewriteOperand(@, known)]

(* One instruction of optimize_block, its operands b and c rewritten.      *)
OptStep(original, known) ==
  LET inst == Rewrite(original, known)
      Keep == [inst |-> inst, known |-> known]
  IN  IF inst.opcode = "Unsupported"
      THEN [inst |-> inst, known |-> NothingKnown]
      ELSE IF ~ IsGeneral(inst.a) THEN Keep
      ELSE CASE inst.opcode = "Mov" ->
                  [inst |-> inst,
                   known |-> [known EXCEPT ![inst.a.r.num] = KnownMov(inst, known)]]
             [] inst.opcode \in Binops -> OptBinop(inst, known)
             [] inst.opcode = "Shift"  -> OptShift(inst, known)
             [] OTHER ->
                  [inst |-> inst, known |-> [known EXCEPT ![inst.a.r.num] = NoConst]]
=============================================================================
