-------------------------------- MODULE Arm --------------------------------
(***************************************************************************)
(* The reference: what the Arm architecture says the instructions do that  *)
(* the translator takes on.  An instruction is a record of what the decoder*)
(* extracts from the word:                                                 *)
(*   data processing  [op, s, width, rd, rn, rm], rm a second operand      *)
(*   variable shifts  [op, width, rd, rn, rm], rm a register number        *)
(*   MOVZ, MOVN       [op, width, rd, v], v the immediate in its place     *)
(*   LDR, STR         [op, width, rt, rn, offset]                          *)
(*   branches         [op, offset] with cond, or width and rt, or rn       *)
(* PCs and branch offsets count instructions.                              *)
(***************************************************************************)
EXTENDS IR

DataProcessing == {"ADD", "SUB", "AND", "ORR", "EOR"}
VariableShift == [LSLV |-> "Lsl", LSRV |-> "Lsr", ASRV |-> "Asr", RORV |-> "Ror"]

Immediate(rm) == rm.t \in {"imm", "immsh"}

(* What the fields of an instruction hold; a register field may name       *)
(* number 31.                                                              *)
RegNum == 0 .. R31

SecondOperand(rm, width) ==
  \/ rm.t = "imm" /\ rm.v \in SUBSET Bits(width)
  \/ rm.t = "immsh" /\ rm.v \in XWord /\ rm.amount \in Nat
  \/ rm.t \in {"reg", "ext"} /\ rm.n \in RegNum
  \/ /\ rm.t = "regsh" /\ rm.n \in RegNum
     /\ rm.kind \in ShiftKinds /\ rm.amount \in Bits(width)

WellFormed(w) ==
  /\ w.op \in DataProcessing =>
       /\ w.width \in Widths /\ w.rd \in RegNum /\ w.rn \in RegNum
       /\ SecondOperand(w.rm, w.width)
       /\ w.s \in BOOLEAN /\ (w.s => w.op \in {"ADD", "SUB", "AND"})
  /\ w.op \in DOMAIN VariableShift =>
       w.width \in Widths /\ w.rd \in RegNum /\ w.rn \in RegNum /\ w.rm \in RegNum
  /\ w.op \in {"MOVZ", "MOVN"} =>
       w.width \in Widths /\ w.rd \in RegNum /\ w.v \in XWord
  /\ w.op \in {"LDR", "STR"} =>
       w.width \in Widths /\ w.rt \in RegNum /\ w.rn \in RegNum /\ w.offset \in XWord
  /\ w.op \in {"CBZ", "CBNZ"} => w.width \in Widths /\ w.rt \in RegNum
  /\ w.op \in {"B", "BCOND", "CBZ", "CBNZ"} => w.offset \in Int
  /\ w.op = "BCOND" => w.cond \in 0 .. 15
  /\ w.op = "RET" => w.rn \in RegNum

(* Where number 31 is the stack pointer in a data processing instruction:  *)
(* the destination of an immediate form that sets no flags, and the source *)
(* of an immediate ADD or SUB.                                             *)
SpDest(w) == Immediate(w.rm) /\ ~ w.s
SpSource(w) == Immediate(w.rm) /\ w.op \in {"ADD", "SUB"}

Dest(w) == IF SpDest(w) THEN RegOrSP(w.rd, w.width) ELSE Reg(w.rd, w.width)
Source(w) == IF SpSource(w) THEN RegOrSP(w.rn, w.width) ELSE Reg(w.rn, w.width)

Operand2(w, st) ==
  CASE w.rm.t = "imm"   -> w.rm.v
    [] w.rm.t = "immsh" -> Mask(Shift("Lsl", w.rm.v, w.rm.amount, "X64"), w.width)
    [] w.rm.t = "reg"   -> ReadReg(st, Reg(w.rm.n, w.width))
    [] w.rm.t = "regsh" ->
         Shift(w.rm.kind, ReadReg(st, Reg(w.rm.n, w.width)), w.rm.amount, w.width)
    [] w.rm.t = "ext"   -> ReadReg(st, Reg(w.rm.n, w.width))

Logical(v) == [val |-> v, c |-> FALSE, v |-> FALSE]

Result(op, a, b, width) ==
  CASE op = "ADD" -> Add(a, b, width)
    [] op = "SUB" -> Sub(a, b, width)
    [] op = "AND" -> Logical(a \cap b)
    [] op = "ORR" -> Logical(a \cup b)
    [] op = "EOR" -> Logical((a \ b) \cup (b \ a))

Address(w, st) == Add(ReadReg(st, RegOrSP(w.rn, "X64")), w.offset, "X64").val

DataStep(w, st) ==
  LET r == Result(w.op, ReadReg(st, Source(w)), Operand2(w, st), w.width)
      written == WriteReg(st, Dest(w), r.val)
  IN  IF w.s THEN [written EXCEPT !.nzcv = NZCV(r, w.width)] ELSE written

ShiftStep(w, st) ==
  WriteReg(st, Reg(w.rd, w.width),
    Shift(VariableShift[w.op], ReadReg(st, Reg(w.rn, w.width)),
          Count(ReadReg(st, Reg(w.rm, w.width)), w.width), w.width))

(* The registers, flags and memory after w. *)
ArmStep(w, st) ==
  CASE w.op \in DataProcessing -> DataStep(w, st)
    [] w.op \in DOMAIN VariableShift -> ShiftStep(w, st)
    [] w.op = "MOVZ" -> WriteReg(st, Reg(w.rd, w.width), Mask(w.v, w.width))
    [] w.op = "MOVN" -> WriteReg(st, Reg(w.rd, w.width), Complement(w.v, w.width))
    [] w.op = "LDR" -> WriteReg(st, Reg(w.rt, w.width),
                                ReadMem(st.mem, Address(w, st), w.width))
    [] w.op = "STR" -> [st EXCEPT !.mem =
                          WriteMem(@, Address(w, st), w.width,
                                   ReadReg(st, Reg(w.rt, w.width)))]
    [] OTHER -> st

(* ConditionHolds: a base test, inverted by an odd number, 1111 excepted.  *)
Condition(cond, f) ==
  LET base == CASE cond \div 2 = 0 -> "Z" \in f
                [] cond \div 2 = 1 -> "C" \in f
                [] cond \div 2 = 2 -> "N" \in f
                [] cond \div 2 = 3 -> "V" \in f
                [] cond \div 2 = 4 -> "C" \in f /\ "Z" \notin f
                [] cond \div 2 = 5 -> ("N" \in f) = ("V" \in f)
                [] cond \div 2 = 6 -> ("N" \in f) = ("V" \in f) /\ "Z" \notin f
                [] cond \div 2 = 7 -> TRUE
  IN  IF cond % 2 = 1 /\ cond # 15 THEN ~ base ELSE base

Branches == {"B", "BCOND", "CBZ", "CBNZ", "RET"}

(* A PC is <<"at", p>>, or <<"reg", v>> when it came out of a register.    *)
ArmNextPc(w, st, p) ==
  LET taken == CASE w.op = "B"     -> TRUE
                 [] w.op = "BCOND" -> Condition(w.cond, st.nzcv)
                 [] w.op = "CBZ"   -> ReadReg(st, Reg(w.rt, w.width)) = {}
                 [] w.op = "CBNZ"  -> ReadReg(st, Reg(w.rt, w.width)) # {}
                 [] OTHER          -> FALSE
  IN  IF w.op = "RET" THEN <<"reg", ReadReg(st, Reg(w.rn, "X64"))>>
      ELSE IF taken THEN <<"at", p + w.offset>>
      ELSE <<"at", p + 1>>
=============================================================================
