---------------------------- MODULE MachineProofs ----------------------------
(***************************************************************************)
(* Programs of translated blocks, for words of any size, any number of     *)
(* registers and any program: the map of blocks runs the program as the    *)
(* architecture's own machine does.  PipelineProofs has one instruction    *)
(* through the optimizer; here come the instruction compiled without it,   *)
(* the recursive definition of the pass over a block, and the run of many  *)
(* blocks.                                                                 *)
(***************************************************************************)
EXTENDS Machine, PipelineProofs

(* The pass over a block does what it says for each instruction, with the  *)
(* table that the ones before have left. *)
LEMMA PassDefined ==
  ASSUME NEW insts, NEW known, Len(insts) \in Nat
  PROVE  LET pass == Pass(insts, known)
         IN  /\ pass[0].known = known
             /\ \A i \in 1 .. Len(insts) : pass[i] = OptStep(insts[i], pass[i - 1].known)
<1> DEFINE first == [inst |-> NoInst, known |-> known]
           Is(f, n) == f = [i \in 0 .. n |-> IF i = 0 THEN first
                                             ELSE OptStep(insts[i], f[i - 1].known)]
           S == {n \in Nat : \E f : Is(f, n)}
<1> HIDE DEF first
<1>1. 0 \in S
  <2> DEFINE f == [i \in 0 .. 0 |-> first]
  <2>1. Is(f, 0)
    OBVIOUS
  <2> QED BY <2>1
<1>2. ASSUME NEW n \in Nat, NEW g, Is(g, n) PROVE \E f : Is(f, n + 1)
  <2> DEFINE f == [i \in 0 .. n + 1 |-> IF i = n + 1 THEN OptStep(insts[n + 1], g[n].known)
                                        ELSE g[i]]
  <2>1. Is(f, n + 1)
    <3>1. ASSUME NEW i \in 0 .. n + 1
          PROVE  f[i] = IF i = 0 THEN first ELSE OptStep(insts[i], f[i - 1].known)
      <4>1. CASE i = 0
        BY <4>1, <1>2
      <4>2. CASE i \in 1 .. n
        BY <4>2, <1>2
      <4>3. CASE i = n + 1
        BY <4>3
      <4> QED BY <4>1, <4>2, <4>3
    <3> QED BY <3>1
  <2> QED BY <2>1
<1>3. \A n \in Nat : n \in S => n + 1 \in S
  <2> HIDE DEF Is
  <2> QED BY <1>2
<1>4. Len(insts) \in S
  <2> HIDE DEF S
  <2> QED BY <1>1, <1>3, Induction
<1>5. Pass(insts, known) = CHOOSE f : Is(f, Len(insts))
  BY DEF Pass, first
<1>6. Is(Pass(insts, known), Len(insts))
  <2> HIDE DEF Is
  <2> QED BY <1>4, <1>5
<1> QED BY <1>6 DEF first

(* Where a block ends. *)
LEMMA SpanIs ==
  ASSUME MachineAssumption, program \in [Addr -> Insts], NEW p \in Addr
  PROVE  /\ Span(p) \in 1 .. ProgramLength - p
         /\ \A i \in 0 .. Span(p) - 2 : ~ Ends(program[p + i])
         /\ Ends(program[p + Span(p) - 1]) \/ p + Span(p) = ProgramLength
<1> DEFINE Stops(n) == Ends(program[p + n - 1]) \/ p + n = ProgramLength
           T == {n \in 1 .. ProgramLength - p : Stops(n)}
           Is(n) == /\ \A i \in 0 .. n - 2 : ~ Ends(program[p + i])
                    /\ Ends(program[p + n - 1]) \/ p + n = ProgramLength
<1>1. ProgramLength - p \in Nat \ {0} /\ p \in Nat
  BY MachineAssumption DEF Addr
<1>2. ProgramLength - p \in T
  BY <1>1
<1>3. PICK m \in T : \A n \in T : m <= n
  <2>1. T \in SUBSET Nat
    BY <1>1
  <2>2. T # {}
    <3> HIDE DEF T
    <3> QED BY <1>2
  <2> HIDE DEF T
  <2> QED BY <2>1, <2>2, Least
<1>4. Is(m)
  <2> SUFFICES ASSUME NEW i \in 0 .. m - 2, Ends(program[p + i]) PROVE FALSE
    BY <1>3
  <2>1. i + 1 \in 1 .. ProgramLength - p /\ p + (i + 1) - 1 = p + i /\ i + 1 < m
    BY <1>1, <1>3
  <2>2. i + 1 \in T
    BY <2>1
  <2>3. m \in Nat
    BY <1>1, <1>3
  <2>4. m <= i + 1
    <3> HIDE DEF T
    <3> QED BY <1>3, <2>2
  <2> QED BY <2>1, <2>3, <2>4
<1>5. Span(p) = CHOOSE n \in 1 .. ProgramLength - p : Is(n)
  BY DEF Span
<1>6. Span(p) \in 1 .. ProgramLength - p /\ Is(Span(p))
  <2>1. m \in 1 .. ProgramLength - p
    BY <1>3
  <2> HIDE DEF Is, T
  <2> QED BY <1>4, <1>5, <2>1
<1> QED BY <1>6
-----------------------------------------------------------------------------
(* An instruction compiled without the optimizer.                          *)

LEMMA NothingKnownSound ==
  ASSUME NEW st_0
  PROVE  NothingKnown \in Known /\ Sound(NothingKnown, st_0)
BY DEF NothingKnown, Known, Sound

(* With nothing known the optimizer changes nothing but data processing.   *)
LEMMA LiftedKept ==
  ASSUME NEW w, WellFormed(w), NEW p,
         w.op \notin DataProcessing \cup DOMAIN VariableShift
  PROVE  OptStep(LiftOneAt(w, p), NothingKnown).inst = LiftOneAt(w, p)
<1> DEFINE i == LiftOneAt(w, p)
           op == i.opcode
           f == i.flags
           a == i.a
           b == i.b
           c == i.c
           Plain(x) == ~ IsGeneral(x) \/ x.r.num \in GPR
<1>1. ASSUME NEW x, Plain(x) PROVE RewriteOperand(x, NothingKnown) = x
  BY <1>1 DEF RewriteOperand, NothingKnown
<1>2. /\ i = IRInst(op, f, a, b, c)
      /\ op \in {"Nop", "Unsupported", "Mov", "Load", "Store", "Branch", "BranchCond", "Ret"}
      /\ op \in {"Nop", "Store", "Branch", "BranchCond"} => ~ IsGeneral(a)
      /\ Plain(b) /\ Plain(c)
  <2>1. CASE w.op \in {"MOVZ", "MOVN"}
    <3>1. i = LiftMoveWide(w)
      BY <2>1 DEF LiftOneAt, Branches
    <3> QED BY <3>1 DEF LiftMoveWide, IRInst, IsGeneral, Imm, None
  <2>2. CASE w.op = "LDR"
    <3>1. i = LiftMem(w)
      BY <2>2 DEF LiftOneAt, Branches
    <3> QED BY <2>2, <3>1 DEF LiftMem, IRInst, IsGeneral, Mem, None
  <2>3. CASE w.op = "STR"
    <3>1. i = LiftMem(w)
      BY <2>3 DEF LiftOneAt, Branches
    <3>2. RegOk(Reg(w.rt, w.width))
      BY <2>3, RegsOk DEF WellFormed
    <3>3. /\ i = IRInst(op, f, a, b, c) /\ op = "Store" /\ ~ IsGeneral(a)
          /\ b = RegOp(Reg(w.rt, w.width)) /\ c = None
      BY <2>3, <3>1 DEF LiftMem, IRInst, IsGeneral, Mem
    <3>4. Plain(RegOp(Reg(w.rt, w.width))) /\ Plain(None)
      BY <3>2 DEF RegOk, IsGeneral, RegOp, None
    <3> HIDE DEF i
    <3> QED BY <3>3, <3>4
  <2>4. CASE w.op \in Branches
    <3> DEFINE q == LiftBranch(w, p)
    <3>1. i = q
      BY <2>4 DEF LiftOneAt, Branches, DataProcessing, VariableShift
    <3>2. w.op \in {"CBZ", "CBNZ"} => RegOk(Reg(w.rt, w.width))
      BY RegsOk DEF WellFormed
    <3>3. /\ q = IRInst(q.opcode, q.flags, q.a, q.b, q.c)
          /\ q.opcode \in {"Branch", "BranchCond", "Ret"}
          /\ q.opcode # "Ret" => ~ IsGeneral(q.a)
          /\ \/ q.b.t \in {"None", "Imm"}
             \/ w.op \in {"CBZ", "CBNZ"} /\ q.b = RegOp(Reg(w.rt, w.width))
          /\ q.c.t \in {"None", "Imm"}
      BY <2>4 DEF LiftBranch, Branches, IRInst, IsGeneral, GuestPc, None, Imm
    <3>4. RegOk(Reg(w.rt, w.width)) => Plain(RegOp(Reg(w.rt, w.width)))
      BY DEF RegOk, IsGeneral, RegOp
    <3>5. \A x : x.t \in {"None", "Imm"} => Plain(x)
      BY DEF IsGeneral
    <3> HIDE DEF i, q, Plain
    <3> QED BY <3>1, <3>2, <3>3, <3>4, <3>5
  <2>5. CASE w.op \notin Branches \cup {"MOVZ", "MOVN", "LDR", "STR"}
    <3>1. \/ i = IRInst("Nop", FALSE, None, None, None)
          \/ i = IRInst("Unsupported", FALSE, None, None, None)
      BY <2>5 DEF LiftOneAt
    <3> QED BY <3>1 DEF IRInst, IsGeneral, None
  <2> QED BY <2>1, <2>2, <2>3, <2>4, <2>5
<1>3. RewriteOperand(b, NothingKnown) = b /\ RewriteOperand(c, NothingKnown) = c
  BY <1>1, <1>2
<1>4. \/ op = "Unsupported" \/ ~ IsGeneral(a)
      \/ IsGeneral(a) /\ op \in {"Mov", "Load", "Ret"}
  BY <1>2
<1>5. OptStep(IRInst(op, f, a, b, c), NothingKnown).inst = IRInst(op, f, a, b, c)
  <2> HIDE DEF op, f, a, b, c
  <2> QED BY <1>3, <1>4, OptStepOf
<1> QED BY <1>2, <1>5

(* Its code does what the architecture says, rotations included.           *)
LEMMA LiftedData ==
  ASSUME NEW g \in GuestState, NEW w, w.op \in DataProcessing, WellFormed(w),
         CanEmit(LiftData(w))
  PROVE  Emitted(LiftData(w), g) = DataStep(w, g) /\ DataStep(w, g) \in GuestState
<1> DEFINE op == Opcode[w.op]
           d == Dest(w)
           b == RegOp(Source(w))
           c == LowerOperand2(w)
           inst == IRInst(op, w.s, RegOp(d), b, c)
           u == ReadReg(g, Source(w))
           v == Operand2(w, g)
           want == Computes(op, w.s, g, d, u, v)
<1>1. /\ op \in Binops /\ w.s \in BOOLEAN /\ w.width \in Widths
      /\ w.s => op \in {"Add", "Sub", "And"}
  BY DEF DataProcessing, Opcode, Binops, WellFormed
<1>2. RegOk(d) /\ d.width = w.width /\ RegOk(Source(w)) /\ Source(w).width = w.width
  BY DestSource
<1>3. /\ inst.opcode = op /\ inst.flags = w.s /\ inst.a = RegOp(d)
      /\ inst.b = b /\ inst.c = c
  BY DEF IRInst
<1>4. want = DataStep(w, g)
  BY <1>2, DataComputes
<1>5. w.rm.t # "ext"
  <2> SUFFICES ASSUME w.rm.t = "ext" PROVE FALSE
    OBVIOUS
  <2>1. c.t = "None"
    BY DEF LowerOperand2, None
  <2>2. CanEmit(inst)
    BY DEF LiftData
  <2> HIDE DEF inst, c
  <2> QED BY <1>1, <1>3, <2>1, <2>2 DEF CanEmit, Loadable, Binops
<1>6. OperandOk(b, w.width) /\ Value(b, g, w.width) = u
  BY <1>2, RegOperand
<1>7. OperandOk(c, w.width) /\ Value(c, g, w.width) = v
  BY <1>5, LoweredOperand
<1>8. inst.a.t = "Reg" /\ inst.a.r = d
  BY <1>3 DEF RegOp
<1> HIDE DEF op, d, b, c, u, v, inst
<1>9. Emitted(inst, g) = want
  BY <1>1, <1>2, <1>3, <1>6, <1>7, <1>8, EmittedBinop
<1>10. u \in SUBSET Bits(d.width) /\ v \in SUBSET Bits(d.width)
  BY <1>1, <1>2, <1>6, <1>7, ValueIsWord
<1>11. want \in GuestState
  BY <1>1, <1>2, <1>10, ComputesState
<1>12. LiftData(w) = inst
  BY DEF LiftData, inst, op, d, b, c
<1> QED BY <1>4, <1>9, <1>11, <1>12

LEMMA LiftedShift ==
  ASSUME NEW g \in GuestState, NEW w, w.op \in DOMAIN VariableShift, WellFormed(w)
  PROVE  /\ Emitted(LiftVariableShift(w), g) = ShiftStep(w, g)
         /\ ShiftStep(w, g) \in GuestState
<1> DEFINE no == FALSE
           width == w.width
           d == Reg(w.rd, width)
           value == Reg(w.rn, width)
           amount == Reg(w.rm, width)
           kind == VariableShift[w.op]
           b == RegOp(value)
           c == ShiftReg(value, amount, kind)
           inst == IRInst("Shift", no, RegOp(d), b, c)
           result == Shift(kind, ReadReg(g, value), Count(ReadReg(g, amount), width), width)
<1>1. width \in Widths /\ kind \in ShiftKinds
  BY DEF WellFormed, VariableShift, ShiftKinds
<1>2. /\ RegOk(d) /\ d.width = width
      /\ RegOk(value) /\ value.width = width
      /\ RegOk(amount) /\ amount.width = width
  BY RegsOk DEF WellFormed
<1>3. LiftVariableShift(w) = inst /\ ShiftStep(w, g) = WriteReg(g, d, result)
  BY DEF LiftVariableShift, ShiftStep
<1>4. c.amount = amount /\ c.kind = kind
  BY DEF ShiftReg
<1> HIDE DEF no, d, value, amount, kind
<1>5. OperandOk(b, width) /\ Value(b, g, width) = ReadReg(g, value)
  BY <1>2, RegOperand
<1>6. inst.opcode = "Shift" /\ inst.a = RegOp(d) /\ inst.b = b /\ inst.c = c
  BY DEF IRInst
<1>7. inst.a.r = d
  BY <1>6 DEF RegOp
<1>8. Emitted(inst, g) = WriteReg(g, d, result)
  <2> HIDE DEF inst, c, b
  <2> QED BY <1>1, <1>2, <1>4, <1>5, <1>6, <1>7, EmittedShift
<1>9. result \in XWord
  BY <1>1, ShiftIsWord, XWords
<1> HIDE DEF result, inst
<1>10. WriteReg(g, d, result) \in GuestState
  BY <1>2, <1>9, WriteRegState
<1> QED BY <1>3, <1>8, <1>10

LEMMA LiftedFollows ==
  ASSUME NEW g \in GuestState, NEW w, WellFormed(w), NEW p, CanEmit(LiftOneAt(w, p))
  PROVE  /\ Emitted(LiftOneAt(w, p), g) = ArmStep(w, g)
         /\ ArmStep(w, g) \in GuestState
<1>1. CASE w.op \in DataProcessing
  <2>1. LiftOneAt(w, p) = LiftData(w) /\ ArmStep(w, g) = DataStep(w, g)
    BY <1>1 DEF LiftOneAt, ArmStep, DataProcessing, VariableShift, Branches
  <2> QED BY <1>1, <2>1, LiftedData
<1>2. CASE w.op \in DOMAIN VariableShift
  <2>1. LiftOneAt(w, p) = LiftVariableShift(w) /\ ArmStep(w, g) = ShiftStep(w, g)
    BY <1>2 DEF LiftOneAt, ArmStep, DataProcessing, VariableShift, Branches
  <2> QED BY <1>2, <2>1, LiftedShift
<1>3. CASE w.op \notin DataProcessing \cup DOMAIN VariableShift
  <2>1. OptStep(LiftOneAt(w, p), NothingKnown).inst = LiftOneAt(w, p)
    BY <1>3, LiftedKept
  <2>2. NothingKnown \in Known /\ Sound(NothingKnown, g)
    BY NothingKnownSound
  <2>3. CanEmit(OptStep(LiftOneAt(w, p), NothingKnown).inst)
    BY <2>1
  <2>4. ~ (w.op = "RORV" /\ w.width = "W32")
    BY <1>3 DEF VariableShift
  <2> DEFINE o == OptStep(LiftOneAt(w, p), NothingKnown)
  <2>5. Follows(o, g, Emitted(o.inst, g)) /\ Emitted(o.inst, g) = ArmStep(w, g)
    BY <2>2, <2>3, <2>4, InstructionFollows
  <2> QED BY <2>1, <2>5 DEF Follows
<1> QED BY <1>1, <1>2, <1>3

(* Both kinds of code end a block at the branches, and at nothing else.    *)
LEMMA LiftedEnds ==
  ASSUME NEW w, WellFormed(w), NEW p
  PROVE  EndsBlock(LiftOneAt(w, p)) <=> w.op \in Branches
<1>1. CASE w.op \in Branches
  <2>1. LiftOneAt(w, p) = LiftBranch(w, p)
    BY <1>1 DEF LiftOneAt, Branches, DataProcessing, VariableShift
  <2> QED BY <1>1, <2>1 DEF LiftBranch, Branches, IRInst, EndsBlock
<1>2. CASE w.op \in DataProcessing
  <2>1. LiftOneAt(w, p) = LiftData(w) /\ w.op \notin Branches
    BY <1>2 DEF LiftOneAt, DataProcessing, VariableShift, Branches
  <2>2. Opcode[w.op] \in Binops
    BY <1>2 DEF DataProcessing, Opcode, Binops
  <2> QED BY <2>1, <2>2 DEF LiftData, IRInst, EndsBlock, Binops
<1>3. CASE w.op \in DOMAIN VariableShift
  <2>1. LiftOneAt(w, p) = LiftVariableShift(w) /\ w.op \notin Branches
    BY <1>3 DEF LiftOneAt, DataProcessing, VariableShift, Branches
  <2> QED BY <2>1 DEF LiftVariableShift, IRInst, EndsBlock
<1>4. CASE w.op \notin Branches \cup DataProcessing \cup DOMAIN VariableShift
  BY <1>4, LiftedKept, OtherDoesNotEnd
<1> QED BY <1>1, <1>2, <1>3, <1>4

LEMMA OptimizedEnds ==
  ASSUME NEW w, NEW p, NEW known
  PROVE  EndsBlock(OptStep(LiftOneAt(w, p), known).inst) <=> w.op \in Branches
<1>1. CASE w.op \in Branches
  <2>1. LiftOneAt(w, p) = LiftBranch(w, p)
    BY <1>1 DEF LiftOneAt, Branches, DataProcessing, VariableShift
  <2>2. LiftBranch(w, p).opcode \in {"Branch", "BranchCond", "Ret"}
    BY <1>1 DEF LiftBranch, Branches, IRInst
  <2>3. OptStep(LiftOneAt(w, p), known).inst.opcode = LiftOneAt(w, p).opcode
    BY <1>1, ControlPasses
  <2> QED BY <1>1, <2>1, <2>2, <2>3 DEF EndsBlock
<1>2. CASE w.op \notin Branches
  BY <1>2, OtherDoesNotEnd
<1> QED BY <1>1, <1>2

(* The code of w at p, without the optimizer or with it.                   *)
CodeOf(c, w, p, known) ==
  \/ c = LiftOneAt(w, p)
  \/ c = OptStep(LiftOneAt(w, p), known).inst

(* A branch goes to some PC, whatever it is. *)
LEMMA ExitIsPc ==
  ASSUME NEW w \in Insts, WellFormed(w), w.op \in Branches, NEW p \in Int, NEW known, NEW c,
         CodeOf(c, w, p, known), CanEmit(c), NEW g, NEW f \in Int
  PROVE  PcOf(ExitPc(c, g, f)) \in Int
<1> DEFINE i == LiftOneAt(w, p)
<1>1. /\ i.opcode \in {"Branch", "BranchCond", "Ret"}
      /\ i.opcode # "Ret" => i.a.pc \in Int
  <2>1. i = LiftBranch(w, p)
    BY DEF LiftOneAt, Branches, DataProcessing, VariableShift
  <2>2. w.op # "RET" => p + w.offset \in Int
    BY DEF WellFormed, Branches
  <2> QED BY <2>1, <2>2 DEF LiftBranch, Branches, IRInst, GuestPc
<1> HIDE DEF i
<1>2. c.opcode = i.opcode /\ c.a = i.a
  BY ControlPasses DEF CodeOf, i
<1>3. CASE c.opcode = "Ret"
  <2>1. ExitPc(c, g, f) = <<"reg", ReadReg(g, Reg(LR, "X64"))>>
    BY <1>3 DEF ExitPc
  <2>2. PcOf(ExitPc(c, g, f)) = Number(ReadReg(g, Reg(LR, "X64")))
    BY <2>1 DEF PcOf
  <2> QED BY <2>2, NumberIsInt
<1>4. CASE c.opcode = "Branch"
  <2>1. ExitPc(c, g, f) = <<"at", c.a.pc>>
    BY <1>4 DEF ExitPc
  <2> QED BY <1>1, <1>2, <1>4, <2>1 DEF PcOf
<1>5. CASE c.opcode = "BranchCond"
  <2> DEFINE target == c.a.pc
             taken == IF c.b.t = "Imm" THEN ConditionHolds(c.b.v, g.nzcv)
                      ELSE (ReadReg(g, c.b.r) = {}) = (c.c.v = 0)
  <2>1. ExitPc(c, g, f) = BranchCode(taken, target, f)
    BY <1>5 DEF ExitPc
  <2>2. taken \in BOOLEAN
    <3>1. CASE c.b.t = "Imm"
      <4>1. c.b.v \in 0 .. 15
        BY <1>5, <3>1 DEF CanEmit, Binops
      <4>2. c.b.v = 15 => ConditionHolds(c.b.v, g.nzcv) = FALSE
        BY DEF ConditionHolds
      <4>3. c.b.v # 15 => ConditionHolds(c.b.v, g.nzcv) \in BOOLEAN
        BY <4>1, ConditionBoolean
      <4> QED BY <3>1, <4>2, <4>3
    <3>2. CASE c.b.t # "Imm"
      BY <3>2
    <3> QED BY <3>1, <3>2
  <2> HIDE DEF taken, target
  <2>3. ExitPc(c, g, f) = <<"at", IF taken THEN target ELSE f>>
    BY <2>1, <2>2, BranchGoes
  <2>4. (IF taken THEN target ELSE f) \in Int
    BY <1>1, <1>2, <1>5 DEF target
  <2> QED BY <2>3, <2>4 DEF PcOf
<1> QED BY <1>1, <1>2, <1>3, <1>4, <1>5

(* What is asked of a program beyond being well-formed: without it the code*)
(* is not what the architecture says.                                      *)
Rotation(w) == w.op = "RORV" /\ w.width = "W32"
Returns(w) == w.op = "RET" => w.rn = LR
Conditional(w) == w.op = "BCOND" => w.cond # 15

(* One instruction of the code. *)
LEMMA CodeRuns ==
  ASSUME NEW w \in Insts, WellFormed(w), NEW p \in Int, NEW known \in Known,
         NEW g \in GuestState, Sound(known, g),
         NEW c, CodeOf(c, w, p, known), CanEmit(c)
  PROVE  /\ Emitted(c, g) \in GuestState
         /\ ~ Rotation(w) => Emitted(c, g) = ArmStep(w, g)
         /\ EndsBlock(c) <=> w.op \in Branches
         /\ EndsBlock(c) => PcOf(ExitPc(c, g, p + 1)) \in Int
         /\ EndsBlock(c) /\ Returns(w) /\ Conditional(w) =>
              ExitPc(c, g, p + 1) = ArmNextPc(w, g, p)
         /\ c = OptStep(LiftOneAt(w, p), known).inst =>
              LET k == OptStep(LiftOneAt(w, p), known).known
              IN  k \in Known /\ Sound(k, Emitted(c, g))
<1> DEFINE o == OptStep(LiftOneAt(w, p), known)
<1>1. EndsBlock(c) <=> w.op \in Branches
  BY LiftedEnds, OptimizedEnds DEF CodeOf
<1>2. EndsBlock(c) => PcOf(ExitPc(c, g, p + 1)) \in Int
  BY <1>1, ExitIsPc
<1>3. ASSUME c = o.inst
      PROVE  /\ Emitted(c, g) \in GuestState
             /\ ~ Rotation(w) => Emitted(c, g) = ArmStep(w, g)
             /\ EndsBlock(c) /\ Returns(w) /\ Conditional(w) =>
                  ExitPc(c, g, p + 1) = ArmNextPc(w, g, p)
             /\ o.known \in Known /\ Sound(o.known, Emitted(c, g))
  <2>1. CanEmit(o.inst)
    BY <1>3
  <2>2. /\ Follows(o, g, Emitted(o.inst, g))
        /\ ~ (w.op = "RORV" /\ w.width = "W32") => Emitted(o.inst, g) = ArmStep(w, g)
    BY <2>1, InstructionFollows
  <2>3. ASSUME EndsBlock(c), Returns(w), Conditional(w)
        PROVE  ExitPc(c, g, p + 1) = ArmNextPc(w, g, p)
    <3>1. (w.op = "RET" => w.rn = LR) /\ (w.op = "BCOND" => w.cond # 15)
      BY <2>3 DEF Returns, Conditional
    <3>2. EndsBlock(o.inst)
      BY <1>3, <2>3
    <3>3. ExitPc(o.inst, g, p + 1) = ArmNextPc(w, g, p)
      BY <2>1, <3>1, <3>2, InstructionExits
    <3> QED BY <1>3, <3>3
  <2> HIDE DEF o
  <2> QED BY <1>3, <2>2, <2>3 DEF Follows, Rotation
<1>4. ASSUME c = LiftOneAt(w, p)
      PROVE  /\ Emitted(c, g) \in GuestState
             /\ Emitted(c, g) = ArmStep(w, g)
             /\ EndsBlock(c) /\ Returns(w) /\ Conditional(w) =>
                  ExitPc(c, g, p + 1) = ArmNextPc(w, g, p)
  <2>1. Emitted(c, g) = ArmStep(w, g) /\ ArmStep(w, g) \in GuestState
    BY <1>4, LiftedFollows
  <2>2. ASSUME EndsBlock(c), Returns(w), Conditional(w)
        PROVE  ExitPc(c, g, p + 1) = ArmNextPc(w, g, p)
    <3> DEFINE q == OptStep(LiftOneAt(w, p), NothingKnown)
    <3>1. (w.op = "RET" => w.rn = LR) /\ (w.op = "BCOND" => w.cond # 15)
      BY <2>2 DEF Returns, Conditional
    <3>2. w.op \notin DataProcessing \cup DOMAIN VariableShift
      BY <1>1, <2>2 DEF Branches, DataProcessing, VariableShift
    <3>3. q.inst = c
      BY <1>4, <3>2, LiftedKept
    <3>4. CanEmit(q.inst) /\ EndsBlock(q.inst)
      BY <2>2, <3>3
    <3>5. NothingKnown \in Known /\ Sound(NothingKnown, g)
      BY NothingKnownSound
    <3>6. ExitPc(q.inst, g, p + 1) = ArmNextPc(w, g, p)
      BY <3>1, <3>4, <3>5, InstructionExits
    <3> QED BY <3>3, <3>6
  <2> QED BY <2>1, <2>2
<1> HIDE DEF o
<1> QED BY <1>1, <1>2, <1>3, <1>4 DEF CodeOf, o
-----------------------------------------------------------------------------
(* The inductive invariant.                                                *)

(* The constants the pass over the block at p held before instruction i+1. *)
Table(p, i) == Pass(LiftBlock(p), NothingKnown)[i].known

(* Every block is one of the two translations of the program at its PC,    *)
(* and could be emitted.                                                   *)
Translations ==
  \A p \in DOMAIN blocks :
    /\ blocks[p] \in {LiftBlock(p), Prepare(LiftBlock(p))}
    /\ \A i \in DOMAIN blocks[p] : CanEmit(blocks[p][i])

(* In the middle of an optimized block, what the pass knew there is true   *)
(* of the registers now, whatever they held when the block was entered.    *)
TablesHold ==
  ip > 0 /\ Code = Prepare(LiftBlock(pc)) =>
    Table(pc, ip - 1) \in Known /\ Sound(Table(pc, ip - 1), st)

IInv == TypeOK /\ Translations /\ TablesHold

LEMMA LiftBlockIs ==
  ASSUME program \in [Addr -> Insts], NEW p \in Addr
  PROVE  /\ DOMAIN LiftBlock(p) = 1 .. Span(p) /\ Len(LiftBlock(p)) = Span(p)
         /\ Span(p) \in Nat \ {0} /\ p + Span(p) <= ProgramLength
         /\ \A i \in 1 .. Span(p) : LiftBlock(p)[i] = LiftOneAt(program[p + i - 1], p + i - 1)
<1>1. Span(p) \in 1 .. ProgramLength - p
  BY MachineAssumption, SpanIs
<1>2. p \in Nat /\ ProgramLength \in Nat
  BY MachineAssumption DEF Addr
<1> HIDE DEF Span
<1> QED BY <1>1, <1>2 DEF LiftBlock

LEMMA PreparedIs ==
  ASSUME program \in [Addr -> Insts], NEW p \in Addr
  PROVE  LET code == Prepare(LiftBlock(p))
         IN  /\ DOMAIN code = 1 .. Span(p) /\ Len(code) = Span(p)
             /\ Table(p, 0) = NothingKnown
             /\ \A i \in 1 .. Span(p) :
                  LET o == OptStep(LiftOneAt(program[p + i - 1], p + i - 1), Table(p, i - 1))
                  IN  code[i] = o.inst /\ Table(p, i) = o.known
<1> DEFINE n == Span(p)
           b == LiftBlock(p)
           pass == Pass(b, NothingKnown)
           code == Prepare(b)
<1>1. /\ DOMAIN b = 1 .. n /\ Len(b) = n /\ n \in Nat
      /\ \A i \in 1 .. n : b[i] = LiftOneAt(program[p + i - 1], p + i - 1)
  BY LiftBlockIs
<1>2. \A i : Table(p, i) = pass[i].known
  BY DEF Table
<1> HIDE DEF b, n
<1>3. /\ pass[0].known = NothingKnown
      /\ \A i \in 1 .. n : pass[i] = OptStep(b[i], pass[i - 1].known)
  BY <1>1, PassDefined
<1> HIDE DEF pass
<1>4. code = [i \in 1 .. n |-> pass[i].inst]
  BY <1>1 DEF Prepare, Optimize, pass
<1>5. DOMAIN code = 1 .. n /\ Len(code) = n /\ \A i \in 1 .. n : code[i] = pass[i].inst
  BY <1>1, <1>4
<1> HIDE DEF code
<1>6. /\ DOMAIN code = 1 .. n /\ Len(code) = n
      /\ Table(p, 0) = NothingKnown
      /\ \A i \in 1 .. n :
            /\ code[i] = OptStep(LiftOneAt(program[p + i - 1], p + i - 1), Table(p, i - 1)).inst
            /\ Table(p, i) = OptStep(LiftOneAt(program[p + i - 1], p + i - 1), Table(p, i - 1)).known
  BY <1>1, <1>2, <1>3, <1>5
<1> QED BY <1>6 DEF code, b, n

(* Either translation, instruction by instruction. *)
LEMMA BlockIs ==
  ASSUME IInv, NEW p \in DOMAIN blocks
  PROVE  /\ p \in Addr /\ Len(blocks[p]) = Span(p) /\ DOMAIN blocks[p] = 1 .. Span(p)
         /\ Span(p) \in Nat \ {0} /\ p + Span(p) <= ProgramLength
         /\ \A i \in 1 .. Span(p) :
              /\ CanEmit(blocks[p][i])
              /\ CodeOf(blocks[p][i], program[p + i - 1], p + i - 1, Table(p, i - 1))
<1>1. p \in Addr /\ program \in [Addr -> Insts]
  BY DEF IInv, TypeOK
<1>2. blocks[p] \in {LiftBlock(p), Prepare(LiftBlock(p))}
      /\ \A i \in DOMAIN blocks[p] : CanEmit(blocks[p][i])
  BY DEF IInv, Translations
<1>3. CASE blocks[p] = LiftBlock(p)
  BY <1>1, <1>2, <1>3, LiftBlockIs DEF CodeOf
<1>4. CASE blocks[p] = Prepare(LiftBlock(p))
  BY <1>1, <1>2, <1>4, LiftBlockIs, PreparedIs DEF CodeOf
<1> QED BY <1>2, <1>3, <1>4

(* The instruction that runs next, and its code. *)
LEMMA NextInstruction ==
  ASSUME IInv, ip > 0
  PROVE  LET p == pc + ip - 1
             w == program[p]
             c == Code[ip]
         IN  /\ p \in Addr /\ w \in Insts /\ WellFormed(w) /\ pc \in Addr
             /\ ip \in 1 .. Span(pc) /\ Len(Code) = Span(pc)
             /\ CanEmit(c) /\ CodeOf(c, w, p, Table(pc, ip - 1))
<1>1. pc \in DOMAIN blocks /\ ip \in Nat /\ ip <= Len(Code)
  BY DEF IInv, TypeOK
<1>2. /\ pc \in Addr /\ Len(Code) = Span(pc) /\ Span(pc) \in Nat
      /\ pc + Span(pc) <= ProgramLength
      /\ \A i \in 1 .. Span(pc) :
            /\ CanEmit(Code[i])
            /\ CodeOf(Code[i], program[pc + i - 1], pc + i - 1, Table(pc, i - 1))
  BY <1>1, BlockIs DEF Code
<1>3. ip \in 1 .. Span(pc) /\ pc + ip - 1 \in Addr
  BY <1>1, <1>2, MachineAssumption DEF Addr
<1>4. program[pc + ip - 1] \in Insts
  BY <1>3 DEF IInv, TypeOK
<1> QED BY <1>2, <1>3, <1>4, MachineAssumption

(* What running it does, in either kind of block.                          *)
LEMMA NextRuns ==
  ASSUME IInv, ip > 0
  PROVE  LET p == pc + ip - 1
             w == program[p]
             c == Code[ip]
             g == Emitted(c, st)
         IN  /\ g \in GuestState
             /\ ~ Rotation(w) => g = ArmStep(w, st)
             /\ EndsBlock(c) <=> w.op \in Branches
             /\ EndsBlock(c) => PcOf(ExitPc(c, st, pc + ip)) \in Int
             /\ EndsBlock(c) /\ Returns(w) /\ Conditional(w) =>
                  ExitPc(c, st, pc + ip) = ArmNextPc(w, st, p)
             /\ Code = Prepare(LiftBlock(pc)) =>
                  Table(pc, ip) \in Known /\ Sound(Table(pc, ip), g)
<1> DEFINE p == pc + ip - 1
           w == program[p]
           c == Code[ip]
           g == Emitted(c, st)
<1>1. /\ p \in Int /\ w \in Insts /\ WellFormed(w) /\ pc \in Addr
      /\ ip \in 1 .. Span(pc)
      /\ CanEmit(c) /\ CodeOf(c, w, p, Table(pc, ip - 1))
  BY NextInstruction DEF Addr
<1>2. p + 1 = pc + ip
  BY <1>1, MachineAssumption DEF Addr, IInv, TypeOK
<1>3. st \in GuestState /\ program \in [Addr -> Insts]
  BY DEF IInv, TypeOK
<1>4. CASE Code = Prepare(LiftBlock(pc))
  <2> DEFINE known == Table(pc, ip - 1)
             o == OptStep(LiftOneAt(w, p), known)
  <2>1. known \in Known /\ Sound(known, st)
    BY <1>4 DEF IInv, TablesHold
  <2>2. c = o.inst /\ Table(pc, ip) = o.known
    BY <1>1, <1>3, <1>4, PreparedIs
  <2> HIDE DEF known, p, w, c
  <2>3. CodeOf(c, w, p, known)
    BY <2>2 DEF CodeOf
  <2>4. /\ Emitted(c, st) \in GuestState
        /\ ~ Rotation(w) => Emitted(c, st) = ArmStep(w, st)
        /\ EndsBlock(c) <=> w.op \in Branches
        /\ EndsBlock(c) => PcOf(ExitPc(c, st, p + 1)) \in Int
        /\ EndsBlock(c) /\ Returns(w) /\ Conditional(w) =>
             ExitPc(c, st, p + 1) = ArmNextPc(w, st, p)
        /\ c = o.inst => o.known \in Known /\ Sound(o.known, Emitted(c, st))
    BY <1>1, <1>3, <2>1, <2>3, CodeRuns
  <2> HIDE DEF o
  <2> QED BY <1>2, <2>2, <2>4 DEF p, w, c
<1>5. CASE Code # Prepare(LiftBlock(pc))
  <2>1. NothingKnown \in Known /\ Sound(NothingKnown, st)
    BY NothingKnownSound
  <2>2. Code = LiftBlock(pc)
    BY <1>5 DEF IInv, Translations, TypeOK, Code
  <2>3. c = LiftOneAt(w, p)
    BY <1>1, <1>3, <2>2, LiftBlockIs
  <2> HIDE DEF p, w, c
  <2>4. CodeOf(c, w, p, NothingKnown)
    BY <2>3 DEF CodeOf
  <2>5. /\ Emitted(c, st) \in GuestState
        /\ ~ Rotation(w) => Emitted(c, st) = ArmStep(w, st)
        /\ EndsBlock(c) <=> w.op \in Branches
        /\ EndsBlock(c) => PcOf(ExitPc(c, st, p + 1)) \in Int
        /\ EndsBlock(c) /\ Returns(w) /\ Conditional(w) =>
             ExitPc(c, st, p + 1) = ArmNextPc(w, st, p)
    BY <1>1, <1>3, <2>1, <2>4, CodeRuns
  <2> QED BY <1>2, <1>5, <2>5 DEF p, w, c
<1> QED BY <1>4, <1>5

LEMMA InitInv == Init => IInv
<1> SUFFICES ASSUME Init PROVE IInv
  OBVIOUS
<1>1. TypeOK
  BY MachineAssumption DEF Init, TypeOK, Addr
<1> QED BY <1>1 DEF IInv, Init, Translations, TablesHold

(* The translations depend on nothing but the program. *)
LEMMA SameBlocks ==
  ASSUME program' = program
  PROVE  \A p : LiftBlock(p)' = LiftBlock(p) /\ Prepare(LiftBlock(p))' = Prepare(LiftBlock(p))
<1>1. \A p : LiftBlock(p)' = LiftBlock(p)
  BY DEF LiftBlock, Span
<1>2. ASSUME NEW p PROVE Prepare(LiftBlock(p))' = Prepare(LiftBlock(p))
  BY DEF LiftBlock, Span, Prepare, Optimize, Pass
<1> QED BY <1>1, <1>2

LEMMA SameTranslations ==
  ASSUME Translations, program' = program, blocks' = blocks
  PROVE  Translations'
BY SameBlocks DEF Translations

LEMMA CompileInv ==
  ASSUME IInv, NEW p \in Addr, NEW prepare \in BOOLEAN, Compile(p, prepare)
  PROVE  IInv'
<1> DEFINE code == IF prepare THEN Prepare(LiftBlock(p)) ELSE LiftBlock(p)
<1>1. /\ \A i \in DOMAIN code : CanEmit(code[i])
      /\ blocks' = [q \in DOMAIN blocks \cup {p} |-> IF q = p THEN code ELSE blocks[q]]
      /\ ip = 0 /\ ip' = 0
      /\ program' = program /\ pc' = pc /\ st' = st
  BY DEF Compile
<1>2. program \in [Addr -> Insts]
  BY DEF IInv, TypeOK
<1>3. code \in {LiftBlock(p), Prepare(LiftBlock(p))} /\ p + Len(code) <= ProgramLength
  BY <1>2, LiftBlockIs, PreparedIs
<1> HIDE DEF code
<1>4. TypeOK'
  BY <1>1, <1>3 DEF IInv, TypeOK
<1>5. \A q : LiftBlock(q)' = LiftBlock(q) /\ Prepare(LiftBlock(q))' = Prepare(LiftBlock(q))
  BY <1>1, SameBlocks
<1>6. Translations'
  <2> SUFFICES ASSUME NEW q \in DOMAIN blocks'
               PROVE  /\ blocks'[q] \in {LiftBlock(q)', Prepare(LiftBlock(q))'}
                      /\ \A i \in DOMAIN blocks'[q] : CanEmit(blocks'[q][i])
    BY DEF Translations
  <2>1. CASE q = p
    BY <1>1, <1>3, <1>5, <2>1
  <2>2. CASE q # p
    BY <1>1, <1>5, <2>2 DEF IInv, Translations
  <2> QED BY <2>1, <2>2
<1>7. TablesHold'
  BY <1>1 DEF TablesHold
<1> QED BY <1>4, <1>6, <1>7 DEF IInv

LEMMA EnterInv == IInv /\ Enter => IInv'
<1> SUFFICES ASSUME IInv, Enter PROVE IInv'
  OBVIOUS
<1>1. /\ pc \in DOMAIN blocks /\ ip' = 1 /\ UNCHANGED <<program, pc, st, blocks>>
  BY DEF Enter
<1>2. Len(Code) = Span(pc) /\ Span(pc) \in Nat \ {0} /\ pc \in Addr
  BY <1>1, BlockIs DEF Code
<1>3. TypeOK'
  <2>1. Code' = Code
    BY <1>1 DEF Code
  <2>2. 1 <= Len(Code)
    BY <1>2
  <2> HIDE DEF Code
  <2> QED BY <1>1, <2>1, <2>2 DEF IInv, TypeOK
<1>4. Translations'
  BY <1>1, SameTranslations DEF IInv
<1>5. Table(pc, ip - 1)' = Table(pc, 0)
  <2>1. LiftBlock(pc)' = LiftBlock(pc)
    BY <1>1 DEF LiftBlock, Span
  <2> QED BY <1>1, <2>1 DEF Table, Pass
<1>6. Table(pc, 0) = NothingKnown
  BY <1>2, PreparedIs DEF IInv, TypeOK
<1>7. TablesHold'
  <2>1. Table(pc, ip - 1)' \in Known /\ Sound(Table(pc, ip - 1)', st')
    BY <1>5, <1>6, NothingKnownSound
  <2> QED BY <2>1 DEF TablesHold
<1> QED BY <1>3, <1>4, <1>7 DEF IInv

LEMMA ExecuteInv == IInv /\ Execute => IInv'
<1> SUFFICES ASSUME IInv, Execute PROVE IInv'
  OBVIOUS
<1> DEFINE c == Code[ip]
<1>1. /\ ip > 0 /\ st' = Emitted(c, st) /\ program' = program /\ blocks' = blocks
      /\ IF ip < Len(Code) THEN ip' = ip + 1 /\ pc' = pc
         ELSE /\ ip' = 0
              /\ pc' = IF EndsBlock(c) THEN PcOf(ExitPc(c, st, pc + ip))
                       ELSE pc + ByteLen(Code)
  BY DEF Execute
<1>2. /\ pc \in Addr /\ ip \in 1 .. Span(pc) /\ Len(Code) = Span(pc)
  BY <1>1, NextInstruction
<1>3. /\ Emitted(c, st) \in GuestState
      /\ EndsBlock(c) => PcOf(ExitPc(c, st, pc + ip)) \in Int
      /\ Code = Prepare(LiftBlock(pc)) =>
           Table(pc, ip) \in Known /\ Sound(Table(pc, ip), Emitted(c, st))
  BY <1>1, NextRuns
<1>4. Span(pc) \in Nat /\ pc \in Int /\ ip \in Nat
  BY <1>2, MachineAssumption, SpanIs DEF Addr, IInv, TypeOK
<1> HIDE DEF c
<1>5. pc' \in Int /\ ip' \in Nat
  BY <1>1, <1>2, <1>3, <1>4 DEF ByteLen
<1>6. ip' > 0 => pc' = pc /\ ip' = ip + 1 /\ ip' <= Len(Code)
  BY <1>1, <1>2, <1>4
<1>7. pc' = pc => Code' = Code
  BY <1>1 DEF Code
<1>8. ip > 0 => pc \in DOMAIN blocks
  BY DEF IInv, TypeOK
<1>9. TypeOK'
  <2> HIDE DEF Code
  <2> QED BY <1>1, <1>3, <1>5, <1>6, <1>7, <1>8 DEF IInv, TypeOK
<1>10. Translations'
  BY <1>1, SameTranslations DEF IInv
<1>11. TablesHold'
  <2> SUFFICES ASSUME ip' > 0, Code' = Prepare(LiftBlock(pc))'
               PROVE  Table(pc, ip - 1)' \in Known /\ Sound(Table(pc, ip - 1)', st')
    BY DEF TablesHold
  <2>1. pc' = pc /\ ip' - 1 = ip
    BY <1>4, <1>6
  <2>2. LiftBlock(pc)' = LiftBlock(pc)
    BY <1>1, <2>1 DEF LiftBlock, Span
  <2>3. Prepare(LiftBlock(pc))' = Prepare(LiftBlock(pc))
    BY <2>2 DEF Prepare, Optimize, Pass
  <2>4. Code = Prepare(LiftBlock(pc))
    BY <1>7, <2>1, <2>3
  <2>5. Table(pc, ip - 1)' = Table(pc, ip)
    BY <2>1, <2>2 DEF Table, Pass
  <2> QED BY <1>1, <1>3, <2>4, <2>5
<1> QED BY <1>9, <1>10, <1>11 DEF IInv

LEMMA StepInv == IInv /\ [Next]_mvars => IInv'
<1> SUFFICES ASSUME IInv, [Next]_mvars PROVE IInv'
  OBVIOUS
<1>1. CASE UNCHANGED mvars
  <2>1. /\ program' = program /\ pc' = pc /\ st' = st /\ blocks' = blocks /\ ip' = ip
    BY <1>1 DEF mvars
  <2>2. TypeOK'
    BY <2>1 DEF IInv, TypeOK, Code
  <2>3. Translations'
    BY <2>1, SameTranslations DEF IInv
  <2>4. Code' = Code /\ LiftBlock(pc)' = LiftBlock(pc)
    BY <2>1 DEF Code, LiftBlock, Span
  <2>5. Prepare(LiftBlock(pc))' = Prepare(LiftBlock(pc))
    BY <2>4 DEF Prepare, Optimize, Pass
  <2>6. Table(pc, ip - 1)' = Table(pc, ip - 1)
    BY <2>1, <2>4 DEF Table, Pass
  <2>7. TablesHold'
    BY <2>1, <2>4, <2>5, <2>6 DEF IInv, TablesHold
  <2> QED BY <2>2, <2>3, <2>7 DEF IInv
<1> QED BY <1>1, CompileInv, EnterInv, ExecuteInv DEF Next

(* The map holds the program's own code, and the tables it was optimized   *)
(* with are true whenever they are relied on (dispatch.rs:31-36).          *)
THEOREM Invariance == Spec => []IInv
BY InitInv, StepInv, PTL DEF Spec

(* The state of the machine keeps its types: every block lies within the   *)
(* program, a run is at an instruction of a block that is there, and no    *)
(* register or memory cell holds more than its width.                      *)
THEOREM TypeCorrect == Spec => []TypeOK
<1>1. IInv => TypeOK
  BY DEF IInv
<1> QED BY <1>1, Invariance, PTL
-----------------------------------------------------------------------------
(* The architecture's own machine. *)

LEMMA LinkRead ==
  ASSUME NEW g \in GuestState
  PROVE  ReadReg(g, Reg(LR, "X64")) = g.x[LR]
<1>1. Reg(LR, "X64").kind = "General" /\ Reg(LR, "X64").num = LR
      /\ Reg(LR, "X64").width = "X64"
  BY LRAssumption DEF Reg, R31
<1>2. g.x[LR] \in XWord
  BY LRAssumption DEF GuestState, GPR
<1>3. Mask(g.x[LR], "X64") = g.x[LR]
  BY <1>2 DEF Mask, XWord
<1> HIDE DEF XWord
<1> QED BY <1>1, <1>3 DEF ReadReg

(* ArmNextPc in the terms of Guest. *)
LEMMA WhereArmGoes ==
  ASSUME NEW w \in Insts, WellFormed(w), Returns(w), NEW g \in GuestState, NEW p \in Int
  PROVE  LET next == PcOf(ArmNextPc(w, g, p))
             k == GuestWord(w)
         IN  /\ k.k = "B" => next = p + k.o
             /\ k.k = "Bcond" => next = IF ArmTaken(k, g) THEN p + k.o ELSE p + 1
             /\ k.k = "RET" => next = X30(g)
             /\ w.op \notin Branches => k.k \notin {"B", "Bcond", "RET"}
<1>1. CASE w.op = "B"
  <2>1. ArmNextPc(w, g, p) = <<"at", p + w.offset>>
    BY <1>1 DEF ArmNextPc
  <2>2. GuestWord(w).k = "B" /\ GuestWord(w).o = w.offset
    BY <1>1 DEF GuestWord, Kind
  <2> QED BY <1>1, <2>1, <2>2 DEF PcOf, Branches
<1>2. CASE w.op \in {"BCOND", "CBZ", "CBNZ"}
  <2> DEFINE taken == CASE w.op = "BCOND" -> Condition(w.cond, g.nzcv)
                        [] w.op = "CBZ"   -> ReadReg(g, Reg(w.rt, w.width)) = {}
                        [] w.op = "CBNZ"  -> ReadReg(g, Reg(w.rt, w.width)) # {}
  <2>1. \A q : ArmNextPc(w, g, q) = <<"at", IF taken THEN q + w.offset ELSE q + 1>>
    BY <1>2 DEF ArmNextPc
  <2>2. ArmNextPc([op |-> "NOP"], g, 0) = <<"at", 0 + 1>>
    BY DEF ArmNextPc
  <2>3. GuestWord(w).k = "Bcond" /\ GuestWord(w).o = w.offset /\ GuestWord(w).inst = w
    BY <1>2 DEF GuestWord, Kind
  <2>4. w.offset \in Int
    BY <1>2 DEF WellFormed
  <2> HIDE DEF taken
  <2>5. ArmTaken(GuestWord(w), g) <=> (IF taken THEN w.offset ELSE 1) # 1
    BY <2>1, <2>2, <2>3, <2>4 DEF ArmTaken
  <2>6. PcOf(ArmNextPc(w, g, p)) = IF taken THEN p + w.offset ELSE p + 1
    BY <2>1 DEF PcOf
  <2>7. PcOf(ArmNextPc(w, g, p)) = IF ArmTaken(GuestWord(w), g) THEN p + w.offset ELSE p + 1
    BY <2>4, <2>5, <2>6
  <2>8. w.op \in Branches
    BY <1>2 DEF Branches
  <2> QED BY <2>3, <2>7, <2>8
<1>3. CASE w.op = "RET"
  <2>1. ArmNextPc(w, g, p) = <<"reg", ReadReg(g, Reg(LR, "X64"))>>
    BY <1>3 DEF ArmNextPc, Returns
  <2>2. PcOf(ArmNextPc(w, g, p)) = X30(g)
    BY <2>1, LinkRead DEF PcOf, X30
  <2>3. GuestWord(w).k = "RET"
    BY <1>3 DEF GuestWord, Kind
  <2> QED BY <1>3, <2>2, <2>3 DEF Branches
<1>4. CASE w.op \notin Branches
  <2>1. GuestWord(w).k = "Plain"
    BY <1>4 DEF GuestWord, Kind, Branches
  <2> QED BY <2>1
<1> QED BY <1>1, <1>2, <1>3, <1>4 DEF Branches

LEMMA GuestInit == Init => G!Init
<1> SUFFICES ASSUME Init PROVE G!Init
  OBVIOUS
<1>1. ArmPc = pc /\ pc \in Int /\ st \in GuestState
  BY MachineAssumption DEF Init, ArmPc, Addr
<1>2. program \in [Addr -> Insts] /\ Addr = G!Addr
  BY MachineAssumption DEF Init, Addr, G!Addr
<1>3. ArmMem \in G!Memory
  BY <1>2 DEF ArmMem, G!Memory
<1>4. ArmHeld = [a \in G!Addr |-> {ArmMem[a]}]
  BY <1>2 DEF ArmHeld, ArmMem
<1> QED BY <1>1, <1>3, <1>4 DEF G!Init

LEMMA GuestExecute ==
  ASSUME IInv, Execute, \A w \in Insts : ~ Rotation(w) /\ Returns(w) /\ Conditional(w)
  PROVE  G!Next
<1> DEFINE p == pc + ip - 1
           w == program[p]
           c == Code[ip]
           k == GuestWord(w)
<1>1. /\ ip > 0 /\ st' = Emitted(c, st) /\ program' = program
      /\ IF ip < Len(Code) THEN ip' = ip + 1 /\ pc' = pc
         ELSE /\ ip' = 0
              /\ pc' = IF EndsBlock(c) THEN PcOf(ExitPc(c, st, pc + ip))
                       ELSE pc + ByteLen(Code)
  BY DEF Execute
<1>2. /\ p \in Addr /\ w \in Insts /\ WellFormed(w) /\ pc \in Addr
      /\ ip \in 1 .. Span(pc) /\ Len(Code) = Span(pc)
  BY <1>1, NextInstruction
<1>3. /\ Emitted(c, st) = ArmStep(w, st)
      /\ EndsBlock(c) <=> w.op \in Branches
      /\ EndsBlock(c) => ExitPc(c, st, pc + ip) = ArmNextPc(w, st, p)
  BY <1>1, <1>2, NextRuns
<1>4. program \in [Addr -> Insts] /\ st \in GuestState /\ pc \in Int /\ ip \in Nat
      /\ Addr = G!Addr /\ Addr \subseteq Int /\ Span(pc) \in Nat
  BY <1>2, MachineAssumption, SpanIs DEF IInv, TypeOK, Addr, G!Addr
<1>5. /\ p = ArmPc /\ p + 1 = pc + ip
  BY <1>1, <1>4 DEF ArmPc
<1>6. ip < Len(Code) => w.op \notin Branches
  <2> SUFFICES ASSUME ip < Span(pc) PROVE ~ Ends(w)
    BY <1>2 DEF Ends
  <2>1. ip - 1 \in 0 .. Span(pc) - 2 /\ pc + (ip - 1) = p
    BY <1>4, <1>2
  <2>2. \A i \in 0 .. Span(pc) - 2 : ~ Ends(program[pc + i])
    BY <1>2, <1>4, MachineAssumption, SpanIs
  <2> HIDE DEF Ends, p
  <2> QED BY <2>1, <2>2
<1>7. /\ k.k = "B" => PcOf(ArmNextPc(w, st, p)) = p + k.o
      /\ k.k = "Bcond" => PcOf(ArmNextPc(w, st, p)) = IF ArmTaken(k, st) THEN p + k.o ELSE p + 1
      /\ k.k = "RET" => PcOf(ArmNextPc(w, st, p)) = X30(st)
      /\ w.op \notin Branches => k.k \notin {"B", "Bcond", "RET"}
  BY <1>2, <1>4, WhereArmGoes
<1>8. w.op \in Branches => k.k \in {"B", "Bcond", "RET"}
  BY DEF Branches, GuestWord, Kind
<1> HIDE DEF c, w, k, p
<1>9. ArmPc' = IF w.op \in Branches THEN PcOf(ArmNextPc(w, st, p)) ELSE p + 1
  <2>1. CASE ip < Len(Code)
    <3>1. ArmPc' = pc + ip
      BY <1>1, <1>4, <2>1 DEF ArmPc
    <3> QED BY <1>5, <1>6, <2>1, <3>1
  <2>2. CASE ~ (ip < Len(Code))
    <3>1. ip' = 0
      BY <1>1, <2>2
    <3>2. ip = Len(Code)
      BY <1>2, <1>4, <2>2
    <3>3. pc' = IF w.op \in Branches THEN PcOf(ArmNextPc(w, st, p)) ELSE p + 1
      BY <1>1, <1>3, <1>5, <2>2, <3>2 DEF ByteLen
    <3>4. pc' \in Int
      BY ExecuteInv DEF IInv, TypeOK
    <3>5. pc' + 0 = pc'
      <4> DEFINE x == pc'
      <4>1. x \in Int
        BY <3>4
      <4> HIDE DEF x
      <4>2. x + 0 = x
        BY <4>1
      <4> QED BY <4>2 DEF x
    <3>6. ArmPc' = pc'
      BY <3>1, <3>5 DEF ArmPc
    <3> QED BY <3>3, <3>6
  <2> QED BY <2>1, <2>2
<1>10. ArmPc' = G!NextPc(k)
  BY <1>5, <1>7, <1>8, <1>9 DEF G!NextPc
<1>11. k.k \in {"Plain", "B", "Bcond", "RET"} /\ k.inst = w
  BY DEF k, GuestWord, Kind
<1>12. k \in {GuestWord(v) : v \in Insts} /\ ArmHeld[p] = {k}
  BY <1>2 DEF k, w, ArmHeld
<1>13. st' = ArmEffect(k, st)
  BY <1>1, <1>3, <1>11 DEF ArmEffect
<1>14. ArmMem' = ArmMem /\ ArmHeld' = ArmHeld
  BY <1>1 DEF ArmMem, ArmHeld
<1>15. ArmMem' = G!MemEffect(k, st, ArmMem)
  BY <1>4, <1>14 DEF G!MemEffect, NoStores, ArmMem
<1>16. ArmHeld' = [a \in G!Addr |-> ArmHeld[a] \cup {ArmMem'[a]}]
  BY <1>4, <1>14 DEF ArmHeld, ArmMem
<1>17. G!Execute(k)
  BY <1>5, <1>10, <1>11, <1>12, <1>13, <1>15, <1>16 DEF G!Execute, G!Lowered
<1> QED BY <1>2, <1>4, <1>5, <1>12, <1>17 DEF G!Next

LEMMA GuestStep ==
  ASSUME \A w \in Insts : ~ Rotation(w) /\ Returns(w) /\ Conditional(w)
  PROVE  IInv /\ [Next]_mvars => [G!Next]_(G!gvars)
<1> SUFFICES ASSUME IInv, [Next]_mvars PROVE G!Next \/ UNCHANGED G!gvars
  OBVIOUS
<1> USE DEF G!gvars, ArmMem, ArmHeld
<1>1. CASE UNCHANGED mvars
  BY <1>1 DEF mvars, ArmPc
<1>2. ASSUME NEW p \in Addr, NEW prepare \in BOOLEAN, Compile(p, prepare)
      PROVE  UNCHANGED G!gvars
  BY <1>2 DEF Compile, ArmPc
<1>3. CASE Enter
  <2>1. ArmPc' = ArmPc
    BY <1>3 DEF Enter, ArmPc, IInv, TypeOK
  <2> QED BY <1>3, <2>1 DEF Enter
<1>4. CASE Execute
  BY <1>4, GuestExecute
<1> QED BY <1>1, <1>2, <1>3, <1>4 DEF Next

(* Translated code runs the program as the architecture does, for every    *)
(* program, word size and number of registers: whatever state a block was  *)
(* compiled in and is entered in, optimized or not, however often it is    *)
(* compiled again (dispatch.rs:24-58, jit/mod.rs:18).  The hypotheses are  *)
(* the three instructions that the passes change: the 32-bit rotation by a *)
(* register, a return through another register than X30, and B.NV.         *)
THEOREM Refinement ==
  ASSUME \A w \in Insts : ~ Rotation(w) /\ Returns(w) /\ Conditional(w)
  PROVE  Spec => RunsTheProgram
BY Invariance, GuestInit, GuestStep, PTL DEF Spec, RunsTheProgram, G!Spec
=============================================================================
