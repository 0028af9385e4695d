--------------------------- MODULE TranslatorProofs ---------------------------
(***************************************************************************)
(* The translation of a block, for words of any size, any number of        *)
(* registers, any set of instructions and blocks of any length: what the   *)
(* optimizer holds to be constant is the value of the register, the code   *)
(* does what the architecture says, and it leaves where the architecture   *)
(* goes.  The work of one instruction is in PipelineProofs; here it is     *)
(* carried through the block.                                              *)
(***************************************************************************)
EXTENDS Translator, PipelineProofs

IInv == TypeOK /\ ConstantsSound

LEMMA InitInv == Init => IInv
<1> SUFFICES ASSUME Init PROVE IInv
  OBVIOUS
<1> USE TranslatorAssumption DEF Init
<1>1. NothingKnown \in Known /\ \A r \in GPR : NothingKnown[r] = NoConst
  BY DEF NothingKnown, Known
<1>2. TypeOK
  BY <1>1 DEF TypeOK, NoInst
<1>3. ConstantsSound
  BY <1>1 DEF ConstantsSound
<1> QED BY <1>2, <1>3 DEF IInv

(* An instruction of the block, through all the passes. *)
LEMMA Passes ==
  ASSUME IInv, NEW w \in Insts, CanEmit(Optimized(w).inst)
  PROVE  LET o == Optimized(w)
         IN  /\ Emitted(o.inst, st) \in GuestState
             /\ o.known \in Known
             /\ Sound(o.known, Emitted(o.inst, st))
             /\ ~ (w.op = "RORV" /\ w.width = "W32") => Emitted(o.inst, st) = ArmStep(w, st)
<1>1. known \in Known /\ st \in GuestState /\ Sound(known, st)
  BY DEF IInv, TypeOK, ConstantsSound, Sound
<1>2. WellFormed(w)
  BY TranslatorAssumption
<1>3. Optimized(w) = OptStep(LiftOneAt(w, slot), known)
  BY DEF Optimized, Lifted
<1> DEFINE o == OptStep(LiftOneAt(w, slot), known)
<1>4. CanEmit(o.inst)
  BY <1>3
<1>5. /\ Follows(o, st, Emitted(o.inst, st))
      /\ ~ (w.op = "RORV" /\ w.width = "W32") => Emitted(o.inst, st) = ArmStep(w, st)
  BY <1>1, <1>2, <1>4, InstructionFollows
<1> HIDE DEF o
<1> QED BY <1>3, <1>5 DEF Follows, o

LEMMA InstructionInv ==
  ASSUME IInv, NEW w \in Insts, Instruction(w)
  PROVE  IInv'
<1>1. /\ stage = "open" /\ slot < MaxSlots
      /\ CanEmit(Optimized(w).inst)
      /\ st' = Emitted(Optimized(w).inst, st)
      /\ known' = Optimized(w).known
      /\ slot' = slot + 1 /\ inst' = w /\ stage' \in {"open", "left"}
      /\ why' = why
  BY DEF Instruction, Open
<1>2. st' \in GuestState /\ known' \in Known /\ Sound(known', st')
  BY <1>1, Passes
<1>3. TypeOK'
  BY <1>1, <1>2, TranslatorAssumption DEF IInv, TypeOK
<1>4. ConstantsSound'
  BY <1>2 DEF ConstantsSound, Sound
<1> QED BY <1>3, <1>4 DEF IInv

LEMMA StepInv == IInv /\ [Next]_tvars => IInv'
<1> SUFFICES ASSUME IInv, [Next]_tvars PROVE IInv'
  OBVIOUS
<1>1. CASE FallThrough
  BY <1>1 DEF FallThrough, IInv, TypeOK, ConstantsSound
<1>2. ASSUME NEW w \in Insts, Instruction(w) PROVE IInv'
  BY <1>2, InstructionInv
<1>3. ASSUME NEW w \in Insts, Refuse(w) PROVE IInv'
  BY <1>3 DEF Refuse, Open, IInv, TypeOK, ConstantsSound
<1>4. CASE UNCHANGED tvars
  BY <1>4 DEF tvars, IInv, TypeOK, ConstantsSound
<1> QED BY <1>1, <1>2, <1>3, <1>4 DEF Next

(* Through every pass and every instruction the state keeps its type and   *)
(* the optimizer's table stays true (optimizer.rs:13-54).                  *)
THEOREM Invariance == Spec => []IInv
BY InitInv, StepInv, PTL DEF Spec

(* The state of the translation, and the state of the guest, are always of *)
(* their types: no pass makes a value wider than its register.             *)
THEOREM TypeCorrect == Spec => []TypeOK
<1>1. IInv => TypeOK
  BY DEF IInv
<1> QED BY <1>1, Invariance, PTL

(* Every constant the optimizer holds is the value of its register, at     *)
(* every point of every block (optimizer.rs:13-54).                        *)
THEOREM ConstantsAreSound == Spec => []ConstantsSound
<1>1. IInv => ConstantsSound
  BY DEF IInv
<1> QED BY <1>1, Invariance, PTL
-----------------------------------------------------------------------------
(* The 32-bit rotation by a register, whose folding is wrong. *)
Rotation(w) == w.op = "RORV" /\ w.width = "W32"

(* A step that runs an instruction. *)
LEMMA Runs ==
  ASSUME [Next]_tvars, slot' # slot
  PROVE  \E w \in Insts : Instruction(w) /\ inst' = w
<1>1. ~ FallThrough /\ ~ UNCHANGED tvars
  BY DEF FallThrough, tvars
<1>2. \A w \in Insts : ~ Refuse(w)
  BY DEF Refuse
<1>3. \E w \in Insts : Instruction(w)
  BY <1>1, <1>2 DEF Next
<1>4. \A w \in Insts : Instruction(w) => inst' = w
  BY DEF Instruction
<1> QED BY <1>3, <1>4

(* The code of a block does, instruction for instruction, what the         *)
(* architecture says, of every instruction but the 32-bit rotation by a    *)
(* register: lifting, constant folding, the algebraic identities, the      *)
(* immediate forms and the flags included.                                 *)
THEOREM ExecutesAllButRotations ==
  Spec => [][slot' > slot /\ ~ Rotation(inst') => st' = ArmStep(inst', st)]_tvars
<1>1. IInv /\ [Next]_tvars =>
        [slot' > slot /\ ~ Rotation(inst') => st' = ArmStep(inst', st)]_tvars
  <2> SUFFICES ASSUME IInv, [Next]_tvars, slot' > slot, ~ Rotation(inst')
               PROVE  st' = ArmStep(inst', st)
    OBVIOUS
  <2>1. slot \in Int
    BY DEF IInv, TypeOK
  <2>2. slot' # slot
    BY <2>1
  <2>3. PICK w \in Insts : Instruction(w) /\ inst' = w
    BY <2>2, Runs
  <2>4. CanEmit(Optimized(w).inst) /\ st' = Emitted(Optimized(w).inst, st)
    BY <2>3 DEF Instruction
  <2>5. Emitted(Optimized(w).inst, st) = ArmStep(w, st)
    BY <2>3, <2>4, Passes DEF Rotation
  <2> QED BY <2>3, <2>4, <2>5
<1> QED BY <1>1, Invariance, PTL DEF Spec

(* Without such rotations, all of it.  The hypothesis cannot be dropped:   *)
(* optimizer.rs:69 rotates a 32-bit constant as a 64-bit one.              *)
THEOREM ExecutesTheBlock ==
  ASSUME \A w \in Insts : ~ Rotation(w)
  PROVE  Spec => ExecutesArm
<1>1. IInv /\ [Next]_tvars =>
        [slot' > slot => st' = ArmStep(inst', st)]_tvars
  <2> SUFFICES ASSUME IInv, [Next]_tvars, slot' > slot
               PROVE  st' = ArmStep(inst', st)
    OBVIOUS
  <2>1. slot' # slot
    BY DEF IInv, TypeOK
  <2>2. PICK w \in Insts : Instruction(w) /\ inst' = w
    BY <2>1, Runs
  <2>3. CanEmit(Optimized(w).inst) /\ st' = Emitted(Optimized(w).inst, st)
    BY <2>2 DEF Instruction
  <2>4. Emitted(Optimized(w).inst, st) = ArmStep(w, st)
    BY <2>2, <2>3, Passes DEF Rotation
  <2> QED BY <2>2, <2>3, <2>4
<1> QED BY <1>1, Invariance, PTL DEF Spec, ExecutesArm

(* A block leaves state.pc where the architecture goes: after its last     *)
(* instruction, or where its branch leads.  The hypotheses are the two     *)
(* branches of which this is not so, a return through another register     *)
(* than X30 (x86_64.rs takes X30 for every RET) and the condition 1111,    *)
(* which the architecture takes and condition_holds does not.              *)
THEOREM LeavesTheBlock ==
  ASSUME \A w \in Insts : (w.op = "RET" => w.rn = LR) /\ (w.op = "BCOND" => w.cond # 15)
  PROVE  Spec => ExitsLikeArm
<1>1. IInv /\ [Next]_tvars =>
        [stage' = "left" =>
           pc' = IF slot' > slot THEN ArmNextPc(inst', st, slot) ELSE <<"at", slot>>]_tvars
  <2> SUFFICES ASSUME IInv, [Next]_tvars, stage' = "left", tvars' # tvars
               PROVE  pc' = IF slot' > slot THEN ArmNextPc(inst', st, slot)
                            ELSE <<"at", slot>>
    OBVIOUS
  <2>1. slot \in Int /\ ~ (slot > slot)
    BY DEF IInv, TypeOK
  <2>2. CASE FallThrough
    BY <2>1, <2>2 DEF FallThrough
  <2>3. ASSUME NEW w \in Insts, Instruction(w)
        PROVE  pc' = IF slot' > slot THEN ArmNextPc(inst', st, slot) ELSE <<"at", slot>>
    <3> DEFINE o == OptStep(LiftOneAt(w, slot), known)
    <3>1. Optimized(w) = o
      BY DEF Optimized, Lifted
    <3> HIDE DEF o
    <3>2. /\ CanEmit(o.inst) /\ slot' = slot + 1 /\ inst' = w
          /\ IF EndsBlock(o.inst) THEN pc' = ExitPc(o.inst, st, slot + 1) ELSE stage' = stage
          /\ stage = "open"
      BY <2>3, <3>1 DEF Instruction, Open
    <3>3. EndsBlock(o.inst) /\ pc' = ExitPc(o.inst, st, slot + 1)
      BY <3>2
    <3>4. known \in Known /\ st \in GuestState /\ Sound(known, st)
      BY DEF IInv, TypeOK, ConstantsSound, Sound
    <3>5. WellFormed(w)
      BY TranslatorAssumption
    <3>6. ExitPc(o.inst, st, slot + 1) = ArmNextPc(w, st, slot)
      BY <2>1, <3>2, <3>3, <3>4, <3>5, InstructionExits DEF o
    <3> QED BY <2>1, <3>2, <3>3, <3>6
  <2>4. ASSUME NEW w \in Insts, Refuse(w) PROVE FALSE
    BY <2>4 DEF Refuse
  <2> QED BY <2>2, <2>3, <2>4 DEF Next
<1> QED BY <1>1, Invariance, PTL DEF Spec, ExitsLikeArm
-----------------------------------------------------------------------------
(* What the optimizer makes of an instruction that can be emitted.         *)

LEMMA RewrittenOperand ==
  ASSUME NEW op, NEW consts
  PROVE  /\ ~ IsGeneral(op) => RewriteOperand(op, consts) = op
         /\ Loadable(op) => Loadable(RewriteOperand(op, consts))
<1>1. \A v : Imm(v).t = "Imm"
  BY DEF Imm
<1> QED BY <1>1 DEF RewriteOperand, Loadable

(* A destination and operands that can be loaded: all that a move, an      *)
(* operation of two operands and a shift need.                             *)
LEMMA MovEmits ==
  ASSUME NEW i, i.a.t = "Reg", NEW x, Loadable(x),
         DOMAIN i = {"opcode", "flags", "a", "b", "c"},
         i = IRInst(i.opcode, i.flags, i.a, i.b, i.c)
  PROVE  CanEmit(MovOf(i, x))
<1> DEFINE m == MovOf(i, x)
<1>1. m.opcode = "Mov" /\ m.a = i.a /\ m.b = x
  BY DEF MovOf, IRInst
<1> HIDE DEF m
<1>2. CanEmit(m)
  BY <1>1 DEF CanEmit, Binops
<1> QED BY <1>2 DEF m

LEMMA BinopEmits ==
  ASSUME NEW op \in Binops, NEW f, NEW a, a.t = "Reg",
         NEW b, Loadable(b), NEW c, Loadable(c), NEW consts
  PROVE  CanEmit(OptStep(IRInst(op, f, a, b, c), consts).inst)
<1> DEFINE x == RewriteOperand(b, consts)
           y == RewriteOperand(c, consts)
           i == IRInst(op, f, a, x, y)
           o == OptStep(IRInst(op, f, a, b, c), consts)
<1>1. Loadable(x) /\ Loadable(y)
  BY RewrittenOperand
<1>2. /\ i.opcode = op /\ i.flags = f /\ i.a = a /\ i.b = x /\ i.c = y
      /\ DOMAIN i = {"opcode", "flags", "a", "b", "c"}
  BY DEF IRInst
<1>3. o.inst = i \/ o = OptBinop(i, consts)
  BY OptStepOf DEF Binops
<1>4. i = IRInst(i.opcode, i.flags, i.a, i.b, i.c)
  BY <1>2
<1>5. \A v : Loadable(Imm(v))
  BY DEF Loadable, Imm
<1> HIDE DEF i, x, y, o
<1>6. CanEmit(i)
  BY <1>1, <1>2 DEF CanEmit, Binops
<1>7. \A v : CanEmit(MovOf(i, Imm(v)))
  BY <1>2, <1>4, <1>5, MovEmits
<1>8. CanEmit(MovOf(i, i.b))
  BY <1>1, <1>2, <1>4, MovEmits
<1>9. \A width : CanEmit(Simplify(i, width))
  BY <1>6, <1>7, <1>8 DEF Simplify
<1>10. CanEmit(OptBinop(i, consts).inst)
  BY <1>6, <1>7, <1>9 DEF OptBinop
<1>11. CanEmit(o.inst)
  BY <1>3, <1>6, <1>10
<1> QED BY <1>11 DEF o

LEMMA ShiftEmits ==
  ASSUME NEW f, NEW a, a.t = "Reg", NEW b, Loadable(b), NEW c, c.t = "ShiftReg",
         NEW consts
  PROVE  CanEmit(OptStep(IRInst("Shift", f, a, b, c), consts).inst)
<1> DEFINE x == RewriteOperand(b, consts)
           i == IRInst("Shift", f, a, x, c)
           o == OptStep(IRInst("Shift", f, a, b, c), consts)
<1>1. Loadable(x) /\ RewriteOperand(c, consts) = c
  BY RewrittenOperand DEF IsGeneral
<1>2. /\ i.opcode = "Shift" /\ i.flags = f /\ i.a = a /\ i.b = x /\ i.c = c
      /\ DOMAIN i = {"opcode", "flags", "a", "b", "c"}
  BY DEF IRInst
<1>3. o.inst = i \/ o = OptShift(i, consts)
  BY <1>1, OptStepOf
<1>4. i = IRInst(i.opcode, i.flags, i.a, i.b, i.c)
  BY <1>2
<1>5. \A v : Loadable(Imm(v))
  BY DEF Loadable, Imm
<1> HIDE DEF i, x, o
<1>6. CanEmit(i)
  BY <1>1, <1>2 DEF CanEmit, Binops
<1>7. \A v : CanEmit(MovOf(i, Imm(v)))
  BY <1>2, <1>4, <1>5, MovEmits
<1>8. CanEmit(OptShift(i, consts).inst)
  BY <1>6, <1>7 DEF OptShift
<1>9. CanEmit(o.inst)
  BY <1>3, <1>6, <1>8
<1> QED BY <1>9 DEF o

(* Any other instruction keeps its opcode, its operand a, and those of its *)
(* operands b and c that are no general registers.                         *)
LEMMA OthersKept ==
  ASSUME NEW op, op \in {"Nop", "Mov", "Load", "Store"}, NEW f, NEW a, NEW b, NEW c,
         ~ IsGeneral(b), ~ IsGeneral(c), IsGeneral(a) => op \in {"Mov", "Load"}, NEW consts
  PROVE  OptStep(IRInst(op, f, a, b, c), consts).inst = IRInst(op, f, a, b, c)
BY OptStepOf, RewrittenOperand

LEMMA WithoutDestination ==
  ASSUME NEW op, op # "Unsupported", NEW f, NEW a, ~ IsGeneral(a), NEW b, NEW c,
         NEW consts, RewriteOperand(b, consts) = b, RewriteOperand(c, consts) = c
  PROVE  OptStep(IRInst(op, f, a, b, c), consts).inst = IRInst(op, f, a, b, c)
BY OptStepOf

(* The register that a store or a test reads is a constant. *)
ConstantRead(w, consts) ==
  /\ w.op \in {"STR", "CBZ", "CBNZ"}
  /\ w.rt \in GPR /\ consts[w.rt] # NoConst

(* Only such a register makes a difference to whether it can be emitted.   *)
LEMMA StillEmits ==
  ASSUME NEW w, WellFormed(w), NEW p, NEW consts,
         CanEmit(LiftOneAt(w, p)), ~ ConstantRead(w, consts)
  PROVE  CanEmit(OptStep(LiftOneAt(w, p), consts).inst)
<1> DEFINE i == LiftOneAt(w, p)
           o == OptStep(i, consts).inst
<1>1. CASE w.op \in DataProcessing
  <2> DEFINE c == LowerOperand2(w)
  <2>1. i = IRInst(Opcode[w.op], w.s, RegOp(Dest(w)), RegOp(Source(w)), c)
    BY <1>1 DEF LiftOneAt, LiftData, DataProcessing, VariableShift, Branches
  <2>2. Opcode[w.op] \in Binops
    BY <1>1 DEF DataProcessing, Opcode, Binops
  <2>3. RegOp(Dest(w)).t = "Reg" /\ Loadable(RegOp(Source(w)))
    BY DEF RegOp, Loadable
  <2> HIDE DEF c
  <2>4. Loadable(c)
    <3>1. i.opcode = Opcode[w.op] /\ i.c = c
      BY <2>1, Fields
    <3> HIDE DEF i
    <3> QED BY <2>2, <3>1 DEF CanEmit, Binops, i
  <2> QED BY <2>1, <2>2, <2>3, <2>4, BinopEmits
<1>2. CASE w.op \in DOMAIN VariableShift
  <2> DEFINE a == RegOp(Reg(w.rd, w.width))
             b == RegOp(Reg(w.rn, w.width))
             c == ShiftReg(Reg(w.rn, w.width), Reg(w.rm, w.width), VariableShift[w.op])
  <2>1. i = IRInst("Shift", FALSE, a, b, c)
    BY <1>2 DEF LiftOneAt, LiftVariableShift, DataProcessing, VariableShift, Branches
  <2>2. a.t = "Reg" /\ Loadable(b) /\ c.t = "ShiftReg"
    BY DEF RegOp, Loadable, ShiftReg
  <2> HIDE DEF a, b, c
  <2> QED BY <2>1, <2>2, ShiftEmits
<1>3. CASE w.op \in {"MOVZ", "MOVN"}
  <2>1. PICK v : i = IRInst("Mov", FALSE, RegOp(Reg(w.rd, w.width)), Imm(v), None)
    BY <1>3 DEF LiftOneAt, LiftMoveWide, DataProcessing, VariableShift, Branches
  <2>2. ~ IsGeneral(Imm(v)) /\ ~ IsGeneral(None)
    BY DEF IsGeneral, Imm, None
  <2>3. OptStep(i, consts).inst = i
    BY <2>1, <2>2, OthersKept
  <2> QED BY <2>3
<1>4. CASE w.op = "LDR"
  <2> DEFINE m == Mem(RegOrSP(w.rn, "X64"), w.offset, w.width)
  <2>1. i = IRInst("Load", FALSE, RegOp(Reg(w.rt, w.width)), m, None)
    BY <1>4 DEF LiftOneAt, LiftMem, DataProcessing, VariableShift, Branches
  <2>2. ~ IsGeneral(m) /\ ~ IsGeneral(None)
    BY DEF IsGeneral, Mem, None
  <2>3. OptStep(i, consts).inst = i
    BY <2>1, <2>2, OthersKept
  <2> QED BY <2>3
<1>5. CASE w.op \in {"STR", "CBZ", "CBNZ"}
  <2> DEFINE r == RegOp(Reg(w.rt, w.width))
  <2>1. RewriteOperand(r, consts) = r
    <3>1. w.rt \in RegNum
      BY <1>5 DEF WellFormed
    <3>2. r.t = "Reg" /\ r.r.num = w.rt
          /\ r.r.kind = (IF w.rt = R31 THEN "Zero" ELSE "General")
      BY DEF RegOp, Reg
    <3> HIDE DEF r
    <3>3. w.rt # R31 => w.rt \in GPR
      BY <3>1, LRAssumption DEF RegNum, R31, GPR
    <3>4. IsGeneral(r) => consts[r.r.num] = NoConst
      BY <1>5, <3>2, <3>3 DEF IsGeneral, ConstantRead
    <3> QED BY <3>4 DEF RewriteOperand
  <2>2. CASE w.op = "STR"
    <3> DEFINE m == Mem(RegOrSP(w.rn, "X64"), w.offset, w.width)
    <3>1. i = IRInst("Store", FALSE, m, r, None)
      BY <2>2 DEF LiftOneAt, LiftMem, DataProcessing, VariableShift, Branches
    <3>2. ~ IsGeneral(m) /\ ~ IsGeneral(None)
      BY DEF IsGeneral, Mem, None
    <3> HIDE DEF r, m
    <3>3. RewriteOperand(None, consts) = None
      BY <3>2, RewrittenOperand
    <3>4. OptStep(i, consts).inst = i
      BY <2>1, <3>1, <3>2, <3>3, WithoutDestination
    <3> QED BY <3>4
  <2>3. CASE w.op \in {"CBZ", "CBNZ"}
    <3>1. PICK k \in {0, 1} :
            i = IRInst("BranchCond", FALSE, GuestPc(p + w.offset), r, Imm(k))
      BY <2>3 DEF LiftOneAt, LiftBranch, Branches, DataProcessing, VariableShift
    <3>2. ~ IsGeneral(GuestPc(p + w.offset)) /\ ~ IsGeneral(Imm(k))
      BY DEF IsGeneral, GuestPc, Imm
    <3> HIDE DEF r
    <3>3. RewriteOperand(Imm(k), consts) = Imm(k)
      BY <3>2, RewrittenOperand
    <3> DEFINE to == GuestPc(p + w.offset)
               what == Imm(k)
    <3>4. i = IRInst("BranchCond", FALSE, to, r, what)
      BY <3>1
    <3>5. ~ IsGeneral(to) /\ RewriteOperand(what, consts) = what
      BY <3>2, <3>3
    <3> HIDE DEF to, what
    <3>6. OptStep(i, consts).inst = i
      BY <2>1, <3>4, <3>5, WithoutDestination
    <3> QED BY <3>6
  <2> QED BY <1>5, <2>2, <2>3
<1>6. CASE w.op \in {"B", "BCOND", "RET"}
  <2>1. w.op \in Branches
    BY <1>6 DEF Branches
  <2>2. /\ o.opcode = i.opcode /\ o.a = i.a
        /\ o.b = RewriteOperand(i.b, consts) /\ o.c = RewriteOperand(i.c, consts)
    BY <2>1, ControlPasses
  <2>3. i = LiftBranch(w, p)
    BY <1>6 DEF LiftOneAt, Branches, DataProcessing, VariableShift
  <2>4. /\ ~ IsGeneral(i.b) /\ ~ IsGeneral(i.c)
        /\ i.opcode \in {"Branch", "BranchCond", "Ret"}
    BY <1>6, <2>3 DEF LiftBranch, IRInst, IsGeneral, None, Imm
  <2>5. o.b = i.b /\ o.c = i.c
    BY <2>2, <2>4, RewrittenOperand
  <2> HIDE DEF i, o
  <2>6. CanEmit(o)
    BY <2>2, <2>4, <2>5 DEF CanEmit, Binops, i
  <2> QED BY <2>6 DEF i, o
<1>7. CASE w.op \notin DataProcessing \cup DOMAIN VariableShift \cup Branches
                       \cup {"MOVZ", "MOVN", "LDR", "STR"}
  <2>1. PICK op \in {"Nop", "Unsupported"} : i = IRInst(op, FALSE, None, None, None)
    BY <1>7 DEF LiftOneAt
  <2>2. op = "Nop"
    <3>1. i.opcode = op
      BY <2>1 DEF IRInst
    <3> HIDE DEF i
    <3> QED BY <3>1 DEF CanEmit, Binops, i
  <2>3. ~ IsGeneral(None)
    BY DEF IsGeneral, None
  <2>4. OptStep(i, consts).inst = i
    BY <2>1, <2>2, <2>3, OthersKept
  <2> QED BY <2>4
<1> QED BY <1>1, <1>2, <1>3, <1>4, <1>5, <1>6, <1>7 DEF Branches

RefusalInv == why = "optimizer" => stage = "refused" /\ ConstantRead(inst, known)

LEMMA RefusalStep == RefusalInv /\ [Next]_tvars => RefusalInv'
<1> SUFFICES ASSUME RefusalInv, [Next]_tvars, why' = "optimizer"
             PROVE  stage' = "refused" /\ ConstantRead(inst', known')
  BY DEF RefusalInv
<1>1. CASE UNCHANGED tvars
  BY <1>1 DEF tvars, RefusalInv
<1>2. CASE FallThrough
  BY <1>2 DEF FallThrough, RefusalInv
<1>3. ASSUME NEW w \in Insts, Instruction(w) PROVE FALSE
  BY <1>3 DEF Instruction, Open, RefusalInv
<1>4. ASSUME NEW w \in Insts, Refuse(w)
      PROVE  stage' = "refused" /\ ConstantRead(inst', known')
  <2>1. /\ ~ CanEmit(Optimized(w).inst) /\ stage' = "refused" /\ inst' = w
        /\ known' = known /\ CanEmit(Lifted(w))
    BY <1>4 DEF Refuse
  <2>2. WellFormed(w)
    BY TranslatorAssumption
  <2>3. ConstantRead(w, known)
    BY <2>1, <2>2, StillEmits DEF Optimized, Lifted
  <2> QED BY <2>1, <2>3
<1> QED BY <1>1, <1>2, <1>3, <1>4 DEF Next

(* The optimizer makes a block unfit for emit_block only by putting a      *)
(* constant in the place of a register that is stored or tested.           *)
THEOREM RefusesOnlyConstants == Spec => []OnlyConstantsRefused
<1>1. Init => RefusalInv
  BY DEF Init, RefusalInv
<1>2. RefusalInv => OnlyConstantsRefused
  BY DEF RefusalInv, OnlyConstantsRefused, ConstantRead
<1> QED BY <1>1, <1>2, RefusalStep, PTL DEF Spec

(* So blocks without stores and compare-and-branches are never refused for *)
(* having been optimized.                                                  *)
THEOREM KeepsBlocks ==
  ASSUME \A w \in Insts : w.op \notin {"STR", "CBZ", "CBNZ"}
  PROVE  Spec => []OptimizerKeepsBlocks
<1>1. IInv /\ OnlyConstantsRefused => OptimizerKeepsBlocks
  <2> SUFFICES ASSUME IInv, OnlyConstantsRefused, why = "optimizer" PROVE FALSE
    BY DEF OptimizerKeepsBlocks
  <2>1. inst.op \in {"STR", "CBZ", "CBNZ"}
    BY DEF OnlyConstantsRefused
  <2>2. inst \in Insts \/ inst.op = "NOP"
    BY DEF IInv, TypeOK, NoInst
  <2> QED BY <2>1, <2>2
<1> QED BY <1>1, Invariance, RefusesOnlyConstants, PTL
=============================================================================
