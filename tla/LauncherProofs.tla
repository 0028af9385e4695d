--------------------------- MODULE LauncherProofs ---------------------------
(***************************************************************************)
(* For every program, instruction set, fetch window and budget: the        *)
(* launcher keeps its types and the shape of its blocks, never asks the    *)
(* dispatcher for a block it does not have, and runs the guest program.    *)
(***************************************************************************)
EXTENDS Launcher, TLAPS

Inst == [w : Word, target : Int]
TranslatedBlock == [insts : Seq(Inst), hits : 0 .. HitMax]

(* What TypeOK leaves out: the ranges of the functions, and that memory    *)
(* holds what held says it has held.                                       *)
Structure ==
  /\ blocks \in [DOMAIN blocks -> TranslatedBlock]
  /\ held \in [Addr -> SUBSET Word]
  /\ \A a \in Addr : mem[a] \in held[a]

(* The inductive invariant. *)
IInv == TypeOK /\ Structure /\ Control /\ BlockShape /\ NeverMissing

(* One translated block at p, in the terms of BlockShape. *)
Shape(p, insts, h) ==
  LET last == Len(insts)
  IN  /\ last \in 1 .. WordsPerFetch /\ p + last <= MemWords
      /\ \A i \in 1 .. last :
           /\ insts[i].w \in h[p + i - 1]
           /\ insts[i].target = p + i - 1 + insts[i].w.o
           /\ Lowered(insts[i].w)
           /\ i < last => ~ Terminal(insts[i].w)
      /\ ~ Terminal(insts[last].w) => last = WordsPerFetch

USE MemAssumption, WordAssumption, EffectAssumption, StoredAssumption,
    DispatcherAssumption, LauncherAssumption
-----------------------------------------------------------------------------
(* BlockShape is Shape of every block. *)
LEMMA ShapeOfBlocks ==
  BlockShape <=> \A p \in DOMAIN blocks : Shape(p, blocks[p].insts, held)
BY DEF BlockShape, Shape

(* The fetch window is a sequence of words, zero where memory has ended.   *)
LEMMA FetchType ==
  ASSUME mem \in Memory, NEW p \in Addr
  PROVE  /\ Fetch(p) \in Seq(Word)
         /\ Len(Fetch(p)) = WordsPerFetch
         /\ \A i \in 1 .. WordsPerFetch :
              /\ p + i - 1 < MemWords => Fetch(p)[i] = mem[p + i - 1]
              /\ ~ (p + i - 1 < MemWords) => Fetch(p)[i] = ZeroWord
<1>1. \A i \in 1 .. WordsPerFetch : p + i - 1 < MemWords => p + i - 1 \in Addr
  BY DEF Addr
<1>2. \A i \in 1 .. WordsPerFetch :
        (IF p + i - 1 < MemWords THEN mem[p + i - 1] ELSE ZeroWord) \in Word
  BY <1>1 DEF Memory
<1> QED BY <1>2 DEF Fetch

(* Lifting a translatable prefix of the fetch window gives a well-formed   *)
(* block: the zero padding is not lowered, so none of it is in the block.  *)
LEMMA LiftShape ==
  ASSUME mem \in Memory, NEW p \in Addr, NEW n \in 0 .. Len(Fetch(p)),
         \A a \in Addr : mem[a] \in held[a],
         Consumed(Fetch(p), n), Translatable(Fetch(p), n)
  PROVE  /\ LiftBlock(Fetch(p), n, p) \in Seq(Inst)
         /\ Shape(p, LiftBlock(Fetch(p), n, p), held)
<1> DEFINE words == Fetch(p)
           insts == LiftBlock(words, n, p)
<1>1. n \in 1 .. WordsPerFetch
  BY FetchType DEF Consumed
<1>2. \A i \in 1 .. n : /\ words[i] \in Word
                        /\ Lowered(words[i])
                        /\ p + i - 1 < MemWords
                        /\ words[i] = mem[p + i - 1]
  <2>1. ~ Lowered(ZeroWord)
    BY DEF Lowered
  <2> QED BY <1>1, <2>1, FetchType DEF Translatable
<1>3. /\ insts \in Seq(Inst) /\ Len(insts) = n
      /\ \A i \in 1 .. n : /\ insts[i].w = words[i]
                           /\ insts[i].target = p + i - 1 + words[i].o
  <2>1. \A i \in 1 .. n : LiftOne(words[i], p + i - 1) \in Inst
    BY <1>2 DEF LiftOne, Inst, Addr
  <2> QED BY <1>1, <2>1 DEF LiftBlock, LiftOne
<1>4. p + n <= MemWords
  BY <1>1, <1>2 DEF Addr
<1>5. \A i \in 1 .. n : i < n => ~ Terminal(words[i])
  BY <1>1 DEF Consumed
<1>6. ~ Terminal(words[n]) => n = WordsPerFetch
  BY <1>1, FetchType DEF Consumed
<1>7. \A i \in 1 .. n : p + i - 1 \in Addr
  BY <1>1, <1>2 DEF Addr
<1> HIDE DEF insts, words
<1>8. Shape(p, insts, held)
  BY <1>1, <1>2, <1>3, <1>4, <1>5, <1>6, <1>7 DEF Shape
<1> QED BY <1>3, <1>8 DEF insts, words

(* A block stays well-formed when memory only gains words.                 *)
LEMMA ShapeMonotone ==
  ASSUME NEW p \in Addr, NEW insts, NEW h, NEW g, Shape(p, insts, h),
         \A a \in Addr : h[a] \subseteq g[a]
  PROVE  Shape(p, insts, g)
<1>1. \A i \in 1 .. Len(insts) : p + i - 1 \in Addr
  BY DEF Shape, Addr
<1> QED BY <1>1 DEF Shape

(* Memory after a word has run. *)
LEMMA MemEffectType ==
  ASSUME NEW w \in Word, NEW g \in GState, NEW m \in Memory
  PROVE  MemEffect(w, g, m) \in Memory
BY DEF MemEffect, Memory

(* The instruction about to execute, when the invariant holds. *)
LEMMA CurrentInst ==
  ASSUME IInv, phase = "exec"
  PROVE  /\ pc \in DOMAIN blocks /\ pc \in Addr
         /\ Len(Block) > 0 /\ ip \in 1 .. Len(Block)
         /\ Block \in Seq(Inst)
         /\ Block[ip] \in Inst
         /\ pc + ip - 1 \in Addr
         /\ Block[ip].w \in held[pc + ip - 1]
         /\ Shape(pc, Block, held)
<1>1. pc \in DOMAIN blocks /\ pc \in Addr /\ ip \in 1 .. Len(Block)
  BY DEF IInv, TypeOK, Control, HasBlock
<1>2. blocks[pc] \in TranslatedBlock
  BY <1>1 DEF IInv, Structure
<1>3. Block \in Seq(Inst)
  BY <1>2 DEF Block, TranslatedBlock
<1>4. Shape(pc, Block, held)
  BY <1>1, ShapeOfBlocks DEF IInv, Block
<1>5. Block[ip] \in Inst
  BY <1>1, <1>3
<1>6. pc + ip - 1 \in Addr
  BY <1>1, <1>3, <1>4 DEF Shape, Addr
<1>7. Block[ip].w \in held[pc + ip - 1]
  BY <1>1, <1>4 DEF Shape
<1>8. Len(Block) > 0
  BY <1>1, <1>3
<1> QED BY <1>1, <1>3, <1>4, <1>5, <1>6, <1>7, <1>8
-----------------------------------------------------------------------------
LEMMA InitIInv == Init => IInv
<1> SUFFICES ASSUME Init PROVE IInv
  OBVIOUS
<1> USE DEF Init, DispatcherInit
<1>1. TypeOK
  BY DEF TypeOK, Stages, Errors
<1>2. Structure
  BY DEF Structure, Memory
<1>3. Control
  BY DEF Control
<1>4. BlockShape /\ NeverMissing
  BY DEF BlockShape, NeverMissing
<1> QED BY <1>1, <1>2, <1>3, <1>4 DEF IInv

(* Steps that leave the translated blocks and memory alone. *)
LEMMA SameBlocks ==
  ASSUME IInv, UNCHANGED <<mem, blocks, held>>
  PROVE  Structure' /\ BlockShape'
<1>1. Structure'
  BY DEF IInv, Structure
<1>2. BlockShape'
  BY DEF IInv, BlockShape
<1> QED BY <1>1, <1>2

LEMMA FinishIInv == IInv /\ Finish => IInv'
<1> SUFFICES ASSUME IInv, Finish PROVE IInv'
  OBVIOUS
<1>1. phase = "idle"
  BY DEF IInv, Control, Finish
<1>2. TypeOK'
  BY <1>1 DEF IInv, TypeOK, Finish, Fail, dvars, Stages, Errors
<1>3. Structure' /\ BlockShape'
  BY SameBlocks DEF Finish, dvars
<1>4. Control' /\ NeverMissing'
  BY <1>1 DEF IInv, Control, NeverMissing, Finish, Fail, dvars, HasBlock
<1> QED BY <1>2, <1>3, <1>4 DEF IInv

LEMMA OutsideMemoryIInv == IInv /\ OutsideMemory => IInv'
<1> SUFFICES ASSUME IInv, OutsideMemory PROVE IInv'
  OBVIOUS
<1>1. phase = "idle"
  BY DEF IInv, Control, OutsideMemory, Looping
<1>2. TypeOK'
  BY <1>1 DEF IInv, TypeOK, OutsideMemory, Fail, dvars, Stages, Errors
<1>3. Structure' /\ BlockShape'
  BY SameBlocks DEF OutsideMemory, dvars
<1>4. Control' /\ NeverMissing'
  BY <1>1 DEF IInv, Control, NeverMissing, OutsideMemory, Fail, dvars, HasBlock
<1> QED BY <1>2, <1>3, <1>4 DEF IInv

(* A block that compile_block adds is well-formed, and the others stay.    *)
LEMMA CompileIInv ==
  ASSUME IInv, pc \in Addr, CompileOk(pc, Fetch(pc))
  PROVE  /\ DOMAIN blocks' = DOMAIN blocks \cup {pc}
         /\ \A p \in DOMAIN blocks' : blocks'[p].hits \in 0 .. HitMax
         /\ Structure' /\ BlockShape'
<1>1. mem \in Memory /\ \A a \in Addr : mem[a] \in held[a]
  BY DEF IInv, TypeOK, Structure
<1>2. PICK n \in 0 .. Len(Fetch(pc)) :
        /\ Consumed(Fetch(pc), n) /\ Translatable(Fetch(pc), n)
        /\ blocks' = Insert(pc, LiftBlock(Fetch(pc), n, pc))
  BY DEF CompileOk
<1> DEFINE insts == LiftBlock(Fetch(pc), n, pc)
<1>3. insts \in Seq(Inst) /\ Shape(pc, insts, held)
  BY <1>1, <1>2, LiftShape
<1> HIDE DEF insts
<1>4. blocks' = [q \in DOMAIN blocks \cup {pc} |->
                   IF q = pc THEN [insts |-> insts, hits |-> 0] ELSE blocks[q]]
  BY <1>2 DEF Insert, insts
<1>5. mem' = mem /\ held' = held
  BY DEF CompileOk
<1>6. [insts |-> insts, hits |-> 0] \in TranslatedBlock
  BY <1>3 DEF TranslatedBlock
<1>7. blocks' \in [DOMAIN blocks' -> TranslatedBlock]
  BY <1>4, <1>6 DEF IInv, Structure
<1>8. Structure'
  BY <1>5, <1>7 DEF IInv, Structure
<1>9. \A p \in DOMAIN blocks' : Shape(p, blocks'[p].insts, held')
  BY <1>3, <1>4, <1>5, ShapeOfBlocks DEF IInv
<1>10. BlockShape'
  BY <1>9 DEF BlockShape, Shape
<1> QED BY <1>4, <1>7, <1>8, <1>10 DEF TranslatedBlock

LEMMA LookUpIInv == IInv /\ LookUp => IInv'
<1> SUFFICES ASSUME IInv, LookUp PROVE IInv'
  OBVIOUS
<1>1. /\ phase = "idle" /\ stage = "loop" /\ pc \in Addr /\ iter < MaxBlocks
      /\ UNCHANGED <<pc, gs, mem, executed, held, phase, left, ip, result, iter>>
  BY DEF IInv, Control, LookUp, Looping, runVars, Translate, CompileOk, CompileErr
<1>2. CASE HasBlock(pc)
  <2>1. UNCHANGED blocks /\ stage' = "ready" /\ err' = err
    BY <1>2 DEF LookUp
  <2>2. Structure' /\ BlockShape'
    BY <1>1, <2>1, SameBlocks
  <2>3. TypeOK' /\ Control' /\ NeverMissing'
    BY <1>1, <1>2, <2>1 DEF IInv, TypeOK, Control, NeverMissing, HasBlock, Stages
  <2> QED BY <2>2, <2>3 DEF IInv
<1>3. CASE CompileOk(pc, Fetch(pc)) /\ stage' = "ready" /\ err' = err
  <2>1. TypeOK' /\ Control' /\ NeverMissing'
    BY <1>1, <1>3, CompileIInv
    DEF IInv, TypeOK, Control, NeverMissing, HasBlock, Stages
  <2> QED BY <1>1, <1>3, <2>1, CompileIInv DEF IInv
<1>4. ASSUME NEW reason \in {"unsupported", "codegen", "mapping"},
             CompileErr(reason, Fetch(pc)), Fail(reason)
      PROVE  IInv'
  <2>1. UNCHANGED blocks /\ stage' = "fail" /\ err' = reason
    BY <1>4 DEF CompileErr, Fail
  <2>2. Structure' /\ BlockShape'
    BY <1>1, <2>1, SameBlocks
  <2>3. TypeOK' /\ Control' /\ NeverMissing'
    BY <1>1, <2>1 DEF IInv, TypeOK, Control, NeverMissing, HasBlock, Stages, Errors
  <2> QED BY <2>2, <2>3 DEF IInv
<1> QED BY <1>2, <1>3, <1>4 DEF LookUp, Translate

LEMMA CallRunIInv == IInv /\ CallRun => IInv'
<1> SUFFICES ASSUME IInv, CallRun PROVE IInv'
  OBVIOUS
<1> USE DEF CallRun, Run
<1>1. TypeOK'
  BY DEF IInv, TypeOK, Stages
<1>2. Structure' /\ BlockShape'
  BY SameBlocks
<1>3. Control' /\ NeverMissing'
  BY DEF IInv, Control, NeverMissing, HasBlock
<1> QED BY <1>1, <1>2, <1>3 DEF IInv

LEMMA RunReturnedIInv == IInv /\ RunReturned => IInv'
<1> SUFFICES ASSUME IInv, RunReturned PROVE IInv'
  OBVIOUS
<1> USE DEF RunReturned, dvars, Fail
<1>1. TypeOK'
  BY DEF IInv, TypeOK, Control, Stages, Errors
<1>2. Structure' /\ BlockShape'
  BY SameBlocks
<1>3. Control' /\ NeverMissing'
  BY DEF IInv, Control, NeverMissing, HasBlock
<1> QED BY <1>1, <1>2, <1>3 DEF IInv

(* run answers: Return leaves everything but phase and result alone.       *)
LEMMA ReturnIInv ==
  ASSUME IInv, stage = "running", UNCHANGED <<stage, iter, err>>,
         NEW r \in {"ok", "budget"}, Return(r)
  PROVE  IInv'
<1> USE DEF Return
<1>1. TypeOK'
  BY DEF IInv, TypeOK
<1>2. Structure' /\ BlockShape'
  BY SameBlocks
<1>3. Control' /\ NeverMissing'
  BY DEF IInv, Control, NeverMissing
<1> QED BY <1>1, <1>2, <1>3 DEF IInv

LEMMA EnterIInv ==
  ASSUME IInv, Enter, stage = "running", UNCHANGED <<stage, iter, err>>
  PROVE  IInv'
<1>1. /\ pc \in DOMAIN blocks /\ blocks[pc] \in TranslatedBlock
      /\ Shape(pc, Block, held)
  BY ShapeOfBlocks DEF IInv, Structure, Enter, HasBlock, Block
<1> DEFINE hits == IF blocks[pc].hits < HitMax THEN blocks[pc].hits + 1
                   ELSE blocks[pc].hits
<1>2. /\ blocks' = [blocks EXCEPT ![pc] = [blocks[pc] EXCEPT !.hits = hits]]
      /\ UNCHANGED <<pc, gs, mem, left, result, held>>
      /\ executed' = (executed + 1) % ExecutedMod
      /\ ip' = 1 /\ phase' = "exec" /\ left > 0 /\ phase = "enter"
  BY DEF Enter
<1>3. hits \in 0 .. HitMax
  BY <1>1 DEF TranslatedBlock
<1> HIDE DEF hits
<1>4. /\ DOMAIN blocks' = DOMAIN blocks
      /\ blocks' \in [DOMAIN blocks -> TranslatedBlock]
      /\ \A p \in DOMAIN blocks : blocks'[p].insts = blocks[p].insts
  BY <1>1, <1>2, <1>3 DEF IInv, Structure, TranslatedBlock
<1>5. Structure'
  BY <1>2, <1>4 DEF IInv, Structure
<1>6. BlockShape'
  BY <1>2, <1>4 DEF IInv, BlockShape
<1>7. ip' \in 1 .. Len(Block')
  <2>1. Block' = Block
    BY <1>1, <1>2, <1>4 DEF Block
  <2>2. Len(Block) \in 1 .. WordsPerFetch
    BY <1>1 DEF Shape
  <2> QED BY <1>2, <2>1, <2>2
<1>8. executed' \in 0 .. ExecutedMod - 1
  BY <1>2 DEF IInv, TypeOK
<1>9. TypeOK'
  BY <1>2, <1>4, <1>7, <1>8 DEF IInv, TypeOK, TranslatedBlock
<1>10. Control' /\ NeverMissing'
  BY <1>1, <1>2, <1>4 DEF IInv, Control, NeverMissing, HasBlock
<1> QED BY <1>5, <1>6, <1>9, <1>10 DEF IInv

LEMMA ExecInstIInv ==
  ASSUME IInv, ExecInst, stage = "running", UNCHANGED <<stage, iter, err>>
  PROVE  IInv'
<1> DEFINE inst == Block[ip]
<1>1. phase = "exec" /\ UNCHANGED <<blocks, executed, left, result>>
  BY DEF ExecInst
<1>2. /\ inst \in Inst /\ ip \in 1 .. Len(Block) /\ pc \in Addr
      /\ Block \in Seq(Inst) /\ HasBlock(pc)
  BY <1>1, CurrentInst DEF HasBlock
<1>3. /\ gs' = Effect(inst.w, gs) /\ mem' = MemEffect(inst.w, gs, mem)
      /\ held' = [a \in Addr |-> held[a] \cup {mem'[a]}]
      /\ \/ ip < Len(Block) /\ ip' = ip + 1 /\ UNCHANGED <<pc, phase>>
         \/ pc' = ExitPc(inst) /\ phase' = "leave" /\ UNCHANGED ip
  BY DEF ExecInst
<1>4. gs' \in GState /\ mem' \in Memory
  BY <1>2, <1>3, MemEffectType DEF IInv, TypeOK, Inst
<1>5. /\ held' \in [Addr -> SUBSET Word]
      /\ \A a \in Addr : mem'[a] \in held'[a] /\ held[a] \subseteq held'[a]
  BY <1>3, <1>4 DEF IInv, Structure, Memory
<1>6. Structure'
  BY <1>1, <1>5 DEF IInv, Structure
<1>7. DOMAIN blocks \subseteq Addr
  BY DEF IInv, TypeOK
<1>8. \A p \in DOMAIN blocks : Shape(p, blocks[p].insts, held')
  BY <1>5, <1>7, ShapeOfBlocks, ShapeMonotone DEF IInv
<1>9. BlockShape'
  BY <1>1, <1>8 DEF BlockShape, Shape
<1>10. ExitPc(inst) \in Int
  <2>1. /\ inst.w \in Word /\ inst.target \in Int
        /\ pc + ip \in Int /\ pc + Len(Block) \in Int
    BY <1>2 DEF Inst, Addr
  <2>2. Link(gs) \in Int
    BY DEF IInv, TypeOK
  <2> HIDE DEF inst
  <2>3. CASE inst.w.k = "B"
    BY <2>1, <2>3 DEF ExitPc
  <2>4. CASE inst.w.k = "Bcond"
    BY <2>1, <2>4 DEF ExitPc
  <2>5. CASE inst.w.k = "RET"
    BY <2>2, <2>5 DEF ExitPc
  <2>6. CASE inst.w.k \notin {"B", "Bcond", "RET"}
    BY <2>1, <2>6 DEF ExitPc
  <2> QED BY <2>3, <2>4, <2>5, <2>6
<1>11. phase' = "exec" => ip' \in 1 .. Len(Block')
  BY <1>1, <1>2, <1>3 DEF Block
<1>12. TypeOK'
  BY <1>1, <1>2, <1>3, <1>4, <1>10, <1>11 DEF IInv, TypeOK
<1>13. Control' /\ NeverMissing'
  BY <1>1, <1>2, <1>3 DEF IInv, Control, NeverMissing, HasBlock
<1> QED BY <1>6, <1>9, <1>12, <1>13 DEF IInv

(* Another iteration of the loop of run. *)
LEMMA LeaveIInv ==
  ASSUME IInv, Leave, stage = "running", UNCHANGED <<stage, iter, err>>
  PROVE  IInv'
<1>1. CASE Return("ok")
  BY <1>1, ReturnIInv
<1>2. CASE /\ HasBlock(pc) /\ left' = left - 1 /\ phase' = "enter"
           /\ UNCHANGED <<pc, gs, mem, blocks, executed, ip, result, held>>
  <2>1. TypeOK'
    BY <1>2 DEF IInv, TypeOK, Control, Leave
  <2>2. Structure' /\ BlockShape'
    BY <1>2, SameBlocks
  <2>3. Control' /\ NeverMissing'
    BY <1>2 DEF IInv, Control, NeverMissing, HasBlock
  <2> QED BY <2>1, <2>2, <2>3 DEF IInv
<1> QED BY <1>1, <1>2 DEF Leave

(* No block is missing, and no block is empty. *)
LEMMA RunningIInv == IInv /\ Running => IInv'
<1> SUFFICES ASSUME IInv, Running PROVE IInv'
  OBVIOUS
<1>1. stage = "running" /\ UNCHANGED <<stage, iter, err>>
  BY DEF Running
<1>2. ~ NoBlock
  BY DEF IInv, Control, NoBlock
<1>3. ~ ExecEmpty
  BY CurrentInst DEF ExecEmpty
<1> QED BY <1>1, <1>2, <1>3, ReturnIInv, EnterIInv, ExecInstIInv, LeaveIInv
        DEF Running, RunStep, OutOfBudget

LEMMA StepIInv == IInv /\ [Next]_lvars => IInv'
<1> SUFFICES ASSUME IInv, [Next]_lvars PROVE IInv'
  OBVIOUS
<1>1. CASE UNCHANGED lvars
  <2>1. TypeOK' /\ Control' /\ NeverMissing'
    BY <1>1 DEF IInv, TypeOK, Control, NeverMissing, lvars, HasBlock, Block
  <2> QED BY <1>1, <2>1, SameBlocks DEF IInv, lvars
<1>2. CASE Next
  BY <1>2, FinishIInv, OutsideMemoryIInv, LookUpIInv, CallRunIInv, RunningIInv,
     RunReturnedIInv DEF Next
<1> QED BY <1>1, <1>2

(* The inductive invariant holds throughout. *)
THEOREM Invariance == Spec => []IInv
BY InitIInv, StepIInv, PTL DEF Spec

(* The types of the state, the counters' and the budget's bounds included. *)
THEOREM TypeCorrect == Spec => []TypeOK
BY Invariance, PTL DEF IInv

(* Every block in the map is what the guest could run straight through.    *)
THEOREM BlocksWellFormed == Spec => []BlockShape
BY Invariance, PTL DEF IInv

(* The dispatcher always finds the block that the launcher sends it to.    *)
THEOREM NothingMissing == Spec => []NeverMissing
BY Invariance, PTL DEF IInv

(* The loops of main and run keep in step. *)
THEOREM LoopsInStep == Spec => []Control
BY Invariance, PTL DEF IInv
-----------------------------------------------------------------------------
(* The launcher implements the guest machine.                              *)

LEMMA GuestInit == Init => G!Init
BY DEF Init, DispatcherInit, G!Init, GuestPc, Memory, G!Memory, Addr, G!Addr

(* An instruction of a block is the guest's instruction at its address.    *)
LEMMA GuestExec ==
  ASSUME IInv, ExecInst
  PROVE  G!Next
<1> DEFINE inst == Block[ip]
           w == inst.w
           at == pc + ip - 1
<1>1. phase = "exec" /\ GuestPc = at
  BY DEF ExecInst, GuestPc
<1>2. /\ w \in Word /\ inst.target = at + w.o /\ Lowered(w)
      /\ at \in Addr /\ w \in held[at]
      /\ ip < Len(Block) => ~ Terminal(w)
      /\ pc \in Int /\ ip \in 1 .. Len(Block) /\ Len(Block) \in Nat
  BY <1>1, CurrentInst DEF Shape, Inst, Addr
<1>3. /\ gs' = Effect(w, gs) /\ mem' = MemEffect(w, gs, mem)
      /\ held' = [a \in Addr |-> held[a] \cup {mem'[a]}]
  BY DEF ExecInst
<1>4. (ip < Len(Block) /\ ip' = ip + 1 /\ UNCHANGED <<pc, phase>>)
      \/ (ip = Len(Block) /\ pc' = ExitPc(inst) /\ phase' = "leave")
  BY DEF ExecInst
<1> HIDE DEF inst
<1>5. GuestPc' = G!NextPc(w)
  <2>1. CASE ip < Len(Block) /\ ip' = ip + 1 /\ UNCHANGED <<pc, phase>>
    <3>1. w.k \notin {"B", "Bcond", "RET"}
      BY <1>2, <2>1 DEF Terminal
    <3>2. GuestPc' = pc + ip
      BY <1>1, <1>2, <2>1 DEF GuestPc
    <3>3. at + 1 = pc + ip
      BY <1>2
    <3> QED BY <1>1, <3>1, <3>2, <3>3 DEF G!NextPc
  <2>2. CASE ip = Len(Block) /\ pc' = ExitPc(inst) /\ phase' = "leave"
    <3>1. GuestPc' = ExitPc(inst)
      BY <2>2 DEF GuestPc
    <3>2. at + 1 = pc + ip /\ at + 1 = pc + Len(Block)
      BY <1>2, <2>2
    <3>3. CASE w.k = "B"
      BY <1>1, <1>2, <3>1, <3>3 DEF ExitPc, G!NextPc
    <3>4. CASE w.k = "Bcond"
      BY <1>1, <1>2, <3>1, <3>2, <3>4 DEF ExitPc, G!NextPc
    <3>5. CASE w.k = "RET"
      BY <1>1, <1>2, <3>1, <3>5 DEF ExitPc, G!NextPc
    <3>6. CASE w.k \notin {"B", "Bcond", "RET"}
      BY <1>1, <1>2, <3>1, <3>2, <3>6 DEF ExitPc, G!NextPc
    <3> QED BY <3>3, <3>4, <3>5, <3>6
  <2> QED BY <1>4, <2>1, <2>2
<1> HIDE DEF w, at
<1>6. G!Execute(w)
  BY <1>1, <1>2, <1>3, <1>5
  DEF G!Execute, Lowered, G!Lowered, MemEffect, G!MemEffect, Addr, G!Addr
<1> QED BY <1>1, <1>2, <1>6 DEF G!Next, Addr, G!Addr

LEMMA GuestStep == IInv /\ [Next]_lvars => [G!Next]_(G!gvars)
<1> SUFFICES ASSUME IInv, [Next]_lvars PROVE G!Next \/ UNCHANGED G!gvars
  OBVIOUS
<1> USE DEF G!gvars, GuestPc
<1>1. CASE UNCHANGED lvars
  BY <1>1 DEF lvars
<1>2. CASE Finish \/ OutsideMemory \/ RunReturned
  BY <1>2 DEF Finish, OutsideMemory, RunReturned, dvars
<1>3. CASE LookUp
  BY <1>3 DEF LookUp, runVars, Translate, CompileOk, CompileErr
<1>4. CASE CallRun
  BY <1>4 DEF CallRun, Run
<1>5. CASE Running
  <2>1. CASE OutOfBudget \/ NoBlock \/ Leave
    BY <2>1 DEF OutOfBudget, NoBlock, Leave, Return
  <2>2. CASE Enter
    <3>1. pc + 1 - 1 = pc
      BY DEF IInv, TypeOK
    <3> QED BY <2>2, <3>1 DEF Enter
  <2>3. CASE ExecEmpty
    BY <2>3, CurrentInst DEF ExecEmpty
  <2>4. CASE ExecInst
    BY <2>4, GuestExec
  <2> QED BY <1>5, <2>1, <2>2, <2>3, <2>4 DEF Running, RunStep
<1> QED BY <1>1, <1>2, <1>3, <1>4, <1>5 DEF Next

(* Whatever program is loaded, the launcher runs it as the guest machine   *)
(* would, one instruction at a time: translation in blocks, the map, the   *)
(* budget and the two loops are invisible.                                 *)
THEOREM Refinement == Spec => RunsTheGuest
BY Invariance, GuestInit, GuestStep, PTL DEF Spec, RunsTheGuest, G!Spec
-----------------------------------------------------------------------------
(* PC 0.  What is never translated is never run, and the launcher does not *)
(* fail where it should exit.                                              *)
SentinelInv ==
  /\ ZeroIsSentinel
  /\ stage = "running" /\ phase = "idle" /\ result # "ok" => pc # 0

LEMMA SentinelInit == Init => SentinelInv
BY DEF Init, DispatcherInit, SentinelInv, ZeroIsSentinel

(* Every block is for a PC that was looked up, and 0 never is. *)
LEMMA InsertedAt ==
  ASSUME NEW p, CompileOk(p, Fetch(p))
  PROVE  DOMAIN blocks' = DOMAIN blocks \cup {p}
BY DEF CompileOk, Insert

LEMMA SentinelStep == IInv /\ SentinelInv /\ [Next]_lvars => SentinelInv'
<1> SUFFICES ASSUME IInv, SentinelInv, [Next]_lvars PROVE SentinelInv'
  OBVIOUS
<1>1. CASE UNCHANGED lvars
  BY <1>1 DEF lvars, SentinelInv, ZeroIsSentinel
<1>2. CASE Finish
  BY <1>2 DEF Finish, Fail, dvars, SentinelInv, ZeroIsSentinel
<1>3. CASE OutsideMemory
  BY <1>3 DEF OutsideMemory, Looping, Fail, dvars, SentinelInv, ZeroIsSentinel
<1>4. CASE LookUp
  <2>1. stage = "loop" /\ pc # 0 /\ pc' = pc /\ stage' \in {"ready", "fail"}
    BY <1>4 DEF LookUp, Looping, Translate, CompileOk, CompileErr, Fail
  <2>2. DOMAIN blocks' \subseteq DOMAIN blocks \cup {pc}
    BY <1>4, InsertedAt DEF LookUp, Translate, CompileErr
  <2> QED BY <2>1, <2>2 DEF SentinelInv, ZeroIsSentinel
<1>5. CASE CallRun
  BY <1>5 DEF CallRun, Run, SentinelInv, ZeroIsSentinel
<1>6. CASE Running
  <2>1. /\ stage = "running" /\ stage' = "running"
        /\ DOMAIN blocks' = DOMAIN blocks
    BY <1>6 DEF Running, RunStep, OutOfBudget, NoBlock, Enter, ExecEmpty, ExecInst,
                Leave, Return
  <2>2. CASE OutOfBudget
    BY <2>1, <2>2 DEF OutOfBudget, Return, IInv, Control, HasBlock, SentinelInv,
                      ZeroIsSentinel
  <2>3. CASE NoBlock
    BY <2>3 DEF NoBlock, IInv, Control
  <2>4. CASE Leave
    BY <2>1, <2>4 DEF Leave, Return, SentinelInv, ZeroIsSentinel
  <2>5. CASE Enter \/ ExecEmpty \/ ExecInst
    <3>1. phase' # "idle"
      BY <2>5 DEF Enter, ExecEmpty, ExecInst
    <3> QED BY <2>1, <3>1 DEF SentinelInv, ZeroIsSentinel
  <2> QED BY <1>6, <2>2, <2>3, <2>4, <2>5 DEF Running, RunStep
<1>7. CASE RunReturned
  BY <1>7 DEF RunReturned, Fail, dvars, IInv, TypeOK, NeverMissing, SentinelInv,
              ZeroIsSentinel
<1> QED BY <1>1, <1>2, <1>3, <1>4, <1>5, <1>6, <1>7 DEF Next

(* No block is ever translated for PC 0, and the program fails only away   *)
(* from it (main.rs:39 and :60).                                           *)
THEOREM SentinelIsSafe == Spec => []ZeroIsSentinel
<1>1. SentinelInv => ZeroIsSentinel
  BY DEF SentinelInv
<1> QED BY <1>1, SentinelInit, SentinelStep, Invariance, PTL DEF Spec

(* Once PC 0 is reached between two blocks, no instruction runs any more   *)
(* and no step fails: with the bound below, this is why SentinelExits      *)
(* holds.                                                                  *)
AtSentinel == phase # "exec" /\ pc = 0

LEMMA SentinelKept ==
  IInv /\ SentinelInv /\ SentinelInv' /\ [Next]_lvars
    => [AtSentinel => AtSentinel' /\ stage' # "fail"]_lvars
<1> SUFFICES ASSUME IInv, SentinelInv, SentinelInv', Next, AtSentinel
             PROVE  AtSentinel' /\ stage' # "fail"
  OBVIOUS
<1>0. phase # "enter"
  BY DEF IInv, Control, HasBlock, AtSentinel, SentinelInv, ZeroIsSentinel
<1>1. pc' = pc /\ phase' # "exec"
  <2>1. CASE Finish \/ OutsideMemory \/ RunReturned
    BY <2>1 DEF Finish, OutsideMemory, RunReturned, dvars, AtSentinel
  <2>2. CASE LookUp
    BY <2>2 DEF LookUp, Looping, AtSentinel
  <2>3. CASE CallRun
    BY <2>3 DEF CallRun, Run
  <2>4. CASE Running
    BY <1>0, <2>4 DEF Running, RunStep, OutOfBudget, NoBlock, Enter, ExecEmpty,
                      ExecInst, Leave, Return, AtSentinel
  <2> QED BY <2>1, <2>2, <2>3, <2>4 DEF Next
<1> QED BY <1>1 DEF AtSentinel, SentinelInv, ZeroIsSentinel

(* A program that has reached PC 0 can only exit: main.rs:39 and :60 see    *)
(* the sentinel before anything else could go wrong.                       *)
THEOREM SentinelIsFinal ==
  Spec => [][AtSentinel => AtSentinel' /\ stage' # "fail"]_lvars
BY SentinelKept, SentinelInit, SentinelStep, Invariance, PTL DEF Spec
-----------------------------------------------------------------------------
(* How many steps are left at most: a block is entered, run and left, an   *)
(* iteration is a lookup, a call, the blocks and a return.                 *)
PerBlock == WordsPerFetch + 2
PerIteration == Quantum * PerBlock + 4
AfterThis == (MaxBlocks - iter - 1) * PerIteration + 1
InRun ==
  CASE phase = "enter" -> left * PerBlock + 1
    [] phase = "exec"  -> (left - 1) * PerBlock + (Len(Block) - ip) + 3
    [] phase = "leave" -> (left - 1) * PerBlock + 2
    [] phase = "idle"  -> 0
StepsLeft ==
  CASE stage = "loop"    -> (MaxBlocks - iter) * PerIteration + 1
    [] stage = "ready"   -> Quantum * PerBlock + 3 + AfterThis
    [] stage = "running" -> InRun + 1 + AfterThis
    [] OTHER             -> 0

LEMMA Product == ASSUME NEW a \in Nat, NEW b \in Nat PROVE a * b \in Nat
OBVIOUS

LEMMA Sizes == PerBlock \in Nat /\ PerIteration \in Nat /\ Quantum * PerBlock \in Nat
<1>1. PerBlock \in Nat
  BY DEF PerBlock
<1>2. Quantum * PerBlock \in Nat
  BY <1>1, Product
<1> QED BY <1>1, <1>2 DEF PerIteration

LEMMA AfterIsNat ==
  ASSUME IInv, iter < MaxBlocks
  PROVE  /\ AfterThis \in Nat \ {0}
         /\ (MaxBlocks - iter) * PerIteration = AfterThis + Quantum * PerBlock + 3
<1> DEFINE n == MaxBlocks - iter - 1
           k == PerIteration
<1>1. n \in Nat /\ k \in Nat /\ MaxBlocks - iter = n + 1
  BY Sizes DEF IInv, TypeOK
<1>2. n * k \in Nat /\ (n + 1) * k = n * k + k
  <2> HIDE DEF n, k
  <2> QED BY <1>1, Product
<1>3. k = Quantum * PerBlock + 4
  BY DEF PerIteration
<1>4. AfterThis = n * k + 1
  BY DEF AfterThis
<1> HIDE DEF n, k
<1> QED BY <1>1, <1>2, <1>3, <1>4, Sizes DEF k

LEMMA InRunIsNat == IInv => InRun \in Nat
<1> SUFFICES ASSUME IInv PROVE InRun \in Nat
  OBVIOUS
<1>1. phase \in {"idle", "enter", "exec", "leave"} /\ left \in Nat
  BY DEF IInv, TypeOK
<1>2. CASE phase = "enter"
  BY <1>1, <1>2, Sizes, Product DEF InRun
<1>3. left > 0 => (left - 1) * PerBlock \in Nat
  BY <1>1, Sizes, Product
<1>4. CASE phase = "exec"
  <2>1. Len(Block) - ip \in Nat /\ left > 0
    BY <1>4, CurrentInst DEF IInv, Control
  <2> QED BY <1>3, <1>4, <2>1 DEF InRun
<1>5. CASE phase = "leave"
  BY <1>3, <1>5 DEF InRun, IInv, Control
<1>6. CASE phase = "idle"
  BY <1>6 DEF InRun
<1> QED BY <1>1, <1>2, <1>4, <1>5, <1>6

LEMMA StepsLeftIsNat == IInv => StepsLeft \in Nat
<1> SUFFICES ASSUME IInv PROVE StepsLeft \in Nat
  OBVIOUS
<1>1. CASE stage = "loop"
  <2>1. MaxBlocks - iter \in Nat
    BY DEF IInv, TypeOK
  <2>2. (MaxBlocks - iter) * PerIteration \in Nat
    BY <2>1, Sizes, Product
  <2> QED BY <1>1, <2>2 DEF StepsLeft
<1>2. CASE stage = "ready"
  BY <1>2, AfterIsNat, Sizes DEF StepsLeft, IInv, Control
<1>3. CASE stage = "running"
  <2>1. InRun \in Nat
    BY InRunIsNat
  <2> QED BY <1>3, <2>1, AfterIsNat DEF StepsLeft, IInv, Control
<1>4. CASE stage \notin {"loop", "ready", "running"}
  BY <1>4 DEF StepsLeft
<1> QED BY <1>1, <1>2, <1>3, <1>4

(* Inside run. *)
LEMMA RunDecreases ==
  ASSUME IInv, IInv', RunStep, stage = "running"
  PROVE  InRun' < InRun
<1> DEFINE b == PerBlock
<1>1. b \in Nat /\ left \in Nat /\ b = WordsPerFetch + 2
  BY Sizes DEF IInv, TypeOK, PerBlock
<1>2. phase = "enter" => InRun = left * b + 1
  BY DEF InRun
<1>3. phase = "exec" => InRun = (left - 1) * b + (Len(Block) - ip) + 3
  BY DEF InRun
<1>4. phase = "leave" => InRun = (left - 1) * b + 2
  BY DEF InRun
<1>5. phase' = "idle" => InRun' = 0
  BY DEF InRun
<1>6. phase' = "leave" /\ left' = left => InRun' = (left - 1) * b + 2
  BY DEF InRun, PerBlock
<1>7. phase # "idle" => InRun \in Nat /\ InRun > 0
  <2>1. phase # "idle" => InRun \in Nat
    BY InRunIsNat
  <2>2. left > 0 => (left - 1) * b \in Nat
    BY <1>1, Product
  <2>3. left * b \in Nat
    BY <1>1, Product
  <2>4. phase # "idle" /\ phase # "enter" => left > 0
    BY DEF IInv, Control, TypeOK
  <2>5. phase = "exec" => Len(Block) - ip \in Nat
    BY CurrentInst
  <2>6. phase \in {"idle", "enter", "exec", "leave"}
    BY DEF IInv, TypeOK
  <2> HIDE DEF b
  <2> QED BY <1>2, <1>3, <1>4, <2>1, <2>2, <2>3, <2>4, <2>5, <2>6
<1>8. left > 0 => left * b = (left - 1) * b + b /\ (left - 1) * b \in Nat
  <2> HIDE DEF b
  <2> QED BY <1>1, Product
<1> HIDE DEF b
<1>9. ASSUME NEW r, Return(r), phase # "idle" PROVE InRun' < InRun
  BY <1>5, <1>7, <1>9 DEF Return
<1>10. CASE OutOfBudget
  BY <1>9, <1>10 DEF OutOfBudget
<1>11. CASE NoBlock
  BY <1>9, <1>11 DEF NoBlock
<1>12. CASE Enter
  <2>1. phase = "enter" /\ phase' = "exec" /\ left > 0 /\ left' = left /\ ip' = 1
    BY <1>12 DEF Enter
  <2>2. InRun' = (left - 1) * b + (Len(Block') - 1) + 3
    BY <2>1 DEF InRun, PerBlock, b
  <2>3. Len(Block') \in Nat /\ Len(Block') <= WordsPerFetch
    <3>1. pc' \in DOMAIN blocks' /\ Len(blocks'[pc'].insts) \in 1 .. WordsPerFetch
      BY <2>1 DEF IInv, Control, HasBlock, BlockShape
    <3> QED BY <3>1 DEF Block
  <2> QED BY <1>1, <1>2, <1>8, <2>1, <2>2, <2>3
<1>13. CASE ExecEmpty
  BY <1>13, CurrentInst DEF ExecEmpty
<1>14. CASE ExecInst
  <2>1. /\ phase = "exec" /\ left' = left /\ blocks' = blocks
        /\ \/ ip < Len(Block) /\ ip' = ip + 1 /\ pc' = pc /\ phase' = "exec"
           \/ phase' = "leave"
    BY <1>14 DEF ExecInst
  <2>2. left > 0 /\ ip \in 1 .. Len(Block) /\ Len(Block) \in Nat
    BY <2>1, CurrentInst DEF IInv, Control
  <2>3. CASE phase' = "leave"
    BY <1>3, <1>6, <1>8, <2>1, <2>2, <2>3
  <2>4. CASE ip' = ip + 1 /\ pc' = pc /\ phase' = "exec"
    <3>1. Block' = Block
      BY <2>1, <2>4 DEF Block
    <3>2. InRun' = (left - 1) * b + (Len(Block) - (ip + 1)) + 3
      BY <2>1, <2>4, <3>1 DEF InRun, PerBlock, b
    <3> QED BY <1>3, <1>8, <2>1, <2>2, <3>2
  <2> QED BY <2>1, <2>3, <2>4
<1>15. CASE Leave
  <2>1. phase = "leave"
    BY <1>15 DEF Leave
  <2>2. CASE phase' = "enter" /\ left' = left - 1
    <3>1. InRun' = (left - 1) * b + 1
      BY <2>2 DEF InRun, PerBlock, b
    <3>2. left > 0
      BY <2>1 DEF IInv, Control
    <3> QED BY <1>4, <1>8, <2>1, <3>1, <3>2
  <2> QED BY <1>9, <1>15, <2>1, <2>2 DEF Leave
<1> QED BY <1>10, <1>11, <1>12, <1>13, <1>14, <1>15 DEF RunStep

LEMMA StepsDecrease ==
  ASSUME IInv, IInv', Next
  PROVE  StepsLeft' < StepsLeft
<1>1. StepsLeft \in Nat /\ (StepsLeft \in Nat)'
  BY StepsLeftIsNat, PTL
<1>2. ASSUME stage \in {"loop", "ready", "running"} PROVE StepsLeft > 0
  <2>1. CASE stage = "loop"
    <3>1. MaxBlocks - iter \in Nat
      BY DEF IInv, TypeOK
    <3>2. (MaxBlocks - iter) * PerIteration \in Nat
      BY <3>1, Sizes, Product
    <3> QED BY <2>1, <3>2 DEF StepsLeft
  <2>2. CASE stage = "ready"
    BY <2>2, AfterIsNat, Sizes DEF StepsLeft, IInv, Control
  <2>3. CASE stage = "running"
    <3>1. InRun \in Nat
      BY InRunIsNat
    <3> QED BY <2>3, <3>1, AfterIsNat DEF StepsLeft, IInv, Control
  <2> QED BY <1>2, <2>1, <2>2, <2>3
<1>3. ASSUME stage' \in {"exit", "fail"}, stage \in {"loop", "ready", "running"}
      PROVE  StepsLeft' < StepsLeft
  <2>1. StepsLeft' = 0
    BY <1>3 DEF StepsLeft
  <2> QED BY <1>1, <1>2, <1>3, <2>1
<1>4. iter < MaxBlocks => /\ AfterThis \in Nat \ {0}
                          /\ (MaxBlocks - iter) * PerIteration
                               = AfterThis + Quantum * PerBlock + 3
  BY AfterIsNat
<1>5. CASE Finish \/ OutsideMemory
  BY <1>3, <1>5 DEF Finish, OutsideMemory, Looping, Fail
<1>6. CASE LookUp
  <2>1. stage = "loop" /\ iter < MaxBlocks /\ iter' = iter /\ stage' \in {"ready", "fail"}
    BY <1>6 DEF LookUp, Looping, Translate, Fail
  <2>2. CASE stage' = "ready"
    <3>1. StepsLeft' = Quantum * PerBlock + 3 + AfterThis
      BY <2>1, <2>2 DEF StepsLeft, AfterThis, PerIteration, PerBlock
    <3>2. StepsLeft = (MaxBlocks - iter) * PerIteration + 1
      BY <2>1 DEF StepsLeft
    <3> QED BY <1>4, <2>1, <3>1, <3>2, Sizes
  <2> QED BY <1>3, <2>1, <2>2
<1>7. CASE CallRun
  <2>1. /\ stage = "ready" /\ stage' = "running" /\ phase' = "enter" /\ left' = Quantum
        /\ iter' = iter
    BY <1>7 DEF CallRun, Run
  <2>2. StepsLeft = Quantum * PerBlock + 3 + AfterThis
    BY <2>1 DEF StepsLeft
  <2>3. StepsLeft' = Quantum * PerBlock + 1 + 1 + AfterThis
    <3>1. InRun' = Quantum * PerBlock + 1
      BY <2>1 DEF InRun, PerBlock
    <3>2. AfterThis' = AfterThis
      BY <2>1 DEF AfterThis, PerIteration, PerBlock
    <3> QED BY <2>1, <3>1, <3>2 DEF StepsLeft
  <2>4. iter < MaxBlocks
    BY <2>1 DEF IInv, Control
  <2> QED BY <1>4, <2>2, <2>3, <2>4, Sizes
<1>8. CASE Running
  <2>1. stage = "running" /\ stage' = "running" /\ iter' = iter /\ RunStep
    BY <1>8 DEF Running
  <2>2. InRun' < InRun
    BY <2>1, RunDecreases
  <2>3. AfterThis' = AfterThis
    BY <2>1 DEF AfterThis, PerIteration, PerBlock
  <2>4. StepsLeft = InRun + 1 + AfterThis /\ StepsLeft' = InRun' + 1 + AfterThis
    BY <2>1, <2>3 DEF StepsLeft
  <2>5. iter < MaxBlocks
    BY <2>1 DEF IInv, Control
  <2>6. InRun \in Nat /\ (InRun \in Nat)'
    BY InRunIsNat, PTL
  <2> QED BY <1>4, <2>2, <2>4, <2>5, <2>6
<1>9. CASE RunReturned
  <2>1. /\ stage = "running" /\ phase = "idle"
        /\ \/ stage' = "loop" /\ iter' = iter + 1
           \/ stage' = "fail"
    BY <1>9 DEF RunReturned, Fail
  <2>2. CASE stage' = "loop" /\ iter' = iter + 1
    <3>1. iter \in Nat /\ iter < MaxBlocks
      BY <2>1 DEF IInv, TypeOK, Control
    <3>2. StepsLeft' = (MaxBlocks - (iter + 1)) * PerIteration + 1
      BY <2>2 DEF StepsLeft, PerIteration, PerBlock
    <3>3. MaxBlocks - (iter + 1) = MaxBlocks - iter - 1
      BY <3>1
    <3>4. StepsLeft' = AfterThis
      BY <3>2, <3>3 DEF AfterThis
    <3>5. StepsLeft = 0 + 1 + AfterThis
      BY <2>1 DEF StepsLeft, InRun
    <3> QED BY <1>4, <3>1, <3>4, <3>5
  <2> QED BY <1>3, <2>1, <2>2
<1> QED BY <1>5, <1>6, <1>7, <1>8, <1>9 DEF Next

(* Whatever the guest does, the launcher takes at most                     *)
(* MaxBlocks * PerIteration + 1 steps: each one brings the end nearer      *)
(* (main.rs:38, dispatch.rs:50).                                           *)
THEOREM StepsAreBounded ==
  Spec => /\ StepsLeft = MaxBlocks * PerIteration + 1
          /\ [](StepsLeft \in Nat) /\ [][StepsLeft' < StepsLeft]_lvars
<1>1. Init => StepsLeft = MaxBlocks * PerIteration + 1
  BY DEF Init, StepsLeft
<1>2. IInv => StepsLeft \in Nat
  BY StepsLeftIsNat
<1>3. IInv /\ IInv' /\ [Next]_lvars => [StepsLeft' < StepsLeft]_lvars
  BY StepsDecrease
<1> QED BY <1>1, <1>2, <1>3, Invariance, PTL DEF Spec
=============================================================================
