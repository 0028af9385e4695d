------------------------ MODULE DispatcherClientProofs ------------------------
(***************************************************************************)
(* For every instruction set, every slice of words a caller may compile    *)
(* and every budget: the dispatcher's counters tell how often its blocks   *)
(* were entered, up to their limits, and what a run answers is true.       *)
(***************************************************************************)
EXTENDS DispatcherClient, TLAPS

Inst == [w : Word, target : Int]
TranslatedBlock == [insts : Seq(Inst), hits : 0 .. HitMax]

(* What TypeOK leaves out: the ranges of the functions and of the history. *)
Structure ==
  /\ blocks \in [DOMAIN blocks -> TranslatedBlock]
  /\ since \in [DOMAIN since -> Nat]
  /\ total \in Nat /\ budget \in Nat

(* Blocks entered and iterations left add up to the budget, a block that   *)
(* is running counting as both; and from its second iteration on the loop  *)
(* only starts over at a PC that has a block.                              *)
Accounts ==
  /\ phase = "enter" => ran + left = budget /\ (ran > 0 => HasBlock(pc))
  /\ phase \in {"exec", "leave"} =>
       ran + left = budget + 1 /\ left > 0 /\ ran > 0

(* The inductive invariant. *)
IInv == TypeOK /\ Structure /\ Accounts /\ CountersExact

USE MemAssumption, WordAssumption, EffectAssumption, StoredAssumption,
    DispatcherAssumption, ClientAssumption
-----------------------------------------------------------------------------
(* Counting modulo m: the remainder steps with the number, wrapping to 0.  *)
LEMMA ModStep ==
  ASSUME NEW n \in Nat, NEW m \in Nat \ {0}
  PROVE  ((n % m) + 1) % m = (n + 1) % m
<1> DEFINE q == n \div m
           r == n % m
<1>1. q \in Nat /\ r \in 0 .. m - 1 /\ n = m * q + r
  OBVIOUS
<1> HIDE DEF q, r
<1>2. CASE r + 1 < m
  <2>1. (r + 1) % m = r + 1
    BY <1>1, <1>2
  <2>2. n + 1 = m * q + (r + 1)
    BY <1>1
  <2>3. (n + 1) % m = r + 1
    BY <1>1, <1>2, <2>2
  <2> QED BY <2>1, <2>3 DEF r
<1>3. CASE r + 1 = m
  <2>1. (r + 1) % m = 0
    BY <1>3
  <2>2. n + 1 = m * (q + 1)
    BY <1>1, <1>3
  <2>3. (n + 1) % m = 0
    BY <1>1, <2>2
  <2> QED BY <2>1, <2>3 DEF r
<1> QED BY <1>1, <1>2, <1>3

(* The instructions lifted from any n words of a slice.                    *)
LEMMA LiftType ==
  ASSUME NEW words \in Seq(Word), NEW n \in 0 .. Len(words), NEW p \in Int
  PROVE  LiftBlock(words, n, p) \in Seq(Inst)
<1>1. \A i \in 1 .. n : LiftOne(words[i], p + i - 1) \in Inst
  <2>1. \A i \in 1 .. n : words[i] \in Word
    OBVIOUS
  <2> QED BY <2>1 DEF LiftOne, Inst
<1> QED BY <1>1 DEF LiftBlock

(* The instruction that executes next. *)
LEMMA CurrentInst ==
  ASSUME IInv, phase = "exec"
  PROVE  /\ pc \in DOMAIN blocks /\ Block \in Seq(Inst)
         /\ Len(Block) > 0 => ip \in 1 .. Len(Block) /\ Block[ip] \in Inst
<1>1. pc \in DOMAIN blocks /\ (Len(Block) = 0 \/ ip \in 1 .. Len(Block))
  BY DEF IInv, TypeOK, HasBlock
<1>2. blocks[pc] \in TranslatedBlock
  BY <1>1 DEF IInv, Structure
<1>3. Block \in Seq(Inst)
  BY <1>2 DEF Block, TranslatedBlock
<1> QED BY <1>1, <1>3

(* The PC that a block leaves behind is a number. *)
LEMMA ExitPcType ==
  ASSUME IInv, phase = "exec", NEW inst \in Inst, ip \in 1 .. Len(Block)
  PROVE  ExitPc(inst) \in Int
<1>1. /\ inst.w \in Word /\ inst.target \in Int
      /\ pc + ip \in Int /\ pc + Len(Block) \in Int
  BY CurrentInst DEF Inst, IInv, TypeOK
<1>2. Link(gs) \in Int
  BY DEF IInv, TypeOK
<1>3. CASE inst.w.k = "B"
  BY <1>1, <1>3 DEF ExitPc
<1>4. CASE inst.w.k = "Bcond"
  BY <1>1, <1>4 DEF ExitPc
<1>5. CASE inst.w.k = "RET"
  BY <1>2, <1>5 DEF ExitPc
<1>6. CASE inst.w.k \notin {"B", "Bcond", "RET"}
  BY <1>1, <1>6 DEF ExitPc
<1> QED BY <1>3, <1>4, <1>5, <1>6

(* Steps that leave the blocks and their history alone.                    *)
LEMMA SameBlocks ==
  ASSUME IInv, UNCHANGED <<blocks, executed, since, total>>
  PROVE  /\ CountersExact'
         /\ budget' \in Nat => Structure'
BY DEF IInv, CountersExact, Structure
-----------------------------------------------------------------------------
LEMMA InitIInv == Init => IInv
<1> SUFFICES ASSUME Init PROVE IInv
  OBVIOUS
<1> USE DEF Init, DispatcherInit
<1>1. TypeOK
  BY DEF TypeOK
<1>2. Structure /\ Accounts
  BY DEF Structure, Accounts
<1>3. CountersExact
  BY DEF CountersExact
<1> QED BY <1>1, <1>2, <1>3 DEF IInv

(* A block that is compiled starts cold, a replaced one too.               *)
LEMMA CompileSucceedsIInv ==
  ASSUME IInv, NEW p \in Starts, NEW words \in Slices, CompileSucceeds(p, words)
  PROVE  IInv'
<1>1. /\ phase = "idle" /\ calls' \in 0 .. MaxCalls
      /\ UNCHANGED <<pc, gs, mem, executed, phase, left, ip, result, ran, budget, total>>
  BY DEF CompileSucceeds, Call, CompileOk, runVars, IInv, TypeOK
<1>2. PICK n \in 0 .. Len(words) : blocks' = Insert(p, LiftBlock(words, n, p))
  BY DEF CompileSucceeds, CompileOk
<1> DEFINE insts == LiftBlock(words, n, p)
<1>3. [insts |-> insts, hits |-> 0] \in TranslatedBlock
  <2>1. insts \in Seq(Inst)
    BY LiftType
  <2> HIDE DEF insts
  <2> QED BY <2>1 DEF TranslatedBlock
<1> HIDE DEF insts
<1>4. /\ blocks' = [q \in DOMAIN blocks \cup {p} |->
                     IF q = p THEN [insts |-> insts, hits |-> 0] ELSE blocks[q]]
      /\ since' = [q \in DOMAIN since \cup {p} |-> IF q = p THEN 0 ELSE since[q]]
  BY <1>2 DEF Insert, insts, CompileSucceeds
<1>5. DOMAIN blocks = DOMAIN since
  BY DEF IInv, TypeOK
<1>6. TypeOK'
  BY <1>1, <1>4, <1>5 DEF IInv, TypeOK
<1>7. Structure'
  BY <1>1, <1>3, <1>4 DEF IInv, Structure
<1>8. Accounts'
  BY <1>1 DEF Accounts
<1>9. CountersExact'
  BY <1>1, <1>4, <1>5 DEF IInv, CountersExact
<1> QED BY <1>6, <1>7, <1>8, <1>9 DEF IInv

LEMMA CompileFailsIInv ==
  ASSUME IInv, NEW words \in Slices, CompileFails(words)
  PROVE  IInv'
<1>1. /\ phase = "idle" /\ calls' \in 0 .. MaxCalls
      /\ UNCHANGED <<pc, gs, mem, blocks, executed, phase, left, ip, result,
                     ran, budget, since, total>>
  BY DEF CompileFails, Call, CompileErr, runVars, history, IInv, TypeOK
<1>2. TypeOK' /\ Accounts'
  BY <1>1 DEF IInv, TypeOK, Accounts
<1>3. budget' \in Nat
  BY <1>1 DEF IInv, Structure
<1> QED BY <1>1, <1>2, <1>3, SameBlocks DEF IInv

LEMMA StartRunIInv ==
  ASSUME IInv, NEW start \in Starts, NEW n \in Budgets, StartRun(start, n)
  PROVE  IInv'
<1> USE DEF StartRun, Call
<1>1. TypeOK'
  BY DEF IInv, TypeOK
<1>2. Accounts'
  BY DEF Accounts
<1>3. budget' \in Nat
  OBVIOUS
<1> QED BY <1>1, <1>2, <1>3, SameBlocks DEF IInv

(* run answers. *)
LEMMA ReturnIInv ==
  ASSUME IInv, phase \in {"enter", "leave"}, NEW r \in {"ok", "missing", "budget"},
         Return(r), UNCHANGED <<ran, budget, since, total, calls>>
  PROVE  IInv'
<1> USE DEF Return
<1>1. TypeOK'
  BY DEF IInv, TypeOK
<1>2. Accounts'
  BY DEF Accounts
<1>3. budget' \in Nat
  BY DEF IInv, Structure
<1> QED BY <1>1, <1>2, <1>3, SameBlocks DEF IInv

(* Both counters and their histories step together, up to their limits.    *)
LEMMA EnterIInv ==
  ASSUME IInv, Enter, ran' = ran + 1, total' = total + 1,
         since' = [since EXCEPT ![pc] = @ + 1], UNCHANGED <<calls, budget>>
  PROVE  IInv'
<1>1. /\ pc \in DOMAIN blocks /\ DOMAIN blocks = DOMAIN since
      /\ blocks[pc] \in TranslatedBlock /\ since[pc] \in Nat
      /\ total \in Nat /\ ran \in Nat
  BY DEF IInv, TypeOK, Structure, Enter, HasBlock
<1> DEFINE hits == IF blocks[pc].hits < HitMax THEN blocks[pc].hits + 1
                   ELSE blocks[pc].hits
<1>2. /\ blocks' = [blocks EXCEPT ![pc] = [blocks[pc] EXCEPT !.hits = hits]]
      /\ UNCHANGED <<pc, gs, mem, left, result, held>>
      /\ executed' = (executed + 1) % ExecutedMod
      /\ ip' = 1 /\ phase' = "exec" /\ left > 0 /\ phase = "enter"
  BY DEF Enter
<1>3. hits \in 0 .. HitMax
  BY <1>1 DEF TranslatedBlock
<1>4. hits = IF since[pc] + 1 < HitMax THEN since[pc] + 1 ELSE HitMax
  BY <1>1 DEF IInv, CountersExact
<1> HIDE DEF hits
<1>5. /\ DOMAIN blocks' = DOMAIN blocks
      /\ blocks' \in [DOMAIN blocks -> TranslatedBlock]
      /\ blocks'[pc].hits = hits
      /\ \A p \in DOMAIN blocks : blocks'[p].insts = blocks[p].insts
      /\ \A p \in DOMAIN blocks : p # pc => blocks'[p] = blocks[p]
  BY <1>1, <1>2, <1>3 DEF IInv, Structure, TranslatedBlock
<1>6. /\ DOMAIN since' = DOMAIN since /\ since' \in [DOMAIN since -> Nat]
      /\ since'[pc] = since[pc] + 1
      /\ \A p \in DOMAIN since : p # pc => since'[p] = since[p]
  BY <1>1 DEF IInv, Structure
<1>7. executed' = total' % ExecutedMod
  <2>1. executed' = ((total % ExecutedMod) + 1) % ExecutedMod
    BY <1>2 DEF IInv, CountersExact
  <2> QED BY <1>1, <2>1, ModStep
<1>8. CountersExact'
  <2>1. ASSUME NEW p \in DOMAIN blocks
        PROVE  blocks'[p].hits = IF since'[p] < HitMax THEN since'[p] ELSE HitMax
    <3>1. CASE p = pc
      BY <1>4, <1>5, <1>6, <3>1
    <3>2. CASE p # pc
      BY <1>1, <1>5, <1>6, <3>2 DEF IInv, CountersExact
    <3> QED BY <3>1, <3>2
  <2> QED BY <1>5, <1>7, <2>1 DEF CountersExact
<1>9. Structure'
  BY <1>1, <1>5, <1>6 DEF IInv, Structure
<1>10. Accounts'
  <2>1. ran + left = budget /\ left \in Nat
    BY <1>2 DEF IInv, TypeOK, Accounts
  <2>2. left' = left /\ left > 0 /\ budget' = budget /\ phase' = "exec"
    BY <1>2
  <2>3. ran' + left' = budget' + 1 /\ left' > 0 /\ ran' > 0
    BY <1>1, <2>1, <2>2
  <2> QED BY <2>2, <2>3 DEF Accounts
<1>11. TypeOK'
  <2>1. Block' = Block
    BY <1>1, <1>2, <1>5 DEF Block
  <2>2. Len(Block) \in Nat
    BY <1>1 DEF Block, TranslatedBlock
  <2>3. Len(Block') = 0 \/ ip' \in 1 .. Len(Block')
    BY <1>2, <2>1, <2>2
  <2>4. executed' \in 0 .. ExecutedMod - 1
    BY <1>2 DEF IInv, TypeOK
  <2>5. ran' \in Nat /\ HasBlock(pc)' /\ DOMAIN blocks' = DOMAIN since'
    BY <1>1, <1>2, <1>5, <1>6 DEF HasBlock
  <2>6. /\ pc' \in Int /\ gs' \in GState /\ mem' \in Memory
        /\ left' \in Nat /\ calls' \in 0 .. MaxCalls
        /\ result' \in {"none", "ok", "missing", "budget"}
    BY <1>2 DEF IInv, TypeOK
  <2> QED BY <1>2, <2>3, <2>4, <2>5, <2>6 DEF TypeOK
<1> QED BY <1>8, <1>9, <1>10, <1>11 DEF IInv

LEMMA ExecEmptyIInv ==
  ASSUME IInv, ExecEmpty, UNCHANGED <<ran, budget, since, total, calls>>
  PROVE  IInv'
<1> USE DEF ExecEmpty
<1>1. TypeOK'
  BY DEF IInv, TypeOK
<1>2. Accounts'
  BY DEF IInv, Accounts
<1>3. budget' \in Nat
  BY DEF IInv, Structure
<1> QED BY <1>1, <1>2, <1>3, SameBlocks DEF IInv

LEMMA ExecInstIInv ==
  ASSUME IInv, ExecInst, UNCHANGED <<ran, budget, since, total, calls>>
  PROVE  IInv'
<1> DEFINE inst == Block[ip]
<1>1. /\ phase = "exec" /\ Len(Block) > 0
      /\ UNCHANGED <<blocks, executed, left, result>>
  BY DEF ExecInst
<1>2. /\ inst \in Inst /\ ip \in 1 .. Len(Block) /\ HasBlock(pc)
      /\ Block \in Seq(Inst)
  BY <1>1, CurrentInst DEF HasBlock
<1>3. /\ gs' = Effect(inst.w, gs) /\ mem' = MemEffect(inst.w, gs, mem)
      /\ \/ ip < Len(Block) /\ ip' = ip + 1 /\ UNCHANGED <<pc, phase>>
         \/ pc' = ExitPc(inst) /\ phase' = "leave" /\ UNCHANGED ip
  BY DEF ExecInst
<1>4. gs' \in GState /\ mem' \in Memory
  <2>1. inst.w \in Word
    BY <1>2 DEF Inst
  <2> HIDE DEF inst
  <2> QED BY <1>3, <2>1 DEF IInv, TypeOK, MemEffect, Memory
<1>5. ExitPc(inst) \in Int
  BY <1>1, <1>2, ExitPcType
<1>6. TypeOK'
  <2>1. pc' \in Int /\ phase' \in {"exec", "leave"}
    BY <1>1, <1>3, <1>5 DEF IInv, TypeOK
  <2>2. phase' = "exec" => ip' \in 1 .. Len(Block') /\ pc' \in DOMAIN blocks'
    BY <1>1, <1>2, <1>3 DEF Block, HasBlock
  <2> QED BY <1>1, <1>4, <2>1, <2>2 DEF IInv, TypeOK, HasBlock
<1>7. Accounts'
  BY <1>1, <1>3 DEF IInv, Accounts
<1>8. budget' \in Nat
  BY DEF IInv, Structure
<1> QED BY <1>1, <1>6, <1>7, <1>8, SameBlocks DEF IInv

(* Another iteration, at a PC that has a block. *)
LEMMA LeaveIInv ==
  ASSUME IInv, Leave, UNCHANGED <<ran, budget, since, total, calls>>
  PROVE  IInv'
<1>1. CASE Return("ok")
  BY <1>1, ReturnIInv DEF Leave
<1>2. CASE /\ HasBlock(pc) /\ left' = left - 1 /\ phase' = "enter"
           /\ UNCHANGED <<pc, gs, mem, blocks, executed, ip, result, held>>
  <2>1. TypeOK'
    BY <1>2 DEF IInv, TypeOK, Accounts, Leave
  <2>2. Accounts'
    <3>1. ran + left = budget + 1 /\ left \in Nat /\ ran \in Nat /\ budget \in Nat
      BY DEF IInv, TypeOK, Structure, Accounts, Leave
    <3>2. ran' + left' = budget'
      BY <1>2, <3>1
    <3> QED BY <1>2, <3>2 DEF Accounts, HasBlock
  <2>3. budget' \in Nat
    BY DEF IInv, Structure
  <2> QED BY <1>2, <2>1, <2>2, <2>3, SameBlocks DEF IInv
<1> QED BY <1>1, <1>2 DEF Leave

LEMMA StepOfRunIInv == IInv /\ Step => IInv'
<1> SUFFICES ASSUME IInv, Step PROVE IInv'
  OBVIOUS
<1>1. UNCHANGED <<calls, budget>>
  BY DEF Step
<1>2. CASE Enter
  BY <1>1, <1>2, EnterIInv DEF Step, Entered, Enter
<1>3. CASE OutOfBudget \/ NoBlock \/ ExecEmpty \/ ExecInst \/ Leave
  <2>1. ~ Entered
    BY <1>3 DEF Entered, OutOfBudget, NoBlock, ExecEmpty, ExecInst, Leave, Return
  <2>2. UNCHANGED <<ran, budget, since, total, calls>>
    BY <1>1, <2>1 DEF Step
  <2> QED BY <1>3, <2>2, ReturnIInv, ExecEmptyIInv, ExecInstIInv, LeaveIInv
          DEF OutOfBudget, NoBlock
<1> QED BY <1>2, <1>3 DEF Step, RunStep

LEMMA StepIInv == IInv /\ [Next]_cvars => IInv'
<1> SUFFICES ASSUME IInv, [Next]_cvars PROVE IInv'
  OBVIOUS
<1>1. CASE UNCHANGED cvars
  <2> USE <1>1 DEF cvars
  <2>1. TypeOK' /\ Accounts'
    BY DEF IInv, TypeOK, Accounts, HasBlock, Block
  <2>2. budget' \in Nat
    BY DEF IInv, Structure
  <2> QED BY <2>1, <2>2, SameBlocks DEF IInv
<1>2. CASE Next
  BY <1>2, CompileSucceedsIInv, CompileFailsIInv, StartRunIInv, StepOfRunIInv
  DEF Next
<1> QED BY <1>1, <1>2

LEMMA Invariance == Spec => []IInv
BY InitIInv, StepIInv, PTL DEF Spec

(* The types of the dispatcher's state and of what is counted about it.    *)
THEOREM TypeCorrect == Spec => []TypeOK
BY Invariance, PTL DEF IInv

(* hit_count and blocks_executed are the number of entries, saturated and  *)
(* wrapped, whatever is compiled again in between.                         *)
THEOREM CountersTellTheTruth == Spec => []CountersExact
BY Invariance, PTL DEF IInv
-----------------------------------------------------------------------------
(* Whatever ends a run is one of its three answers, and is true then.      *)
LEMMA AnswerStep ==
  IInv /\ [Next]_cvars => [phase # "idle" /\ phase' = "idle" => Answer(result')]_cvars
<1> SUFFICES ASSUME IInv, Next, phase # "idle", phase' = "idle"
             PROVE  Answer(result')
  BY DEF cvars
<1>1. Step
  BY DEF Next, CompileSucceeds, CompileFails, StartRun, Call
<1>2. CASE OutOfBudget
  BY <1>2 DEF OutOfBudget, Return, Answer, IInv, TypeOK, Structure, Accounts
<1>3. CASE NoBlock
  BY <1>3 DEF NoBlock, Return, Answer, HasBlock, IInv, TypeOK, Structure, Accounts
<1>4. CASE Leave
  BY <1>4 DEF Leave, Return, Answer, HasBlock, IInv, TypeOK, Structure, Accounts
<1>5. CASE Enter \/ ExecEmpty \/ ExecInst
  BY <1>5 DEF Enter, ExecEmpty, ExecInst
<1> QED BY <1>1, <1>2, <1>3, <1>4, <1>5 DEF Step, RunStep

(* "ok", "budget" and "missing" mean what dispatch.rs says, for any blocks *)
(* and any budget.                                                         *)
THEOREM AnswersAreTrue == Spec => RunOutcome
BY Invariance, AnswerStep, PTL DEF Spec, RunOutcome
-----------------------------------------------------------------------------
(* What is left of a run: the parts of iterations, and the instructions of *)
(* the block it is in.                                                     *)
PartsToGo ==
  CASE phase = "enter" -> 3 * left + 3
    [] phase = "exec"  -> 3 * left + 2
    [] phase = "leave" -> 3 * left + 1
    [] phase = "idle"  -> 0

InstsToGo == IF phase = "exec" /\ Len(Block) > 0 THEN Len(Block) - ip ELSE 0

LEMMA PartsOf ==
  ASSUME TypeOK
  PROVE  /\ phase = "enter" => PartsToGo = 3 * left + 3
         /\ phase = "exec"  => PartsToGo = 3 * left + 2
         /\ phase = "leave" => PartsToGo = 3 * left + 1
         /\ phase = "idle"  => PartsToGo = 0
BY DEF PartsToGo, TypeOK

LEMMA ToGoType == IInv => PartsToGo \in Nat /\ InstsToGo \in Nat
<1> SUFFICES ASSUME IInv PROVE PartsToGo \in Nat /\ InstsToGo \in Nat
  OBVIOUS
<1>1. PartsToGo \in Nat
  BY PartsOf DEF IInv, TypeOK
<1>2. InstsToGo \in Nat
  <2>1. CASE phase = "exec" /\ Len(Block) > 0
    <3>1. ip \in 1 .. Len(Block) /\ Len(Block) \in Nat
      BY <2>1, CurrentInst
    <3> QED BY <2>1, <3>1 DEF InstsToGo
  <2>2. CASE ~ (phase = "exec" /\ Len(Block) > 0)
    BY <2>2 DEF InstsToGo
  <2> QED BY <2>1, <2>2
<1> QED BY <1>1, <1>2

(* A step of a run leaves less to go, lexicographically. *)
Nearer == \/ PartsToGo' < PartsToGo
          \/ PartsToGo' = PartsToGo /\ InstsToGo' < InstsToGo

LEMMA NearerStep ==
  IInv /\ IInv' /\ [Next]_cvars => [phase # "idle" => Nearer]_cvars
<1> SUFFICES ASSUME IInv, IInv', Next, phase # "idle" PROVE Nearer
  OBVIOUS
<1> USE DEF Nearer
<1>1. Step
  BY DEF Next, CompileSucceeds, CompileFails, StartRun, Call
<1>2. /\ left \in Nat /\ left' \in Nat
      /\ phase = "enter" => PartsToGo = 3 * left + 3
      /\ phase = "exec"  => PartsToGo = 3 * left + 2
      /\ phase = "leave" => PartsToGo = 3 * left + 1
  BY PartsOf DEF IInv, TypeOK
<1>4. /\ phase' = "enter" => PartsToGo' = 3 * left' + 3
      /\ phase' = "exec"  => PartsToGo' = 3 * left' + 2
      /\ phase' = "leave" => PartsToGo' = 3 * left' + 1
      /\ phase' = "idle"  => PartsToGo' = 0
  BY DEF IInv, TypeOK, PartsToGo
<1>5. ASSUME NEW r, phase \in {"enter", "leave"}, Return(r) PROVE Nearer
  BY <1>2, <1>4, <1>5 DEF Return
<1>6. CASE OutOfBudget
  BY <1>5, <1>6 DEF OutOfBudget
<1>7. CASE NoBlock
  BY <1>5, <1>7 DEF NoBlock
<1>8. CASE Enter
  BY <1>2, <1>4, <1>8 DEF Enter
<1>9. CASE ExecEmpty
  BY <1>2, <1>4, <1>9 DEF ExecEmpty
<1>10. CASE ExecInst
  <2>1. /\ phase = "exec" /\ Len(Block) > 0 /\ left' = left /\ blocks' = blocks
        /\ \/ ip < Len(Block) /\ ip' = ip + 1 /\ UNCHANGED <<pc, phase>>
           \/ phase' = "leave"
    BY <1>10 DEF ExecInst
  <2>2. CASE phase' = "leave"
    BY <1>2, <1>4, <2>1, <2>2
  <2>3. CASE ip < Len(Block) /\ ip' = ip + 1 /\ UNCHANGED <<pc, phase>>
    <3>1. PartsToGo' = PartsToGo
      BY <1>2, <1>4, <2>1, <2>3
    <3>2. Block' = Block /\ ip \in Int /\ Len(Block) \in Int
      BY <2>1, <2>3, CurrentInst DEF Block
    <3>3. InstsToGo = Len(Block) - ip /\ InstsToGo' = Len(Block) - (ip + 1)
      BY <2>1, <2>3, <3>2 DEF InstsToGo
    <3> QED BY <3>1, <3>2, <3>3
  <2> QED BY <2>1, <2>2, <2>3
<1>11. CASE Leave
  <2>1. CASE Return("ok")
    BY <1>5, <1>11, <2>1 DEF Leave
  <2>2. CASE left' = left - 1 /\ phase' = "enter"
    BY <1>2, <1>4, <1>11, <2>2 DEF Leave
  <2> QED BY <1>11, <2>1, <2>2 DEF Leave
<1> QED BY <1>1, <1>6, <1>7, <1>8, <1>9, <1>10, <1>11 DEF Step, RunStep

(* Whatever blocks the guest loops through, every step of a run brings its *)
(* answer nearer: a run returns as long as it takes its steps              *)
(* (dispatch.rs:50).                                                       *)
THEOREM RunsAreBounded ==
  Spec => /\ [](PartsToGo \in Nat /\ InstsToGo \in Nat)
          /\ [][phase # "idle" => Nearer]_cvars
BY Invariance, ToGoType, NearerStep, PTL DEF Spec
=============================================================================
