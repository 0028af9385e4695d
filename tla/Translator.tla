----------------------------- MODULE Translator -----------------------------
(***************************************************************************)
(* The translation of a block and the run of its code: lift_block_at,      *)
(* prepare_block and emit_block, as Dispatcher::compile_block and the      *)
(* background compiler chain them.  Every pass goes once over the block,   *)
(* first instruction to last, and hands nothing from one instruction to    *)
(* the next but the optimizer's table of constants; so one step takes one  *)
(* guest instruction through all passes and runs the code it became.       *)
(***************************************************************************)
EXTENDS Lifter, Optimizer, CodeGen

CONSTANTS
  Insts,      \* the guest instructions that occur
  States,     \* the states a block is entered in
  MaxSlots    \* instructions in a block (WORDS_PER_FETCH, 32)

ASSUME TranslatorAssumption ==
  /\ States \subseteq GuestState
  /\ MaxSlots \in Nat
  /\ \A w \in Insts : WellFormed(w)

VARIABLES
  stage,  \* "open", "left" (the code has returned), "refused"
  slot,   \* instructions translated and run so far
  known,  \* the optimizer's constants after them
  st,     \* GuestState without pc
  pc,     \* GuestState.pc, relative to the block
  inst,   \* the guest instruction of the last step
  why     \* the pass that refused the block, "none" while none has

tvars == <<stage, slot, known, st, pc, inst, why>>

NoInst == [op |-> "NOP"]

Init ==
  /\ stage = "open" /\ slot = 0
  /\ known = NothingKnown
  /\ st \in States
  /\ pc = <<"at", 0>>
  /\ inst = NoInst
  /\ why = "none"

Lifted(w) == LiftOneAt(w, slot)
Optimized(w) == OptStep(Lifted(w), known)

(* A deliberately wrong Open: one instruction more than the fetch window.  *)
Open_OffByOne == stage = "open" /\ slot <= MaxSlots

Open == stage = "open" /\ slot < MaxSlots

(* One instruction of the block, translated and run. *)
Instruction(w) ==
  LET opt == Optimized(w)
  IN  /\ Open
      /\ CanEmit(opt.inst)
      /\ st' = Emitted(opt.inst, st)
      /\ known' = opt.known
      /\ slot' = slot + 1
      /\ inst' = w
      /\ IF EndsBlock(opt.inst)
         THEN pc' = ExitPc(opt.inst, st, slot + 1) /\ stage' = "left"
         ELSE UNCHANGED <<pc, stage>>
      /\ UNCHANGED why

(* The words ran out: the code after the last instruction of a block that  *)
(* ends without a branch.                                                  *)
FallThrough ==
  /\ stage = "open" /\ slot > 0
  /\ pc' = <<"at", slot>>
  /\ stage' = "left"
  /\ UNCHANGED <<slot, known, st, inst, why>>

(* compile_block returns an error: the lifter has no IR for the word, or   *)
(* emit_block no code for the IR.                                          *)
Refuse(w) ==
  /\ Open
  /\ ~ CanEmit(Optimized(w).inst)
  /\ stage' = "refused"
  /\ inst' = w
  /\ why' = IF Lifted(w).opcode = "Unsupported" THEN "lifter"
            ELSE IF ~ CanEmit(Lifted(w)) THEN "operand"
            ELSE "optimizer"
  /\ UNCHANGED <<slot, known, st, pc>>

Next == FallThrough \/ \E w \in Insts : Instruction(w) \/ Refuse(w)

Spec == Init /\ [][Next]_tvars

(* Nothing blocks the thread that translates and runs.                     *)
FairSpec == Spec /\ WF_tvars(Next)

TypeOK ==
  /\ stage \in {"open", "left", "refused"}
  /\ slot \in 0 .. MaxSlots
  /\ known \in Known
  /\ st \in GuestState
  /\ inst \in Insts \cup {NoInst}
  /\ why \in {"none", "lifter", "operand", "optimizer"}
-----------------------------------------------------------------------------
(* Every constant the optimizer holds is the value of that register at     *)
(* this point of the block, whatever has been loaded, shifted or moved     *)
(* into it since (optimizer.rs:13-54).                                     *)
ConstantsSound ==
  \A r \in GPR : known[r] # NoConst => known[r] = st.x[r]

(* The code of a block does, instruction for instruction, what the         *)
(* architecture says: the passes, constant folding, algebraic identities,  *)
(* immediate forms and the flag tricks of the code generator included.     *)
ExecutesArm ==
  [][slot' > slot => st' = ArmStep(inst', st)]_tvars

(* A block leaves state.pc where the architecture would: after its last    *)
(* instruction, or where its branch goes.                                  *)
ExitsLikeArm ==
  [][stage' = "left" =>
       pc' = IF slot' > slot THEN ArmNextPc(inst', st, slot)
             ELSE <<"at", slot>>]_tvars

(* The optimizer refuses nothing: a block whose lifted instructions can be *)
(* emitted can still be emitted after optimize_block (optimizer.rs:5-7,    *)
(* "deliberately conservative around control flow, memory, and NZCV").     *)
OptimizerKeepsBlocks == why # "optimizer"

(* Where that fails is at one kind of instruction only: one that stores or *)
(* tests a register whose value is a constant by then (optimizer.rs:16-17, *)
(* x86_64.rs:173, :175).  No other rewriting, folding or identity makes a  *)
(* form that emit_block refuses.                                           *)
OnlyConstantsRefused ==
  why = "optimizer" =>
    /\ inst.op \in {"STR", "CBZ", "CBNZ"}
    /\ inst.rt \in GPR /\ known[inst.rt] # NoConst
=============================================================================
