------------------------------ MODULE Machine ------------------------------
(***************************************************************************)
(* Blocks of real instructions, translated once and run many times: the    *)
(* dispatcher's map over the code that lifter, optimizer and code generator*)
(* make.  In Translator an instruction is translated in the state it runs  *)
(* in; here a block is translated in one state and entered in others, from *)
(* other blocks and again from itself.                                     *)
(*                                                                         *)
(* The caller of Dispatcher may compile at any PC between two runs and run *)
(* with any budget, so that between two blocks it may or may not be asked  *)
(* (DispatcherClient has the budgets and answers of run).  Blocks compiled *)
(* without prepare_block, as bin/smoke.rs does, take part as well.  PCs    *)
(* count instructions, and so does X30 when it is returned to.             *)
(***************************************************************************)
EXTENDS Lifter, Optimizer, CodeGen, Sequences

CONSTANTS
  ProgramLength,  \* instructions of a program
  Insts,          \* the guest instructions that occur
  Programs,       \* the programs
  States          \* the states a program is started in

Addr == 0 .. ProgramLength - 1

ASSUME MachineAssumption ==
  /\ ProgramLength \in Nat \ {0}
  /\ Programs \subseteq [Addr -> Insts]
  /\ States \subseteq GuestState
  /\ \A w \in Insts : WellFormed(w)

VARIABLES
  program,  \* the instructions in guest memory
  pc,       \* GuestState.pc
  st,       \* the rest of GuestState
  blocks,   \* Dispatcher.blocks: the emitted code, one entry per instruction
  ip        \* the instruction of the block at pc that runs next, 0 for none

mvars == <<program, pc, st, blocks, ip>>

Init ==
  /\ program \in Programs
  /\ pc \in Addr
  /\ st \in States
  /\ blocks = [p \in {} |-> <<>>]
  /\ ip = 0
-----------------------------------------------------------------------------
(* Translation of a block. *)

NoInst == IRInst("Nop", FALSE, None, None, None)

Ends(w) == w.op \in Branches

(* The block at p: up to the first branch, that one included.              *)
Span(p) ==
  CHOOSE n \in 1 .. ProgramLength - p :
    /\ \A i \in 0 .. n - 2 : ~ Ends(program[p + i])
    /\ Ends(program[p + n - 1]) \/ p + n = ProgramLength

LiftBlock(p) == [i \in 1 .. Span(p) |-> LiftOneAt(program[p + i - 1], p + i - 1)]

(* What the pass makes of each instruction, and the table of constants it  *)
(* has after it. *)
Pass(insts, known) ==
  LET pass[i \in 0 .. Len(insts)] ==
        IF i = 0 THEN [inst |-> NoInst, known |-> known]
        ELSE OptStep(insts[i], pass[i - 1].known)
  IN  pass

Optimize(insts, known) ==
  LET pass == Pass(insts, known)
  IN  [i \in DOMAIN insts |-> pass[i].inst]

(* A deliberately wrong Prepare: specialises the block to the registers of *)
(* the state it is compiled in. *)
Prepare_Specialised(insts) == Optimize(insts, st.x)

(* prepare_block: optimize_block starts knowing nothing. *)
Prepare(insts) == Optimize(insts, NothingKnown)

(* compile_block at p with the words from p on; with prepare_block or      *)
(* without.  A block that cannot be emitted changes nothing.               *)
Compile(p, prepare) ==
  /\ ip = 0
  /\ LET code == IF prepare THEN Prepare(LiftBlock(p)) ELSE LiftBlock(p)
     IN  /\ \A i \in DOMAIN code : CanEmit(code[i])
         /\ blocks' = [q \in DOMAIN blocks \cup {p} |->
                         IF q = p THEN code ELSE blocks[q]]
  /\ UNCHANGED <<program, pc, st, ip>>
-----------------------------------------------------------------------------
(* Running. *)

Enter ==
  /\ ip = 0 /\ pc \in DOMAIN blocks
  /\ ip' = 1
  /\ UNCHANGED <<program, pc, st, blocks>>

Code == blocks[pc]

(* byte_len, in instructions: every push of the lifter adds one, and the   *)
(* optimizer rewrites instructions in place. *)
ByteLen(code) == Len(code)

PcOf(exit) == IF exit[1] = "at" THEN exit[2] ELSE Number(exit[2])

(* A deliberately wrong Execute: falls through to the PC after ip.         *)
Execute_NoReturn ==
  /\ ip > 0
  /\ st' = Emitted(Code[ip], st)
  /\ ip' = ip + 1
  /\ UNCHANGED <<program, pc, blocks>>

(* One instruction of the code; the last one writes state.pc. *)
Execute ==
  /\ ip > 0
  /\ st' = Emitted(Code[ip], st)
  /\ IF ip < Len(Code)
     THEN ip' = ip + 1 /\ UNCHANGED pc
     ELSE /\ ip' = 0
          /\ pc' = IF EndsBlock(Code[ip]) THEN PcOf(ExitPc(Code[ip], st, pc + ip))
                   ELSE pc + ByteLen(Code)
  /\ UNCHANGED <<program, blocks>>

Next ==
  \/ \E p \in Addr, prepare \in BOOLEAN : Compile(p, prepare)
  \/ Enter \/ Execute

Spec == Init /\ [][Next]_mvars

TypeOK ==
  /\ program \in [Addr -> Insts]
  /\ pc \in Int
  /\ st \in GuestState
  /\ DOMAIN blocks \subseteq Addr
  /\ \A p \in DOMAIN blocks : p + Len(blocks[p]) <= ProgramLength
  /\ ip \in Nat
  /\ ip > 0 => pc \in DOMAIN blocks /\ ip <= Len(Code)
-----------------------------------------------------------------------------
(* The abstract machine of Guest, with Arm for its instruction set.        *)

Kind(w) ==
  CASE w.op = "B" -> "B"
    [] w.op \in {"BCOND", "CBZ", "CBNZ"} -> "Bcond"
    [] w.op = "RET" -> "RET"
    [] OTHER -> "Plain"

GuestWord(w) ==
  [k |-> Kind(w), o |-> IF Kind(w) \in {"B", "Bcond"} THEN w.offset ELSE 0, inst |-> w]

ArmEffect(w, g) == ArmStep(w.inst, g)
ArmTaken(w, g) == ArmNextPc(w.inst, g, 0) # ArmNextPc([op |-> "NOP"], g, 0)
NoStores(w, g) == <<>>
X30(g) == Number(g.x[LR])

(* The guest is at the instruction that runs next; its memory is the       *)
(* program. *)
ArmPc == pc + (IF ip > 0 THEN ip - 1 ELSE 0)
ArmMem == [a \in Addr |-> GuestWord(program[a])]
ArmHeld == [a \in Addr |-> {GuestWord(program[a])}]

G == INSTANCE Guest WITH
  MemWords <- ProgramLength, Word <- {GuestWord(w) : w \in Insts},
  ZeroWord <- GuestWord(NoInst), GState <- GuestState,
  Effect <- ArmEffect, Stored <- NoStores, Taken <- ArmTaken, Link <- X30,
  pc <- ArmPc, gs <- st, mem <- ArmMem, held <- ArmHeld

(* Translated code runs the program as the architecture does: whatever     *)
(* state a block was compiled in and is entered in, however often, by      *)
(* whichever block, optimized or not, and whatever is compiled again in    *)
(* between (dispatch.rs:24-58, compiler.rs:11-13 "keeping both paths       *)
(* semantically identical").                                               *)
RunsTheProgram == G!Spec
=============================================================================
