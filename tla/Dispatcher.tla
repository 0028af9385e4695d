----------------------------- MODULE Dispatcher -----------------------------
(***************************************************************************)
(* runtime/dispatch.rs: the map from guest PC to translated block, its     *)
(* compile_block and its run loop, together with the block discovery of    *)
(* lift/block.rs that compile_block starts with.                           *)
(*                                                                         *)
(* Translated code is the snapshot of the words it was lifted from, each   *)
(* with the branch target the lifter computed; running a block takes one   *)
(* step per instruction, and only the end of the block writes state.pc, as *)
(* the emitted code does.                                                  *)
(***************************************************************************)
EXTENDS ISA, Sequences

CONSTANTS
  WordsPerFetch,  \* words handed to compile_block (WORDS_PER_FETCH, 32)
  HitMax,         \* u32::MAX, where hit_count saturates
  ExecutedMod     \* 2^64, where blocks_executed wraps

ASSUME DispatcherAssumption ==
  /\ WordsPerFetch \in Nat \ {0}
  /\ HitMax \in Nat \ {0}
  /\ ExecutedMod \in Nat \ {0}

VARIABLES
  pc,        \* GuestState.pc
  gs,        \* the rest of GuestState
  mem,       \* the words of GuestMemory
  blocks,    \* Dispatcher.blocks, as a function on the translated PCs
  executed,  \* Dispatcher.blocks_executed
  phase,     \* where run is: "idle", "enter", "exec", "leave"
  left,      \* iterations of run's loop still allowed
  ip,        \* the instruction of the current block that executes next
  result,    \* what run returned: "none", "ok", "missing", "budget"
  held       \* history: every word each address has held

runVars == <<phase, left, ip, result>>
dvars == <<pc, gs, mem, blocks, executed, phase, left, ip, result, held>>
-----------------------------------------------------------------------------
(* Translation: lift_block_at, then Dispatcher::compile_block.             *)

(* One lifted instruction; a direct branch carries its absolute target,    *)
(* computed from the PC of the instruction itself.                         *)
LiftOne(w, instPc) == [w |-> w, target |-> instPc + w.o]

(* lift_block_at consumes n of the words: up to the first terminal, that   *)
(* one included, or all of them.                                           *)
Consumed(words, n) ==
  /\ \A i \in 1 .. n - 1 : ~ Terminal(words[i])
  /\ n = Len(words) \/ (n > 0 /\ Terminal(words[n]))

(* A deliberately wrong LiftBlock: targets relative to the block's PC.     *)
LiftBlock_BlockPc(words, n, guestPc) ==
  [i \in 1 .. n |-> LiftOne(words[i], guestPc)]

LiftBlock(words, n, guestPc) ==
  [i \in 1 .. n |-> LiftOne(words[i], guestPc + i - 1)]

(* compile_block rejects the whole block if one instruction is Unsupported *)
Translatable(words, n) == \A i \in 1 .. n : Lowered(words[i])

(* HashMap::insert: a new block starts cold, and replaces the one before.  *)
Insert(p, insts) ==
  [q \in DOMAIN blocks \cup {p} |->
     IF q = p THEN [insts |-> insts, hits |-> 0] ELSE blocks[q]]

HasBlock(p) == p \in DOMAIN blocks

(* compile_block succeeded. *)
CompileOk(p, words) ==
  /\ \E n \in 0 .. Len(words) :
       /\ Consumed(words, n)
       /\ Translatable(words, n)
       /\ blocks' = Insert(p, LiftBlock(words, n, p))
  /\ UNCHANGED <<pc, gs, mem, executed, held>>

(* compile_block failed, before the map was touched: an unsupported word,  *)
(* or a code generation or mapping error, which may strike any block.      *)
CompileErr(reason, words) ==
  /\ \E n \in 0 .. Len(words) :
       /\ Consumed(words, n)
       /\ reason \in IF Translatable(words, n) THEN {"codegen", "mapping"}
                     ELSE {"unsupported"}
  /\ UNCHANGED <<pc, gs, mem, blocks, executed, held>>
-----------------------------------------------------------------------------
(* Dispatcher::run. *)

Run(maxBlocks) ==
  /\ phase = "idle"
  /\ phase' = "enter"
  /\ left' = maxBlocks
  /\ UNCHANGED <<pc, gs, mem, blocks, executed, ip, result, held>>

Return(r) ==
  /\ result' = r
  /\ phase' = "idle"
  /\ UNCHANGED <<pc, gs, mem, blocks, executed, left, ip, held>>

(* The loop is over: "dispatcher execution budget exhausted". *)
OutOfBudget == phase = "enter" /\ left = 0 /\ Return("budget")

(* blocks.get_mut(&pc) finds nothing: "no translated block". *)
NoBlock == phase = "enter" /\ left > 0 /\ ~ HasBlock(pc) /\ Return("missing")

(* Both counters are bumped before the block runs. *)
Enter_Unsaturated ==  \* deliberately wrong: hit_count wraps
  /\ phase = "enter" /\ left > 0 /\ HasBlock(pc)
  /\ executed' = (executed + 1) % ExecutedMod
  /\ blocks' = [blocks EXCEPT ![pc].hits = (@ + 1) % (HitMax + 1)]
  /\ ip' = 1
  /\ phase' = "exec"
  /\ UNCHANGED <<pc, gs, mem, left, result, held>>

Enter ==
  /\ phase = "enter" /\ left > 0 /\ HasBlock(pc)
  /\ executed' = (executed + 1) % ExecutedMod
  /\ blocks' = [blocks EXCEPT ![pc].hits = IF @ < HitMax THEN @ + 1 ELSE @]
  /\ ip' = 1
  /\ phase' = "exec"
  /\ UNCHANGED <<pc, gs, mem, left, result, held>>

Block == blocks[pc].insts

(* A deliberately wrong ExitPc: conditional branches with their sense      *)
(* inverted. *)
ExitPc_Inverted(inst) ==
  CASE inst.w.k = "B"     -> inst.target
    [] inst.w.k = "Bcond" -> IF Taken(inst.w, gs) THEN pc + ip ELSE inst.target
    [] inst.w.k = "RET"   -> Link(gs)
    [] OTHER              -> pc + Len(Block)

(* The PC the last instruction of a block leaves in state.pc. *)
ExitPc(inst) ==
  CASE inst.w.k = "B"     -> inst.target
    [] inst.w.k = "Bcond" -> IF Taken(inst.w, gs) THEN inst.target ELSE pc + ip
    [] inst.w.k = "RET"   -> Link(gs)
    [] OTHER              -> pc + Len(Block)

(* A deliberately wrong ExecEmpty: no code for an empty block, not even the*)
(* return; here it never comes back. *)
ExecEmpty_NoReturn ==
  /\ phase = "exec" /\ Len(Block) = 0
  /\ UNCHANGED dvars

(* compile_block(pc, &[]) makes a block that only writes its own pc back.  *)
ExecEmpty ==
  /\ phase = "exec" /\ Len(Block) = 0
  /\ phase' = "leave"
  /\ UNCHANGED <<pc, gs, mem, blocks, executed, left, ip, result, held>>

(* A deliberately wrong ExecInst: the last instruction leaves ip behind it,*)
(* and the block never ends. *)
ExecInst_OffByOne ==
  /\ phase = "exec" /\ ip <= Len(Block)
  /\ LET inst == Block[ip]
     IN  /\ gs' = Effect(inst.w, gs)
         /\ mem' = MemEffect(inst.w, gs, mem)
         /\ held' = [a \in Addr |-> held[a] \cup {mem'[a]}]
  /\ ip' = ip + 1
  /\ UNCHANGED <<pc, phase, blocks, executed, left, result>>

ExecInst ==
  /\ phase = "exec" /\ Len(Block) > 0
  /\ LET inst == Block[ip]
     IN  /\ gs' = Effect(inst.w, gs)
         /\ mem' = MemEffect(inst.w, gs, mem)
         /\ held' = [a \in Addr |-> held[a] \cup {mem'[a]}]
         /\ \/ /\ ip < Len(Block)
               /\ ip' = ip + 1
               /\ UNCHANGED <<pc, phase>>
            \/ /\ ip = Len(Block)
               /\ pc' = ExitPc(inst)
               /\ phase' = "leave"
               /\ UNCHANGED ip
  /\ UNCHANGED <<blocks, executed, left, result>>

(* A deliberately wrong Leave: the loop's counter does not count. *)
Leave_NoCount ==
  /\ phase = "leave"
  /\ \/ ~ HasBlock(pc) /\ Return("ok")
     \/ /\ HasBlock(pc)
        /\ phase' = "enter"
        /\ UNCHANGED <<pc, gs, mem, blocks, executed, left, ip, result, held>>

(* A deliberately wrong Leave: no contains_key before the next iteration.  *)
Leave_NoCheck ==
  /\ phase = "leave"
  /\ left' = left - 1
  /\ phase' = "enter"
  /\ UNCHANGED <<pc, gs, mem, blocks, executed, ip, result, held>>

(* The block came back: stop at an untranslated PC, else take the next one *)
Leave ==
  /\ phase = "leave"
  /\ \/ ~ HasBlock(pc) /\ Return("ok")
     \/ /\ HasBlock(pc)
        /\ left' = left - 1
        /\ phase' = "enter"
        /\ UNCHANGED <<pc, gs, mem, blocks, executed, ip, result, held>>

RunStep == OutOfBudget \/ NoBlock \/ Enter \/ ExecEmpty \/ ExecInst \/ Leave

(* Dispatcher::new, and a program in guest memory. *)
DispatcherInit ==
  /\ blocks = [p \in {} |-> <<>>]
  /\ executed = 0
  /\ phase = "idle"
  /\ left = 0
  /\ ip = 1
  /\ result = "none"
  /\ held = [a \in Addr |-> {mem[a]}]
=============================================================================
