------------------------------ MODULE Launcher ------------------------------
(***************************************************************************)
(* main.rs: the loop of try_main once the ELF image is in guest memory.    *)
(* It looks the guest PC up, translates the block there when it is not yet *)
(* translated, and lets the dispatcher run it with a budget of Quantum     *)
(* blocks (the literal 1 of dispatcher.run(&mut state, 1)).                *)
(***************************************************************************)
EXTENDS Dispatcher

CONSTANTS
  MaxBlocks,  \* MAX_BLOCKS, 1_000_000
  Quantum,    \* second argument of dispatcher.run, 1
  Images,     \* the programs: contents of guest memory after loading
  Entries     \* the entry points their ELF headers name

ASSUME LauncherAssumption ==
  /\ MaxBlocks \in Nat
  /\ Quantum \in Nat \ {0}
  /\ Images \subseteq Memory
  /\ Entries \subseteq Int

VARIABLES
  stage,  \* "loop", "ready" (block translated), "running", "exit", "fail"
  iter,   \* completed iterations of the main loop
  err     \* the error try_main returned, "none" while it has not

lvars == <<pc, gs, mem, blocks, executed, phase, left, ip, result, held,
           stage, iter, err>>

Stages == {"loop", "ready", "running", "exit", "fail"}
Errors == {"none", "outside", "unsupported", "codegen", "mapping",
           "missing", "budget", "exhausted"}

(* X30 = 0 is the host's termination sentinel: Link is 0 at the start.     *)
Init ==
  /\ pc \in Entries
  /\ mem \in Images
  /\ gs \in GState /\ Link(gs) = 0
  /\ DispatcherInit
  /\ stage = "loop"
  /\ iter = 0
  /\ err = "none"

Fail(reason) == stage' = "fail" /\ err' = reason

(* The window of words handed to the translator, zero past the end of      *)
(* guest memory.                                                           *)
Fetch(p) ==
  [i \in 1 .. WordsPerFetch |->
     IF p + i - 1 < MemWords THEN mem[p + i - 1] ELSE ZeroWord]

Looping_NoSentinel == stage = "loop" /\ iter < MaxBlocks  \* deliberately wrong

Looping == stage = "loop" /\ iter < MaxBlocks /\ pc # 0

(* The loop broke at pc = 0, or ran out of iterations. *)
Finish ==
  /\ stage = "loop"
  /\ pc = 0 \/ iter = MaxBlocks
  /\ IF pc = 0 THEN stage' = "exit" /\ UNCHANGED err ELSE Fail("exhausted")
  /\ UNCHANGED <<dvars, iter>>

OutsideMemory ==
  /\ Looping
  /\ pc \notin Addr
  /\ Fail("outside")
  /\ UNCHANGED <<dvars, iter>>

(* A deliberately wrong Translate: the errors of compile_block are dropped *)
Translate_Ignoring ==
  /\ \/ CompileOk(pc, Fetch(pc))
     \/ \E reason \in {"unsupported", "codegen", "mapping"} :
          CompileErr(reason, Fetch(pc))
  /\ stage' = "ready"
  /\ UNCHANGED err

(* compile_block for the words at pc; its errors end the program. *)
Translate ==
  \/ /\ CompileOk(pc, Fetch(pc))
     /\ stage' = "ready"
     /\ UNCHANGED err
  \/ \E reason \in {"unsupported", "codegen", "mapping"} :
       CompileErr(reason, Fetch(pc)) /\ Fail(reason)

LookUp ==
  /\ Looping /\ pc \in Addr
  /\ IF HasBlock(pc)
     THEN stage' = "ready" /\ UNCHANGED <<pc, gs, mem, blocks, executed, held, err>>
     ELSE Translate
  /\ UNCHANGED <<runVars, iter>>

CallRun ==
  /\ stage = "ready"
  /\ Run(Quantum)
  /\ stage' = "running"
  /\ UNCHANGED <<iter, err>>

Running ==
  /\ stage = "running"
  /\ RunStep
  /\ UNCHANGED <<stage, iter, err>>

(* dispatcher.run(..)?: an Err of the dispatcher ends the program. *)
RunReturned ==
  /\ stage = "running" /\ phase = "idle"
  /\ IF result = "ok"
     THEN stage' = "loop" /\ iter' = iter + 1 /\ UNCHANGED err
     ELSE Fail(result) /\ UNCHANGED iter
  /\ UNCHANGED dvars

Next ==
  \/ Finish \/ OutsideMemory \/ LookUp
  \/ CallRun \/ Running \/ RunReturned

Spec == Init /\ [][Next]_lvars

TypeOK ==
  /\ pc \in Int /\ gs \in GState /\ mem \in Memory
  /\ executed \in 0 .. ExecutedMod - 1
  /\ phase \in {"idle", "enter", "exec", "leave"}
  /\ left \in 0 .. Quantum
  /\ result \in {"none", "ok", "missing", "budget"}
  /\ stage \in Stages /\ iter \in 0 .. MaxBlocks /\ err \in Errors
  /\ DOMAIN blocks \subseteq Addr
  /\ \A p \in DOMAIN blocks : blocks[p].hits \in 0 .. HitMax
  /\ phase = "exec" => ip \in 1 .. Len(Block)
-----------------------------------------------------------------------------
(* The guest PC as the architecture sees it: inside a block it is the      *)
(* instruction being executed, although state.pc still names the block.    *)
GuestPc == IF phase = "exec" THEN pc + ip - 1 ELSE pc

(* The launcher runs the guest program and nothing else: every step is one *)
(* instruction of the abstract machine, or leaves the guest alone.         *)
G == INSTANCE Guest WITH pc <- GuestPc
RunsTheGuest == G!Spec

(* A translated block is a run of consecutive instructions that the guest  *)
(* can execute straight through: each word was in memory at its address,   *)
(* branch targets are those of the instruction's own address, only the     *)
(* last instruction can leave the block, and a block that ends without a   *)
(* branch is as long as the fetch window (lift/block.rs, dispatch.rs:24).  *)
BlockShape ==
  \A p \in DOMAIN blocks :
    LET insts == blocks[p].insts
        last == Len(insts)
    IN  /\ last \in 1 .. WordsPerFetch /\ p + last <= MemWords
        /\ \A i \in 1 .. last :
             /\ insts[i].w \in held[p + i - 1]
             /\ insts[i].target = p + i - 1 + insts[i].w.o
             /\ Lowered(insts[i].w)
             /\ i < last => ~ Terminal(insts[i].w)
        /\ ~ Terminal(insts[last].w) => last = WordsPerFetch

(* The dispatcher never reports "no translated block" to the launcher: the *)
(* lookup before run and the contains_key after each block keep state.pc   *)
(* translated whenever run looks it up (dispatch.rs:53, 59).               *)
NeverMissing == result # "missing" /\ err # "missing"

(* The two loops keep in step: whenever run is about to look state.pc up   *)
(* or runs a block, state.pc is translated, there is budget left, and the  *)
(* main loop waits for it (main.rs:47-57, dispatch.rs:50-59).              *)
Control ==
  /\ phase # "idle" => stage = "running"
  /\ phase \in {"enter", "exec"} => HasBlock(pc)
  /\ phase \in {"exec", "leave"} => left > 0
  /\ stage \in {"ready", "running"} => iter < MaxBlocks
  /\ stage = "ready" => HasBlock(pc)

(* One thread runs the loop, and nothing in it blocks. *)
FairSpec == Spec /\ WF_lvars(Next)

(* The launcher always ends, whatever the guest does: both loops are       *)
(* bounded and a block cannot branch inside itself (main.rs:38,            *)
(* dispatch.rs:50).                                                        *)
Terminates == <>(stage \in {"exit", "fail"})

(* Once the guest is at PC 0 between two blocks the launcher exits with    *)
(* success, out of budget or not, and never runs what lies at address 0    *)
(* (main.rs:39 and :60; "Returning through X30 == 0 terminates").          *)
SentinelExits == (phase # "exec" /\ pc = 0) ~> (stage = "exit")

(* PC 0 is the end and nothing else: what lies at address 0 is never       *)
(* translated, the program exits with success only there, and it fails     *)
(* only elsewhere, whichever of its loops was the last to count            *)
(* (main.rs:39, :57 and :60).                                              *)
ZeroIsSentinel ==
  /\ 0 \notin DOMAIN blocks
  /\ stage = "fail" => pc # 0
  /\ stage = "exit" => pc = 0

(* What main.rs:60-61 leads one to expect: the only budget a program can   *)
(* exhaust is that of MAX_BLOCKS iterations of the main loop.              *)
OnlyMaxBlocksExhausts == err # "budget"
=============================================================================
