# ARMx64 in TLA+

A verification development for ARMx64, the AArch64 to x86-64 dynamic
translator in `src/`. It models the parts of the program that decide
anything: the ELF loader and guest memory, the launcher's loop, the dispatcher
and its block map, block discovery, the translation pipeline (bit fields,
lifter, optimizer, immediate selection, code generator) and the background
compiler thread. Paths below are relative to `src/src/`.

## 1. Inventory

| Component | State | Operations | Talks to |
|---|---|---|---|
| Launcher, `main.rs` | `GuestState`, iteration count | the loop of `try_main`: sentinel test, bounds test, look-up, fetch, translate, run | ELF loader and guest memory (reads words), dispatcher (`has_block`, `compile_block`, `run`) |
| Dispatcher, `runtime/dispatch.rs` | map PC -> code and `hit_count`; `blocks_executed` | `compile_block`, `has_block`, `hit_count`, `run` | lifter, pipeline, emitted code (which writes `GuestState`) |
| Block discovery, `lift/block.rs`, `ir/block.rs` | the block being built | `lift_block_at`, `push` | decoder (external), instruction lifter |
| Instruction lifter, `lift/mod.rs` | none | `lift_one_at` | decoder, IR |
| IR and guest state, `ir/*`, `runtime/state.rs` | operands, instructions, X0..X30, SP, NZCV, PC | reads and writes | everything |
| Optimizer, `jit/optimizer.rs` | a table of 31 optional constants | one pass over a block | rewrites what the code generator will accept |
| Selector, `jit/isel.rs` | none | `is_immediate_candidate` | code generator |
| Code generator, `codegen/x86_64.rs` | bytes | `emit_block`, `into_executable` | `GuestState` layout, `HOST_BASE`, mmap |
| Background compiler, `jit/compiler.rs` | worker thread, two unbounded mpsc channels | `spawn`, `enqueue`, `drop` | the same pipeline; its owner through both channels |
| Guest memory, `runtime/memory.rs` | one fixed mapping | `map`, bounded reads and writes, unmap | loader, launcher, emitted code (unchecked) |
| ELF loader, `elf.rs` | segments, image size | `load_bytes` | `object` crate, guest memory |
| Code cache cell, `jit/cache.rs` | one atomic pointer | `load`, `install` | nobody yet |
| Hotness, `jit/hotness.rs` | a saturating counter | `hit`, `is_hot` | nobody yet |
| Smoke binary, `bin/smoke.rs` | - | a few translated programs | dispatcher, pipeline |

The hard parts: code cached from memory that the guest may overwrite; two
nested bounded loops whose stop conditions differ; three passes that each
assume something of the instructions the one before leaves; arithmetic done in
64 bits for 32-bit instructions; blocks compiled once and entered in any state;
one address range that every loader of the process wants, and a load that fails
half-way; and one thread with an owner that may drop either end of either
channel at any point. `PROJECT.json` lists every hazard
with its line and the properties aimed at it.

What makes each part correct:

* launcher and dispatcher: the guest program is executed as the architecture
  would, no block is asked for that is not there, PC 0 ends the program, and
  the program always ends;
* dispatcher as a library: `run`'s answer means what it says, whatever was
  compiled in whatever order, and the counters count;
* loader and guest memory: a program is loaded whole or not at all, memory is
  held by one owner and always given back, and what is fetched is the file;
* pipeline: the code of a block does to registers, flags, memory and PC what
  its instructions say, whatever state it is entered in, and no pass makes a
  block untranslatable;
* background compiler: every accepted request is decided, in order and once,
  across errors and shutdown, and dropping it returns.

## 2. Modules

```
ISA ---- Guest                        Words - IR - Arm - Lifter ---.
   \       | (refined by)                     |-- Optimizer -------+- Translator - MCTranslator
    Dispatcher - Launcher - MCLauncher         `-- CodeGen --------'
        |
    DispatcherClient - MCDispatcherClient     CompileService <- (refined by) BackgroundCompiler

LoadService <- (refined by) ElfLoader - Process - MCProcess
              GuestMemory ---'  `- MCElfLoader

Guest <- (refined by) Machine - MCMachine     (Machine: Lifter, Optimizer, CodeGen)
Decoder - MCDecoder                           (Decoder: Lifter; Encoding: Arm)

Proofs: LauncherProofs, DispatcherClientProofs, BackgroundCompilerProofs, each of
the module it is named after; LoadingProofs, of ElfLoader and Process; and
PipelineProofs (Lifter, Optimizer, CodeGen), extended by TranslatorProofs,
MachineProofs and DecoderProofs.
```

### Control: ISA, Guest, Dispatcher, Launcher, DispatcherClient

`ISA` reduces an instruction word to what these components look at: its control
class (`Class`) and its branch offset. What instructions do to registers and
memory is left to constant operators (`Effect`, `Stored`, `Taken`, `Link`), so
theorems hold for any instruction set. Addresses count 4-byte words. A branch
target is always a multiple of four here; a guest PC that is not (X30 may hold
one) is outside the model, and a negative PC stands for one that wrapped below 0:
both are outside memory. `GuestState` without `pc` is `gs`.

`Dispatcher` has `blocks` (the `HashMap`), `executed`, and for the run loop
`phase`, `left` (iterations), `ip` (the instruction of the current block). A
block is the list of the words it was lifted from with their absolute targets,
that is, a snapshot. `CompileOk` and `CompileErr` are `compile_block`'s ways
out; code generation and mapping errors may strike any block, and which block
really is refused is the pipeline's subject. `Enter` is dispatch.rs:51-57,
`ExecInst` one instruction of `entry_fn(state)`, `Leave` the `contains_key` of
line 59. `state.pc` is written only by the last instruction of a block, as in
the emitted code.

`Launcher` is the loop of `try_main` from line 38 on: `Finish`,
`OutsideMemory`, `LookUp` (with `Fetch` and `Translate`), `CallRun`, the
dispatcher's steps, and `RunReturned` (the `?` of line 57). Its initial states
are any image, any entry and any registers with X30 = 0.

`Guest` is the abstract machine: it executes, from memory, one instruction at a
time. A store into instructions may or may not be seen by later fetches, since
the architecture asks for cache maintenance first, which this translator does
not support; `held` records what each address has held. For programs that do
not write their own code it leaves no freedom at all. `Launcher!RunsTheGuest`
is the refinement, with the guest PC inside a block mapped to
`pc + ip - 1`.

`DispatcherClient` is the dispatcher without the launcher: `compile_block` of
any slice, the empty one included, at any PC, and `run` from any PC with any
budget, in any order. History variables count what `CountersExact` and
`RunOutcome` compare.

### Loading: GuestMemory, LoadService, ElfLoader, Process

`GuestMemory` has the bytes mapped at `HOST_BASE` (`host`, empty when nothing is
mapped) and the operations of memory.rs: `MapOk` and the reasons why `map` may
fail, the bounds test that writes and reads share, and `Unmap`. Addresses are
u64 values below `AddrMod`, so the tests for overflow are those of the code.

`ElfLoader` is `load`, called by any number of threads of one process. The
first pass and the layout touch nothing shared and are one step (`Start`,
with `LayoutOk` for every checked addition); `MapImage` is elf.rs:97, `Copy` and
`CopyFails` are one segment of the second pass. `CopyFails` gives the memory
back because `memory` is dropped when `?` returns. A file is what the `object`
crate hands over: architecture, entry and segments, any of which may fail to be
read. `LoadService` is the promise: the whole program appears at once, each
byte from the last segment that covers it or zero, with room for the stack, and
only while nobody else holds memory.

`Process` is `try_main` around its loop, on one thread: the loader's steps, the
initial PC and stack pointer (`Setup`), the fetch of a block at any byte
address (`Round` is one iteration of main.rs:47-51, with its checked and its
unchecked addition and the assertion of `read_u32`), and every way out. What a
block does is left open except for the PC it leaves. `Launcher` has the other
half: what the blocks do, for whole words.

### Data: Words, IR, Arm, Lifter, Optimizer, CodeGen, Translator

`Words` represents a word as the set of its one bits; `WLog` scales the widths
(W has 2^WLog bits, 32 in the program; X twice that). `IR` has the
operands, the architectural state and its access. Memory is an array of
W-sized cells. `Carry`
says what the carry into a bit is without recursion, so that sums can be reasoned
about for any width. `Arm` is the reference: what the architecture says of the
instructions the lifter takes on, with bit-level decoding (the crate
yaxpeax-arm, and the masks of `lift/mod.rs`, see `Decoder`) taken as done; its `Dest` and
`Source` say where register number 31 is SP, which the decoder tells the
lifter, and `WellFormed` what its fields may hold.

`Lifter`, `Optimizer` and `CodeGen` translate the three passes. An emitter is
modelled by what the code it emits does: `LoadState`, `Alu`, `StoreNZCV` and
the others map host states (four scratch registers, x86 flags, the
`GuestState` behind `rdi`) to host states. Scratch registers hold junk at the
start of every instruction, so a register used before it is loaded would show.
The byte encodings, and `HOST_BASE`, are not modelled. A conditional branch is
laid out as the pieces of code it consists of, with their lengths: the jump
over `SET_PC_RET_LEN` bytes must land at the start of one (`BranchCode`).
`CanEmit` lists the error returns of `emit_block`.

`Translator` composes them. All passes go forward once over the block and hand
nothing from one instruction to the next except the optimizer's table of
constants, and the emitted code runs in order; so one step lifts, optimizes,
emits and runs one instruction, with `known` the table and `st` the state. What
a whole-block view adds is kept: a refusal anywhere refuses the block
(`Refuse`), a block without a branch ends with the fall-through code
(`FallThrough`). Selection by `isel.rs` is in `ImmediateForm`.

`Machine` drops the assumption that a block runs in the state it was
translated in: it keeps the dispatcher's map of emitted code for a program of
several blocks, compiles at any PC and any time, with `prepare_block`
(dispatch.rs:31, compiler.rs:25) or without (bin/smoke.rs:5-16), and enters
blocks from one another as often as their branches say. `Pass` is the optimizer's
loop over a block, the table handed on from one instruction to the next
(`Rewrite` and `OptStep` in `Optimizer`). It implements `Guest`
instantiated with the instructions of `Arm`: the abstract machine of the
launcher and the pipeline meet here. PCs count instructions.

`Decoder` is the bit level of `lift/mod.rs`, at the program's own widths: the
masks, fields, scales and sign extensions of `lift_conditional_branch`,
`lift_move_wide` and `lower_unsigned_mem`, and the order in which `lift_one_at`
tries them. Its reference is `Encoding`, the encodings of the architecture:
`Encode` for the instructions that the fields of the four classes can express
(`Encodable`), `Handled` and `Unallocated` for the words of these classes. The
masks are the numbers of the source, so the assumption of this module fixes
`WLog = 5` and `LR = 30`; words, instructions and PCs stay arbitrary.

### Concurrency: CompileService, BackgroundCompiler

`BackgroundCompiler` has the owner's calls (`Enqueue`, `TakeResult`,
`DropReceiver`, `DropCompiler`, `Joined`) and the worker's steps (`Receive`,
`ReceiveClosed`, `Emit`, `MapCode`, `Send`), one per blocking or failing
point of compiler.rs:24-30. A request is the number of its `enqueue` call. The
channel semantics are those of `std::sync::mpsc`: unbounded, first in first
out, a receive drains what was sent before the senders went, a send fails once
the receiver is gone. A block that a caller built by hand may make a pass panic
(x86_64.rs:108 and the array bounds of optimizer.rs): the thread is assumed to
unwind (section 7), its receiver goes, and `join` returns an error that `drop`
ignores. `CompileService`
is the promise: a queue of accepted requests decided in order, each with one
answer or none, unless the service crashes.

## 3. Runs

| Run | Instance | Shows |
|---|---|---|
| `launcher` | all programs of three words (after a NOP at 0) over 17 words, five entries in and out of memory, 3 iterations, windows of 2 words; 271,718 states | `TypeOK`, `BlockShape`, `NeverMissing`, `Control`; `ZeroIsSentinel`; refinement of `Guest`; `Terminates`, `SentinelExits` |
| `launcher_budget` | the same | violated: a branch to a translated block ends the program |
| `dispatcher_client` | 4 calls, 6 slices, 2 PCs, budgets 0, 1, 3, `HitMax` 2, `ExecutedMod` 4; 20,480 states | `CountersExact`, `RunOutcome`, `RunReturns` |
| `translator` | all blocks of up to 3 of 117 instructions, X0, X1 (the link register), SP, W of 2 bits, 8 entry states; 267,401 states | `ConstantsSound`, `OnlyConstantsRefused`, `ExecutesArm`, `ExitsLikeArm` |
| `translator_store` | 17 instructions | violated: the optimizer makes a block untranslatable |
| `translator_rotate` | MOVZ, MOVZ, RORV on W registers | violated: the fold differs from the instruction |
| `translator_return` | MOVZ, RET X0 | violated: RET X0 goes to X30 |
| `background_compiler` | 5 requests, the second cannot be emitted, the fourth makes the worker panic; 661 states | `NoneLost`, `InOrder`, `RejectedOnlyWhenGone`, `Drained`, refinement of `CompileService`, `DropReturns` |
| `elf_loader` | two threads, 92 files of up to two of nine segments, 32 addresses, pages of 4; 14,999 states | `Exclusive`, refinement of `LoadService`, `LoadEnds`, `OutsideOnlyEmpty` |
| `process` | eight images, any PC of 32 addresses, words of 2 bytes, windows of 3 words; 425 states | `FetchNeverFails`, `WindowExact`, `StackClear`, `MemoryReturned` |
| `machine` | 400 programs of three instructions, any start PC, two states; 59,277 states | refinement of `Guest` |
| `decoder` | instructions at both ends of every field, 3072 other words, two PCs, 32-bit words; 14,016 states | `FieldsExact`, `ClaimsExact`, `FieldsWellFormed` |

Each property of a passing run comes with a mutant of the model (a definition
`X_...` before `X`, marked as deliberately wrong) that breaks it.

Why the bounds are enough. *Launcher*: a window of 2 in a memory of 4 words
gives blocks cut by a branch, by the window and by the end of memory; branches
lead forward, backward, to 0 and out of memory; 3 iterations allow two
translated blocks and one more before the budget ends. `MaxBlocks` must only
exceed the number of blocks. Because of finding 1 no program gets beyond a
first backward branch, so more iterations only add straight-line programs.
*DispatcherClient*: the counters pass both limits; a budget of 3 lets a loop
of two blocks return to its first. *Translator*: constants need one
instruction to be made, one to be used or lost, one to be used after; a W
register of two bits has a sign bit that is not the low bit, and an X register
has a half that a W operation must clear. Instructions in the run cover every
opcode and operand form; RORV on W registers, RET through a register other than
the link register and condition 15 are left out of this run because the code
departs from the architecture there (findings 3 and 4, and section 6).
*BackgroundCompiler*: with five requests one fails and one panics while others
are before, behind and in hand. *ElfLoader*: two segments overlap, abut, leave
BSS, have more file bytes than memory, end at and past the end of the address
space, cannot be read or are empty, in either order; loading fails in the first
and in the second of them; one thread loads while another is in any phase.
*Process*: images end on a page and off it, and one ends as far up as memory
can reach; every PC is tried, so windows cross the end of memory at every
alignment. *Machine*: a block makes a constant, another reads or overwrites the
register, and branches lead back into it; the instructions are those of
`translator` without findings 2 to 4, chosen to make, use and lose constants.
*Decoder*: fields do not influence one another, so zero, one, the top bit and
all ones of each are enough; the ten leading bits, which decide the class, take
all their values. `CHECK_DEADLOCK FALSE` stands where the program ends or the
owner stops calling.

## 4. Fairness

`Launcher!FairSpec` is weak fairness of the whole next-state relation: one
thread runs the loop and nothing in it blocks. `DispatcherClient!FairSpec` asks
for fairness of the steps inside `run` only, not of the caller.
`Translator!FairSpec` is again one thread that does not block.
`ElfLoader!FairSpec` asks that a call of `load` in progress goes on
(`Loading`); no thread has to start one or to drop its image.
`BackgroundCompiler!FairSpec` is weak fairness of the worker thread and of the
return of `join`; the owner need never enqueue, receive or drop.

## 5. Findings

1. `run(&mut state, 1)` returns the error "dispatcher execution budget
   exhausted" when a block branches to one already translated (dispatch.rs:59,
   main.rs:57). No guest loop runs twice and the branch of the launcher that
   finds an existing block is never taken. Run `launcher_budget`.
2. The optimizer replaces the register of a store or of CBZ/CBNZ by a
   constant, and the code generator then refuses the block (optimizer.rs:16,
   x86_64.rs:173 and 175). Run `translator_store`; `OnlyConstantsRefused`, proved,
   says that the optimizer makes no other block untranslatable.
3. A 32-bit rotation of known operands is folded as a 64-bit rotation
   (optimizer.rs:69). Run `translator_rotate`.
4. RET through a register other than X30 returns through X30 (x86_64.rs:176).
   Run `translator_return`.

One defect no run can show, and it comes before the others: *as committed, the code
generator does not compile.* `SET_PC_RET_LEN` is a constant declared inside
`emit_branch_cond` (x86_64.rs:148), whose scope is that function, and
`emit_block` uses it for CBZ and CBNZ (x86_64.rs:175); nothing else in the crate
declares that name. Library, launcher, smoke binary and tests all need this
module. Everything here that involves emitted code (`CodeGen`, `Translator`,
`Machine`, and findings 2 to 4) is about the program one gets by moving the
declaration, with its value of 18, to where both functions see it.

Less than a finding: a PT_LOAD segment of size 0 is skipped when memory is sized
(elf.rs:77) and not when segments are copied (elf.rs:107), so a file with such a
segment above its memory is refused. `OutsideOnlyEmpty` shows that this is the
only way in which the two passes disagree.

## 6. What is proved

Eight modules hold proofs. Each theorem is for every value of the constants that
the named assumptions of its modules allow; TLC evaluates these assumptions on
the runs. The statements in the table are properties that a run checks, but for
those marked *.

| Module | Theorems |
|---|---|
| `LauncherProofs` | `TypeCorrect`, `BlocksWellFormed`, `NothingMissing`, `LoopsInStep`, `SentinelIsSafe` (`ZeroIsSentinel`): the invariants of run `launcher`; `SentinelIsFinal`*; `StepsAreBounded`*; `Refinement`: `Spec => RunsTheGuest` |
| `DispatcherClientProofs` | `TypeCorrect`; `CountersTellTheTruth` (`CountersExact`); `AnswersAreTrue` (`RunOutcome`); `RunsAreBounded`* |
| `BackgroundCompilerProofs` | `TypeCorrect`; `NothingLost` (`NoneLost`); `AnswersInOrder` (`InOrder`); `RejectionsExplained` (`RejectedOnlyWhenGone`); `DropDrains` (`Drained`); `DropIsBounded`*; `Refinement`*: `Spec => S!Spec` |
| `LoadingProofs`, loader | `TypeCorrect`; `OneHolder` (`Exclusive`); `PassesAgree` (`OutsideOnlyEmpty`); `LoadsAreBounded`*; `Refinement`: `Spec => ImplementsLoads` |
| `LoadingProofs`, process | `ProcessTypeCorrect`; `FetchIsSafe` (`FetchNeverFails`); `FetchReadsTheProgram` (`WindowExact`); `StackIsReserved` (`StackClear`); `MemoryGivenBack` (`MemoryReturned`) |
| `PipelineProofs` | no theorem: the lemmas on one instruction, from `WidthBits` to `InstructionFollows` and `InstructionExits` |
| `TranslatorProofs` | `TypeCorrect`; `ConstantsAreSound` (`ConstantsSound`); `ExecutesAllButRotations`*; `ExecutesTheBlock` (`ExecutesArm`) and `LeavesTheBlock` (`ExitsLikeArm`), with hypotheses; `RefusesOnlyConstants` (`OnlyConstantsRefused`); `KeepsBlocks` (`OptimizerKeepsBlocks`), with a hypothesis |
| `MachineProofs` | `TypeCorrect`; `Refinement`: `Spec => RunsTheProgram`, with hypotheses |
| `DecoderProofs` | `FieldsAreExact` (`FieldsExact`); `ClaimsAreExact` (`ClaimsExact`); `DecodedIsWellFormed` (`FieldsWellFormed`) |

Every invariant that a passing run checks is a theorem; so is every action
property and every refinement, fairness aside. Of each liveness property the part
that needs no fairness is a theorem too: what a step uses up, and that nobody
gives it back.

### The inductive invariants

*Launcher.* `IInv` is the conjunction of the four invariants and `Structure`.
None is inductive alone: that a block is found (`NeverMissing`) needs `Control`,
which says that `state.pc` is translated whenever `run` starts an iteration;
that `ip` stays inside the block (`TypeOK`) needs `BlockShape`, which says that
blocks are not empty; `BlockShape` needs `Structure`, that memory is part of
what `held` records, for the blocks it adds. `LiftShape` and `ShapeMonotone`
carry `BlockShape` through translation and through stores. For the refinement,
`ExecInst` is the guest's step with the word at `ip`, by `BlockShape`; in the
last instruction `ExitPc` is `NextPc`, where the fall-through of a block that
ends without a branch is the PC after its last word; every other step leaves
the guest alone. The quantum may be any positive number, so these theorems do
not depend on finding 1. `ZeroIsSentinel` is inductive with `SentinelInv`, which adds
the moment between the end of `run` and the `?` of main.rs:57: an error there
comes with a PC that is not 0, since a PC without a block is answered by "ok"
once a block has run. `StepsAreBounded` computes how many steps are left from the
constants and the state (`StepsLeft`): iterations of the main loop, within one
the blocks of `run`, within one its instructions, whose number `BlockShape`
bounds by the window. Every step uses one up.

*DispatcherClient.* `CountersExact` is inductive with types (`ModStep` is the
wrap of `blocks_executed`). `RunOutcome` is about a step, and needs `Accounts`:
the iterations left and the blocks entered add up to the budget, one more in the
middle of a block, and from its second iteration on `run` only starts over where
a block is. Without the last part "missing" could be answered after the guest has
moved. `RunsAreBounded` orders the states of a run by `PartsToGo` and then
`InstsToGo`; there is no bound on the length of a slice, so the order is
lexicographic.

*BackgroundCompiler.* `Ordered` is `InOrder` as relations between neighbours
(what was sent, the one in hand, the queue), which a step at either end of a
channel visibly preserves (`AppendOrder`, `TailOrder`); `OrderedInOrder` turns
it back into one line. `Issued` says that no number is handled before it is
given out, so that a new request is above all others. `Endings` says in which
state of its owner the worker may have stopped and that it leaves nothing in
the queue: `Drained` follows from it and `NoneLost`. `NoneLost` has two halves:
that accepted requests are all somewhere (`Followed`), and that one that failed is
nowhere else (`FailedApart`), for which `Ordered` keeps the request in hand out of
the queue and the answers, and `Issued` keeps new numbers out of `failed`; that
the other three places are apart is `InOrder`. Each step then is one of the
service or none: answering, forgetting and the panic are the service's.
`DropIsBounded` weighs the queue and the request in hand (`WorkLeft`): a step of
the worker, a failing one too, uses some of it up, none is added after the drop
has begun, and the join finds none left.

*ElfLoader* (first half of `LoadingProofs`). `CallOk` is the strengthening: a call that copies holds the memory
`MapImage` sized for its file, every segment already copied lies within it, and
each byte is that of the last of them or zero (`Holds`). `LayoutProperties`
turns the checked additions of `LayoutOk` into bounds on every segment: memory
is whole pages, fits in `AddrMod`, and ends at least the stack and the slack
above each of them.
`LoadsAreBounded` counts the segments still to copy.
`TakesMemory`, `KeepsMemory` and `GivesMemoryBack` are how a step of one
thread leaves the others' calls as they were, because of `Exclusive`. The refinement
follows: the image appears with the last copy (`LastCopy`), everything before
and every error is a stutter.

*Process* (second half). `PInv` adds to the loader's invariant that only the main thread loads
and that memory is a program's from the end of `load` on. `FetchLoop` is the
argument for the loop of main.rs:47-51: memory ends on a page, a page is larger
than a word and `AddrMod` is whole pages, so that the unchecked `+ 4` stays below
`AddrMod` (`RoomAboveMemory`) at every alignment of the PC, and the number of rounds
is the least that meets a word outside (`RoundsProperties`). `FirstStackPointer`
uses that the slack is larger than what rounding down takes away.
`LayoutAssumption` is what these arguments need of PAGE_SIZE, DEFAULT_STACK_SIZE,
ADDRESS_SPACE_SLACK and 2^64.

*Pipeline.* `PipelineProofs` goes through the three passes for one instruction.
On words: results are words, the low half of a 64-bit sum or difference is the
32-bit one (`CarryAgrees`, `LowSum`), and the identities the optimizer uses
(`AddZero`, `SubZero`, `SubSelf`). On emitted code: what each sequence does to the host
state, scratch registers holding anything (`EmittedBinop`, `EmittedShift`,
`EmittedLoad`, `EmittedStore`, `StoreNZCVState`). On the optimizer: with a
table that is true (`Sound`), a rewritten, folded or simplified instruction
does what the original did, and the table after it is true of the state after
it (`OptBinopFollows`, `OptShiftFollows`, `SimplifySame`). Together with what
lifting does, one lemma per class of instructions, these make
`InstructionFollows`; `InstructionExits` is the same for where a branch
goes, the sixteen conditions and the jump over `SET_PC_RET_LEN` included
(`ConditionsAgree`, `LandsAtExits`).

*Translator.* `ConstantsSound` is inductive with types, given these lemmas. The
theorems on execution have hypotheses because the code departs from the
architecture without them: `ExecutesTheBlock` that no instruction is a 32-bit
RORV (finding 3; `ExecutesAllButRotations` shows, without hypothesis, that this is the
only instruction of which it fails), `LeavesTheBlock` that every RET is
through X30 (finding 4) and that no condition is 15 (section 7).
`RefusesOnlyConstants` is finding 2 turned round: `StillEmits` goes through the
classes of instructions and shows that what can be emitted as lifted can be
emitted as optimized, unless the register that a store or a test reads is in the table.

*Machine.* A block is run in other states than the one it was compiled in, so
`ConstantsSound` has no meaning here. Instead `Translations` says that every
block is one of the two translations of the program at its PC, and `TablesHold`
that, in the middle of an optimized block, the table the pass had there is true of the
registers now. It holds on entry because the pass starts knowing nothing, which is
why a block may be entered in any state; mutant `Prepare_Specialised` breaks just
that. `CodeRuns` is one instruction, compiled with or without the optimizer. The
refinement has the hypotheses of both theorems of `Translator`. It is the
strongest statement of this development: lifter, optimizer, immediate selection,
code generator and block map together run the program as the architecture does.

*Decoder.* `IInv` says that the word is the encoding of its instruction and that
the answer is that of `lift_one_at`; the rest is about bits. `MaskedBits` turns a mask
into the bits it asks for, `HandledBits` the patterns of the architecture, and
`LiftWordCases` shows that the classes exclude one another, so that the order in
which they are tried does not matter. `CutOut` is the heart: a field that is placed
in a word next to other things that stay out of its bits is cut out again unchanged
(`Within`, `Apart`). `NumberOfTwos` says that the bits of a number make up that
number, by induction over their count, and `SignExtension` that the nineteen bits
of an offset give it back with its sign. One lemma per class puts these together
(`BcondRoundTrip` to `MemRoundTrip`); `FieldNumber` bounds whatever other word is
claimed. `DecodedIsWellFormed` is what `Translator` and `Machine` assume of their
instructions.

### Assumptions

On constants: memory, window and quantum are not empty; the zero word does not
decode and instructions yield states (`ISA`); page and word sizes are positive
and fit together (`LayoutAssumption`); W has 2^`WLog` bits with `WLog` positive,
`WLog = 5` and `LR = 30` for `Decoder`; and `PowerAssumption`, that 2^`WLog` is
a natural number, which follows from it but not for provers to which a power is
some integer; LR is a register; instructions are `WellFormed`, that is, what the
decoder's fields can hold (register numbers up to 31, immediates of the
operand's width, shift amounts below it); programs, states and files are of
their types.

### What is only model-checked

* Liveness, and with it fairness: `Terminates`, `SentinelExits`, `RunReturns`,
  `DropReturns`, `LoadEnds`, and the fairness half of `ImplementsService` (TLC
  checks all of it). Their safety halves are theorems: `StepsAreBounded` for
  `Terminates`, with `SentinelIsFinal` for `SentinelExits`; `RunsAreBounded`;
  `DropIsBounded`; `LoadsAreBounded`; and `Refinement` of `BackgroundCompilerProofs`.
  What is left to TLC is that some step can be taken until then, which is about
  ENABLED, and that fairness makes it be taken.
* The four violated properties; of `OptimizerKeepsBlocks`, `ExecutesArm` and
  `ExitsLikeArm` the theorems with hypotheses say when they do hold.
* Recursion. `Pass` and `Number` are recursive functions, unfolded by induction; as
  the library's induction theorems cannot be instantiated here, `PipelineProofs`
  derives induction over sets of naturals (`Least`, `Induction`) from
  well-foundedness of <. Of `Number` it is proved that it is the sum of its bits'
  powers (`NumberSum`); of `Pass` only what `Machine` needs of it. What the folds and
  recursive definitions of the libraries compute is not the subject of a theorem.

## 7. What is not modelled

* The code cache cell and the hotness counter: nothing in the repository calls
  them, so there is no behaviour around them to model; one is an atomic load
  and store, the other a saturating addition.
* The decoder crate and the ELF parser, both external; printing, arguments.
* The bytes of x86-64 code; and the scope of `SET_PC_RET_LEN`, for which the crate
  does not compile as committed (section 5).
* Panics that abort. `BackgroundCompiler` assumes that a panic of the worker
  unwinds, as in the dev and test profiles. The release profile of the
  repository sets `panic = "abort"` (`src/Cargo.toml`, line 24): there a panic in
  compiler.rs:25-27 ends the whole process, and what is said of the time after a
  panic (that `enqueue` then fails, that `join` gets an error, that `drop` returns) holds
  of unwinding builds only. Nothing built here in release mode uses
  `BackgroundCompiler`; a crate that depends on it chooses its own profile.
  Everything about runs without a panic is independent of this.
* Condition 15 (NV), which never holds here and always in the architecture
  (x86_64.rs:189); it is in the model of the code and not in the run.
* Accesses outside guest memory: a translated access is not checked
  (x86_64.rs:130-140), and what it meets is the host process.
* Guest PCs that are not multiples of four are in `Process` (the fetch) and
  `Decoder` only; the launcher and the pipeline count whole words.
* Stores of the guest in `Process` (self-modifying code is in `Launcher`).
* The limit that the kernel sets on the size of a mapping is one of the reasons
  why `map` may fail ("nomem").

## 8. Plan

1. (done) Launcher, dispatcher and guest machine, their runs and proofs.
2. (done) Pipeline and background compiler, their runs; panics of the worker.
3. (done) `ElfLoader` with guest memory and its service; `Process`.
4. (done) `Machine`: the pipeline's instructions over the dispatcher's map;
   `Decoder`: the bit fields.
5. (done) Proofs of every component, up to the refinement of `Guest` by `Machine`,
   of `LoadService` and of the safety part of `CompileService`.
6. (done) `Decoder`: every word and every instruction of its four classes.
7. (done) The safety halves of the liveness properties, as bounds on the steps left.
8. Open: that `Launcher` and `Machine` refine the same instance of `Guest`, which
   needs one module with both their states; the bytes of the emitted code; and
   guest PCs that are not multiples of four in the pipeline.
