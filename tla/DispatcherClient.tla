--------------------------- MODULE DispatcherClient ---------------------------
(***************************************************************************)
(* The dispatcher as a library, in the hands of any caller of its public   *)
(* API (bin/smoke.rs is one): slices of any words are compiled at any PC,  *)
(* in any order and any number of times, and a run may start anywhere with *)
(* any budget.                                                             *)
(***************************************************************************)
EXTENDS Dispatcher

CONSTANTS
  Slices,    \* the words a caller hands to compile_block
  Starts,    \* the guest PCs it compiles at and starts from
  Budgets,   \* values of max_blocks
  Images,    \* contents of guest memory
  MaxCalls   \* bound: API calls in one behaviour

ASSUME ClientAssumption ==
  /\ Slices \subseteq Seq(Word) /\ Starts \subseteq Int
  /\ Budgets \subseteq Nat /\ Images \subseteq Memory /\ MaxCalls \in Nat

VARIABLES
  calls,   \* API calls so far
  ran,     \* history: blocks the current or last run has entered
  budget,  \* history: the max_blocks that run was given
  since,   \* history: entries into each block since it was last compiled
  total    \* history: entries into any block

history == <<ran, budget, since, total>>
cvars == <<pc, gs, mem, blocks, executed, phase, left, ip, result, held,
           calls, ran, budget, since, total>>

Init ==
  /\ pc \in Starts
  /\ mem \in Images
  /\ gs \in GState
  /\ DispatcherInit
  /\ calls = 0
  /\ ran = 0 /\ budget = 0 /\ total = 0
  /\ since = [p \in {} |-> 0]

Call == phase = "idle" /\ calls < MaxCalls /\ calls' = calls + 1

CompileSucceeds(p, words) ==
  /\ Call
  /\ CompileOk(p, words)
  /\ since' = [q \in DOMAIN since \cup {p} |-> IF q = p THEN 0 ELSE since[q]]
  /\ UNCHANGED <<runVars, ran, budget, total>>

CompileFails(words) ==
  /\ Call
  /\ \E reason \in {"unsupported", "codegen", "mapping"} :
       CompileErr(reason, words)
  /\ UNCHANGED <<runVars, history>>

(* The caller sets state.pc and calls run. *)
StartRun(start, n) ==
  /\ Call
  /\ pc' = start
  /\ phase' = "enter"
  /\ left' = n
  /\ ran' = 0 /\ budget' = n
  /\ UNCHANGED <<gs, mem, blocks, executed, ip, result, held, since, total>>

Entered == phase = "enter" /\ phase' = "exec"

Step ==
  /\ RunStep
  /\ IF Entered
     THEN /\ ran' = ran + 1 /\ total' = total + 1
          /\ since' = [since EXCEPT ![pc] = @ + 1]
     ELSE UNCHANGED <<ran, since, total>>
  /\ UNCHANGED <<calls, budget>>

Next ==
  \/ \E p \in Starts, words \in Slices : CompileSucceeds(p, words)
  \/ \E words \in Slices : CompileFails(words)
  \/ \E s \in Starts, n \in Budgets : StartRun(s, n)
  \/ Step

Spec == Init /\ [][Next]_cvars

(* A run, once called, holds the thread until it returns. *)
FairSpec == Spec /\ WF_cvars(Step)
-----------------------------------------------------------------------------
TypeOK ==
  /\ pc \in Int /\ gs \in GState /\ mem \in Memory
  /\ executed \in 0 .. ExecutedMod - 1
  /\ phase \in {"idle", "enter", "exec", "leave"}
  /\ left \in Nat /\ calls \in 0 .. MaxCalls /\ ran \in Nat
  /\ result \in {"none", "ok", "missing", "budget"}
  /\ DOMAIN blocks = DOMAIN since
  /\ phase = "exec" => /\ HasBlock(pc)
                       /\ Len(Block) = 0 \/ ip \in 1 .. Len(Block)

(* What the answer of run means, whatever was compiled before              *)
(* (dispatch.rs:49-62): "ok" only at a PC without a block, after at least  *)
(* one block and at most the budget; "budget" exactly after max_blocks     *)
(* blocks, with a block still to run unless the budget was 0; "missing"    *)
(* only for the PC the run started from, never after the guest has moved.  *)
Answer(r) ==
  CASE r = "ok"      -> ran \in 1 .. budget /\ ~ HasBlock(pc')
    [] r = "budget"  -> ran = budget /\ (budget > 0 => HasBlock(pc'))
    [] r = "missing" -> ran = 0 /\ budget > 0 /\ ~ HasBlock(pc')

RunOutcome == [][phase # "idle" /\ phase' = "idle" => Answer(result')]_cvars

(* The counters tell the truth at their limits: hit_count is the number of *)
(* entries since the block was (re)compiled, pinned at u32::MAX, and       *)
(* blocks_executed counts every entry of every block, also of replaced     *)
(* ones, modulo 2^64 (dispatch.rs:37, 54-55).                              *)
CountersExact ==
  /\ \A p \in DOMAIN blocks :
       blocks[p].hits = IF since[p] < HitMax THEN since[p] ELSE HitMax
  /\ executed = total % ExecutedMod

(* Every call of run returns, also when the guest loops forever            *)
(* (dispatch.rs:50).                                                       *)
RunReturns == (phase # "idle") ~> (phase = "idle")
=============================================================================
