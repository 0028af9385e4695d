------------------------------- MODULE Guest -------------------------------
(***************************************************************************)
(* The abstract specification of the translator: an AArch64 machine that   *)
(* runs its program one instruction at a time, straight from memory.  It   *)
(* knows no blocks, no code cache and no budget.                           *)
(*                                                                         *)
(* The architecture lets a processor execute an instruction it fetched     *)
(* before a store overwrote it, until the program does cache maintenance   *)
(* (IC IVAU / ISB), which this translator does not support and rejects.    *)
(* held[a] is the set of words that address a has held since the program   *)
(* was loaded; a step executes any one of them.  For a program that never  *)
(* writes its code, held[a] is the single word at a.                       *)
(***************************************************************************)
EXTENDS ISA

VARIABLES pc, gs, mem, held

gvars == <<pc, gs, mem, held>>

Init ==
  /\ pc \in Int
  /\ gs \in GState
  /\ mem \in Memory
  /\ held = [a \in Addr |-> {mem[a]}]

NextPc(w) ==
  CASE w.k = "B"     -> pc + w.o
    [] w.k = "Bcond" -> IF Taken(w, gs) THEN pc + w.o ELSE pc + 1
    [] w.k = "RET"   -> Link(gs)
    [] OTHER         -> pc + 1

Execute(w) ==
  /\ w \in held[pc]
  /\ Lowered(w)
  /\ gs' = Effect(w, gs)
  /\ mem' = MemEffect(w, gs, mem)
  /\ held' = [a \in Addr |-> held[a] \cup {mem'[a]}]
  /\ pc' = NextPc(w)

Next == pc \in Addr /\ \E w \in Word : Execute(w)

Spec == Init /\ [][Next]_gvars
=============================================================================
