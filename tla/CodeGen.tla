------------------------------ MODULE CodeGen ------------------------------
(***************************************************************************)
(* codegen/x86_64.rs and the immediate selection of jit/isel.rs.  The code *)
(* emitted for an instruction is modelled by what it does when it runs:    *)
(* each emitter is an operator from host states to host states.  A host    *)
(* state has the four scratch registers, the flags and the GuestState that *)
(* rdi points to.                                                          *)
(***************************************************************************)
EXTENDS IR, Sequences

(* At the start of an instruction the scratch registers hold leftovers.    *)
Junk == Bits("X64")
HostOf(st) ==
  [rax |-> Junk, rcx |-> Junk, rdx |-> Junk, rsi |-> Junk,
   fl |-> [s |-> TRUE, z |-> TRUE, c |-> TRUE, o |-> TRUE], st |-> st]

(* The x86 flags of a result r with carry flag c. *)
X86Flags(r, c, width) ==
  [s |-> Negative(r.val, width), z |-> r.val = {}, c |-> c, o |-> r.v]
Logic(v) == [val |-> v, v |-> FALSE]

(* load_state: the zero register is an xor of the scratch with itself.     *)
LoadState(h, reg, guest) ==
  IF guest.kind = "Zero"
  THEN [h EXCEPT ![reg] = {}, !.fl = X86Flags(Logic({}), FALSE, guest.width)]
  ELSE [h EXCEPT ![reg] = ReadReg(h.st, guest)]

StoreState(h, guest) == [h EXCEPT !.st = WriteReg(@, guest, h.rax)]

MovImm(h, reg, v, width) == [h EXCEPT ![reg] = Mask(v, width)]

ShiftImm(h, reg, kind, amount, width) ==
  IF amount = 0 THEN h
  ELSE [h EXCEPT ![reg] = Shift(kind, Mask(@, width), amount, width)]

Loadable(op) == op.t \in {"Reg", "Imm", "ShiftedImm", "ShiftedReg"}

LoadOperand(h, op, reg, width) ==
  CASE op.t = "Reg" -> LoadState(h, reg, op.r)
    [] op.t = "Imm" -> MovImm(h, reg, op.v, width)
    [] op.t = "ShiftedImm" ->
         MovImm(h, reg, Shift("Lsl", op.v, op.amount, "X64"), width)
    [] op.t = "ShiftedReg" ->
         ShiftImm(LoadState(h, reg, op.r), reg, op.kind, op.amount, width)

(* add, sub, and, or, xor of rax with v: sub sets the borrow as carry.     *)
Alu(h, opcode, v, width) ==
  LET a == Mask(h.rax, width)
      b == Mask(v, width)
      r == CASE opcode = "Add" -> Add(a, b, width)
             [] opcode = "Sub" -> Sub(a, b, width)
             [] opcode = "And" -> Logic(a \cap b)
             [] opcode = "Orr" -> Logic(a \cup b)
             [] opcode = "Eor" -> Logic((a \ b) \cup (b \ a))
      c == CASE opcode = "Add" -> r.c
             [] opcode = "Sub" -> ~ r.c
             [] OTHER          -> FALSE
  IN  [h EXCEPT !.rax = r.val, !.fl = X86Flags(r, c, width)]

(* is_immediate_candidate: does an imm32 stand for the 64-bit value?  A    *)
(* deliberately wrong variant first, with the unsigned bound throughout.   *)
FitsImm32_Unsigned(opcode, v, width) == v \subseteq Bits("W32")

FitsImm32(opcode, v, width) ==
  CASE width = "W32" -> v \subseteq Bits("W32")
    [] width = "X64" /\ opcode \in {"Add", "Sub"} -> SignExtend(v) = v
    [] OTHER -> v \subseteq Bits("W32") /\ ~ Negative(v, "W32")

(* emit_nzcv_from_x86_flags: setcc into dl, cl, al and sil, then shift and *)
(* or them together in edx.                                                *)
StoreNZCV(h, opcode) ==
  LET n == h.fl.s
      z == h.fl.z
      c == CASE opcode = "Add" -> h.fl.c
             [] opcode = "Sub" -> ~ h.fl.c
             [] opcode = "And" -> FALSE
      v == IF opcode = "And" THEN FALSE ELSE h.fl.o
  IN  [h EXCEPT !.st.nzcv =
         {f \in Flags : [N |-> n, Z |-> z, C |-> c, V |-> v][f]}]

(* select: the form of an instruction, decided from its operands a and c. *)
ImmediateForm(inst) ==
  /\ inst.opcode \in Binops /\ inst.a.t = "Reg" /\ inst.c.t = "Imm"
  /\ FitsImm32(inst.opcode, inst.c.v, inst.a.r.width)

EmitBinop(inst, h) ==
  LET dest == inst.a.r
      imm == inst.b.t = "Reg" /\ ImmediateForm(inst)
      generic == LoadOperand(LoadOperand(h, inst.b, "rax", dest.width),
                             inst.c, "rcx", dest.width)
      ran == IF imm
             THEN Alu(LoadState(h, "rax", inst.b.r), inst.opcode,
                      SignExtend(inst.c.v), dest.width)
             ELSE Alu(generic, inst.opcode, generic.rcx, dest.width)
      stored == StoreState(ran, dest)
  IN  IF inst.flags THEN StoreNZCV(stored, inst.opcode) ELSE stored

(* The shift of rax by CL. *)
ShiftByCl(h, kind, width) ==
  [h EXCEPT !.rax = Shift(kind, Mask(@, width), Count(h.rcx, width), width)]

EmitShift(inst, h) ==
  LET width == inst.a.r.width
      value == LoadOperand(h, inst.b, "rax", width)
      loaded == LoadState(value, "rcx", inst.c.amount)
  IN  StoreState(ShiftByCl(loaded, inst.c.kind, width), inst.a.r)

(* emit_guest_address leaves the base in rax; HOST_BASE, which it adds, is *)
(* where guest address 0 is mapped.                                        *)
EffectiveAddress(h, mem) == Add(h.rax, mem.offset, "X64").val

EmitLoad(inst, h) ==
  LET at == LoadState(h, "rax", inst.b.base)
  IN  StoreState([at EXCEPT !.rax =
        ReadMem(h.st.mem, EffectiveAddress(at, inst.b), inst.b.width)], inst.a.r)

EmitStore(inst, h) ==
  LET at == LoadState(LoadState(h, "rcx", inst.b.r), "rax", inst.a.base)
  IN  [at EXCEPT !.st.mem =
        WriteMem(@, EffectiveAddress(at, inst.a), inst.a.width, at.rcx)]

(* The instructions emit_block can emit; for any other it returns an error *)
(* and the whole block is refused.                                         *)
CanEmit(inst) ==
  LET dest == inst.a.t = "Reg"
  IN  CASE inst.opcode = "Nop"    -> TRUE
        [] inst.opcode = "Mov"    -> dest /\ Loadable(inst.b)
        [] inst.opcode \in Binops -> dest /\ Loadable(inst.b) /\ Loadable(inst.c)
        [] inst.opcode = "Shift"  -> dest /\ Loadable(inst.b) /\ inst.c.t = "ShiftReg"
        [] inst.opcode = "Load"   -> dest /\ inst.b.t = "Mem"
        [] inst.opcode = "Store"  -> inst.a.t = "Mem" /\ inst.b.t = "Reg"
        [] inst.opcode = "Branch" -> inst.a.t = "GuestPc"
        [] inst.opcode = "BranchCond" ->
             /\ inst.a.t = "GuestPc"
             /\ \/ inst.b.t = "Imm" /\ inst.c.t = "None" /\ inst.b.v \in 0 .. 15
                \/ inst.b.t = "Reg" /\ inst.c.t = "Imm" /\ inst.c.v \in {0, 1}
        [] inst.opcode = "Ret"    -> TRUE
        [] OTHER -> FALSE

(* GuestState after the code of an instruction has run from st. *)
Emitted(inst, st) ==
  LET h == HostOf(st)
  IN  CASE inst.opcode = "Mov" ->
             StoreState(LoadOperand(h, inst.b, "rax", inst.a.r.width), inst.a.r).st
        [] inst.opcode \in Binops -> EmitBinop(inst, h).st
        [] inst.opcode = "Shift"  -> EmitShift(inst, h).st
        [] inst.opcode = "Load"   -> EmitLoad(inst, h).st
        [] inst.opcode = "Store"  -> EmitStore(inst, h).st
        [] OTHER -> st

(* condition_holds, from which the branch tables are built; the first form *)
(* is deliberately wrong, with LS not the complement of HI.                *)
ConditionHolds_LS(cond, f) ==
  CASE cond = 8 -> "C" \in f /\ "Z" \notin f
    [] cond = 9 -> "C" \notin f /\ "Z" \in f
    [] OTHER    -> TRUE

ConditionHolds(cond, f) ==
  LET n == "N" \in f
      z == "Z" \in f
      c == "C" \in f
      v == "V" \in f
  IN  CASE cond = 0  -> z            [] cond = 1  -> ~ z
        [] cond = 2  -> c            [] cond = 3  -> ~ c
        [] cond = 4  -> n            [] cond = 5  -> ~ n
        [] cond = 6  -> v            [] cond = 7  -> ~ v
        [] cond = 8  -> c /\ ~ z     [] cond = 9  -> ~ c \/ z
        [] cond = 10 -> n = v        [] cond = 11 -> n # v
        [] cond = 12 -> ~ z /\ (n = v)
        [] cond = 13 -> z \/ (n # v)
        [] cond = 14 -> TRUE         [] cond = 15 -> FALSE

EndsBlock(inst) == inst.opcode \in {"Branch", "BranchCond", "Ret"}

(* emit_set_pc_imm and ret, piece by piece with the bytes they take.       *)
SetPcRet(pc) == <<[len |-> 10, does |-> "mov", v |-> pc],
                  [len |-> 7, does |-> "store", v |-> pc],
                  [len |-> 1, does |-> "ret", v |-> pc]>>

SET_PC_RET_LEN_NoRet == 17  \* deliberately wrong: the ret is forgotten

SET_PC_RET_LEN == 18

(* Where a jump over so many bytes of code lands: after pieces of that     *)
(* length, if it does not land inside one.                                 *)
Landing(code, bytes) ==
  LET before[i \in 1 .. Len(code)] ==
        IF i = 1 THEN 0 ELSE before[i - 1] + code[i - 1].len
  IN  {i \in 1 .. Len(code) : before[i] = bytes}

(* What a conditional branch writes to state.pc: the jump, when its        *)
(* condition fails, is over the code for the target; anything but the      *)
(* start of either half would write what rax happens to hold.              *)
BranchCode(taken, target, fallthrough) ==
  LET code == SetPcRet(target) \o SetPcRet(fallthrough)
      at == Landing(code, IF taken THEN 0 ELSE SET_PC_RET_LEN)
  IN  IF \E i \in at : code[i].does = "mov"
      THEN <<"at", code[CHOOSE i \in at : TRUE].v>>
      ELSE <<"reg", Junk>>

(* The state.pc that the code of a last instruction writes; fallthrough is *)
(* block.guest_pc + (index + 1) * 4.                                       *)
ExitPc(inst, st, fallthrough) ==
  LET taken == IF inst.b.t = "Imm" THEN ConditionHolds(inst.b.v, st.nzcv)
               ELSE (ReadReg(st, inst.b.r) = {}) = (inst.c.v = 0)
  IN  CASE inst.opcode = "Ret"    -> <<"reg", ReadReg(st, Reg(LR, "X64"))>>
        [] inst.opcode = "Branch" -> <<"at", inst.a.pc>>
        [] inst.opcode = "BranchCond" -> BranchCode(taken, inst.a.pc, fallthrough)
=============================================================================
