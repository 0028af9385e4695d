---------------------------- MODULE PipelineProofs ----------------------------
(***************************************************************************)
(* One instruction through lifter, optimizer and code generator, for words *)
(* of any size and any number of registers: the emitted code does what the *)
(* architecture says, and what the optimizer then believes is true.  First *)
(* the machine words: results are words, the low half of a 64-bit sum is   *)
(* the 32-bit sum, and the identities that the optimizer uses.             *)
(***************************************************************************)
EXTENDS Lifter, Optimizer, CodeGen, WellFoundedInduction, TLAPS

(* Induction over the naturals and the least-number principle, for sets.   *)
LEMMA Least ==
  ASSUME NEW T \in SUBSET Nat, T # {}
  PROVE  \E m \in T : \A n \in T : m <= n
<1> DEFINE R == {q \in Nat \X Nat : q[1] < q[2]}
<1>1. IsWellFoundedOn(R, Nat)
  BY NatLessThanWellFounded DEF OpToRel
<1>2. PICK m \in T : \A n \in T : <<n, m>> \notin R
  BY <1>1, WFMin
<1>3. m \in Nat /\ \A n \in T : n \in Nat /\ <<n, m>> \in Nat \X Nat
  BY <1>2
<1>4. ASSUME NEW n \in T, n < m PROVE FALSE
  <2>1. <<n, m>> \in R
    BY <1>3, <1>4
  <2> QED BY <1>2, <2>1
<1> QED BY <1>2, <1>3, <1>4

LEMMA Induction ==
  ASSUME NEW S, 0 \in S, \A n \in Nat : n \in S => n + 1 \in S
  PROVE  Nat \subseteq S
<1> DEFINE T == Nat \ S
<1>1. T = {}
  <2> SUFFICES ASSUME T # {} PROVE FALSE
    OBVIOUS
  <2>1. PICK m \in T : \A n \in T : m <= n
    BY Least
  <2>2. m \in Nat /\ m - 1 \in Nat /\ m - 1 + 1 = m
    BY <2>1
  <2>3. m - 1 \notin T
    <3> HIDE DEF T
    <3> QED BY <2>1, <2>2
  <2> QED BY <2>1, <2>2, <2>3
<1> QED BY <1>1

LEMMA PowerIsInt == \A n \in Nat : 2 ^ n \in Int
OBVIOUS

(* The number a word stands for, as the sum it is defined by. *)
Sums(f, v, k) ==
  /\ f[0] = 0 /\ \A n \in 0 .. k : f[n] \in Int
  /\ \A n \in 0 .. k - 1 : /\ n \in v => f[n + 1] = f[n] + 2 ^ n
                           /\ n \notin v => f[n + 1] = f[n]

LEMMA NumberSum ==
  ASSUME NEW v
  PROVE  \E f : Sums(f, v, NBits("X64")) /\ Number(v) = f[NBits("X64")]
<1> DEFINE N == NBits("X64")
           Is(f, n) == f = [i \in 0 .. n |-> IF i = 0 THEN 0
                              ELSE f[i - 1] + IF i - 1 \in v THEN 2 ^ (i - 1) ELSE 0]
           S == {n \in Nat : \E f \in [0 .. n -> Int] : Is(f, n)}
<1>1. 0 \in S
  <2> DEFINE f == [i \in 0 .. 0 |-> 0]
  <2>1. Is(f, 0) /\ f \in [0 .. 0 -> Int]
    OBVIOUS
  <2> QED BY <2>1
<1>2. ASSUME NEW n \in Nat, NEW g \in [0 .. n -> Int], Is(g, n)
      PROVE  \E f \in [0 .. n + 1 -> Int] : Is(f, n + 1)
  <2> DEFINE top == g[n] + IF n \in v THEN 2 ^ n ELSE 0
             f == [i \in 0 .. n + 1 |-> IF i = n + 1 THEN top ELSE g[i]]
  <2>1. top \in Int
    BY PowerIsInt
  <2>2. f \in [0 .. n + 1 -> Int]
    <3> HIDE DEF top
    <3> QED BY <2>1
  <2>3. Is(f, n + 1)
    <3>1. ASSUME NEW i \in 0 .. n + 1
          PROVE  f[i] = IF i = 0 THEN 0
                        ELSE f[i - 1] + IF i - 1 \in v THEN 2 ^ (i - 1) ELSE 0
      <4>1. CASE i = 0
        BY <4>1, <1>2
      <4>2. CASE i \in 1 .. n
        BY <4>2, <1>2
      <4>3. CASE i = n + 1
        BY <4>3
      <4> QED BY <4>1, <4>2, <4>3
    <3> QED BY <3>1
  <2> HIDE DEF f, Is
  <2> QED BY <2>2, <2>3
<1>3. \A n \in Nat : n \in S => n + 1 \in S
  <2> HIDE DEF Is
  <2> QED BY <1>2
<1>4. N \in Nat
  <2> DEFINE n == 2 ^ WLog
  <2>1. n \in Nat
    BY PowerAssumption
  <2>2. N = 2 * n
    BY DEF NBits
  <2> HIDE DEF n, N
  <2> QED BY <2>1, <2>2
<1>5. N \in S
  <2> HIDE DEF S, N
  <2> QED BY <1>1, <1>3, <1>4, Induction
<1> DEFINE F == CHOOSE f : Is(f, N)
<1>6. Number(v) = F[N]
  BY DEF Number
<1>7. PICK g \in [0 .. N -> Int] : Is(g, N)
  <2> HIDE DEF Is
  <2> QED BY <1>5
<1>8. Is(F, N)
  <2> HIDE DEF Is
  <2> QED BY <1>7
<1> DEFINE E == {n \in Nat : n <= N => F[n] = g[n]}
<1>9. Nat \subseteq E
  <2>1. 0 \in E
    BY <1>4, <1>7, <1>8
  <2>2. \A n \in Nat : n \in E => n + 1 \in E
    <3> SUFFICES ASSUME NEW n \in Nat, n <= N => F[n] = g[n], n + 1 <= N
                 PROVE  F[n + 1] = g[n + 1]
      OBVIOUS
    <3> HIDE DEF F, N
    <3> QED BY <1>4, <1>7, <1>8
  <2> HIDE DEF E
  <2> QED BY <2>1, <2>2, Induction
<1>10. F[N] = g[N]
  <2>1. N \in E
    <3> HIDE DEF E, N
    <3> QED BY <1>4, <1>9
  <2> HIDE DEF F, N
  <2> QED BY <1>4, <2>1
<1>11. g[0] = 0 /\ \A n \in 0 .. N - 1 : g[n + 1] = g[n] + IF n \in v THEN 2 ^ n ELSE 0
  <2>1. g[0] = 0
    BY <1>4, <1>7
  <2>2. ASSUME NEW n \in 0 .. N - 1
        PROVE  g[n + 1] = g[n] + IF n \in v THEN 2 ^ n ELSE 0
    <3> DEFINE m == n + 1
    <3>1. m \in 0 .. N /\ m # 0 /\ m - 1 = n
      BY <1>4
    <3> HIDE DEF m, F, N
    <3>2. g[m] = g[m - 1] + IF m - 1 \in v THEN 2 ^ (m - 1) ELSE 0
      BY <3>1, <1>7
    <3>3. g[m] = g[n] + IF n \in v THEN 2 ^ n ELSE 0
      BY <3>1, <3>2
    <3> QED BY <3>3 DEF m
  <2> QED BY <2>1, <2>2
<1>12. Sums(g, v, N)
  <2>1. \A n \in 0 .. N : g[n] \in Int
    BY <1>7
  <2>2. ASSUME NEW n \in 0 .. N - 1, n \notin v PROVE g[n + 1] = g[n]
    <3>1. n \in 0 .. N
      BY <1>4
    <3> HIDE DEF N, F
    <3> QED BY <1>11, <2>1, <2>2, <3>1
  <2> HIDE DEF N, F
  <2> QED BY <1>11, <2>1, <2>2 DEF Sums
<1> HIDE DEF F
<1> QED BY <1>6, <1>10, <1>12

(* A word stands for an integer. *)
LEMMA NumberIsInt == ASSUME NEW v PROVE Number(v) \in Int
<1>1. NBits("X64") \in Nat
  <2> DEFINE n == 2 ^ WLog
  <2>1. n \in Nat /\ NBits("X64") = 2 * n
    BY PowerAssumption DEF NBits
  <2> HIDE DEF n
  <2> QED BY <2>1
<1> QED BY <1>1, NumberSum DEF Sums
-----------------------------------------------------------------------------
(* Machine words. *)

LEMMA WidthBits ==
  ASSUME NEW width \in Widths
  PROVE  /\ NBits(width) \in Int /\ Bits(width) = 0 .. NBits(width) - 1
         /\ Bits(width) \subseteq Int /\ Bits(width) \subseteq Bits("X64")
         /\ \A i \in Bits(width) : i \in Nat /\ \A k \in 0 .. i : k \in Bits(width)
<1>1. 2 ^ WLog \in Int
  BY WLogAssumption
<1> DEFINE n == 2 ^ WLog
<1>2. NBits("W32") = n /\ NBits("X64") = 2 * n
  BY DEF NBits
<1> HIDE DEF n
<1>3. n \in Int
  BY <1>1 DEF n
<1>4. CASE width = "W32"
  BY <1>2, <1>3, <1>4 DEF Bits
<1>5. CASE width = "X64"
  BY <1>2, <1>3, <1>5 DEF Bits
<1> QED BY <1>4, <1>5 DEF Widths

LEMMA XWords ==
  ASSUME NEW width \in Widths, NEW v \in SUBSET Bits(width)
  PROVE  v \in XWord /\ Mask(v, width) = v
BY WidthBits DEF XWord, Mask

LEMMA MaskIsWord ==
  ASSUME NEW v, NEW width \in Widths
  PROVE  Mask(v, width) \in SUBSET Bits(width) /\ Mask(Mask(v, width), width) = Mask(v, width)
BY DEF Mask

LEMMA SumIsWord ==
  ASSUME NEW a, NEW b, NEW cin, NEW width
  PROVE  AddWithCarry(a, b, cin, width).val \in SUBSET Bits(width)
BY DEF AddWithCarry

LEMMA AddSubWords ==
  ASSUME NEW a, NEW b, NEW width
  PROVE  /\ Add(a, b, width).val \in SUBSET Bits(width)
         /\ Sub(a, b, width).val \in SUBSET Bits(width)
BY SumIsWord DEF Add, Sub

LEMMA ShiftIsWord ==
  ASSUME NEW kind \in ShiftKinds, NEW v, NEW k, NEW width
  PROVE  Shift(kind, v, k, width) \in SUBSET Bits(width)
BY DEF Shift, ShiftKinds
-----------------------------------------------------------------------------
(* Sums.                                                                   *)

(* A carry into bit i depends on the bits below i only. *)
LEMMA CarryAgrees ==
  ASSUME NEW a, NEW b, NEW c, NEW cin, NEW i \in Nat,
         \A k \in 0 .. i - 1 : k \in b <=> k \in c
  PROVE  Carry(a, b, cin, i) <=> Carry(a, c, cin, i)
<1>1. \A j \in 0 .. i : j # 0 => j - 1 \in 0 .. i - 1
  OBVIOUS
<1>2. \A j \in 0 .. i : \A k \in j .. i - 1 : k \in 0 .. i - 1
  OBVIOUS
<1> QED BY <1>1, <1>2 DEF Carry

(* The low bits of a 64-bit sum and difference are the 32-bit ones. *)
LEMMA LowSum ==
  ASSUME NEW a, NEW b, NEW width \in Widths
  PROVE  Mask(Add(a, b, "X64").val, width) = Add(a, b, width).val
BY WidthBits DEF Add, AddWithCarry, Mask

LEMMA LowDifference ==
  ASSUME NEW a, NEW b, NEW width \in Widths
  PROVE  Mask(Sub(a, b, "X64").val, width) = Sub(a, b, width).val
<1> DEFINE c == Complement(b, "X64")
           d == Complement(b, width)
<1>1. \A i \in Bits(width) : i \in c <=> i \in d
  BY WidthBits DEF Complement
<1>2. \A i \in Bits(width) : Carry(a, c, TRUE, i) <=> Carry(a, d, TRUE, i)
  <2> SUFFICES ASSUME NEW i \in Bits(width)
               PROVE  Carry(a, c, TRUE, i) <=> Carry(a, d, TRUE, i)
    OBVIOUS
  <2>1. i \in Nat /\ \A k \in 0 .. i - 1 : k \in Bits(width)
    BY WidthBits
  <2> HIDE DEF c, d
  <2> QED BY <1>1, <2>1, CarryAgrees
<1> HIDE DEF c, d
<1>3. \A i \in Bits(width) :
        (i \in a <=> (i \in c <=> Carry(a, c, TRUE, i))) <=>
        (i \in a <=> (i \in d <=> Carry(a, d, TRUE, i)))
  BY <1>1, <1>2
<1>4. Bits(width) \subseteq Bits("X64")
  BY WidthBits
<1> QED BY <1>3, <1>4 DEF Sub, AddWithCarry, Mask, c, d
-----------------------------------------------------------------------------
(* Identities.                                                             *)

LEMMA AddZero ==
  ASSUME NEW width \in Widths, NEW a \in SUBSET Bits(width)
  PROVE  Add(a, {}, width).val = a
<1>1. \A i \in Bits(width) : Carry(a, {}, FALSE, i) <=> FALSE
  BY DEF Carry
<1>2. Add(a, {}, width).val =
        {i \in Bits(width) : i \in a <=> (i \in {} <=> Carry(a, {}, FALSE, i))}
  BY DEF Add, AddWithCarry
<1>3. \A i \in Bits(width) : (i \in a <=> (i \in {} <=> Carry(a, {}, FALSE, i))) <=> i \in a
  BY <1>1
<1> QED BY <1>2, <1>3

(* Every bit passes a carry on when b is the complement of a, or all ones. *)
LEMMA CarryPasses ==
  ASSUME NEW width \in Widths, NEW a, NEW b,
         \A i \in Bits(width) : i \in a \/ i \in b
  PROVE  \A i \in Bits(width) : Carry(a, b, TRUE, i)
<1> SUFFICES ASSUME NEW i \in Bits(width) PROVE Carry(a, b, TRUE, i)
  OBVIOUS
<1>1. i \in Nat /\ \A k \in 0 .. i - 1 : k \in Bits(width)
  BY WidthBits
<1>2. 0 \in 0 .. i
  BY <1>1
<1> QED BY <1>1, <1>2 DEF Carry

LEMMA SubZero ==
  ASSUME NEW width \in Widths, NEW a \in SUBSET Bits(width)
  PROVE  Sub(a, {}, width).val = a
<1> DEFINE b == Complement({}, width)
<1>1. \A i \in Bits(width) : i \in b
  BY DEF Complement
<1>2. \A i \in Bits(width) : Carry(a, b, TRUE, i)
  BY <1>1, CarryPasses
<1>3. Sub(a, {}, width).val =
        {i \in Bits(width) : i \in a <=> (i \in b <=> Carry(a, b, TRUE, i))}
  BY DEF Sub, AddWithCarry
<1> HIDE DEF b
<1>4. \A i \in Bits(width) : (i \in a <=> (i \in b <=> Carry(a, b, TRUE, i))) <=> i \in a
  BY <1>1, <1>2
<1> QED BY <1>3, <1>4

LEMMA SubSelf ==
  ASSUME NEW width \in Widths, NEW a
  PROVE  Sub(a, a, width).val = {}
<1> DEFINE b == Complement(a, width)
<1>1. \A i \in Bits(width) : i \in b <=> i \notin a
  BY DEF Complement
<1> HIDE DEF b
<1>2. \A i \in Bits(width) : Carry(a, b, TRUE, i)
  BY <1>1, CarryPasses
<1>3. Sub(a, a, width).val =
        {i \in Bits(width) : i \in a <=> (i \in b <=> Carry(a, b, TRUE, i))}
  BY DEF Sub, AddWithCarry, b
<1>4. \A i \in Bits(width) : ~ (i \in a <=> (i \in b <=> Carry(a, b, TRUE, i)))
  BY <1>1, <1>2
<1> QED BY <1>3, <1>4

LEMMA ShiftByNothing ==
  ASSUME NEW kind \in ShiftKinds, NEW width \in Widths, NEW v \in SUBSET Bits(width)
  PROVE  Shift(kind, v, 0, width) = v
<1>1. NBits(width) \in Int /\ \A i \in Bits(width) : i \in Int /\ i >= 0 /\ i < NBits(width)
  BY WidthBits DEF Bits
<1>2. \A i \in Bits(width) : i - 0 = i /\ i + 0 = i /\ ~ (i + 0 >= NBits(width))
  BY <1>1
<1>3. \A i \in Bits(width) : (i + 0) % NBits(width) = i
  BY <1>1
<1>4. CASE kind = "Lsl"
  BY <1>2, <1>4 DEF Shift
<1>5. CASE kind = "Lsr"
  BY <1>2, <1>5 DEF Shift
<1>6. CASE kind = "Asr"
  BY <1>2, <1>6 DEF Shift
<1>7. CASE kind = "Ror"
  BY <1>3, <1>7 DEF Shift
<1> QED BY <1>4, <1>5, <1>6, <1>7 DEF ShiftKinds

(* An immediate that the selector accepts is what the processor makes of   *)
(* the 32 bits in the instruction.                                         *)
LEMMA SignExtendNarrow ==
  ASSUME NEW v \in SUBSET Bits("W32")
  PROVE  /\ Mask(SignExtend(v), "W32") = v
         /\ ~ Negative(v, "W32") => SignExtend(v) = v
BY DEF SignExtend, Mask
-----------------------------------------------------------------------------
(* Registers and state.                                                    *)

RegRecord ==
  [num : RegNum, width : Widths, kind : {"Zero", "StackPointer", "General"}]

RegOk(r) == r \in RegRecord /\ (r.kind = "General" => r.num \in GPR)

LEMMA RegsOk ==
  ASSUME NEW n \in RegNum, NEW width \in Widths
  PROVE  /\ RegOk(Reg(n, width)) /\ Reg(n, width).width = width
         /\ RegOk(RegOrSP(n, width)) /\ RegOrSP(n, width).width = width
BY LRAssumption DEF RegOk, RegRecord, Reg, RegOrSP, RegNum, R31, GPR

LEMMA ReadRegWord ==
  ASSUME NEW st \in GuestState, NEW r, RegOk(r)
  PROVE  /\ ReadReg(st, r) \in SUBSET Bits(r.width)
         /\ Mask(ReadReg(st, r), r.width) = ReadReg(st, r)
BY DEF RegOk, RegRecord, ReadReg, Mask

(* What a register write changes. *)
LEMMA WriteRegState ==
  ASSUME NEW st \in GuestState, NEW r, RegOk(r), NEW v \in XWord
  PROVE  /\ WriteReg(st, r, v) \in GuestState
         /\ r.kind = "General" => WriteReg(st, r, v).x = [st.x EXCEPT ![r.num] = v]
         /\ r.kind # "General" => WriteReg(st, r, v).x = st.x
<1>1. CASE r.kind = "Zero"
  BY <1>1 DEF WriteReg
<1>2. CASE r.kind = "StackPointer"
  BY <1>2 DEF WriteReg, GuestState
<1>3. CASE r.kind = "General"
  BY <1>3 DEF WriteReg, GuestState, RegOk
<1> QED BY <1>1, <1>2, <1>3 DEF RegOk, RegRecord

LEMMA SetFlagsState ==
  ASSUME NEW st \in GuestState, NEW f \in SUBSET Flags
  PROVE  [st EXCEPT !.nzcv = f] \in GuestState /\ [st EXCEPT !.nzcv = f].x = st.x
BY DEF GuestState

LEMMA ReadMemWord ==
  ASSUME NEW st \in GuestState, NEW addr \in XWord, NEW width \in Widths
  PROVE  ReadMem(st.mem, addr, width) \in XWord
<1>1. Upper(addr) \in XWord
  BY AddSubWords DEF Upper, XWord
<1>2. st.mem[addr] \in SUBSET Bits("W32") /\ Bits("W32") \subseteq Bits("X64")
  BY WidthBits DEF GuestState, Cell, Widths
<1>3. Shift("Lsl", st.mem[Upper(addr)], NBits("W32"), "X64") \in SUBSET Bits("X64")
  BY ShiftIsWord DEF ShiftKinds
<1> QED BY <1>2, <1>3 DEF ReadMem, XWord

LEMMA WriteMemState ==
  ASSUME NEW st \in GuestState, NEW addr \in XWord, NEW width \in Widths, NEW v
  PROVE  /\ [st EXCEPT !.mem = WriteMem(@, addr, width, v)] \in GuestState
         /\ [st EXCEPT !.mem = WriteMem(@, addr, width, v)].x = st.x
<1> DEFINE m == WriteMem(st.mem, addr, width, v)
<1>1. Upper(addr) \in XWord
  BY AddSubWords DEF Upper, XWord
<1>2. \A u : Mask(u, "W32") \in Cell
  BY DEF Mask, Cell
<1>3. m \in [XWord -> Cell]
  BY <1>1, <1>2 DEF WriteMem, GuestState
<1> HIDE DEF m
<1>4. [st EXCEPT !.mem = m] \in GuestState /\ [st EXCEPT !.mem = m].x = st.x
  BY <1>3 DEF GuestState
<1> QED BY <1>4 DEF m
-----------------------------------------------------------------------------
(* The code generator.                                                     *)

(* The value an operand stands for, as LoadOperand leaves it. *)
Value(op, st, width) ==
  CASE op.t = "Reg" -> ReadReg(st, op.r)
    [] op.t = "Imm" -> Mask(op.v, width)
    [] op.t = "ShiftedImm" -> Mask(Shift("Lsl", op.v, op.amount, "X64"), width)
    [] op.t = "ShiftedReg" -> Shift(op.kind, ReadReg(st, op.r), op.amount, width)

(* An operand of an instruction of that width. *)
OperandOk(op, width) ==
  \/ op.t = "Reg" /\ RegOk(op.r) /\ op.r.width = width
  \/ op.t = "Imm" /\ op.v \in SUBSET Bits(width)
  \/ op.t = "ShiftedImm"
  \/ op.t = "ShiftedReg" /\ RegOk(op.r) /\ op.r.width = width /\ op.kind \in ShiftKinds

LEMMA ValueIsWord ==
  ASSUME NEW st \in GuestState, NEW width \in Widths, NEW op, OperandOk(op, width)
  PROVE  Value(op, st, width) \in SUBSET Bits(width)
<1>1. CASE op.t = "Reg" /\ RegOk(op.r) /\ op.r.width = width
  BY <1>1, ReadRegWord DEF Value
<1>2. CASE op.t = "Imm" \/ op.t = "ShiftedImm"
  BY <1>2 DEF Value, Mask
<1>3. CASE op.t = "ShiftedReg" /\ op.kind \in ShiftKinds
  BY <1>3, ShiftIsWord DEF Value
<1> QED BY <1>1, <1>2, <1>3 DEF OperandOk

(* The host states in which the emitters are looked at. *)
X86FlagRecord == [s : BOOLEAN, z : BOOLEAN, c : BOOLEAN, o : BOOLEAN]
Host ==
  [rax : XWord, rcx : XWord, rdx : XWord, rsi : XWord, fl : X86FlagRecord, st : GuestState]

LEMMA HostOfHost ==
  ASSUME NEW st \in GuestState
  PROVE  HostOf(st) \in Host /\ HostOf(st).st = st
BY DEF HostOf, Host, Junk, XWord, X86FlagRecord

LEMMA LoadStateHost ==
  ASSUME NEW h \in Host, NEW r, RegOk(r), NEW reg \in {"rax", "rcx"}
  PROVE  /\ LoadState(h, reg, r) \in Host /\ LoadState(h, reg, r).st = h.st
         /\ LoadState(h, reg, r)[reg] = ReadReg(h.st, r)
         /\ reg = "rcx" => LoadState(h, reg, r).rax = h.rax
         /\ reg = "rax" => LoadState(h, reg, r).rcx = h.rcx
<1>1. h.st \in GuestState /\ r.width \in Widths
  BY DEF Host, RegOk, RegRecord
<1>2. ReadReg(h.st, r) \in XWord
  BY <1>1, ReadRegWord, XWords
<1>3. CASE r.kind = "Zero"
  <2> DEFINE f == X86Flags(Logic({}), FALSE, r.width)
  <2>1. f \in X86FlagRecord
    BY DEF X86Flags, X86FlagRecord, Logic, Negative
  <2>2. LoadState(h, reg, r) = [h EXCEPT ![reg] = {}, !.fl = f] /\ ReadReg(h.st, r) = {}
    BY <1>3 DEF LoadState, ReadReg
  <2> HIDE DEF f
  <2>3. CASE reg = "rax"
    BY <1>2, <2>1, <2>2, <2>3 DEF Host
  <2>4. CASE reg = "rcx"
    BY <1>2, <2>1, <2>2, <2>4 DEF Host
  <2> QED BY <2>3, <2>4
<1>4. CASE r.kind # "Zero"
  <2>1. LoadState(h, reg, r) = [h EXCEPT ![reg] = ReadReg(h.st, r)]
    BY <1>4 DEF LoadState
  <2>2. CASE reg = "rax"
    BY <1>2, <2>1, <2>2 DEF Host
  <2>3. CASE reg = "rcx"
    BY <1>2, <2>1, <2>3 DEF Host
  <2> QED BY <2>2, <2>3
<1> QED BY <1>3, <1>4

LEMMA LoadRax ==
  ASSUME NEW h \in Host, NEW r, RegOk(r)
  PROVE  LET g == LoadState(h, "rax", r)
         IN  g \in Host /\ g.st = h.st /\ g.rax = ReadReg(h.st, r) /\ g.rcx = h.rcx
<1>1. "rax" \in {"rax", "rcx"}
  OBVIOUS
<1> QED BY <1>1, LoadStateHost

LEMMA LoadRcx ==
  ASSUME NEW h \in Host, NEW r, RegOk(r)
  PROVE  LET g == LoadState(h, "rcx", r)
         IN  g \in Host /\ g.st = h.st /\ g.rcx = ReadReg(h.st, r) /\ g.rax = h.rax
<1>1. "rcx" \in {"rax", "rcx"}
  OBVIOUS
<1> QED BY <1>1, LoadStateHost

SetReg(h, reg, v) == [h EXCEPT ![reg] = v]

LEMMA SetRegHost ==
  ASSUME NEW h \in Host, NEW reg \in {"rax", "rcx"}, NEW v \in XWord
  PROVE  /\ SetReg(h, reg, v) \in Host /\ SetReg(h, reg, v).st = h.st
         /\ SetReg(h, reg, v)[reg] = v
         /\ reg = "rcx" => SetReg(h, reg, v).rax = h.rax
<1>1. CASE reg = "rax"
  BY <1>1 DEF Host, SetReg
<1>2. CASE reg = "rcx"
  BY <1>2 DEF Host, SetReg
<1> QED BY <1>1, <1>2

LEMMA LoadOperandHost ==
  ASSUME NEW h \in Host, NEW width \in Widths, NEW op, OperandOk(op, width),
         NEW reg \in {"rax", "rcx"}
  PROVE  LET g == LoadOperand(h, op, reg, width)
         IN  /\ g \in Host /\ g.st = h.st
             /\ g[reg] = Value(op, h.st, width)
             /\ reg = "rcx" => g.rax = h.rax
<1> DEFINE v == Value(op, h.st, width)
<1>1. h.st \in GuestState
  BY DEF Host
<1>2. v \in SUBSET Bits(width) /\ v \in XWord
  BY <1>1, ValueIsWord, XWords
<1>3. CASE op.t = "Reg" /\ RegOk(op.r)
  <2>1. LoadOperand(h, op, reg, width) = LoadState(h, reg, op.r) /\ v = ReadReg(h.st, op.r)
    BY <1>3 DEF LoadOperand, Value
  <2>2. /\ LoadState(h, reg, op.r) \in Host /\ LoadState(h, reg, op.r).st = h.st
        /\ LoadState(h, reg, op.r)[reg] = ReadReg(h.st, op.r)
        /\ reg = "rcx" => LoadState(h, reg, op.r).rax = h.rax
    BY <1>3, LoadStateHost
  <2> QED BY <2>1, <2>2
<1>4. CASE op.t = "Imm" \/ op.t = "ShiftedImm"
  <2>1. LoadOperand(h, op, reg, width) = SetReg(h, reg, v)
    BY <1>4 DEF LoadOperand, MovImm, Value, SetReg
  <2> HIDE DEF v
  <2>2. v = Value(op, h.st, width)
    BY DEF v
  <2> QED BY <1>2, <2>1, <2>2, SetRegHost
<1>5. CASE op.t = "ShiftedReg" /\ RegOk(op.r) /\ op.r.width = width /\ op.kind \in ShiftKinds
  <2> DEFINE g == LoadState(h, reg, op.r)
  <2>1. g \in Host /\ g.st = h.st /\ g[reg] = ReadReg(h.st, op.r)
        /\ (reg = "rcx" => g.rax = h.rax)
    BY <1>5, LoadStateHost
  <2>2. /\ Mask(ReadReg(h.st, op.r), width) = ReadReg(h.st, op.r)
        /\ ReadReg(h.st, op.r) \in SUBSET Bits(width)
    BY <1>1, <1>5, ReadRegWord
  <2>3. LoadOperand(h, op, reg, width) = ShiftImm(g, reg, op.kind, op.amount, width)
        /\ v = Shift(op.kind, ReadReg(h.st, op.r), op.amount, width)
    BY <1>5 DEF LoadOperand, Value
  <2> HIDE DEF g, v
  <2>4. CASE op.amount = 0
    <3>1. LoadOperand(h, op, reg, width) = g
      BY <2>3, <2>4 DEF ShiftImm
    <3>2. v = ReadReg(h.st, op.r)
      BY <1>5, <2>2, <2>3, <2>4, ShiftByNothing
    <3>3. Value(op, h.st, width) = ReadReg(h.st, op.r)
      BY <3>2 DEF v
    <3> QED BY <2>1, <3>1, <3>3
  <2>5. CASE op.amount # 0
    <3>1. LoadOperand(h, op, reg, width) = SetReg(g, reg, v)
      BY <2>1, <2>2, <2>3, <2>5 DEF ShiftImm, SetReg
    <3>2. v = Value(op, h.st, width)
      BY DEF v
    <3> QED BY <1>2, <2>1, <3>1, <3>2, SetRegHost
  <2> QED BY <2>4, <2>5
<1> QED BY <1>3, <1>4, <1>5 DEF OperandOk

LEMMA StoreStateHost ==
  ASSUME NEW h \in Host, NEW r, RegOk(r)
  PROVE  /\ StoreState(h, r) \in Host /\ StoreState(h, r).st = WriteReg(h.st, r, h.rax)
         /\ StoreState(h, r).fl = h.fl
<1> DEFINE s == WriteReg(h.st, r, h.rax)
<1>1. s \in GuestState
  BY WriteRegState DEF Host
<1>2. StoreState(h, r) = [h EXCEPT !.st = s]
  BY DEF StoreState
<1> HIDE DEF s
<1>3. StoreState(h, r) \in Host /\ StoreState(h, r).st = s /\ StoreState(h, r).fl = h.fl
  BY <1>1, <1>2 DEF Host
<1> QED BY <1>3 DEF s

LEMMA EmittedMov ==
  ASSUME NEW st \in GuestState, NEW inst, inst.opcode = "Mov", RegOk(inst.a.r),
         OperandOk(inst.b, inst.a.r.width)
  PROVE  Emitted(inst, st) = WriteReg(st, inst.a.r, Value(inst.b, st, inst.a.r.width))
<1> DEFINE h == LoadOperand(HostOf(st), inst.b, "rax", inst.a.r.width)
<1>1. inst.a.r.width \in Widths
  BY DEF RegOk, RegRecord
<1>2. h \in Host /\ h.st = st /\ h.rax = Value(inst.b, st, inst.a.r.width)
  BY <1>1, HostOfHost, LoadOperandHost
<1>3. Emitted(inst, st) = StoreState(h, inst.a.r).st
  BY DEF Emitted, Binops
<1> HIDE DEF h
<1> QED BY <1>2, <1>3, StoreStateHost

(* The result of an opcode, with Arm's operators for sums and flags. *)
IRResult(opcode, a, b, width) ==
  CASE opcode = "Add" -> Add(a, b, width)
    [] opcode = "Sub" -> Sub(a, b, width)
    [] opcode = "And" -> Logical(a \cap b)
    [] opcode = "Orr" -> Logical(a \cup b)
    [] opcode = "Eor" -> Logical((a \ b) \cup (b \ a))

LEMMA ResultType ==
  ASSUME NEW opcode \in Binops, NEW width \in Widths,
         NEW a \in SUBSET Bits(width), NEW b \in SUBSET Bits(width)
  PROVE  LET r == IRResult(opcode, a, b, width)
         IN  r.val \in SUBSET Bits(width) /\ r.c \in BOOLEAN /\ r.v \in BOOLEAN
<1>1. CASE opcode = "Add"
  BY <1>1 DEF IRResult, Add, AddWithCarry, Carry
<1>2. CASE opcode = "Sub"
  BY <1>2 DEF IRResult, Sub, AddWithCarry, Carry
<1>3. CASE opcode = "And"
  BY <1>3 DEF IRResult, Logical
<1>4. CASE opcode = "Orr"
  BY <1>4 DEF IRResult, Logical
<1>5. CASE opcode = "Eor"
  BY <1>5 DEF IRResult, Logical
<1> QED BY <1>1, <1>2, <1>3, <1>4, <1>5 DEF Binops

(* What an arithmetic or logical instruction does to the state. *)
Computes(opcode, flags, st, dst, a, b) ==
  LET r == IRResult(opcode, a, b, dst.width)
      written == WriteReg(st, dst, r.val)
  IN  IF flags THEN [written EXCEPT !.nzcv = NZCV(r, dst.width)] ELSE written

LEMMA X86FlagsType ==
  ASSUME NEW q, q.v \in BOOLEAN, NEW c \in BOOLEAN, NEW width
  PROVE  LET f == X86Flags(q, c, width)
         IN  /\ f \in X86FlagRecord
             /\ f.s <=> Negative(q.val, width)
             /\ f.z <=> q.val = {}
             /\ f.c = c /\ f.o = q.v
<1> DEFINE s == Negative(q.val, width)
           z == q.val = {}
<1>1. s \in BOOLEAN /\ z \in BOOLEAN
  BY DEF Negative
<1>2. X86Flags(q, c, width) = [s |-> s, z |-> z, c |-> c, o |-> q.v]
  BY DEF X86Flags
<1> HIDE DEF s, z
<1>3. LET f == X86Flags(q, c, width)
      IN  f \in X86FlagRecord /\ f.s = s /\ f.z = z /\ f.c = c /\ f.o = q.v
  BY <1>1, <1>2 DEF X86FlagRecord
<1> QED BY <1>3 DEF s, z

(* add, sub, and, or, xor: the result and the x86 flags it leaves. *)
LEMMA AluHost ==
  ASSUME NEW h \in Host, NEW opcode \in Binops, NEW width \in Widths,
         NEW a \in SUBSET Bits(width), h.rax = a,
         NEW v, NEW b \in SUBSET Bits(width), Mask(v, width) = b
  PROVE  LET g == Alu(h, opcode, v, width)
             r == IRResult(opcode, a, b, width)
         IN  /\ g \in Host /\ g.st = h.st /\ g.rax = r.val
             /\ g.fl.s <=> Negative(r.val, width)
             /\ g.fl.z <=> r.val = {}
             /\ opcode = "Add" => (g.fl.c <=> r.c)
             /\ opcode = "Sub" => (g.fl.c <=> ~ r.c)
             /\ opcode \in {"Add", "Sub"} => (g.fl.o <=> r.v)
<1> DEFINE r == IRResult(opcode, a, b, width)
           q == CASE opcode = "Add" -> Add(a, b, width)
                  [] opcode = "Sub" -> Sub(a, b, width)
                  [] opcode = "And" -> Logic(a \cap b)
                  [] opcode = "Orr" -> Logic(a \cup b)
                  [] opcode = "Eor" -> Logic((a \ b) \cup (b \ a))
           c == CASE opcode = "Add" -> q.c
                  [] opcode = "Sub" -> ~ q.c
                  [] OTHER          -> FALSE
           f == X86Flags(q, c, width)
           g == Alu(h, opcode, v, width)
<1>1. Mask(h.rax, width) = a
  BY XWords
<1>2. g = [h EXCEPT !.rax = q.val, !.fl = f]
  BY <1>1 DEF Alu
<1>3. q.val = r.val /\ q.v = r.v /\ (opcode \in {"Add", "Sub"} => q.c = r.c)
  BY DEF IRResult, Logical, Logic, Binops
<1>4. r.val \in SUBSET Bits(width) /\ r.c \in BOOLEAN /\ r.v \in BOOLEAN
  BY ResultType
<1> HIDE DEF r, q, g
<1>5. c \in BOOLEAN
  BY <1>3, <1>4
<1>6. /\ opcode = "Add" => (c <=> r.c)
      /\ opcode = "Sub" => (c <=> ~ r.c)
  BY <1>3
<1> HIDE DEF c
<1>7. /\ f \in X86FlagRecord
      /\ f.s <=> Negative(r.val, width)
      /\ f.z <=> r.val = {}
      /\ f.c = c /\ f.o = r.v
  BY <1>3, <1>4, <1>5, X86FlagsType
<1> HIDE DEF f
<1>8. g \in Host /\ g.st = h.st /\ g.rax = r.val /\ g.fl = f
  BY <1>2, <1>3, <1>4, <1>7, XWords DEF Host
<1> QED BY <1>6, <1>7, <1>8 DEF g, r

LEMMA StoreNZCVState ==
  ASSUME NEW h \in Host, NEW opcode \in {"Add", "Sub", "And"}, NEW width \in Widths, NEW r,
         r.c \in BOOLEAN, r.v \in BOOLEAN,
         h.fl.s <=> Negative(r.val, width),
         h.fl.z <=> r.val = {},
         opcode = "Add" => (h.fl.c <=> r.c),
         opcode = "Sub" => (h.fl.c <=> ~ r.c),
         opcode = "And" => ~ r.c /\ ~ r.v,
         opcode \in {"Add", "Sub"} => (h.fl.o <=> r.v)
  PROVE  StoreNZCV(h, opcode).st = [h.st EXCEPT !.nzcv = NZCV(r, width)]
<1> DEFINE n == h.fl.s
           z == h.fl.z
           c == CASE opcode = "Add" -> h.fl.c
                  [] opcode = "Sub" -> ~ h.fl.c
                  [] opcode = "And" -> FALSE
           v == IF opcode = "And" THEN FALSE ELSE h.fl.o
           e == {f \in Flags : [N |-> n, Z |-> z, C |-> c, V |-> v][f]}
<1>1. StoreNZCV(h, opcode) = [h EXCEPT !.st.nzcv = e]
  BY DEF StoreNZCV
<1>2. h.fl \in X86FlagRecord
  BY DEF Host
<1>3. (c <=> r.c) /\ (v <=> r.v)
  BY <1>2 DEF X86FlagRecord
<1>4. /\ "N" \in e <=> n
      /\ "Z" \in e <=> z
      /\ "C" \in e <=> c
      /\ "V" \in e <=> v
      /\ e \subseteq Flags
  BY DEF Flags
<1>5. /\ "N" \in NZCV(r, width) <=> Negative(r.val, width)
      /\ "Z" \in NZCV(r, width) <=> r.val = {}
      /\ "C" \in NZCV(r, width) <=> r.c
      /\ "V" \in NZCV(r, width) <=> r.v
      /\ NZCV(r, width) \subseteq Flags
  BY DEF NZCV, Flags
<1> HIDE DEF e, c, v
<1>6. \A x \in Flags : x \in e <=> x \in NZCV(r, width)
  BY <1>3, <1>4, <1>5 DEF Flags
<1>7. e = NZCV(r, width)
  BY <1>4, <1>5, <1>6
<1> QED BY <1>1, <1>7 DEF Host

LEMMA FitsImm32Value ==
  ASSUME NEW opcode \in Binops, NEW width \in Widths, NEW v \in SUBSET Bits(width),
         FitsImm32(opcode, v, width)
  PROVE  Mask(SignExtend(v), width) = v
<1>1. CASE width = "W32"
  BY <1>1, SignExtendNarrow
<1>2. CASE width = "X64" /\ opcode \in {"Add", "Sub"}
  BY <1>2, XWords DEF FitsImm32
<1>3. CASE width = "X64" /\ opcode \notin {"Add", "Sub"}
  BY <1>3, XWords, SignExtendNarrow DEF FitsImm32
<1> QED BY <1>1, <1>2, <1>3 DEF Widths

(* With either form of the instruction. *)
LEMMA EmittedBinop ==
  ASSUME NEW st \in GuestState, NEW inst, inst.opcode \in Binops, inst.flags \in BOOLEAN,
         inst.flags => inst.opcode \in {"Add", "Sub", "And"},
         inst.a.t = "Reg", RegOk(inst.a.r),
         OperandOk(inst.b, inst.a.r.width), OperandOk(inst.c, inst.a.r.width)
  PROVE  Emitted(inst, st) =
           Computes(inst.opcode, inst.flags, st, inst.a.r,
                    Value(inst.b, st, inst.a.r.width), Value(inst.c, st, inst.a.r.width))
<1> DEFINE h == HostOf(st)
           opcode == inst.opcode
           dest == inst.a.r
           width == dest.width
           a == Value(inst.b, st, width)
           b == Value(inst.c, st, width)
           imm == inst.b.t = "Reg" /\ ImmediateForm(inst)
           generic == LoadOperand(LoadOperand(h, inst.b, "rax", width), inst.c, "rcx", width)
           k == IF imm THEN LoadState(h, "rax", inst.b.r) ELSE generic
           v == IF imm THEN SignExtend(inst.c.v) ELSE generic.rcx
           ran == Alu(k, opcode, v, width)
           stored == StoreState(ran, dest)
           r == IRResult(opcode, a, b, width)
<1>1. h \in Host /\ h.st = st /\ width \in Widths
  BY HostOfHost DEF RegOk, RegRecord
<1>2. a \in SUBSET Bits(width) /\ b \in SUBSET Bits(width)
  BY <1>1, ValueIsWord
<1>3. k \in Host /\ k.st = st /\ k.rax = a /\ Mask(v, width) = b
  <2>1. CASE imm
    <3>1. inst.b.t = "Reg" /\ RegOk(inst.b.r) /\ inst.b.r.width = width
      BY <2>1 DEF OperandOk
    <3>2. a = ReadReg(st, inst.b.r)
      BY <3>1 DEF Value
    <3>3. k \in Host /\ k.st = st /\ k.rax = a
      BY <1>1, <2>1, <3>1, <3>2, LoadStateHost
    <3>4. /\ inst.c.t = "Imm" /\ FitsImm32(opcode, inst.c.v, width)
          /\ inst.c.v \in SUBSET Bits(width)
      BY <2>1 DEF ImmediateForm, OperandOk
    <3>5. b = inst.c.v
      BY <1>1, <3>4, XWords DEF Value
    <3>6. Mask(v, width) = inst.c.v
      BY <1>1, <2>1, <3>4, FitsImm32Value
    <3> QED BY <3>3, <3>5, <3>6
  <2>2. CASE ~ imm
    <3> DEFINE g == LoadOperand(h, inst.b, "rax", width)
    <3>1. g \in Host /\ g.st = st /\ g.rax = a
      BY <1>1, LoadOperandHost
    <3> HIDE DEF g
    <3> DEFINE e == LoadOperand(g, inst.c, "rcx", width)
    <3>2. e \in Host /\ e.st = st /\ e.rax = a /\ e.rcx = b
      BY <1>1, <3>1, LoadOperandHost
    <3> HIDE DEF e
    <3>3. e = generic
      BY DEF e, g
    <3>4. k = e /\ v = e.rcx
      BY <2>2, <3>3
    <3> QED BY <1>1, <1>2, <3>2, <3>4, XWords
  <2> QED BY <2>1, <2>2
<1>4. Emitted(inst, st) = IF inst.flags THEN StoreNZCV(stored, opcode).st ELSE stored.st
  BY DEF Emitted, EmitBinop, Binops
<1>5. r.val \in SUBSET Bits(width) /\ r.c \in BOOLEAN /\ r.v \in BOOLEAN
  BY <1>1, <1>2, ResultType
<1>6. Computes(opcode, inst.flags, st, dest, a, b) =
        IF inst.flags THEN [WriteReg(st, dest, r.val) EXCEPT !.nzcv = NZCV(r, width)]
        ELSE WriteReg(st, dest, r.val)
  BY DEF Computes
<1>7. opcode = "And" => ~ r.c /\ ~ r.v
  BY DEF IRResult, Logical
<1> HIDE DEF h, a, b, k, v
<1>8. /\ ran \in Host /\ ran.st = st /\ ran.rax = r.val
      /\ ran.fl.s <=> Negative(r.val, width)
      /\ ran.fl.z <=> r.val = {}
      /\ opcode = "Add" => (ran.fl.c <=> r.c)
      /\ opcode = "Sub" => (ran.fl.c <=> ~ r.c)
      /\ opcode \in {"Add", "Sub"} => (ran.fl.o <=> r.v)
  BY <1>1, <1>2, <1>3, AluHost
<1> HIDE DEF ran, r
<1>9. stored \in Host /\ stored.st = WriteReg(st, dest, r.val) /\ stored.fl = ran.fl
  BY <1>8, StoreStateHost
<1> HIDE DEF stored
<1>10. inst.flags =>
         StoreNZCV(stored, opcode).st = [WriteReg(st, dest, r.val) EXCEPT !.nzcv = NZCV(r, width)]
  BY <1>1, <1>5, <1>7, <1>8, <1>9, StoreNZCVState
<1> QED BY <1>4, <1>6, <1>9, <1>10 DEF a, b

LEMMA EmittedShift ==
  ASSUME NEW st \in GuestState, NEW inst, inst.opcode = "Shift", RegOk(inst.a.r),
         OperandOk(inst.b, inst.a.r.width), RegOk(inst.c.amount), inst.c.kind \in ShiftKinds
  PROVE  Emitted(inst, st) =
           WriteReg(st, inst.a.r,
             Shift(inst.c.kind, Value(inst.b, st, inst.a.r.width),
                   Count(ReadReg(st, inst.c.amount), inst.a.r.width), inst.a.r.width))
<1> DEFINE width == inst.a.r.width
           a == Value(inst.b, st, width)
           g == LoadOperand(HostOf(st), inst.b, "rax", width)
           h == LoadState(g, "rcx", inst.c.amount)
           s == Shift(inst.c.kind, Mask(h.rax, width), Count(h.rcx, width), width)
           ran == [h EXCEPT !.rax = s]
<1>1. width \in Widths
  BY DEF RegOk, RegRecord
<1>2. g \in Host /\ g.st = st /\ g.rax = a
  BY <1>1, HostOfHost, LoadOperandHost
<1>3. Emitted(inst, st) = StoreState(ran, inst.a.r).st
  BY DEF Emitted, EmitShift, ShiftByCl, Binops
<1> HIDE DEF g
<1>4. h \in Host /\ h.st = st /\ h.rax = a /\ h.rcx = ReadReg(st, inst.c.amount)
  BY <1>2, LoadStateHost
<1> HIDE DEF h
<1>5. Mask(a, width) = a
  BY <1>1, ValueIsWord, XWords
<1>6. s = Shift(inst.c.kind, a, Count(ReadReg(st, inst.c.amount), width), width)
  BY <1>4, <1>5
<1>7. s \in XWord
  BY <1>1, ShiftIsWord, XWords
<1> HIDE DEF s
<1>8. ran \in Host /\ ran.st = st /\ ran.rax = s
  BY <1>4, <1>7 DEF Host
<1> HIDE DEF ran
<1> QED BY <1>3, <1>6, <1>8, StoreStateHost

LEMMA EmittedLoad ==
  ASSUME NEW st \in GuestState, NEW inst, inst.opcode = "Load", RegOk(inst.a.r),
         RegOk(inst.b.base), inst.b.width \in Widths
  PROVE  LET addr == Add(ReadReg(st, inst.b.base), inst.b.offset, "X64").val
             v == ReadMem(st.mem, addr, inst.b.width)
         IN  v \in XWord /\ Emitted(inst, st) = WriteReg(st, inst.a.r, v)
<1> DEFINE addr == Add(ReadReg(st, inst.b.base), inst.b.offset, "X64").val
           v == ReadMem(st.mem, addr, inst.b.width)
           h == LoadState(HostOf(st), "rax", inst.b.base)
           ran == [h EXCEPT !.rax =
                     ReadMem(HostOf(st).st.mem, EffectiveAddress(h, inst.b), inst.b.width)]
<1>1. h \in Host /\ h.st = st /\ h.rax = ReadReg(st, inst.b.base)
  <2>1. HostOf(st) \in Host /\ HostOf(st).st = st
    BY HostOfHost
  <2> QED BY <2>1, LoadRax
<1>2. Emitted(inst, st) = StoreState(ran, inst.a.r).st
  BY DEF Emitted, EmitLoad, Binops
<1> HIDE DEF h
<1>3. addr \in XWord
  BY AddSubWords DEF XWord
<1>4. ran = [h EXCEPT !.rax = v]
  BY <1>1, HostOfHost DEF EffectiveAddress
<1>5. v \in XWord
  BY <1>3, ReadMemWord
<1> HIDE DEF v, ran
<1>6. ran \in Host /\ ran.st = st /\ ran.rax = v
  BY <1>1, <1>4, <1>5 DEF Host
<1>7. Emitted(inst, st) = WriteReg(st, inst.a.r, v)
  BY <1>2, <1>6, StoreStateHost
<1> QED BY <1>5, <1>7 DEF v

LEMMA EmittedStore ==
  ASSUME NEW st \in GuestState, NEW inst, inst.opcode = "Store", RegOk(inst.b.r),
         RegOk(inst.a.base), inst.a.width \in Widths
  PROVE  LET addr == Add(ReadReg(st, inst.a.base), inst.a.offset, "X64").val
             v == ReadReg(st, inst.b.r)
         IN  /\ addr \in XWord
             /\ Emitted(inst, st) = [st EXCEPT !.mem = WriteMem(@, addr, inst.a.width, v)]
<1> DEFINE addr == Add(ReadReg(st, inst.a.base), inst.a.offset, "X64").val
           v == ReadReg(st, inst.b.r)
           g == LoadState(HostOf(st), "rcx", inst.b.r)
           h == LoadState(g, "rax", inst.a.base)
           m == WriteMem(st.mem, addr, inst.a.width, v)
<1>1. g \in Host /\ g.st = st /\ g.rcx = v
  <2>1. HostOf(st) \in Host /\ HostOf(st).st = st
    BY HostOfHost
  <2> QED BY <2>1, LoadRcx
<1>2. Emitted(inst, st) =
        [h EXCEPT !.st.mem = WriteMem(@, EffectiveAddress(h, inst.a), inst.a.width, h.rcx)].st
  BY DEF Emitted, EmitStore, Binops
<1> HIDE DEF g
<1>3. h \in Host /\ h.st = st /\ h.rax = ReadReg(st, inst.a.base) /\ h.rcx = v
  BY <1>1, LoadRax
<1> HIDE DEF h
<1>4. WriteMem(h.st.mem, EffectiveAddress(h, inst.a), inst.a.width, h.rcx) = m
  BY <1>3 DEF EffectiveAddress
<1>5. Emitted(inst, st) = [h EXCEPT !.st.mem = m].st
  BY <1>2, <1>4
<1> HIDE DEF m
<1>6. Emitted(inst, st) = [st EXCEPT !.mem = m]
  BY <1>3, <1>5 DEF Host
<1>7. addr \in XWord
  BY AddSubWords DEF XWord
<1> QED BY <1>6, <1>7 DEF m
-----------------------------------------------------------------------------
(* The optimizer.                                                          *)

(* What the optimizer believes is so. *)
Sound(known, st) == \A r \in GPR : known[r] # NoConst => known[r] = st.x[r]

(* A step that writes register n, and what may then be believed of it. *)
LEMMA SoundAfterWrite ==
  ASSUME NEW known \in Known, NEW st \in GuestState, Sound(known, st),
         NEW g \in GuestState, NEW n \in GPR, NEW v \in XWord, g.x = [st.x EXCEPT ![n] = v],
         NEW k, k = NoConst \/ k = v
  PROVE  [known EXCEPT ![n] = k] \in Known /\ Sound([known EXCEPT ![n] = k], g)
<1>1. known \in [GPR -> XWord \cup {NoConst}] /\ st.x \in [GPR -> XWord]
  BY DEF Known, GuestState
<1>2. k \in XWord \cup {NoConst}
  OBVIOUS
<1>3. [known EXCEPT ![n] = k] \in Known
  BY <1>1, <1>2 DEF Known
<1>4. ASSUME NEW r \in GPR, [known EXCEPT ![n] = k][r] # NoConst
      PROVE  [known EXCEPT ![n] = k][r] = g.x[r]
  BY <1>1, <1>4 DEF Sound
<1> QED BY <1>3, <1>4 DEF Sound

LEMMA SoundSame ==
  ASSUME NEW known, NEW st, Sound(known, st), NEW g, g.x = st.x
  PROVE  Sound(known, g)
BY DEF Sound

(* A register that the optimizer knows is as good as an immediate.         *)
LEMMA RewriteSame ==
  ASSUME NEW known \in Known, NEW st \in GuestState, Sound(known, st),
         NEW width \in Widths, NEW op, OperandOk(op, width)
  PROVE  /\ OperandOk(RewriteOperand(op, known), width)
         /\ Value(RewriteOperand(op, known), st, width) = Value(op, st, width)
<1> DEFINE v == Mask(known[op.r.num], width)
<1>1. CASE IsGeneral(op) /\ known[op.r.num] # NoConst
  <2>1. RegOk(op.r) /\ op.r.width = width /\ op.r.num \in GPR /\ op.t = "Reg"
    BY <1>1 DEF IsGeneral, OperandOk, RegOk
  <2>2. RewriteOperand(op, known) = Imm(v)
    BY <1>1, <2>1 DEF RewriteOperand, KnownReg
  <2>3. v = ReadReg(st, op.r) /\ Value(op, st, width) = ReadReg(st, op.r)
    BY <1>1, <2>1 DEF Sound, ReadReg, IsGeneral, Value
  <2>4. v \in SUBSET Bits(width) /\ Mask(v, width) = v
    BY MaskIsWord
  <2> HIDE DEF v
  <2>5. Imm(v).t = "Imm" /\ Imm(v).v = v
    BY DEF Imm
  <2>6. OperandOk(Imm(v), width) /\ Value(Imm(v), st, width) = v
    BY <2>4, <2>5 DEF OperandOk, Value
  <2> QED BY <2>2, <2>3, <2>6
<1>2. CASE ~ (IsGeneral(op) /\ known[op.r.num] # NoConst)
  BY <1>2 DEF RewriteOperand
<1> QED BY <1>1, <1>2

LEMMA ConstantSame ==
  ASSUME NEW known \in Known, NEW st \in GuestState, Sound(known, st),
         NEW width \in Widths, NEW op, OperandOk(op, width),
         ConstantOperand(op, known) # NoConst
  PROVE  ConstantOperand(op, known) = Value(op, st, width)
<1>1. CASE op.t = "Imm" /\ op.v \in SUBSET Bits(width)
  <2>1. ConstantOperand(op, known) = op.v /\ Value(op, st, width) = Mask(op.v, width)
    BY <1>1 DEF ConstantOperand, Value, IsGeneral
  <2> QED BY <1>1, <2>1, XWords
<1>2. CASE op.t = "Reg" /\ RegOk(op.r) /\ op.r.width = width
  <2>1. CASE op.r.kind = "Zero"
    <3>1. ConstantOperand(op, known) = {}
      BY <1>2, <2>1 DEF ConstantOperand, IsGeneral
    <3>2. Value(op, st, width) = {}
      BY <1>2, <2>1 DEF Value, ReadReg
    <3> QED BY <3>1, <3>2
  <2>2. CASE op.r.kind = "General"
    <3>1. op.r.num \in GPR /\ ConstantOperand(op, known) = KnownReg(op.r, known)
      BY <1>2, <2>2 DEF ConstantOperand, IsGeneral, RegOk
    <3>2. known[op.r.num] # NoConst /\ KnownReg(op.r, known) = Mask(known[op.r.num], width)
      BY <1>2, <3>1 DEF KnownReg
    <3>3. Value(op, st, width) = Mask(st.x[op.r.num], width)
      BY <1>2, <2>2 DEF Value, ReadReg
    <3>4. known[op.r.num] = st.x[op.r.num]
      BY <3>1, <3>2 DEF Sound
    <3> QED BY <3>1, <3>2, <3>3, <3>4
  <2>3. CASE op.r.kind = "StackPointer"
    <3>1. ConstantOperand(op, known) = NoConst
      BY <1>2, <2>3 DEF ConstantOperand, IsGeneral
    <3> QED BY <3>1
  <2> QED BY <1>2, <2>1, <2>2, <2>3 DEF RegOk, RegRecord
<1>3. CASE op.t \in {"ShiftedImm", "ShiftedReg"}
  <2>1. ConstantOperand(op, known) = NoConst
    BY <1>3 DEF ConstantOperand, IsGeneral
  <2> QED BY <2>1
<1> QED BY <1>1, <1>2, <1>3 DEF OperandOk

LEMMA FoldBinopSame ==
  ASSUME NEW opcode \in Binops, NEW width \in Widths,
         NEW a \in SUBSET Bits(width), NEW b \in SUBSET Bits(width)
  PROVE  FoldBinop(opcode, a, b, width) = IRResult(opcode, a, b, width).val
<1>1. CASE opcode = "Add"
  BY <1>1, LowSum DEF FoldBinop, IRResult
<1>2. CASE opcode = "Sub"
  BY <1>2, LowDifference DEF FoldBinop, IRResult
<1>3. CASE opcode = "And"
  BY <1>3 DEF FoldBinop, IRResult, Logical, Mask
<1>4. CASE opcode = "Orr"
  BY <1>4 DEF FoldBinop, IRResult, Logical, Mask
<1>5. CASE opcode = "Eor"
  BY <1>5 DEF FoldBinop, IRResult, Logical, Mask
<1> QED BY <1>1, <1>2, <1>3, <1>4, <1>5 DEF Binops

(* The one shift that is folded wrongly is a 32-bit rotation. *)
LEMMA FoldShiftSame ==
  ASSUME NEW kind \in ShiftKinds, NEW width \in Widths, NEW v \in SUBSET Bits(width),
         NEW amount
  PROVE  /\ FoldShift(v, amount, kind, width) \in SUBSET Bits(width)
         /\ ~ (kind = "Ror" /\ width = "W32") =>
              FoldShift(v, amount, kind, width) = Shift(kind, v, Count(amount, width), width)
<1> DEFINE k == Count(amount, width)
<1>1. Mask(v, width) = v /\ Bits(width) \subseteq Bits("X64")
  BY XWords, WidthBits
<1>2. FoldShift(v, amount, kind, width) =
        Mask(Shift(kind, v, k, IF kind = "Asr" THEN width ELSE "X64"), width)
  BY <1>1 DEF FoldShift
<1> HIDE DEF k
<1>3. CASE kind = "Lsl"
  BY <1>1, <1>2, <1>3 DEF Shift, Mask, k
<1>4. CASE kind = "Lsr"
  BY <1>1, <1>2, <1>4 DEF Shift, Mask, k
<1>5. CASE kind = "Asr"
  BY <1>2, <1>5, ShiftIsWord, XWords DEF k
<1>6. CASE kind = "Ror"
  <2>1. CASE width = "X64"
    BY <1>2, <1>6, <2>1, ShiftIsWord, XWords DEF k
  <2>2. CASE width = "W32"
    BY <1>2, <1>6, <2>2, MaskIsWord
  <2> QED BY <2>1, <2>2 DEF Widths
<1> QED BY <1>3, <1>4, <1>5, <1>6 DEF ShiftKinds

LEMMA MovOfFields ==
  ASSUME NEW o, NEW f, NEW a, NEW b, NEW c, NEW op
  PROVE  LET m == MovOf(IRInst(o, f, a, b, c), op)
         IN  m.opcode = "Mov" /\ m.a = a /\ m.b = op
BY DEF MovOf, IRInst

LEMMA EmittedMovOf ==
  ASSUME NEW st \in GuestState, NEW o, NEW f, NEW d, RegOk(d), NEW b, NEW c,
         NEW op, OperandOk(op, d.width)
  PROVE  Emitted(MovOf(IRInst(o, f, RegOp(d), b, c), op), st) =
           WriteReg(st, d, Value(op, st, d.width))
<1> DEFINE m == MovOf(IRInst(o, f, RegOp(d), b, c), op)
<1>1. m.opcode = "Mov" /\ m.a = RegOp(d) /\ m.b = op
  BY MovOfFields
<1> HIDE DEF m
<1>2. m.a.r = d
  BY <1>1 DEF RegOp
<1>3. Emitted(m, st) = WriteReg(st, d, Value(op, st, d.width))
  BY <1>1, <1>2, EmittedMov
<1> QED BY <1>3 DEF m

LEMMA ImmValue ==
  ASSUME NEW width \in Widths, NEW v \in SUBSET Bits(width), NEW st
  PROVE  OperandOk(Imm(v), width) /\ Value(Imm(v), st, width) = v
<1>1. Imm(v).t = "Imm" /\ Imm(v).v = v /\ Mask(v, width) = v
  BY XWords DEF Imm
<1> QED BY <1>1 DEF OperandOk, Value

(* What an arithmetic or logical instruction leaves. *)
RegSet(x, n, v) == [x EXCEPT ![n] = v]

LEMMA ComputesState ==
  ASSUME NEW opcode \in Binops, NEW flags \in BOOLEAN, NEW st \in GuestState,
         NEW d, RegOk(d), NEW a \in SUBSET Bits(d.width), NEW b \in SUBSET Bits(d.width)
  PROVE  LET v == IRResult(opcode, a, b, d.width).val
             g == Computes(opcode, flags, st, d, a, b)
         IN  /\ v \in SUBSET Bits(d.width) /\ v \in XWord
             /\ g \in GuestState
             /\ d.kind = "General" => g.x = RegSet(st.x, d.num, v)
             /\ d.kind # "General" => g.x = st.x
<1> DEFINE r == IRResult(opcode, a, b, d.width)
           w == WriteReg(st, d, r.val)
           f == NZCV(r, d.width)
<1>1. d.width \in Widths
  BY DEF RegOk, RegRecord
<1>2. r.val \in SUBSET Bits(d.width) /\ r.val \in XWord
  BY <1>1, ResultType, XWords
<1>3. Computes(opcode, flags, st, d, a, b) = IF flags THEN [w EXCEPT !.nzcv = f] ELSE w
  BY DEF Computes
<1>4. f \in SUBSET Flags
  BY DEF NZCV
<1> HIDE DEF f
<1>5. /\ w \in GuestState
      /\ d.kind = "General" => w.x = RegSet(st.x, d.num, r.val)
      /\ d.kind # "General" => w.x = st.x
  BY <1>2, WriteRegState DEF RegSet
<1> HIDE DEF w
<1>6. [w EXCEPT !.nzcv = f] \in GuestState /\ [w EXCEPT !.nzcv = f].x = w.x
  BY <1>4, <1>5, SetFlagsState
<1> QED BY <1>2, <1>3, <1>5, <1>6

LEMMA ComputesKeeps ==
  ASSUME NEW opcode \in Binops, NEW flags \in BOOLEAN, NEW st \in GuestState,
         NEW d, RegOk(d), NEW a \in SUBSET Bits(d.width), NEW b \in SUBSET Bits(d.width),
         d.kind \in {"Zero", "StackPointer"}
  PROVE  Computes(opcode, flags, st, d, a, b).x = st.x
<1> DEFINE r == IRResult(opcode, a, b, d.width)
           w == WriteReg(st, d, r.val)
           f == NZCV(r, d.width)
<1>1. d.width \in Widths
  BY DEF RegOk, RegRecord
<1>2. r.val \in SUBSET Bits(d.width) /\ r.val \in XWord
  BY <1>1, ResultType, XWords
<1>3. Computes(opcode, flags, st, d, a, b) = IF flags THEN [w EXCEPT !.nzcv = f] ELSE w
  BY DEF Computes
<1>4. f \in SUBSET Flags
  BY DEF NZCV
<1> HIDE DEF f, r
<1>5. w \in GuestState /\ w.x = st.x
  BY <1>2 DEF WriteReg, GuestState
<1> HIDE DEF w
<1>6. [w EXCEPT !.nzcv = f].x = w.x
  BY <1>4, <1>5, SetFlagsState
<1> QED BY <1>3, <1>5, <1>6

(* The algebraic identities. *)
LEMMA Identities ==
  ASSUME NEW width \in Widths, NEW a \in SUBSET Bits(width)
  PROVE  /\ \A o \in {"Add", "Sub", "Orr", "Eor"} : IRResult(o, a, {}, width).val = a
         /\ \A o \in {"Sub", "Eor"} : IRResult(o, a, a, width).val = {}
         /\ IRResult("And", a, {}, width).val = {}
         /\ IRResult("And", a, Bits(width), width).val = a
         /\ IRResult("Orr", a, Bits(width), width).val = Bits(width)
<1>1. IRResult("Add", a, {}, width).val = a
  BY AddZero DEF IRResult
<1>2. IRResult("Sub", a, {}, width).val = a /\ IRResult("Sub", a, a, width).val = {}
  BY SubZero, SubSelf DEF IRResult
<1>3. IRResult("Orr", a, {}, width).val = a /\ IRResult("Orr", a, Bits(width), width).val = Bits(width)
  BY DEF IRResult, Logical
<1>4. IRResult("Eor", a, {}, width).val = a /\ IRResult("Eor", a, a, width).val = {}
  BY DEF IRResult, Logical
<1>5. IRResult("And", a, {}, width).val = {} /\ IRResult("And", a, Bits(width), width).val = a
  BY DEF IRResult, Logical
<1> QED BY <1>1, <1>2, <1>3, <1>4, <1>5

LEMMA Fields ==
  ASSUME NEW o, NEW f, NEW a, NEW b, NEW c
  PROVE  LET i == IRInst(o, f, a, b, c)
         IN  i.opcode = o /\ i.flags = f /\ i.a = a /\ i.b = b /\ i.c = c
BY DEF IRInst

LEMMA SetB ==
  ASSUME NEW o, NEW f, NEW a, NEW b, NEW c, NEW x
  PROVE  [IRInst(o, f, a, b, c) EXCEPT !.b = x] = IRInst(o, f, a, x, c)
BY DEF IRInst

LEMMA SetC ==
  ASSUME NEW o, NEW f, NEW a, NEW b, NEW c, NEW y
  PROVE  [IRInst(o, f, a, b, c) EXCEPT !.c = y] = IRInst(o, f, a, b, y)
BY DEF IRInst

LEMMA Rewritten ==
  ASSUME NEW o, NEW f, NEW a, NEW b, NEW c, NEW known
  PROVE  Rewrite(IRInst(o, f, a, b, c), known) =
           IRInst(o, f, a, RewriteOperand(b, known), RewriteOperand(c, known))
<1> DEFINE i == IRInst(o, f, a, b, c)
           x == RewriteOperand(b, known)
           y == RewriteOperand(c, known)
           j == [i EXCEPT !.b = x]
<1>1. i.b = b /\ i.c = c
  BY Fields
<1>2. Rewrite(i, known) = [i EXCEPT !.b = x, !.c = y]
  <2> HIDE DEF i
  <2> QED BY <1>1 DEF Rewrite
<1> HIDE DEF x, y
<1>3. j = IRInst(o, f, a, x, c)
  BY SetB
<1> HIDE DEF j
<1>4. [j EXCEPT !.c = y] = IRInst(o, f, a, x, y)
  BY <1>3, SetC
<1>5. [i EXCEPT !.b = x, !.c = y] = IRInst(o, f, a, x, y)
  BY <1>4 DEF j
<1> HIDE DEF i
<1>6. Rewrite(i, known) = IRInst(o, f, a, x, y)
  BY <1>2, <1>5
<1> QED BY <1>6 DEF i, x, y

(* simplify_identity leaves what the instruction does as it is. *)
LEMMA SimplifySame ==
  ASSUME NEW st \in GuestState, NEW opcode \in Binops, NEW flags \in BOOLEAN, ~ flags,
         NEW d, RegOk(d), NEW b, NEW c, OperandOk(b, d.width), OperandOk(c, d.width)
  PROVE  Emitted(Simplify(IRInst(opcode, flags, RegOp(d), b, c), d.width), st) =
           Computes(opcode, flags, st, d, Value(b, st, d.width), Value(c, st, d.width))
<1> DEFINE width == d.width
           inst == IRInst(opcode, flags, RegOp(d), b, c)
           u == Value(b, st, width)
           v == Value(c, st, width)
           zero == c.t = "Imm" /\ c.v = {}
           ones == c.t = "Imm" /\ Mask(c.v, width) = Mask(Bits("X64"), width)
           same == IsGeneral(b) /\ b = c
           result == IRResult(opcode, u, v, width).val
<1>1. width \in Widths
  BY DEF RegOk, RegRecord
<1>2. u \in SUBSET Bits(width) /\ v \in SUBSET Bits(width)
  BY <1>1, ValueIsWord
<1>3. /\ inst.opcode = opcode /\ inst.flags = flags /\ inst.a = RegOp(d)
      /\ inst.b = b /\ inst.c = c
  BY DEF IRInst
<1>4. Simplify(inst, width) =
        CASE opcode \in {"Add", "Sub", "Orr", "Eor"} /\ zero -> MovOf(inst, b)
          [] opcode \in {"Sub", "Eor"} /\ same -> MovOf(inst, Imm({}))
          [] opcode = "And" /\ zero -> MovOf(inst, Imm({}))
          [] opcode = "And" /\ ~ zero /\ ones -> MovOf(inst, b)
          [] opcode = "Orr" /\ ~ zero /\ ones -> MovOf(inst, Imm(Bits(width)))
          [] OTHER -> inst
  BY <1>3 DEF Simplify
<1>5. Computes(opcode, flags, st, d, u, v) = WriteReg(st, d, result)
  BY DEF Computes
<1>6. /\ zero => v = {}
      /\ ones => v = Bits(width)
      /\ same => v = u
      /\ ~ (zero /\ same)
  <2>1. zero => v = {}
    BY DEF Value, Mask
  <2>2. ones => v = Bits(width)
    BY <1>1, WidthBits DEF Value, Mask
  <2>3. ~ (zero /\ same)
    BY DEF IsGeneral
  <2> QED BY <2>1, <2>2, <2>3
<1>7. \A op : OperandOk(op, width) =>
        Emitted(MovOf(inst, op), st) = WriteReg(st, d, Value(op, st, width))
  BY EmittedMovOf
<1>8. /\ OperandOk(Imm({}), width) /\ Value(Imm({}), st, width) = {}
      /\ OperandOk(Imm(Bits(width)), width) /\ Value(Imm(Bits(width)), st, width) = Bits(width)
  BY <1>1, ImmValue
<1>9. Emitted(inst, st) = Computes(opcode, flags, st, d, u, v)
  <2> HIDE DEF inst
  <2>1. inst.a.t = "Reg" /\ inst.a.r = d
    BY <1>3 DEF RegOp
  <2> QED BY <1>3, <2>1, EmittedBinop
<1>10. Emitted(Simplify(inst, width), st) = WriteReg(st, d, result)
  <2> HIDE DEF inst, u, v, zero, ones, same, result
  <2>1. CASE opcode \in {"Add", "Sub", "Orr", "Eor"} /\ zero
    <3>1. Simplify(inst, width) = MovOf(inst, b)
      BY <1>4, <1>6, <2>1
    <3>2. result = u
      <4>1. v = {}
        BY <1>6, <2>1
      <4>2. IRResult(opcode, u, {}, width).val = u
        BY <1>1, <1>2, <2>1, Identities
      <4> QED BY <4>1, <4>2 DEF result
    <3> QED BY <1>7, <3>1, <3>2 DEF u
  <2>2. CASE opcode \in {"Sub", "Eor"} /\ ~ zero /\ same
    <3>1. Simplify(inst, width) = MovOf(inst, Imm({}))
      BY <1>4, <1>6, <2>2
    <3>2. result = {}
      <4>1. v = u
        BY <1>6, <2>2
      <4>2. IRResult(opcode, u, u, width).val = {}
        BY <1>1, <1>2, <2>2, Identities
      <4> QED BY <4>1, <4>2 DEF result
    <3> QED BY <1>7, <1>8, <3>1, <3>2
  <2>3. CASE opcode = "And" /\ zero
    <3>1. Simplify(inst, width) = MovOf(inst, Imm({}))
      BY <1>4, <2>3
    <3>2. result = {}
      <4>1. v = {}
        BY <1>6, <2>3
      <4>2. IRResult(opcode, u, {}, width).val = {}
        BY <1>1, <1>2, <2>3, Identities
      <4> QED BY <4>1, <4>2 DEF result
    <3> QED BY <1>7, <1>8, <3>1, <3>2
  <2>4. CASE opcode = "And" /\ ~ zero /\ ones
    <3>1. Simplify(inst, width) = MovOf(inst, b)
      BY <1>4, <1>6, <2>4
    <3>2. result = u
      <4>1. v = Bits(width)
        BY <1>6, <2>4
      <4>2. IRResult(opcode, u, Bits(width), width).val = u
        BY <1>1, <1>2, <2>4, Identities
      <4> QED BY <4>1, <4>2 DEF result
    <3> QED BY <1>7, <3>1, <3>2 DEF u
  <2>5. CASE opcode = "Orr" /\ ~ zero /\ ones
    <3>1. Simplify(inst, width) = MovOf(inst, Imm(Bits(width)))
      BY <1>4, <1>6, <2>5
    <3>2. result = Bits(width)
      <4>1. v = Bits(width)
        BY <1>6, <2>5
      <4>2. IRResult(opcode, u, Bits(width), width).val = Bits(width)
        BY <1>1, <1>2, <2>5, Identities
      <4> QED BY <4>1, <4>2 DEF result
    <3> QED BY <1>7, <1>8, <3>1, <3>2
  <2>6. CASE /\ ~ (opcode \in {"Add", "Sub", "Orr", "Eor"} /\ zero)
             /\ ~ (opcode \in {"Sub", "Eor"} /\ same)
             /\ ~ (opcode = "And" /\ zero) /\ ~ (opcode = "And" /\ ones)
             /\ ~ (opcode = "Orr" /\ ~ zero /\ ones)
    <3>1. Simplify(inst, width) = inst
      BY <1>4, <2>6
    <3> QED BY <1>5, <1>9, <3>1
  <2> QED BY <2>1, <2>2, <2>3, <2>4, <2>5, <2>6 DEF Binops
<1> QED BY <1>5, <1>10

(* The code of an optimized instruction does what is wanted, and what the  *)
(* optimizer believes after it is so.                                      *)
Follows(o, st, want) ==
  /\ want \in GuestState
  /\ Emitted(o.inst, st) = want
  /\ o.known \in Known /\ Sound(o.known, want)
(* optimize_block on an arithmetic or logical instruction. *)
LEMMA OptBinopFollows ==
  ASSUME NEW known \in Known, NEW st \in GuestState, Sound(known, st),
         NEW opcode \in Binops, NEW flags \in BOOLEAN,
         flags => opcode \in {"Add", "Sub", "And"},
         NEW d, RegOk(d), d.kind = "General",
         NEW b, NEW c, OperandOk(b, d.width), OperandOk(c, d.width)
  PROVE  Follows(OptBinop(IRInst(opcode, flags, RegOp(d), b, c), known), st,
                 Computes(opcode, flags, st, d, Value(b, st, d.width), Value(c, st, d.width)))
<1> DEFINE width == d.width
           inst == IRInst(opcode, flags, RegOp(d), b, c)
           u == Value(b, st, width)
           v == Value(c, st, width)
           lhs == ConstantOperand(b, known)
           rhs == ConstantOperand(c, known)
           value == FoldBinop(opcode, lhs, rhs, width)
           result == IRResult(opcode, u, v, width).val
           want == Computes(opcode, flags, st, d, u, v)
           Forget == [known EXCEPT ![d.num] = NoConst]
           o == OptBinop(inst, known)
<1>1. width \in Widths /\ d.num \in GPR
  BY DEF RegOk, RegRecord
<1>2. u \in SUBSET Bits(width) /\ v \in SUBSET Bits(width)
  BY <1>1, ValueIsWord
<1>3. result \in SUBSET Bits(width) /\ result \in XWord /\ want \in GuestState
      /\ want.x = [st.x EXCEPT ![d.num] = result]
  <2> HIDE DEF u, v
  <2>1. result \in SUBSET Bits(width) /\ result \in XWord
    BY <1>2, ComputesState
  <2>2. want \in GuestState
    BY <1>2, ComputesState
  <2>3. want.x = RegSet(st.x, d.num, result)
    BY <1>2, ComputesState
  <2> HIDE DEF want, result
  <2>4. want.x = [st.x EXCEPT ![d.num] = result]
    BY <2>3 DEF RegSet
  <2> QED BY <2>1, <2>2, <2>4
<1>4. /\ inst.opcode = opcode /\ inst.flags = flags /\ inst.a = RegOp(d)
      /\ inst.b = b /\ inst.c = c
  BY DEF IRInst
<1>5. inst.a.t = "Reg" /\ inst.a.r = d
  BY <1>4 DEF RegOp
<1>6. o = IF flags THEN [inst |-> inst, known |-> Forget]
          ELSE IF lhs # NoConst /\ rhs # NoConst
          THEN [inst |-> MovOf(inst, Imm(value)), known |-> [known EXCEPT ![d.num] = value]]
          ELSE [inst |-> Simplify(inst, width), known |-> Forget]
  BY <1>4, <1>5 DEF OptBinop
<1>7. Forget \in Known /\ Sound(Forget, want)
  <2> HIDE DEF want, result
  <2> QED BY <1>1, <1>3, SoundAfterWrite
<1>8. ASSUME flags PROVE Follows(o, st, want)
  <2>1. o.inst = inst /\ o.known = Forget
    BY <1>6, <1>8
  <2>2. Emitted(inst, st) = want
    <3> HIDE DEF inst
    <3> QED BY <1>4, <1>5, EmittedBinop
  <2> HIDE DEF o, inst, want, Forget
  <2> QED BY <1>3, <1>7, <2>1, <2>2 DEF Follows
<1>9. ASSUME ~ flags /\ lhs # NoConst /\ rhs # NoConst PROVE Follows(o, st, want)
  <2>1. o.inst = MovOf(inst, Imm(value)) /\ o.known = [known EXCEPT ![d.num] = value]
    BY <1>6, <1>9
  <2>2. lhs = u /\ rhs = v
    BY <1>1, <1>9, ConstantSame
  <2>3. value = result
    BY <1>1, <1>2, <2>2, FoldBinopSame
  <2>4. want = WriteReg(st, d, result)
    BY <1>9 DEF Computes
  <2> HIDE DEF value, result, want, lhs, rhs, u, v
  <2>5. OperandOk(Imm(value), width) /\ Value(Imm(value), st, width) = value
    BY <1>1, <1>3, <2>3, ImmValue
  <2>6. Emitted(MovOf(inst, Imm(value)), st) = WriteReg(st, d, value)
    BY <2>5, EmittedMovOf
  <2>7. [known EXCEPT ![d.num] = value] \in Known
        /\ Sound([known EXCEPT ![d.num] = value], want)
    BY <1>1, <1>3, <2>3, SoundAfterWrite
  <2> HIDE DEF o, inst
  <2> QED BY <1>3, <2>1, <2>3, <2>4, <2>6, <2>7 DEF Follows
<1>10. ASSUME ~ flags /\ ~ (lhs # NoConst /\ rhs # NoConst)
       PROVE  Follows(o, st, want)
  <2>1. o.inst = Simplify(inst, width) /\ o.known = Forget
    BY <1>6, <1>10
  <2>2. Emitted(Simplify(inst, width), st) = want
    BY <1>10, SimplifySame
  <2> HIDE DEF o, inst, want, Forget
  <2> QED BY <1>3, <1>7, <2>1, <2>2 DEF Follows
<1> HIDE DEF o, want, lhs, rhs
<1>11. Follows(o, st, want)
  BY <1>8, <1>9, <1>10
<1> QED BY <1>11 DEF o, want

(* On a shift by a register: what is emitted, and whether it is the shift. *)
LEMMA OptShiftFollows ==
  ASSUME NEW known \in Known, NEW st \in GuestState, Sound(known, st), NEW flags,
         NEW d, RegOk(d), d.kind = "General", NEW kind \in ShiftKinds,
         NEW value, RegOk(value), value.width = d.width,
         NEW amount, RegOk(amount), amount.width = d.width,
         NEW b, OperandOk(b, d.width),
         Value(b, st, d.width) = ReadReg(st, value)
  PROVE  LET o == OptShift(IRInst("Shift", flags, RegOp(d), b, ShiftReg(value, amount, kind)), known)
         IN  /\ Follows(o, st, Emitted(o.inst, st))
             /\ ~ (kind = "Ror" /\ d.width = "W32") =>
                  Emitted(o.inst, st) =
                    WriteReg(st, d, Shift(kind, ReadReg(st, value),
                                          Count(ReadReg(st, amount), d.width), d.width))
<1> DEFINE width == d.width
           c == ShiftReg(value, amount, kind)
           inst == IRInst("Shift", flags, RegOp(d), b, c)
           u == ReadReg(st, value)
           k == ReadReg(st, amount)
           lhs == ConstantOperand(RegOp(value), known)
           rhs == ConstantOperand(RegOp(amount), known)
           folded == FoldShift(lhs, rhs, kind, width)
           result == Shift(kind, u, Count(k, width), width)
           o == OptShift(inst, known)
<1>1. width \in Widths /\ d.num \in GPR
  BY DEF RegOk, RegRecord
<1>2. u \in SUBSET Bits(width)
  BY ReadRegWord
<1>3. /\ inst.opcode = "Shift" /\ inst.a = RegOp(d) /\ inst.b = b /\ inst.c = c
      /\ inst.a.r = d
  BY DEF IRInst, RegOp
<1>4. c.value = value /\ c.amount = amount /\ c.kind = kind
  BY DEF ShiftReg
<1>5. o = IF lhs # NoConst /\ rhs # NoConst
          THEN [inst |-> MovOf(inst, Imm(folded)), known |-> [known EXCEPT ![d.num] = folded]]
          ELSE [inst |-> inst, known |-> [known EXCEPT ![d.num] = NoConst]]
  BY <1>3, <1>4 DEF OptShift
<1>6. \A r : RegOk(r) /\ r.width = width =>
        OperandOk(RegOp(r), width) /\ Value(RegOp(r), st, width) = ReadReg(st, r)
  BY DEF RegOp, OperandOk, Value
<1>7. CASE lhs # NoConst /\ rhs # NoConst
  <2>1. o.inst = MovOf(inst, Imm(folded)) /\ o.known = [known EXCEPT ![d.num] = folded]
    <3> HIDE DEF o, inst, folded, lhs, rhs
    <3> QED BY <1>5, <1>7
  <2>2. lhs = u /\ rhs = k
    BY <1>1, <1>6, <1>7, ConstantSame
  <2>3. /\ folded \in SUBSET Bits(width)
        /\ ~ (kind = "Ror" /\ width = "W32") => folded = result
    BY <1>1, <1>2, <2>2, FoldShiftSame
  <2> HIDE DEF folded, result, lhs, rhs
  <2>4. folded \in XWord
    BY <1>1, <2>3, XWords
  <2>5. OperandOk(Imm(folded), width) /\ Value(Imm(folded), st, width) = folded
    BY <1>1, <2>3, ImmValue
  <2>6. Emitted(MovOf(inst, Imm(folded)), st) = WriteReg(st, d, folded)
    <3>1. inst = IRInst("Shift", flags, RegOp(d), b, c)
      OBVIOUS
    <3> HIDE DEF inst, c
    <3> QED BY <2>5, <3>1, EmittedMovOf
  <2>7. /\ WriteReg(st, d, folded) \in GuestState
        /\ WriteReg(st, d, folded).x = [st.x EXCEPT ![d.num] = folded]
    BY <2>4, WriteRegState
  <2>8. /\ [known EXCEPT ![d.num] = folded] \in Known
        /\ Sound([known EXCEPT ![d.num] = folded], WriteReg(st, d, folded))
    BY <1>1, <2>4, <2>7, SoundAfterWrite
  <2>9. Follows(o, st, Emitted(o.inst, st))
    <3> HIDE DEF o, inst
    <3> QED BY <2>1, <2>6, <2>7, <2>8 DEF Follows
  <2>10. Emitted(o.inst, st) = WriteReg(st, d, folded)
    BY <2>1, <2>6
  <2> HIDE DEF o
  <2>11. ~ (kind = "Ror" /\ width = "W32") => Emitted(o.inst, st) = WriteReg(st, d, result)
    BY <2>3, <2>10
  <2> QED BY <2>9, <2>11 DEF o, result
<1>8. CASE ~ (lhs # NoConst /\ rhs # NoConst)
  <2>1. o.inst = inst /\ o.known = [known EXCEPT ![d.num] = NoConst]
    <3> HIDE DEF o, inst, folded, lhs, rhs
    <3> QED BY <1>5, <1>8
  <2>2. Emitted(inst, st) = WriteReg(st, d, result)
    <3> HIDE DEF inst, c
    <3> QED BY <1>3, <1>4, EmittedShift
  <2>3. result \in XWord
    BY <1>1, ShiftIsWord, XWords
  <2> HIDE DEF result
  <2>4. /\ WriteReg(st, d, result) \in GuestState
        /\ WriteReg(st, d, result).x = [st.x EXCEPT ![d.num] = result]
    BY <2>3, WriteRegState
  <2>5. /\ [known EXCEPT ![d.num] = NoConst] \in Known
        /\ Sound([known EXCEPT ![d.num] = NoConst], WriteReg(st, d, result))
    BY <1>1, <2>3, <2>4, SoundAfterWrite
  <2> HIDE DEF o, inst
  <2>6. Follows(o, st, Emitted(o.inst, st))
    BY <2>1, <2>2, <2>4, <2>5 DEF Follows
  <2>7. Emitted(o.inst, st) = WriteReg(st, d, result)
    BY <2>1, <2>2
  <2> QED BY <2>6, <2>7 DEF o, inst, result
<1> QED BY <1>7, <1>8-----------------------------------------------------------------------------
(* One instruction through all the passes.                                 *)

LEMMA OptStepOf ==
  ASSUME NEW op, NEW f, NEW a, NEW b, NEW c, NEW known
  PROVE  LET inst == IRInst(op, f, a, RewriteOperand(b, known), RewriteOperand(c, known))
             o == OptStep(IRInst(op, f, a, b, c), known)
         IN  /\ op # "Unsupported" /\ ~ IsGeneral(a) => o.inst = inst /\ o.known = known
             /\ op = "Unsupported" => o.inst = inst
             /\ op = "Mov" /\ IsGeneral(a) =>
                  o.inst = inst /\ o.known = RegSet(known, a.r.num, KnownMov(inst, known))
             /\ op \in Binops /\ IsGeneral(a) => o = OptBinop(inst, known)
             /\ op = "Shift" /\ IsGeneral(a) => o = OptShift(inst, known)
             /\ op \in {"Load", "Ret"} /\ IsGeneral(a) =>
                  o.inst = inst /\ o.known = RegSet(known, a.r.num, NoConst)
<1> DEFINE i == IRInst(op, f, a, b, c)
           inst == IRInst(op, f, a, RewriteOperand(b, known), RewriteOperand(c, known))
<1>3. Rewrite(i, known) = inst
  BY Rewritten
<1>4. inst.opcode = op /\ inst.a = a
  BY DEF IRInst
<1> HIDE DEF i, inst
<1>5. OptStep(i, known) =
        LET Keep == [inst |-> inst, known |-> known]
        IN  IF inst.opcode = "Unsupported"
            THEN [inst |-> inst, known |-> NothingKnown]
            ELSE IF ~ IsGeneral(inst.a) THEN Keep
            ELSE CASE inst.opcode = "Mov" ->
                        [inst |-> inst,
                         known |-> [known EXCEPT ![inst.a.r.num] = KnownMov(inst, known)]]
                   [] inst.opcode \in Binops -> OptBinop(inst, known)
                   [] inst.opcode = "Shift"  -> OptShift(inst, known)
                   [] OTHER ->
                        [inst |-> inst, known |-> [known EXCEPT ![inst.a.r.num] = NoConst]]
  BY <1>3 DEF OptStep
<1> DEFINE o == OptStep(i, known)
<1>6. /\ op # "Unsupported" /\ ~ IsGeneral(a) => o.inst = inst /\ o.known = known
      /\ op = "Unsupported" => o.inst = inst
      /\ op = "Mov" /\ IsGeneral(a) =>
           o.inst = inst /\ o.known = RegSet(known, a.r.num, KnownMov(inst, known))
      /\ op \in Binops /\ IsGeneral(a) => o = OptBinop(inst, known)
      /\ op = "Shift" /\ IsGeneral(a) => o = OptShift(inst, known)
      /\ op \in {"Load", "Ret"} /\ IsGeneral(a) =>
           o.inst = inst /\ o.known = RegSet(known, a.r.num, NoConst)
  BY <1>4, <1>5 DEF Binops, RegSet
<1> QED BY <1>6 DEF i, inst

(* The second operand as lowered. *)
LEMMA LoweredOperand ==
  ASSUME NEW st \in GuestState, NEW w, w.op \in DataProcessing, WellFormed(w),
         w.rm.t # "ext"
  PROVE  OperandOk(LowerOperand2(w), w.width)
         /\ Value(LowerOperand2(w), st, w.width) = Operand2(w, st)
<1> DEFINE c == LowerOperand2(w)
<1>1. w.width \in Widths /\ SecondOperand(w.rm, w.width)
  BY DEF WellFormed
<1>2. CASE w.rm.t = "imm" /\ w.rm.v \in SUBSET Bits(w.width)
  <2>1. c.t = "Imm" /\ c.v = w.rm.v /\ Operand2(w, st) = w.rm.v
    BY <1>2 DEF LowerOperand2, Imm, Operand2
  <2> HIDE DEF c
  <2>2. OperandOk(c, w.width) /\ Value(c, st, w.width) = w.rm.v
    BY <1>1, <1>2, <2>1, XWords DEF OperandOk, Value
  <2> QED BY <2>1, <2>2 DEF c
<1>3. CASE w.rm.t = "immsh"
  <2>1. c.t = "ShiftedImm" /\ c.v = w.rm.v /\ c.amount = w.rm.amount
        /\ Operand2(w, st) = Mask(Shift("Lsl", w.rm.v, w.rm.amount, "X64"), w.width)
    BY <1>3 DEF LowerOperand2, ShiftedImm, Operand2
  <2> HIDE DEF c
  <2>2. OperandOk(c, w.width)
        /\ Value(c, st, w.width) = Mask(Shift("Lsl", w.rm.v, w.rm.amount, "X64"), w.width)
    BY <2>1 DEF OperandOk, Value
  <2> QED BY <2>1, <2>2 DEF c
<1>4. CASE w.rm.t = "reg" /\ w.rm.n \in RegNum
  <2>1. c.t = "Reg" /\ c.r = Reg(w.rm.n, w.width)
        /\ Operand2(w, st) = ReadReg(st, Reg(w.rm.n, w.width))
    BY <1>4 DEF LowerOperand2, RegOp, Operand2
  <2>2. RegOk(Reg(w.rm.n, w.width)) /\ Reg(w.rm.n, w.width).width = w.width
    BY <1>1, <1>4, RegsOk
  <2> HIDE DEF c
  <2>3. OperandOk(c, w.width) /\ Value(c, st, w.width) = ReadReg(st, Reg(w.rm.n, w.width))
    BY <2>1, <2>2 DEF OperandOk, Value
  <2> QED BY <2>1, <2>3 DEF c
<1>5. CASE w.rm.t = "regsh" /\ w.rm.n \in RegNum /\ w.rm.kind \in ShiftKinds
  <2>1. c.t = "ShiftedReg" /\ c.r = Reg(w.rm.n, w.width)
        /\ c.kind = w.rm.kind /\ c.amount = w.rm.amount
        /\ Operand2(w, st) =
             Shift(w.rm.kind, ReadReg(st, Reg(w.rm.n, w.width)), w.rm.amount, w.width)
    BY <1>5 DEF LowerOperand2, ShiftedReg, Operand2
  <2>2. RegOk(Reg(w.rm.n, w.width)) /\ Reg(w.rm.n, w.width).width = w.width
    BY <1>1, <1>5, RegsOk
  <2> HIDE DEF c
  <2>3. OperandOk(c, w.width)
    BY <1>5, <2>1, <2>2 DEF OperandOk
  <2>4. Value(c, st, w.width) =
          Shift(w.rm.kind, ReadReg(st, Reg(w.rm.n, w.width)), w.rm.amount, w.width)
    BY <2>1 DEF Value
  <2> QED BY <2>1, <2>3, <2>4 DEF c
<1> QED BY <1>1, <1>2, <1>3, <1>4, <1>5 DEF SecondOperand

LEMMA DestSource ==
  ASSUME NEW w, w.op \in DataProcessing, WellFormed(w)
  PROVE  /\ RegOk(Dest(w)) /\ Dest(w).width = w.width
         /\ RegOk(Source(w)) /\ Source(w).width = w.width
BY RegsOk DEF WellFormed, Dest, Source

LEMMA RegOperand ==
  ASSUME NEW st, NEW r, RegOk(r)
  PROVE  /\ OperandOk(RegOp(r), r.width) /\ Value(RegOp(r), st, r.width) = ReadReg(st, r)
         /\ RegOp(r).t = "Reg" /\ RegOp(r).r = r
         /\ IsGeneral(RegOp(r)) <=> r.kind = "General"
BY DEF RegOp, OperandOk, Value, IsGeneral

(* A register that is extended in the operand has no form in the IR, and   *)
(* no pass makes one up.                                                   *)
LEMMA ExtendedRefused ==
  ASSUME NEW known, NEW op \in Binops, NEW f, NEW d, NEW b
  PROVE  ~ CanEmit(OptStep(IRInst(op, f, RegOp(d), b, None), known).inst)
<1> DEFINE rb == RewriteOperand(b, known)
           inst == IRInst(op, f, RegOp(d), rb, None)
           o == OptStep(IRInst(op, f, RegOp(d), b, None), known)
<1>1. None.t = "None"
  BY DEF None
<1>2. RewriteOperand(None, known) = None /\ ConstantOperand(None, known) = NoConst
  BY <1>1 DEF RewriteOperand, ConstantOperand, IsGeneral
<1>3. /\ inst.opcode = op /\ inst.flags = f /\ inst.a = RegOp(d)
      /\ inst.b = rb /\ inst.c = None
  BY DEF IRInst
<1>4. ~ CanEmit(inst)
  <2> HIDE DEF inst
  <2> QED BY <1>1, <1>3 DEF CanEmit, Loadable, Binops
<1>5. o.inst = inst \/ o = OptBinop(inst, known)
  BY <1>2, OptStepOf DEF Binops
<1>6. ASSUME NEW width PROVE Simplify(inst, width) = inst
  <2>1. ~ (IsGeneral(rb) /\ rb = None)
    BY <1>1 DEF IsGeneral
  <2> HIDE DEF inst, rb
  <2> QED BY <1>1, <1>3, <2>1 DEF Simplify
<1>7. OptBinop(inst, known).inst = inst
  <2> HIDE DEF inst, rb
  <2> QED BY <1>2, <1>3, <1>6 DEF OptBinop
<1> HIDE DEF o
<1>8. o.inst = inst
  BY <1>5, <1>7
<1> QED BY <1>4, <1>8 DEF o
(* An instruction as it comes out of the passes: every belief that remains *)
(* is so, and the code does what is wanted.                                *)
LEMMA Unchanged ==
  ASSUME NEW known \in Known, NEW st \in GuestState, Sound(known, st),
         NEW o, NEW want \in GuestState, Emitted(o.inst, st) = want,
         o.known = known, want.x = st.x
  PROVE  Follows(o, st, want)
BY SoundSame DEF Follows

LEMMA SetTo ==
  ASSUME NEW known \in Known, NEW st \in GuestState, Sound(known, st),
         NEW d, RegOk(d), d.kind = "General", NEW v \in XWord,
         NEW k, k = NoConst \/ k = v,
         NEW o, Emitted(o.inst, st) = WriteReg(st, d, v),
         o.known = RegSet(known, d.num, k)
  PROVE  Follows(o, st, WriteReg(st, d, v))
<1>1. /\ WriteReg(st, d, v) \in GuestState
      /\ WriteReg(st, d, v).x = [st.x EXCEPT ![d.num] = v]
  BY WriteRegState
<1>2. d.num \in GPR
  BY DEF RegOk
<1>3. [known EXCEPT ![d.num] = k] \in Known
      /\ Sound([known EXCEPT ![d.num] = k], WriteReg(st, d, v))
  BY <1>1, <1>2, SoundAfterWrite
<1> QED BY <1>1, <1>3 DEF Follows, RegSet

(* The opcode computes what the instruction does. *)
LEMMA DataComputes ==
  ASSUME NEW st, NEW w, w.op \in DataProcessing, Dest(w).width = w.width
  PROVE  Computes(Opcode[w.op], w.s, st, Dest(w), ReadReg(st, Source(w)), Operand2(w, st))
           = DataStep(w, st)
<1> DEFINE op == Opcode[w.op]
           u == ReadReg(st, Source(w))
           v == Operand2(w, st)
<1>1. IRResult(op, u, v, w.width) = Result(w.op, u, v, w.width)
  <2> HIDE DEF u, v
  <2>1. CASE w.op = "ADD"
    BY <2>1 DEF Opcode, IRResult, Result
  <2>2. CASE w.op = "SUB"
    BY <2>2 DEF Opcode, IRResult, Result
  <2>3. CASE w.op = "AND"
    BY <2>3 DEF Opcode, IRResult, Result
  <2>4. CASE w.op = "ORR"
    BY <2>4 DEF Opcode, IRResult, Result
  <2>5. CASE w.op = "EOR"
    BY <2>5 DEF Opcode, IRResult, Result
  <2> QED BY <2>1, <2>2, <2>3, <2>4, <2>5 DEF DataProcessing
<1> HIDE DEF op
<1> QED BY <1>1 DEF Computes, DataStep, op

LEMMA DataFollows ==
  ASSUME NEW known \in Known, NEW st \in GuestState, Sound(known, st),
         NEW w, w.op \in DataProcessing, WellFormed(w),
         CanEmit(OptStep(LiftData(w), known).inst)
  PROVE  Follows(OptStep(LiftData(w), known), st, DataStep(w, st))
<1> DEFINE op == Opcode[w.op]
           d == Dest(w)
           b == RegOp(Source(w))
           c == LowerOperand2(w)
           rb == RewriteOperand(b, known)
           rc == RewriteOperand(c, known)
           inst == IRInst(op, w.s, RegOp(d), rb, rc)
           o == OptStep(LiftData(w), known)
           u == ReadReg(st, Source(w))
           v == Operand2(w, st)
           want == Computes(op, w.s, st, d, u, v)
<1>1. /\ op \in Binops /\ w.s \in BOOLEAN /\ w.width \in Widths
      /\ w.s => op \in {"Add", "Sub", "And"}
  BY DEF DataProcessing, Opcode, Binops, WellFormed
<1>2. RegOk(d) /\ d.width = w.width /\ RegOk(Source(w)) /\ Source(w).width = w.width
  BY DestSource
<1>3. o = OptStep(IRInst(op, w.s, RegOp(d), b, c), known)
  BY DEF LiftData
<1>4. want = DataStep(w, st)
  BY <1>2, DataComputes
<1>5. w.rm.t # "ext"
  <2> SUFFICES ASSUME w.rm.t = "ext" PROVE FALSE
    OBVIOUS
  <2>1. c = None
    BY DEF LowerOperand2
  <2> HIDE DEF o, d, b, op, c
  <2> QED BY <1>1, <1>3, <2>1, ExtendedRefused DEF o
<1>6. OperandOk(b, w.width) /\ Value(b, st, w.width) = u
  BY <1>2, RegOperand
<1>7. OperandOk(c, w.width) /\ Value(c, st, w.width) = v
  BY <1>5, LoweredOperand
<1> HIDE DEF op, d, b, c, u, v
<1>8. /\ OperandOk(rb, w.width) /\ Value(rb, st, w.width) = u
      /\ OperandOk(rc, w.width) /\ Value(rc, st, w.width) = v
  BY <1>1, <1>6, <1>7, RewriteSame
<1> HIDE DEF rb, rc
<1>9. CASE d.kind = "General"
  <2>1. IsGeneral(RegOp(d))
    BY <1>2, <1>9, RegOperand
  <2>2. o = OptBinop(inst, known)
    BY <1>1, <1>3, <2>1, OptStepOf DEF rb, rc
  <2>3. Follows(OptBinop(inst, known), st, want)
    BY <1>1, <1>2, <1>8, <1>9, OptBinopFollows
  <2> QED BY <1>4, <2>2, <2>3
<1>10. CASE d.kind # "General"
  <2>1. ~ IsGeneral(RegOp(d)) /\ op # "Unsupported"
    BY <1>1, <1>2, <1>10, RegOperand DEF Binops
  <2>2. o.inst = inst /\ o.known = known
    BY <1>3, <2>1, OptStepOf DEF rb, rc
  <2>3. /\ inst.opcode = op /\ inst.flags = w.s /\ inst.a = RegOp(d)
        /\ inst.b = rb /\ inst.c = rc
    BY DEF IRInst
  <2>4. inst.a.t = "Reg" /\ inst.a.r = d
    BY <2>3 DEF RegOp
  <2>5. Emitted(inst, st) = want
    <3> HIDE DEF inst
    <3> QED BY <1>1, <1>2, <1>8, <2>3, <2>4, EmittedBinop
  <2>6. u \in SUBSET Bits(d.width) /\ v \in SUBSET Bits(d.width)
    BY <1>1, <1>2, <1>6, <1>7, ValueIsWord
  <2>7. want \in GuestState /\ want.x = st.x
    <3>1. want \in GuestState
      BY <1>1, <1>2, <2>6, ComputesState
    <3>2. want.x = st.x
      <4>1. d.kind \in {"Zero", "StackPointer"}
        BY <1>2, <1>10 DEF RegOk, RegRecord
      <4> HIDE DEF want
      <4> QED BY <1>1, <1>2, <2>6, <4>1, ComputesKeeps DEF want
    <3> QED BY <1>10, <3>1, <3>2
  <2> HIDE DEF o, inst, want
  <2>9. Follows(o, st, want)
    BY <2>5, <2>7, <2>2, Unchanged
  <2> QED BY <1>4, <2>9 DEF o, want
<1> QED BY <1>9, <1>10

LEMMA VariableShiftFollows ==
  ASSUME NEW known \in Known, NEW st \in GuestState, Sound(known, st),
         NEW w, w.op \in DOMAIN VariableShift, WellFormed(w)
  PROVE  LET o == OptStep(LiftVariableShift(w), known)
         IN  /\ Follows(o, st, Emitted(o.inst, st))
             /\ ~ (w.op = "RORV" /\ w.width = "W32") => Emitted(o.inst, st) = ShiftStep(w, st)
<1> DEFINE no == FALSE
           width == w.width
           d == Reg(w.rd, width)
           value == Reg(w.rn, width)
           amount == Reg(w.rm, width)
           kind == VariableShift[w.op]
           b == RegOp(value)
           c == ShiftReg(value, amount, kind)
           rb == RewriteOperand(b, known)
           inst == IRInst("Shift", no, RegOp(d), rb, c)
           o == OptStep(LiftVariableShift(w), known)
           result == Shift(kind, ReadReg(st, value), Count(ReadReg(st, amount), width), width)
<1>1. width \in Widths /\ kind \in ShiftKinds
      /\ (kind = "Ror" => w.op = "RORV")
  BY DEF WellFormed, VariableShift, ShiftKinds
<1>2. /\ RegOk(d) /\ d.width = width
      /\ RegOk(value) /\ value.width = width
      /\ RegOk(amount) /\ amount.width = width
  BY RegsOk DEF WellFormed
<1>3. d.kind \in {"General", "Zero"}
  BY DEF Reg
<1>4. o = OptStep(IRInst("Shift", no, RegOp(d), b, c), known)
  BY DEF LiftVariableShift
<1>5. ShiftStep(w, st) = WriteReg(st, d, result)
  BY DEF ShiftStep
<1>6. c.t = "ShiftReg" /\ c.amount = amount /\ c.kind = kind
  BY DEF ShiftReg
<1>7. RewriteOperand(c, known) = c
  <2> HIDE DEF c
  <2> QED BY <1>6 DEF RewriteOperand, IsGeneral
<1> HIDE DEF no, d, value, amount, kind
<1>8. OperandOk(b, width) /\ Value(b, st, width) = ReadReg(st, value)
  BY <1>2, RegOperand
<1> HIDE DEF b
<1>9. OperandOk(rb, width) /\ Value(rb, st, width) = ReadReg(st, value)
  BY <1>1, <1>8, RewriteSame
<1> HIDE DEF rb
<1>10. CASE d.kind = "General"
  <2>1. IsGeneral(RegOp(d))
    BY <1>2, <1>10, RegOperand
  <2>2. o = OptShift(inst, known)
    BY <1>4, <1>7, <2>1, OptStepOf DEF rb
  <2>3. /\ Follows(OptShift(inst, known), st, Emitted(OptShift(inst, known).inst, st))
        /\ ~ (kind = "Ror" /\ width = "W32") =>
             Emitted(OptShift(inst, known).inst, st) = WriteReg(st, d, result)
    BY <1>1, <1>2, <1>9, <1>10, OptShiftFollows
  <2> QED BY <1>1, <1>5, <2>2, <2>3
<1>11. CASE d.kind = "Zero"
  <2>1. ~ IsGeneral(RegOp(d))
    BY <1>2, <1>11, RegOperand
  <2>2. o.inst = inst /\ o.known = known
    BY <1>4, <1>7, <2>1, OptStepOf DEF rb
  <2>3. inst.opcode = "Shift" /\ inst.a = RegOp(d) /\ inst.b = rb /\ inst.c = c
    BY DEF IRInst
  <2>4. inst.a.r = d
    BY <2>3 DEF RegOp
  <2>5. Emitted(inst, st) = WriteReg(st, d, result)
    <3> HIDE DEF inst, c
    <3> QED BY <1>1, <1>2, <1>6, <1>9, <2>3, <2>4, EmittedShift
  <2>6. WriteReg(st, d, result) = st
    BY <1>11 DEF WriteReg
  <2> HIDE DEF o, inst, result
  <2>8. Follows(o, st, st) /\ Emitted(o.inst, st) = st
    BY <2>5, <2>2, <2>6, Unchanged
  <2> QED BY <1>5, <2>6, <2>8 DEF o
<1> QED BY <1>3, <1>10, <1>11

LEMMA MoveWideFollows ==
  ASSUME NEW known \in Known, NEW st \in GuestState, Sound(known, st),
         NEW w, w.op \in {"MOVZ", "MOVN"}, WellFormed(w)
  PROVE  Follows(OptStep(LiftMoveWide(w), known), st, ArmStep(w, st))
<1> DEFINE no == FALSE
           width == w.width
           d == Reg(w.rd, width)
           value == IF w.op = "MOVN" THEN Complement(w.v, "X64") ELSE w.v
           v == Mask(value, width)
           inst == IRInst("Mov", no, RegOp(d), Imm(v), None)
           o == OptStep(LiftMoveWide(w), known)
<1>1. width \in Widths /\ RegOk(d) /\ d.width = width
  BY RegsOk DEF WellFormed
<1>2. d.kind \in {"General", "Zero"}
  BY DEF Reg
<1>3. o = OptStep(inst, known)
  BY DEF LiftMoveWide
<1>4. ArmStep(w, st) = WriteReg(st, d, v)
  <2>1. w.op = "MOVN" => v = Complement(w.v, width)
    BY <1>1, WidthBits DEF Mask, Complement
  <2>2. w.op = "MOVZ" => v = Mask(w.v, width)
    OBVIOUS
  <2>3. ArmStep(w, st) = IF w.op = "MOVZ" THEN WriteReg(st, d, Mask(w.v, width))
                         ELSE WriteReg(st, d, Complement(w.v, width))
    BY DEF ArmStep, DataProcessing, VariableShift
  <2> QED BY <2>1, <2>2, <2>3
<1>5. v \in SUBSET Bits(width) /\ Mask(v, width) = v /\ v \in XWord
  BY <1>1, MaskIsWord, XWords
<1> HIDE DEF no, d, v
<1>6. OperandOk(Imm(v), width) /\ Value(Imm(v), st, width) = v
  BY <1>1, <1>5, ImmValue
<1>7. /\ inst.opcode = "Mov" /\ inst.a = RegOp(d) /\ inst.b = Imm(v)
      /\ inst.a.r = d /\ inst.b.t = "Imm" /\ inst.b.v = v
  BY DEF IRInst, RegOp, Imm
<1>8. RewriteOperand(Imm(v), known) = Imm(v) /\ RewriteOperand(None, known) = None
  BY DEF RewriteOperand, IsGeneral, Imm, None
<1>9. Emitted(inst, st) = WriteReg(st, d, v)
  <2> HIDE DEF inst
  <2> QED BY <1>1, <1>6, <1>7, EmittedMov
<1>10. KnownMov(inst, known) = v
  <2> HIDE DEF inst
  <2> QED BY <1>1, <1>5, <1>7 DEF KnownMov, IsGeneral
<1>11. CASE d.kind = "General"
  <2>1. IsGeneral(RegOp(d)) /\ RegOp(d).r = d
    BY <1>1, <1>11, RegOperand
  <2>2. o.inst = inst /\ o.known = RegSet(known, d.num, v)
    BY <1>3, <1>8, <1>10, <2>1, OptStepOf
  <2> HIDE DEF o, inst
  <2> QED BY <1>1, <1>4, <1>5, <1>9, <1>11, <2>2, SetTo DEF o
<1>12. CASE d.kind = "Zero"
  <2>1. ~ IsGeneral(RegOp(d))
    BY <1>1, <1>12, RegOperand
  <2>2. o.inst = inst /\ o.known = known
    BY <1>3, <1>8, <2>1, OptStepOf
  <2>4. WriteReg(st, d, v) = st
    BY <1>12 DEF WriteReg
  <2> HIDE DEF o, inst
  <2> QED BY <1>4, <1>9, <2>2, <2>4, Unchanged DEF o
<1> QED BY <1>2, <1>11, <1>12
LEMMA LoadFollows ==
  ASSUME NEW known \in Known, NEW st \in GuestState, Sound(known, st),
         NEW w, w.op = "LDR", WellFormed(w)
  PROVE  Follows(OptStep(LiftMem(w), known), st, ArmStep(w, st))
<1> DEFINE no == FALSE
           width == w.width
           d == Reg(w.rt, width)
           base == RegOrSP(w.rn, "X64")
           m == Mem(base, w.offset, width)
           inst == IRInst("Load", no, RegOp(d), m, None)
           o == OptStep(LiftMem(w), known)
           v == ReadMem(st.mem, Address(w, st), width)
<1>1. width \in Widths /\ RegOk(d) /\ d.width = width /\ RegOk(base)
  BY RegsOk DEF WellFormed, Widths
<1>2. d.kind \in {"General", "Zero"}
  BY DEF Reg
<1>3. o = OptStep(inst, known)
  BY DEF LiftMem
<1>4. ArmStep(w, st) = WriteReg(st, d, v)
  BY DEF ArmStep, DataProcessing, VariableShift
<1>5. Address(w, st) = Add(ReadReg(st, base), w.offset, "X64").val
  BY DEF Address
<1>6. m.t = "Mem" /\ m.base = base /\ m.offset = w.offset /\ m.width = width
  BY DEF Mem
<1>7. RewriteOperand(m, known) = m /\ RewriteOperand(None, known) = None
  <2> HIDE DEF m
  <2> QED BY <1>6 DEF RewriteOperand, IsGeneral, None
<1> HIDE DEF no, d, base, m, v
<1>8. inst.opcode = "Load" /\ inst.a = RegOp(d) /\ inst.b = m /\ inst.a.r = d
  BY DEF IRInst, RegOp
<1>9. v \in XWord /\ Emitted(inst, st) = WriteReg(st, d, v)
  <2> HIDE DEF inst
  <2>1. /\ inst.opcode = "Load" /\ RegOk(inst.a.r) /\ RegOk(inst.b.base)
        /\ inst.b.width \in Widths
    BY <1>1, <1>6, <1>8
  <2>2. LET addr == Add(ReadReg(st, inst.b.base), inst.b.offset, "X64").val
            u == ReadMem(st.mem, addr, inst.b.width)
        IN  u \in XWord /\ Emitted(inst, st) = WriteReg(st, inst.a.r, u)
    BY <2>1, EmittedLoad
  <2>3. v = ReadMem(st.mem, Add(ReadReg(st, inst.b.base), inst.b.offset, "X64").val, inst.b.width)
    BY <1>5, <1>6, <1>8 DEF v
  <2> QED BY <1>8, <2>2, <2>3
<1>10. CASE d.kind = "General"
  <2>1. IsGeneral(RegOp(d)) /\ RegOp(d).r = d
    BY <1>1, <1>10, RegOperand
  <2>2. o.inst = inst /\ o.known = RegSet(known, d.num, NoConst)
    BY <1>3, <1>7, <2>1, OptStepOf
  <2> HIDE DEF o, inst
  <2> QED BY <1>1, <1>4, <1>9, <1>10, <2>2, SetTo DEF o
<1>11. CASE d.kind = "Zero"
  <2>1. ~ IsGeneral(RegOp(d))
    BY <1>1, <1>11, RegOperand
  <2>2. o.inst = inst /\ o.known = known
    BY <1>3, <1>7, <2>1, OptStepOf
  <2>4. WriteReg(st, d, v) = st
    BY <1>11 DEF WriteReg
  <2> HIDE DEF o, inst
  <2> QED BY <1>4, <1>9, <2>2, <2>4, Unchanged DEF o
<1> QED BY <1>2, <1>10, <1>11

(* A store of a known constant is refused by the code generator; any other *)
(* leaves the registers alone.                                             *)
LEMMA StoreFollows ==
  ASSUME NEW known \in Known, NEW st \in GuestState, Sound(known, st),
         NEW w, w.op = "STR", WellFormed(w), CanEmit(OptStep(LiftMem(w), known).inst)
  PROVE  Follows(OptStep(LiftMem(w), known), st, ArmStep(w, st))
<1> DEFINE no == FALSE
           width == w.width
           r == Reg(w.rt, width)
           base == RegOrSP(w.rn, "X64")
           m == Mem(base, w.offset, width)
           b == RegOp(r)
           rb == RewriteOperand(b, known)
           inst == IRInst("Store", no, m, rb, None)
           o == OptStep(LiftMem(w), known)
           want == [st EXCEPT !.mem = WriteMem(@, Address(w, st), width, ReadReg(st, r))]
<1>1. width \in Widths /\ RegOk(r) /\ RegOk(base)
  BY RegsOk DEF WellFormed, Widths
<1>2. o = OptStep(IRInst("Store", no, m, b, None), known)
  BY DEF LiftMem
<1>3. ArmStep(w, st) = want
  BY DEF ArmStep, DataProcessing, VariableShift
<1>4. Address(w, st) = Add(ReadReg(st, base), w.offset, "X64").val
  BY DEF Address
<1>5. m.t = "Mem" /\ m.base = base /\ m.offset = w.offset /\ m.width = width
  BY DEF Mem
<1>6. ~ IsGeneral(m) /\ RewriteOperand(None, known) = None
  <2> HIDE DEF m
  <2> QED BY <1>5 DEF RewriteOperand, IsGeneral, None
<1>7. b.t = "Reg" /\ b.r = r
  BY DEF RegOp
<1>8. o.inst = inst /\ o.known = known
  <2> HIDE DEF no, m, b, o
  <2> QED BY <1>2, <1>6, OptStepOf DEF Binops, o
<1>10. inst.opcode = "Store" /\ inst.a = m /\ inst.b = rb
  BY DEF IRInst
<1>11. rb = b
  <2>1. rb.t = "Reg"
    <3> HIDE DEF inst, o
    <3> QED BY <1>8, <1>10 DEF CanEmit, Binops, o
  <2>2. rb = b \/ rb = Imm(KnownReg(b.r, known))
    BY DEF RewriteOperand
  <2> QED BY <2>1, <2>2 DEF Imm
<1>12. Address(w, st) \in XWord /\ Emitted(inst, st) = want
  <2> HIDE DEF inst, m, b, r, base, rb
  <2>1. /\ inst.opcode = "Store" /\ RegOk(inst.b.r) /\ RegOk(inst.a.base)
        /\ inst.a.width \in Widths
    BY <1>1, <1>5, <1>7, <1>10, <1>11
  <2>2. LET addr == Add(ReadReg(st, inst.a.base), inst.a.offset, "X64").val
            v == ReadReg(st, inst.b.r)
        IN  /\ addr \in XWord
            /\ Emitted(inst, st) = [st EXCEPT !.mem = WriteMem(@, addr, inst.a.width, v)]
    BY <2>1, EmittedStore
  <2>3. inst.a.base = base /\ inst.a.offset = w.offset /\ inst.a.width = width /\ inst.b.r = r
    BY <1>5, <1>7, <1>10, <1>11
  <2>4. /\ Address(w, st) \in XWord
        /\ Emitted(inst, st) =
             [st EXCEPT !.mem = WriteMem(@, Address(w, st), width, ReadReg(st, r))]
    BY <1>4, <2>2, <2>3
  <2> QED BY <2>4
<1>13. want \in GuestState /\ want.x = st.x
  BY <1>1, <1>12, WriteMemState
<1> HIDE DEF o, inst, want
<1> QED BY <1>3, <1>8, <1>12, <1>13, Unchanged DEF o

(* Branches write no register, and a return forgets its register.          *)
LEMMA ControlFollows ==
  ASSUME NEW known \in Known, NEW st \in GuestState, Sound(known, st),
         NEW w, WellFormed(w), NEW p,
         w.op \in Branches \cup {"NOP"}
  PROVE  Follows(OptStep(LiftOneAt(w, p), known), st, ArmStep(w, st))
<1> DEFINE i == LiftOneAt(w, p)
           inst == IRInst(i.opcode, i.flags, i.a,
                          RewriteOperand(i.b, known), RewriteOperand(i.c, known))
           o == OptStep(i, known)
<1>1. ArmStep(w, st) = st
  BY DEF ArmStep, Branches, DataProcessing, VariableShift
<1>2. /\ i = IRInst(i.opcode, i.flags, i.a, i.b, i.c)
      /\ i.opcode \in {"Branch", "BranchCond", "Ret", "Nop"}
      /\ i.opcode = "Ret" => w.op = "RET" /\ i.a = RegOp(Reg(w.rn, "X64"))
      /\ i.opcode # "Ret" => ~ IsGeneral(i.a)
  BY DEF LiftOneAt, LiftBranch, Branches, IRInst, IsGeneral, GuestPc, None,
         DataProcessing, VariableShift
<1>3. inst.opcode = i.opcode
  BY DEF IRInst
<1>4. Emitted(inst, st) = st
  <2> HIDE DEF inst, i
  <2> QED BY <1>2, <1>3 DEF Emitted, Binops
<1>5. CASE ~ IsGeneral(i.a)
  <2>1. o.inst = inst /\ o.known = known
    <3> DEFINE op == i.opcode
               f == i.flags
               a == i.a
               b == i.b
               c == i.c
    <3>1. o = OptStep(IRInst(op, f, a, b, c), known)
      BY <1>2
    <3>2. op # "Unsupported" /\ ~ IsGeneral(a)
      BY <1>2, <1>5
    <3>3. inst = IRInst(op, f, a, RewriteOperand(b, known), RewriteOperand(c, known))
      OBVIOUS
    <3> HIDE DEF op, f, a, b, c, o, inst
    <3> QED BY <3>1, <3>2, <3>3, OptStepOf
  <2> HIDE DEF o, inst
  <2> QED BY <1>1, <1>4, <2>1, Unchanged DEF o
<1>6. CASE IsGeneral(i.a)
  <2> DEFINE n == i.a.r.num
  <2>1. i.opcode = "Ret" /\ n = w.rn /\ n \in GPR
    <3>1. i.opcode = "Ret" /\ w.op = "RET" /\ i.a = RegOp(Reg(w.rn, "X64"))
      BY <1>2, <1>6
    <3>2. i.a.r = Reg(w.rn, "X64")
      BY <3>1 DEF RegOp
    <3>3. RegOk(i.a.r) /\ i.a.r.kind = "General"
      BY <1>6, <3>1, <3>2, RegsOk DEF WellFormed, IsGeneral, Widths
    <3>4. i.a.r.num = w.rn
      BY <3>2 DEF Reg
    <3> QED BY <3>1, <3>3, <3>4 DEF RegOk
  <2>2. o.inst = inst /\ o.known = RegSet(known, n, NoConst)
    <3> DEFINE op == i.opcode
               f == i.flags
               a == i.a
               b == i.b
               c == i.c
    <3>1. o = OptStep(IRInst(op, f, a, b, c), known)
      BY <1>2
    <3>2. op \in {"Load", "Ret"} /\ IsGeneral(a) /\ n = a.r.num
      BY <1>6, <2>1
    <3>3. inst = IRInst(op, f, a, RewriteOperand(b, known), RewriteOperand(c, known))
      OBVIOUS
    <3> HIDE DEF op, f, a, b, c, o, inst, n
    <3> QED BY <3>1, <3>2, <3>3, OptStepOf
  <2> HIDE DEF o, inst, n
  <2>4. [known EXCEPT ![n] = NoConst] \in Known /\ Sound([known EXCEPT ![n] = NoConst], st)
    BY <2>1 DEF Known, Sound
  <2>5. Follows(o, st, st)
    BY <1>4, <2>2, <2>4 DEF Follows, RegSet
  <2> QED BY <1>1, <2>5 DEF o
<1> QED BY <1>5, <1>6

(* What one instruction of a block comes to, all passes included.  The one *)
(* instruction whose code may do something else is the 32-bit rotation by  *)
(* a register, and even there the optimizer knows what the code does.      *)
LEMMA InstructionFollows ==
  ASSUME NEW known \in Known, NEW st \in GuestState, Sound(known, st),
         NEW w, WellFormed(w), NEW p, CanEmit(OptStep(LiftOneAt(w, p), known).inst)
  PROVE  LET o == OptStep(LiftOneAt(w, p), known)
         IN  /\ Follows(o, st, Emitted(o.inst, st))
             /\ ~ (w.op = "RORV" /\ w.width = "W32") => Emitted(o.inst, st) = ArmStep(w, st)
<1> DEFINE o == OptStep(LiftOneAt(w, p), known)
<1>1. CASE w.op \in DataProcessing
  <2>1. LiftOneAt(w, p) = LiftData(w) /\ ArmStep(w, st) = DataStep(w, st)
    BY <1>1 DEF LiftOneAt, ArmStep, DataProcessing, VariableShift, Branches
  <2>2. Follows(o, st, DataStep(w, st))
    BY <1>1, <2>1, DataFollows
  <2> QED BY <2>1, <2>2 DEF Follows
<1>2. CASE w.op \in DOMAIN VariableShift
  <2>1. LiftOneAt(w, p) = LiftVariableShift(w) /\ ArmStep(w, st) = ShiftStep(w, st)
    BY <1>2 DEF LiftOneAt, ArmStep, DataProcessing, VariableShift, Branches
  <2> QED BY <1>2, <2>1, VariableShiftFollows
<1>3. CASE w.op \in {"MOVZ", "MOVN"}
  <2>1. LiftOneAt(w, p) = LiftMoveWide(w)
    BY <1>3 DEF LiftOneAt, DataProcessing, VariableShift, Branches
  <2>2. Follows(o, st, ArmStep(w, st))
    BY <1>3, <2>1, MoveWideFollows
  <2> QED BY <2>2 DEF Follows
<1>4. CASE w.op = "LDR"
  <2>1. LiftOneAt(w, p) = LiftMem(w)
    BY <1>4 DEF LiftOneAt, DataProcessing, VariableShift, Branches
  <2>2. Follows(o, st, ArmStep(w, st))
    BY <1>4, <2>1, LoadFollows
  <2> QED BY <2>2 DEF Follows
<1>5. CASE w.op = "STR"
  <2>1. LiftOneAt(w, p) = LiftMem(w)
    BY <1>5 DEF LiftOneAt, DataProcessing, VariableShift, Branches
  <2>2. Follows(o, st, ArmStep(w, st))
    BY <1>5, <2>1, StoreFollows
  <2> QED BY <2>2 DEF Follows
<1>6. CASE w.op \in Branches \cup {"NOP"}
  <2>1. Follows(o, st, ArmStep(w, st))
    BY <1>6, ControlFollows
  <2> QED BY <2>1 DEF Follows
<1>7. CASE w.op \notin DataProcessing \cup DOMAIN VariableShift \cup {"MOVZ", "MOVN", "LDR", "STR"}
                       \cup Branches \cup {"NOP"}
  <2>1. LiftOneAt(w, p) = IRInst("Unsupported", FALSE, None, None, None)
    BY <1>7 DEF LiftOneAt
  <2>2. o.inst.opcode = "Unsupported"
    <3> DEFINE no == FALSE
               inst == IRInst("Unsupported", no, None, RewriteOperand(None, known),
                              RewriteOperand(None, known))
    <3>1. LiftOneAt(w, p) = IRInst("Unsupported", no, None, None, None)
      BY <2>1
    <3>2. inst.opcode = "Unsupported"
      BY DEF IRInst
    <3> HIDE DEF no
    <3>3. o.inst = inst
      BY <3>1, OptStepOf
    <3> QED BY <3>2, <3>3
  <2> HIDE DEF o
  <2>3. ~ CanEmit(o.inst)
    BY <2>2 DEF CanEmit, Binops
  <2> QED BY <2>3 DEF o
<1> QED BY <1>1, <1>2, <1>3, <1>4, <1>5, <1>6, <1>7-----------------------------------------------------------------------------
(* Where a block goes.                                                     *)

(* The two halves of a conditional branch, piece by piece. *)
LEMMA TwoExits ==
  ASSUME NEW t, NEW f
  PROVE  LET code == SetPcRet(t) \o SetPcRet(f)
         IN  /\ Len(code) = 6
             /\ code[1].len = 10 /\ code[2].len = 7 /\ code[3].len = 1
             /\ code[4].len = 10 /\ code[5].len = 7
             /\ code[1].does = "mov" /\ code[1].v = t
             /\ code[4].does = "mov" /\ code[4].v = f
<1> DEFINE m(v) == [len |-> 10, does |-> "mov", v |-> v]
           s(v) == [len |-> 7, does |-> "store", v |-> v]
           r(v) == [len |-> 1, does |-> "ret", v |-> v]
           code == SetPcRet(t) \o SetPcRet(f)
<1>1. code = <<m(t), s(t), r(t)>> \o <<m(f), s(f), r(f)>>
  BY DEF SetPcRet
<1>2. m(t).len = 10 /\ s(t).len = 7 /\ r(t).len = 1 /\ m(f).len = 10 /\ s(f).len = 7
      /\ m(t).does = "mov" /\ m(t).v = t /\ m(f).does = "mov" /\ m(f).v = f
  OBVIOUS
<1> HIDE DEF m, s, r
<1>3. Len(code) = 6
  BY <1>1
<1>4. code[1] = m(t) /\ code[2] = s(t) /\ code[3] = r(t)
      /\ code[4] = m(f) /\ code[5] = s(f)
  BY <1>1
<1> HIDE DEF code
<1>5. /\ Len(code) = 6
      /\ code[1].len = 10 /\ code[2].len = 7 /\ code[3].len = 1
      /\ code[4].len = 10 /\ code[5].len = 7
      /\ code[1].does = "mov" /\ code[1].v = t
      /\ code[4].does = "mov" /\ code[4].v = f
  BY <1>2, <1>3, <1>4
<1> QED BY <1>5 DEF code

(* The bytes before each piece. *)
Offsets(code, b) ==
  b = [i \in 1 .. Len(code) |-> IF i = 1 THEN 0 ELSE b[i - 1] + code[i - 1].len]

LEMMA OffsetsOfExits ==
  ASSUME NEW code, Len(code) = 6,
         code[1].len = 10, code[2].len = 7, code[3].len = 1,
         code[4].len = 10, code[5].len = 7
  PROVE  /\ \E b : Offsets(code, b)
         /\ \A b : Offsets(code, b) =>
              /\ b[1] = 0 /\ b[2] = 10 /\ b[3] = 17
              /\ b[4] = 18 /\ b[5] = 28 /\ b[6] = 35
<1> DEFINE at(i) == IF i = 1 THEN 0 ELSE IF i = 2 THEN 10 ELSE IF i = 3 THEN 17
                    ELSE IF i = 4 THEN 18 ELSE IF i = 5 THEN 28 ELSE 35
           w == [i \in 1 .. 6 |-> at(i)]
<1>1. Offsets(code, w)
  <2>1. \A i \in 1 .. 6 : at(i) = IF i = 1 THEN 0 ELSE w[i - 1] + code[i - 1].len
    <3>1. \A i \in 1 .. 6 : i = 1 \/ i = 2 \/ i = 3 \/ i = 4 \/ i = 5 \/ i = 6
      OBVIOUS
    <3>2. w[1] = 0 /\ w[2] = 10 /\ w[3] = 17 /\ w[4] = 18 /\ w[5] = 28
      OBVIOUS
    <3>3. 2 - 1 = 1 /\ 3 - 1 = 2 /\ 4 - 1 = 3 /\ 5 - 1 = 4 /\ 6 - 1 = 5
      OBVIOUS
    <3>4. /\ at(1) = 0 /\ at(2) = 10 /\ at(3) = 17 /\ at(4) = 18 /\ at(5) = 28 /\ at(6) = 35
      OBVIOUS
    <3> HIDE DEF w, at
    <3> QED BY <3>1, <3>2, <3>3, <3>4
  <2> QED BY <2>1 DEF Offsets
<1>2. ASSUME NEW b, Offsets(code, b)
      PROVE  /\ b[1] = 0 /\ b[2] = 10 /\ b[3] = 17
             /\ b[4] = 18 /\ b[5] = 28 /\ b[6] = 35
  <2>1. \A i \in 1 .. 6 : b[i] = IF i = 1 THEN 0 ELSE b[i - 1] + code[i - 1].len
    BY <1>2 DEF Offsets
  <2>2. b[1] = 0
    BY <2>1
  <2>3. b[2] = b[1] + code[1].len
    BY <2>1
  <2>4. b[3] = b[2] + code[2].len
    BY <2>1
  <2>5. b[4] = b[3] + code[3].len
    BY <2>1
  <2>6. b[5] = b[4] + code[4].len
    BY <2>1
  <2>7. b[6] = b[5] + code[5].len
    BY <2>1
  <2> QED BY <2>2, <2>3, <2>4, <2>5, <2>6, <2>7
<1> QED BY <1>1, <1>2

LEMMA LandsAtExits ==
  ASSUME NEW code, Len(code) = 6,
         code[1].len = 10, code[2].len = 7, code[3].len = 1,
         code[4].len = 10, code[5].len = 7
  PROVE  Landing(code, 0) = {1} /\ Landing(code, SET_PC_RET_LEN) = {4}
<1> DEFINE b == CHOOSE x : Offsets(code, x)
<1>1. Offsets(code, b)
  BY OffsetsOfExits
<1>2. /\ b[1] = 0 /\ b[2] = 10 /\ b[3] = 17
      /\ b[4] = 18 /\ b[5] = 28 /\ b[6] = 35
  BY <1>1, OffsetsOfExits
<1>3. \A n : Landing(code, n) = {i \in 1 .. Len(code) : b[i] = n}
  BY DEF Landing, Offsets
<1> HIDE DEF b
<1>4. \A i \in 1 .. 6 : i = 1 \/ i = 2 \/ i = 3 \/ i = 4 \/ i = 5 \/ i = 6
  OBVIOUS
<1>5. \A i \in 1 .. 6 : (b[i] = 0 <=> i = 1) /\ (b[i] = 18 <=> i = 4)
  BY <1>2, <1>4
<1> QED BY <1>3, <1>5 DEF SET_PC_RET_LEN

(* The code of a conditional branch goes to one of its two targets. *)
LEMMA BranchGoes ==
  ASSUME NEW taken \in BOOLEAN, NEW t, NEW f
  PROVE  BranchCode(taken, t, f) = <<"at", IF taken THEN t ELSE f>>
<1> DEFINE code == SetPcRet(t) \o SetPcRet(f)
           at == Landing(code, IF taken THEN 0 ELSE SET_PC_RET_LEN)
           k == IF taken THEN 1 ELSE 4
<1>1. /\ Len(code) = 6
      /\ code[1].len = 10 /\ code[2].len = 7 /\ code[3].len = 1
      /\ code[4].len = 10 /\ code[5].len = 7
      /\ code[1].does = "mov" /\ code[1].v = t
      /\ code[4].does = "mov" /\ code[4].v = f
  BY TwoExits
<1>2. BranchCode(taken, t, f) =
        IF \E i \in at : code[i].does = "mov"
        THEN <<"at", code[CHOOSE i \in at : TRUE].v>>
        ELSE <<"reg", Junk>>
  BY DEF BranchCode
<1> HIDE DEF code
<1>3. at = {k}
  BY <1>1, LandsAtExits
<1> HIDE DEF at
<1>4. (CHOOSE i \in at : TRUE) = k
  BY <1>3
<1>5. code[k].does = "mov" /\ code[k].v = IF taken THEN t ELSE f
  BY <1>1
<1> QED BY <1>2, <1>3, <1>4, <1>5

(* condition_holds agrees with the architecture, the 16th condition apart. *)
LEMMA ConditionsAgree ==
  ASSUME NEW cond \in 0 .. 14, NEW f
  PROVE  ConditionHolds(cond, f) <=> Condition(cond, f)
<1> DEFINE h == cond \div 2
           odd == cond % 2 = 1
<1>1. \/ cond = 0 /\ h = 0 /\ ~ odd
      \/ cond = 1 /\ h = 0 /\ odd
      \/ cond = 2 /\ h = 1 /\ ~ odd
      \/ cond = 3 /\ h = 1 /\ odd
      \/ cond = 4 /\ h = 2 /\ ~ odd
      \/ cond = 5 /\ h = 2 /\ odd
      \/ cond = 6 /\ h = 3 /\ ~ odd
      \/ cond = 7 /\ h = 3 /\ odd
      \/ cond = 8 /\ h = 4 /\ ~ odd
      \/ cond = 9 /\ h = 4 /\ odd
      \/ cond = 10 /\ h = 5 /\ ~ odd
      \/ cond = 11 /\ h = 5 /\ odd
      \/ cond = 12 /\ h = 6 /\ ~ odd
      \/ cond = 13 /\ h = 6 /\ odd
      \/ cond = 14 /\ h = 7 /\ ~ odd
  OBVIOUS
<1>2. ("N" \in f) \in BOOLEAN /\ ("V" \in f) \in BOOLEAN
  OBVIOUS
<1>3. Condition(cond, f) <=>
        LET base == CASE h = 0 -> "Z" \in f
                      [] h = 1 -> "C" \in f
                      [] h = 2 -> "N" \in f
                      [] h = 3 -> "V" \in f
                      [] h = 4 -> "C" \in f /\ "Z" \notin f
                      [] h = 5 -> ("N" \in f) = ("V" \in f)
                      [] h = 6 -> ("N" \in f) = ("V" \in f) /\ "Z" \notin f
                      [] h = 7 -> TRUE
        IN  IF odd /\ cond # 15 THEN ~ base ELSE base
  BY DEF Condition
<1> HIDE DEF h, odd
<1>4. CASE cond = 0
  BY <1>1, <1>3, <1>4 DEF ConditionHolds
<1>5. CASE cond = 1
  BY <1>1, <1>3, <1>5 DEF ConditionHolds
<1>6. CASE cond = 2
  BY <1>1, <1>3, <1>6 DEF ConditionHolds
<1>7. CASE cond = 3
  BY <1>1, <1>3, <1>7 DEF ConditionHolds
<1>8. CASE cond = 4
  BY <1>1, <1>3, <1>8 DEF ConditionHolds
<1>9. CASE cond = 5
  BY <1>1, <1>3, <1>9 DEF ConditionHolds
<1>10. CASE cond = 6
  BY <1>1, <1>3, <1>10 DEF ConditionHolds
<1>11. CASE cond = 7
  BY <1>1, <1>3, <1>11 DEF ConditionHolds
<1>12. CASE cond = 8
  BY <1>1, <1>3, <1>12 DEF ConditionHolds
<1>13. CASE cond = 9
  BY <1>1, <1>3, <1>13 DEF ConditionHolds
<1>14. CASE cond = 10
  BY <1>1, <1>3, <1>14 DEF ConditionHolds
<1>15. CASE cond = 11
  BY <1>1, <1>3, <1>15 DEF ConditionHolds
<1>16. CASE cond = 12
  BY <1>1, <1>3, <1>16 DEF ConditionHolds
<1>17. CASE cond = 13
  BY <1>1, <1>3, <1>17 DEF ConditionHolds
<1>18. CASE cond = 14
  BY <1>1, <1>3, <1>18 DEF ConditionHolds
<1> QED BY <1>1, <1>4, <1>5, <1>6, <1>7, <1>8, <1>9, <1>10, <1>11, <1>12, <1>13, <1>14, <1>15, <1>16, <1>17, <1>18

(* Optimizing an instruction makes it a move or leaves what it is.         *)
LEMMA OpcodeKept ==
  ASSUME NEW op, NEW f, NEW a, NEW b, NEW c, NEW known
  PROVE  OptStep(IRInst(op, f, a, b, c), known).inst.opcode \in {op, "Mov"}
<1> DEFINE inst == IRInst(op, f, a, RewriteOperand(b, known), RewriteOperand(c, known))
           o == OptStep(IRInst(op, f, a, b, c), known)
<1>1. inst.opcode = op
  BY DEF IRInst
<1>2. \A x : MovOf(inst, x).opcode = "Mov"
  BY DEF MovOf, IRInst
<1>3. \A width : Simplify(inst, width).opcode \in {op, "Mov"}
  <2> HIDE DEF inst
  <2> QED BY <1>1, <1>2 DEF Simplify
<1>4. OptBinop(inst, known).inst.opcode \in {op, "Mov"}
  <2> HIDE DEF inst
  <2> QED BY <1>1, <1>2, <1>3 DEF OptBinop
<1>5. OptShift(inst, known).inst.opcode \in {op, "Mov"}
  <2> HIDE DEF inst
  <2> QED BY <1>1, <1>2 DEF OptShift
<1>6. o.inst \in {inst, OptBinop(inst, known).inst, OptShift(inst, known).inst}
  <2> DEFINE i == IRInst(op, f, a, b, c)
  <2>3. Rewrite(i, known) = inst
    BY Rewritten
  <2> HIDE DEF i, inst
  <2> QED BY <2>3 DEF OptStep, i
<1> HIDE DEF o, inst
<1> QED BY <1>1, <1>4, <1>5, <1>6 DEF o

LEMMA OtherDoesNotEnd ==
  ASSUME NEW w, NEW p, NEW known, EndsBlock(OptStep(LiftOneAt(w, p), known).inst)
  PROVE  w.op \in Branches
<1> SUFFICES ASSUME w.op \notin Branches PROVE FALSE
  OBVIOUS
<1> DEFINE i == LiftOneAt(w, p)
<1>1. /\ i = IRInst(i.opcode, i.flags, i.a, i.b, i.c)
      /\ i.opcode \notin {"Branch", "BranchCond", "Ret"}
  <2>1. CASE w.op \in DataProcessing
    <3>1. i = LiftData(w)
      BY <2>1 DEF LiftOneAt, DataProcessing, VariableShift, Branches
    <3>2. Opcode[w.op] \in Binops
      BY <2>1 DEF DataProcessing, Opcode, Binops
    <3> QED BY <3>1, <3>2 DEF LiftData, IRInst, Binops
  <2>2. CASE w.op \in DOMAIN VariableShift
    <3>1. i = LiftVariableShift(w)
      BY <2>2 DEF LiftOneAt, DataProcessing, VariableShift, Branches
    <3> QED BY <3>1 DEF LiftVariableShift, IRInst
  <2>3. CASE w.op \in {"MOVZ", "MOVN"}
    <3>1. i = LiftMoveWide(w)
      BY <2>3 DEF LiftOneAt, DataProcessing, VariableShift, Branches
    <3> QED BY <3>1 DEF LiftMoveWide, IRInst
  <2>4. CASE w.op \in {"LDR", "STR"}
    <3>1. i = LiftMem(w)
      BY <2>4 DEF LiftOneAt, DataProcessing, VariableShift, Branches
    <3>2. CASE w.op = "LDR"
      BY <3>1, <3>2 DEF LiftMem, IRInst
    <3>3. CASE w.op = "STR"
      BY <3>1, <3>3 DEF LiftMem, IRInst
    <3> QED BY <2>4, <3>2, <3>3
  <2>5. CASE w.op \notin DataProcessing \cup DOMAIN VariableShift
                         \cup {"MOVZ", "MOVN", "LDR", "STR"}
    <3>1. \/ i = IRInst("Nop", FALSE, None, None, None)
          \/ i = IRInst("Unsupported", FALSE, None, None, None)
      BY <2>5 DEF LiftOneAt
    <3> QED BY <3>1 DEF IRInst
  <2> QED BY <2>1, <2>2, <2>3, <2>4, <2>5
<1> HIDE DEF i
<1>2. OptStep(i, known).inst.opcode \in {i.opcode, "Mov"}
  BY <1>1, OpcodeKept
<1> QED BY <1>1, <1>2 DEF EndsBlock, i

(* A branch passes through the optimizer with its operands rewritten.      *)
LEMMA ControlPasses ==
  ASSUME NEW w, w.op \in Branches, NEW p, NEW known
  PROVE  LET i == LiftOneAt(w, p)
             j == OptStep(i, known).inst
         IN  /\ j.opcode = i.opcode /\ j.a = i.a
             /\ j.b = RewriteOperand(i.b, known) /\ j.c = RewriteOperand(i.c, known)
<1> DEFINE i == LiftOneAt(w, p)
           op == i.opcode
           f == i.flags
           a == i.a
           b == i.b
           c == i.c
           inst == IRInst(op, f, a, RewriteOperand(b, known), RewriteOperand(c, known))
<1>1. /\ i = IRInst(op, f, a, b, c)
      /\ i.opcode \in {"Branch", "BranchCond", "Ret"}
      /\ i.opcode # "Ret" => ~ IsGeneral(i.a)
  <2> DEFINE q == LiftBranch(w, p)
  <2>1. i = q
    BY DEF LiftOneAt, Branches, DataProcessing, VariableShift
  <2>2. /\ q = IRInst(q.opcode, q.flags, q.a, q.b, q.c)
        /\ q.opcode \in {"Branch", "BranchCond", "Ret"}
        /\ q.opcode # "Ret" => ~ IsGeneral(q.a)
    BY DEF LiftBranch, Branches, IRInst, IsGeneral, GuestPc
  <2> QED BY <2>1, <2>2
<1>2. /\ inst.opcode = op /\ inst.a = a
      /\ inst.b = RewriteOperand(b, known) /\ inst.c = RewriteOperand(c, known)
  BY DEF IRInst
<1>3. OptStep(i, known).inst = inst
  <2>1. op # "Unsupported" /\ (~ IsGeneral(a) \/ op \in {"Load", "Ret"})
    BY <1>1
  <2>2. i = IRInst(op, f, a, b, c)
    BY <1>1
  <2> HIDE DEF i, op, f, a, b, c
  <2> QED BY <2>1, <2>2, OptStepOf
<1> HIDE DEF i, inst
<1> QED BY <1>2, <1>3 DEF i

LEMMA ConditionBoolean ==
  ASSUME NEW cond \in 0 .. 14, NEW f
  PROVE  ConditionHolds(cond, f) \in BOOLEAN
<1> DEFINE n == "N" \in f
           z == "Z" \in f
           c == "C" \in f
           v == "V" \in f
<1>1. \/ cond = 0 \/ cond = 1 \/ cond = 2 \/ cond = 3 \/ cond = 4
      \/ cond = 5 \/ cond = 6 \/ cond = 7 \/ cond = 8 \/ cond = 9
      \/ cond = 10 \/ cond = 11 \/ cond = 12 \/ cond = 13 \/ cond = 14
  OBVIOUS
<1>2. /\ (~ z) \in BOOLEAN /\ (~ c) \in BOOLEAN /\ (~ n) \in BOOLEAN /\ (~ v) \in BOOLEAN
      /\ (c /\ ~ z) \in BOOLEAN /\ (~ c \/ z) \in BOOLEAN
  OBVIOUS
<1>3. CASE cond = 0
  BY <1>2, <1>3 DEF ConditionHolds
<1>4. CASE cond = 1
  BY <1>2, <1>4 DEF ConditionHolds
<1>5. CASE cond = 2
  BY <1>2, <1>5 DEF ConditionHolds
<1>6. CASE cond = 3
  BY <1>2, <1>6 DEF ConditionHolds
<1>7. CASE cond = 4
  BY <1>2, <1>7 DEF ConditionHolds
<1>8. CASE cond = 5
  BY <1>2, <1>8 DEF ConditionHolds
<1>9. CASE cond = 6
  BY <1>2, <1>9 DEF ConditionHolds
<1>10. CASE cond = 7
  BY <1>2, <1>10 DEF ConditionHolds
<1>11. CASE cond = 8
  BY <1>2, <1>11 DEF ConditionHolds
<1>12. CASE cond = 9
  BY <1>2, <1>12 DEF ConditionHolds
<1>13. CASE cond = 10
  BY <1>2, <1>13 DEF ConditionHolds
<1>14. CASE cond = 11
  BY <1>2, <1>14 DEF ConditionHolds
<1>15. CASE cond = 12
  BY <1>2, <1>15 DEF ConditionHolds
<1>16. CASE cond = 13
  BY <1>2, <1>16 DEF ConditionHolds
<1>17. CASE cond = 14
  BY <1>2, <1>17 DEF ConditionHolds
<1> QED BY <1>1, <1>3, <1>4, <1>5, <1>6, <1>7, <1>8, <1>9, <1>10, <1>11, <1>12, <1>13, <1>14, <1>15, <1>16, <1>17

(* A block leaves for where the architecture goes.  The two exceptions are *)
(* a return through another register than the link register and B.NV.      *)
LEMMA InstructionExits ==
  ASSUME NEW known \in Known, NEW st \in GuestState,
         NEW w, WellFormed(w), NEW p \in Int,
         w.op = "RET" => w.rn = LR, w.op = "BCOND" => w.cond # 15,
         CanEmit(OptStep(LiftOneAt(w, p), known).inst),
         Sound(known, st),
         EndsBlock(OptStep(LiftOneAt(w, p), known).inst)
  PROVE  ExitPc(OptStep(LiftOneAt(w, p), known).inst, st, p + 1) = ArmNextPc(w, st, p)
<1> DEFINE i == LiftOneAt(w, p)
           rb == RewriteOperand(i.b, known)
           rc == RewriteOperand(i.c, known)
           j == OptStep(i, known).inst
<1>1. w.op \in Branches
  BY OtherDoesNotEnd
<1>2. j.opcode = i.opcode /\ j.a = i.a /\ j.b = rb /\ j.c = rc
  BY <1>1, ControlPasses
<1>3. i = LiftBranch(w, p)
  BY <1>1 DEF LiftOneAt, Branches, DataProcessing, VariableShift
<1>4. CanEmit(j)
  OBVIOUS
<1>5. CASE w.op = "B"
  <2>1. i.opcode = "Branch" /\ i.a.pc = p + w.offset
    BY <1>3, <1>5 DEF LiftBranch, IRInst, GuestPc
  <2> HIDE DEF i, j
  <2>2. ExitPc(j, st, p + 1) = <<"at", p + w.offset>>
    BY <1>2, <2>1 DEF ExitPc
  <2>3. ArmNextPc(w, st, p) = <<"at", p + w.offset>>
    BY <1>5 DEF ArmNextPc
  <2> QED BY <2>2, <2>3 DEF j, i
<1>6. CASE w.op = "BCOND"
  <2> DEFINE taken == ConditionHolds(w.cond, st.nzcv)
  <2>1. /\ i.opcode = "BranchCond" /\ i.a.pc = p + w.offset
        /\ i.b = Imm(w.cond) /\ i.c = None
    BY <1>3, <1>6 DEF LiftBranch, IRInst, GuestPc
  <2>2. rb = Imm(w.cond)
    BY <2>1 DEF RewriteOperand, IsGeneral, Imm
  <2>3. rb.t = "Imm" /\ rb.v = w.cond
    BY <2>2 DEF Imm
  <2>4. w.cond \in 0 .. 14
    BY <1>6 DEF WellFormed
  <2>5. taken <=> Condition(w.cond, st.nzcv)
    BY <2>4, ConditionsAgree
  <2>6. taken \in BOOLEAN
    BY <2>4, ConditionBoolean
  <2> HIDE DEF i, j, rb
  <2>7. ExitPc(j, st, p + 1) = BranchCode(taken, p + w.offset, p + 1)
    BY <1>2, <2>1, <2>3 DEF ExitPc
  <2> HIDE DEF taken
  <2>8. ExitPc(j, st, p + 1) = <<"at", IF taken THEN p + w.offset ELSE p + 1>>
    BY <2>6, <2>7, BranchGoes
  <2>9. ArmNextPc(w, st, p) =
          <<"at", IF Condition(w.cond, st.nzcv) THEN p + w.offset ELSE p + 1>>
    BY <1>6 DEF ArmNextPc
  <2> QED BY <2>5, <2>8, <2>9 DEF j, i
<1>7. CASE w.op \in {"CBZ", "CBNZ"}
  <2> DEFINE r == Reg(w.rt, w.width)
             n == IF w.op = "CBZ" THEN 0 ELSE 1
             zero == ReadReg(st, r) = {}
             taken == zero = (n = 0)
  <2>1. /\ i.opcode = "BranchCond" /\ i.a.pc = p + w.offset
        /\ i.b = RegOp(r) /\ i.c = Imm(n)
    BY <1>3, <1>7 DEF LiftBranch, IRInst, GuestPc
  <2>2. rc = Imm(n)
    BY <2>1 DEF RewriteOperand, IsGeneral, Imm
  <2>3. rc.t = "Imm" /\ rc.v = n
    BY <2>2 DEF Imm
  <2> HIDE DEF i, j, rc
  <2>4. rb.t = "Reg"
    <3> HIDE DEF rb
    <3> QED BY <1>2, <1>4, <2>1, <2>3 DEF CanEmit, Binops
  <2>5. rb = RegOp(r)
    BY <2>1, <2>4 DEF RewriteOperand, Imm
  <2>6. rb.t = "Reg" /\ rb.r = r
    BY <2>5 DEF RegOp
  <2> HIDE DEF rb
  <2>7. ExitPc(j, st, p + 1) = BranchCode(taken, p + w.offset, p + 1)
    BY <1>2, <2>1, <2>3, <2>6 DEF ExitPc
  <2>8. taken \in BOOLEAN
    OBVIOUS
  <2>9. taken <=> IF w.op = "CBZ" THEN zero ELSE ~ zero
    OBVIOUS
  <2>10. ArmNextPc(w, st, p) =
          <<"at", IF (IF w.op = "CBZ" THEN zero ELSE ~ zero) THEN p + w.offset ELSE p + 1>>
    BY <1>7 DEF ArmNextPc
  <2> HIDE DEF taken, zero
  <2>11. ExitPc(j, st, p + 1) = <<"at", IF taken THEN p + w.offset ELSE p + 1>>
    BY <2>7, <2>8, BranchGoes
  <2> QED BY <2>9, <2>10, <2>11 DEF j, i
<1>8. CASE w.op = "RET"
  <2>1. i.opcode = "Ret"
    BY <1>3, <1>8 DEF LiftBranch, IRInst
  <2> HIDE DEF i, j
  <2>2. ExitPc(j, st, p + 1) = <<"reg", ReadReg(st, Reg(LR, "X64"))>>
    BY <1>2, <2>1 DEF ExitPc
  <2>3. ArmNextPc(w, st, p) = <<"reg", ReadReg(st, Reg(w.rn, "X64"))>>
    BY <1>8 DEF ArmNextPc
  <2> QED BY <1>8, <2>2, <2>3 DEF j, i
<1> QED BY <1>1, <1>5, <1>6, <1>7, <1>8 DEF Branches
=============================================================================
