----------------------------- MODULE MCMachine -----------------------------
(* Programs of three instructions that make, use, overwrite, store and     *)
(* load constants, and that loop, return through X30 and fall through.     *)
EXTENDS Machine

MCStates ==
  [x : {[r \in GPR |-> IF r = 0 THEN v ELSE {}] : v \in {{0, 1}, {1, 3}}},
   sp : {{3}}, nzcv : {{}},
   mem : {[a \in XWord |-> IF 1 \in a THEN {0} ELSE {1}]}]

Data(op, s, width, rd, rn, rm) ==
  [op |-> op, s |-> s, width |-> width, rd |-> rd, rn |-> rn, rm |-> rm]
RmImm(v) == [t |-> "imm", v |-> v]
RmReg(n) == [t |-> "reg", n |-> n]

MCBody ==
  {[op |-> "MOVZ", width |-> "X64", rd |-> 1, v |-> {0}],
   [op |-> "MOVN", width |-> "W32", rd |-> 1, v |-> {}],
   Data("ADD", FALSE, "X64", 0, 0, RmReg(1)), Data("SUB", TRUE, "X64", 0, 0, RmImm({0})),
   Data("EOR", FALSE, "W32", 0, 0, RmReg(1)), Data("ORR", FALSE, "X64", 1, R31, RmReg(0)),
   [op |-> "LSLV", width |-> "X64", rd |-> 0, rn |-> 0, rm |-> 1],
   [op |-> "LDR", width |-> "W32", rt |-> 1, rn |-> 0, offset |-> {}],
   [op |-> "STR", width |-> "X64", rt |-> 0, rn |-> R31, offset |-> {}],
   [op |-> "CBNZ", width |-> "W32", rt |-> 0, offset |-> 2]}

MCLast ==
  {[op |-> "B", offset |-> -2], [op |-> "CBNZ", width |-> "X64", rt |-> 0, offset |-> -2],
   [op |-> "BCOND", offset |-> -1, cond |-> 1], [op |-> "RET", rn |-> LR]}

MCInsts == MCBody \cup MCLast
MCPrograms ==
  {p \in [Addr -> MCInsts] : p[0] \in MCBody /\ p[1] \in MCBody /\ p[2] \in MCLast}
=============================================================================
