---------------------------- MODULE MCTranslator ----------------------------
(* Two general registers X0 and X1, of which X1 is the link register, W    *)
(* registers of 2 bits and X registers of 4.                               *)
EXTENDS Translator

CONSTANTS X0Values, SPValues

MCStates ==
  [x : {[r \in GPR |-> IF r = 0 THEN v ELSE {1, 3}] : v \in X0Values},
   sp : SPValues, nzcv : {{}, {"C", "V"}},
   mem : {[a \in XWord |-> IF 1 \in a THEN {0} ELSE {1}]}]

MCX0Values == {{}, {0, 2}, {0, 1, 2, 3}, {1, 2}}
MCSPValues == {{0, 3}}

Data(op, s, width, rd, rn, rm) ==
  [op |-> op, s |-> s, width |-> width, rd |-> rd, rn |-> rn, rm |-> rm]
RmImm(v) == [t |-> "imm", v |-> v]
RmReg(n) == [t |-> "reg", n |-> n]
RmShifted(n, kind, k) == [t |-> "regsh", n |-> n, kind |-> kind, amount |-> k]
Var(op, width, rd, rn, rm) ==
  [op |-> op, width |-> width, rd |-> rd, rn |-> rn, rm |-> rm]
Movz(width, rd, v) == [op |-> "MOVZ", width |-> width, rd |-> rd, v |-> v]

(* What makes and ends constants. *)
Moves ==
  {Movz("X64", 0, {0, 1}), Movz("W32", 0, {1}), Movz("X64", 1, {0, 2}),
   Movz("X64", R31, {0}), [op |-> "MOVN", width |-> "X64", rd |-> 1, v |-> {0}],
   [op |-> "MOVN", width |-> "W32", rd |-> 0, v |-> {}],
   [op |-> "LDR", width |-> "X64", rt |-> 0, rn |-> 1, offset |-> {1}],
   [op |-> "LDR", width |-> "W32", rt |-> 1, rn |-> R31, offset |-> {}]}

(* Arithmetic and logic in both widths: immediates, identities, shifted    *)
(* operands, SP and the zero register.                                     *)
Arithmetic ==
  {w \in UNION {{Data(op, s, "X64", 0, 1, RmImm({0, 1})), Data(op, s, "W32", 1, 0, RmImm({1})),
          Data(op, s, "X64", 0, 0, RmReg(0)), Data(op, s, "W32", 0, 1, RmReg(0)),
          Data(op, s, "X64", R31, 1, RmReg(0)), Data(op, s, "X64", 1, R31, RmReg(0)),
          Data(op, s, "X64", 0, 1, RmShifted(0, "Asr", 2))} :
         op \in DataProcessing, s \in BOOLEAN} :
   w.s => w.op \in {"ADD", "SUB", "AND"}}
  \cup {Data(op, FALSE, "X64", R31, R31, RmImm({0})) : op \in DataProcessing}
  \cup {Data("ADD", FALSE, "X64", 1, R31, RmImm({})),
        Data("ADD", FALSE, "W32", 0, 1, [t |-> "immsh", v |-> {0}, amount |-> 1]),
        Data("ADD", FALSE, "X64", 0, 1, [t |-> "ext", n |-> 0]),
        Data("SUB", TRUE, "W32", 1, 0, RmShifted(1, "Ror", 1)),
        Data("ORR", FALSE, "X64", 0, R31, RmShifted(1, "Lsr", 0)),
        Data("AND", FALSE, "X64", 0, 0, RmImm({0, 1, 2, 3})),
        Data("ORR", FALSE, "W32", 0, 0, RmImm({0, 1}))}

Shifts ==
  UNION {{Var(op, "X64", 0, 0, 1), Var(op, "X64", 1, 1, 0)} : op \in DOMAIN VariableShift}
  \cup {Var(op, "W32", 0, 1, 0) : op \in {"LSLV", "LSRV", "ASRV"}}

Memory ==
  {[op |-> "STR", width |-> "X64", rt |-> 0, rn |-> 1, offset |-> {1}],
   [op |-> "STR", width |-> "W32", rt |-> 1, rn |-> R31, offset |-> {}],
   [op |-> "LDR", width |-> "X64", rt |-> R31, rn |-> R31, offset |-> {}]}

Jumps ==
  {[op |-> "B", offset |-> -2], [op |-> "RET", rn |-> LR], [op |-> "NOP"], [op |-> "SVC"]}
  \cup {[op |-> "BCOND", offset |-> 3, cond |-> c] : c \in 0 .. 14}
  \cup {[op |-> o, width |-> w, rt |-> r, offset |-> 0] :
          o \in {"CBZ", "CBNZ"}, w \in Widths, r \in {0, R31}}

MCInsts == Moves \cup Arithmetic \cup Shifts \cup Memory \cup Jumps

(* A few of each, for longer blocks. *)
MCFew ==
  Moves \cup
  {Data("ADD", FALSE, "X64", 0, 1, RmImm({0, 1})), Data("SUB", TRUE, "W32", 1, 0, RmReg(1)),
   Data("EOR", FALSE, "W32", 0, 0, RmReg(1)), Data("ORR", FALSE, "X64", 1, 1, RmImm({3})),
   Data("ADD", FALSE, "X64", R31, R31, RmImm({0})), Var("LSLV", "X64", 0, 0, 1),
   Var("ASRV", "W32", 1, 0, 1),
   [op |-> "STR", width |-> "X64", rt |-> 0, rn |-> 1, offset |-> {1}],
   [op |-> "CBZ", width |-> "W32", rt |-> 0, offset |-> 2]}

(* The 32-bit rotation of a register by a register. *)
MCRotate == {Movz("W32", 0, {0, 1}), Movz("W32", 1, {0}), Var("RORV", "W32", 0, 0, 1)}

(* A return through another register than the link register. *)
MCReturn == {Movz("X64", 0, {0, 1}), [op |-> "RET", rn |-> 0]}
=============================================================================
