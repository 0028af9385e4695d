----------------------------- MODULE MCDecoder -----------------------------
(* Both ends of every field, and every pattern of the ten leading bits.    *)
EXTENDS Decoder

MCOffsets == {0, 1, -1, 5, 2 ^ 18 - 1, -(2 ^ 18)}
MCRegs == {0, 30, 31}
MCHalves == {{}, {0}, {15}, 0 .. 15}
MCImm12 == {{}, {0}, {11}, 0 .. 11}

MCSamples ==
  {[op |-> "BCOND", offset |-> o, cond |-> c] : o \in MCOffsets, c \in 0 .. 15}
  \cup {[op |-> op, width |-> w, rt |-> r, offset |-> o] :
          op \in {"CBZ", "CBNZ"}, w \in Widths, r \in MCRegs, o \in MCOffsets}
  \cup {[op |-> op, width |-> w, rd |-> r, v |-> Shift("Lsl", h, 16 * hw, w)] :
          op \in {"MOVZ", "MOVN"}, w \in Widths, r \in MCRegs, h \in MCHalves, hw \in 0 .. 3}
  \cup {[op |-> op, width |-> w, rt |-> r, rn |-> n,
         offset |-> Shift("Lsl", i, IF w = "X64" THEN 3 ELSE 2, "X64")] :
          op \in {"LDR", "STR"}, w \in Widths, r \in MCRegs, n \in MCRegs, i \in MCImm12}

MCRawWords ==
  {top \cup low : top \in SUBSET (22 .. 31), low \in {{}, {4}, {21, 10, 0}}}

MCPcs == {0, 1024}
=============================================================================
