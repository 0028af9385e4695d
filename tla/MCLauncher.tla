---------------------------- MODULE MCLauncher ----------------------------
(* A small instruction set and every program of three words over it: a     *)
(* counter register x, X30, stores into the program itself, and a branch   *)
(* of every kind, into the program, to the exit sentinel and out of        *)
(* memory.                                                                 *)
EXTENDS Launcher, TLC

CONSTANTS XMax, Links, Branches, Stores

Op(k, o, f) == [k |-> k, o |-> o, f |-> f, v |-> 0]

MCZero == Op("Undef", 0, "udf")
Patch == Op("RET", 0, "ret")

MCWord ==
  {MCZero, Patch, Op("Plain", 0, "nop"), Op("Plain", 0, "dec"),
   Op("Other", 0, "svc"), Op("Call", 0, "bl")}
  \cup {[k |-> "Plain", o |-> 0, f |-> "link", v |-> n] : n \in Links}
  \cup {[k |-> "Plain", o |-> 0, f |-> "store", v |-> n] : n \in Stores}
  \cup {Op("B", n, "b") : n \in Branches}
  \cup {Op("Bcond", n, "cbnz") : n \in Branches}

MCGState == [x : 0 .. XMax, lr : Links \cup {0}]

MCEffect(w, g) ==
  CASE w.f = "dec"  -> [g EXCEPT !.x = (@ + XMax) % (XMax + 1)]
    [] w.f = "link" -> [g EXCEPT !.lr = w.v]
    [] OTHER        -> g
MCStored(w, g) == IF w.f = "store" THEN w.v :> Patch ELSE <<>>
MCTaken(w, g) == g.x # 0
MCLink(g) == g.lr

MCBranches == {-2, -1, 1, 2}
MCEntries == {0, 1, 2, 4, -1}

(* Address 0 holds a NOP; the sentinel stops the loop before it runs.      *)
MCImages == {m \in [Addr -> MCWord] : m[0] = Op("Plain", 0, "nop")}
=============================================================================
