------------------------- MODULE MCDispatcherClient -------------------------
(* Two guest PCs and the smallest slices of each shape: straight-line, a   *)
(* branch to itself, one to the next PC, one that is refused, and none.    *)
EXTENDS DispatcherClient

Op(k, o) == [k |-> k, o |-> o]

MCZero == Op("Undef", 0)
MCWord == {MCZero, Op("Plain", 0), Op("Other", 0), Op("RET", 0)}
          \cup {Op("B", n) : n \in {0, 1}} \cup {Op("Bcond", n) : n \in {-1, 0}}
MCGState == {0, 1}
MCEffect(w, g) == IF w.k = "Plain" THEN 1 - g ELSE g
MCStored(w, g) == [a \in {} |-> MCZero]
MCTaken(w, g) == g = 1
MCLink(g) == 0
MCImages == [Addr -> {MCZero}]

MCSlices ==
  {<<>>, <<Op("Plain", 0)>>, <<Op("B", 0)>>, <<Op("B", 1), Op("Plain", 0)>>,
   <<Op("Plain", 0), Op("Bcond", -1)>>, <<Op("Other", 0)>>}
=============================================================================
