---------------------------- MODULE LoadService ----------------------------
(***************************************************************************)
(* What loading a program promises: all of the program is in guest memory, *)
(* or nothing is; at most one program is in memory at any time, and nobody *)
(* but its holder can touch it.                                            *)
(***************************************************************************)
EXTENDS Integers, Sequences, FiniteSetsExt

CONSTANTS
  Loader,     \* who may load
  Files,      \* the ELF files that occur
  AddrMod,    \* addresses are below it
  StackSize   \* bytes of memory every program gets above its segments

VARIABLES
  holding,    \* per loader: the Program it holds, Blank memory, or Nothing
  image       \* the contents of memory by address, empty when nobody holds it

svars == <<holding, image>>

Nothing == [what |-> "nothing"]
Blank == [what |-> "blank"]
Program(file) == [what |-> "program", file |-> file]

Init == holding = [l \in Loader |-> Nothing] /\ image = [a \in {} |-> 0]

Free == \A l \in Loader : holding[l] = Nothing

(* An address belongs to the last segment whose bytes cover it; the rest   *)
(* of memory, BSS included, is zero.                                       *)
Covering(file, a) ==
  {i \in DOMAIN file.segs :
     a \in file.segs[i].address .. file.segs[i].address + Len(file.segs[i].data) - 1}

ByteAt(file, a) ==
  IF Covering(file, a) = {} THEN 0
  ELSE LET s == file.segs[Max(Covering(file, a))] IN s.data[a - s.address + 1]

(* A file that may be loaded: all of it can be read, and no segment has    *)
(* more bytes in the file than in memory.                                  *)
WellFormed(file) ==
  /\ file.arch = "Aarch64"
  /\ \A i \in DOMAIN file.segs :
       file.segs[i].readable /\ Len(file.segs[i].data) <= file.segs[i].size
  /\ \E i \in DOMAIN file.segs : file.segs[i].size > 0

(* Memory holds every segment whole, and a stack above them. *)
Roomy(file, n) ==
  \A i \in DOMAIN file.segs :
    file.segs[i].size > 0 => file.segs[i].address + file.segs[i].size + StackSize <= n

Load(l, file) ==
  /\ holding' = [holding EXCEPT ![l] = Program(file)]
  /\ Free /\ WellFormed(file)
  /\ \E n \in 1 .. AddrMod - 1 :
       /\ DOMAIN image' = 0 .. n - 1
       /\ Roomy(file, n)
       /\ image' = [a \in 0 .. n - 1 |-> ByteAt(file, a)]

(* A memory without a program in it. *)
Reserve(l) ==
  /\ holding' = [holding EXCEPT ![l] = Blank]
  /\ Free
  /\ \E n \in 1 .. AddrMod - 1 : image' = [a \in 0 .. n - 1 |-> 0]

Release(l) ==
  /\ holding[l] # Nothing
  /\ holding' = [holding EXCEPT ![l] = Nothing]
  /\ image' = [a \in {} |-> 0]

Next ==
  \E l \in Loader :
    Release(l) \/ Reserve(l) \/ \E file \in Files : Load(l, file)

Spec == Init /\ [][Next]_svars
=============================================================================
