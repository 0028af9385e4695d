---------------------------- MODULE GuestMemory ----------------------------
(***************************************************************************)
(* runtime/memory.rs: the one region of a process that translated code     *)
(* uses as guest memory, mapped at the fixed host address HOST_BASE.       *)
(* Guest addresses and sizes are u64 (and usize) values below AddrMod.     *)
(* mmap, munmap and the kernel behind them are external.                   *)
(***************************************************************************)
EXTENDS Integers, Sequences

CONSTANTS
  AddrMod,    \* 2^64
  WordBytes,  \* bytes of an instruction word, 4
  Byte        \* the byte values that occur

ASSUME GuestMemoryAssumption ==
  /\ AddrMod \in Nat /\ WordBytes \in Nat \ {0} /\ WordBytes < AddrMod
  /\ 0 \in Byte

VARIABLE host   \* the bytes mapped at HOST_BASE, indexed by guest address

Unmapped == [a \in {} |-> 0]
Zeroed(size) == [a \in 0 .. size - 1 |-> 0]

(* The possible contents of HOST_BASE. *)
IsRegion(h) ==
  /\ h \in [DOMAIN h -> Byte]
  /\ \E n \in 0 .. AddrMod - 1 : DOMAIN h = 0 .. n - 1

GuestAddress == 0 .. AddrMod - 1

(* GuestMemory::map got HOST_BASE: MAP_FIXED_NOREPLACE does not replace a  *)
(* mapping, and anonymous pages are zero.                                  *)
MapOk(size) ==
  /\ size > 0
  /\ host = Unmapped
  /\ host' = Zeroed(size)

(* Why it may fail.  A kernel that takes the address as a hint may map     *)
(* elsewhere, and that mapping is given back at once ("moved").            *)
MapErrors(size) ==
  IF size = 0 THEN {"zero"}
  ELSE {"nomem", "moved"} \cup IF host = Unmapped THEN {} ELSE {"exists"}

(* The bounds test of write_bytes, read_u32 and write_u32: len bytes at    *)
(* the address at.                                                         *)
InBounds(at, len, size) == at + len < AddrMod /\ at + len <= size

(* write_bytes, once its bounds test has passed. *)
Written(at, data) ==
  [a \in DOMAIN host |->
     IF a \in at .. at + Len(data) - 1 THEN data[a - at + 1] ELSE host[a]]

(* read_u32, once its assertion has passed. *)
ReadWord(at) == [i \in 1 .. WordBytes |-> host[at + i - 1]]

(* Drop. *)
Unmap == host' = Unmapped
=============================================================================
