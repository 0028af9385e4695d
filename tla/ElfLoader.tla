----------------------------- MODULE ElfLoader -----------------------------
(***************************************************************************)
(* elf.rs: load and load_bytes, called by any number of threads of one     *)
(* process, which share the address range at HOST_BASE.  An ELF file is    *)
(* what the object crate hands over: the architecture, the entry point and *)
(* the PT_LOAD segments with their address, memory size and file bytes.    *)
(* Parsing and the first pass over the segments touch nothing shared and   *)
(* are one step; each segment of the second pass is a step.                *)
(***************************************************************************)
EXTENDS GuestMemory, FiniteSetsExt

CONSTANTS
  Loader,      \* threads that load programs or map memory
  Files,       \* the ELF files that occur
  PageSize,    \* PAGE_SIZE, 4096
  StackSize,   \* DEFAULT_STACK_SIZE, 8 MiB
  Slack,       \* ADDRESS_SPACE_SLACK, 16 MiB
  DirectSizes  \* sizes other callers of GuestMemory::map ask for

Segment ==
  [address : GuestAddress, size : GuestAddress, data : Seq(Byte), readable : BOOLEAN]

ASSUME ElfLoaderAssumption ==
  /\ PageSize \in Nat \ {0} /\ StackSize \in Nat /\ Slack \in Nat
  /\ DirectSizes \subseteq GuestAddress
  /\ \A f \in Files : f.entry \in GuestAddress /\ f.segs \in Seq(Segment)

VARIABLE call   \* per thread: where its call is, and what it returned

evars == <<host, call>>

NoFile == [arch |-> "none", entry |-> 0, segs |-> <<>>]
Returned(err) ==
  [phase |-> "idle", file |-> NoFile, size |-> 0, next |-> 0, err |-> err]

Init == host = Unmapped /\ call = [l \in Loader |-> Returned("none")]
-----------------------------------------------------------------------------
(* The first pass: where the segments end, and how much memory to map.     *)

Occupied(file) == {i \in DOMAIN file.segs : file.segs[i].size > 0}
End(s) == s.address + s.size

(* A deliberately wrong MaxEnd: the end of the last segment, as if they    *)
(* were sorted. *)
MaxEnd_Last(file) == End(file.segs[Max(Occupied(file))])

MaxEnd(file) == Max({End(file.segs[i]) : i \in Occupied(file)})

AlignUp(v) == ((v + PageSize - 1) \div PageSize) * PageSize

(* A deliberately wrong MemorySize: no slack above the stack. *)
MemorySize_NoSlack(file) == AlignUp(MaxEnd(file)) + StackSize

(* A deliberately wrong MemorySize: the image's end is not aligned.        *)
MemorySize_Unaligned(file) == MaxEnd(file) + StackSize + Slack

MemorySize(file) == AlignUp(MaxEnd(file)) + StackSize + Slack

(* No addition on the way overflows. *)
LayoutOk(file) ==
  /\ Occupied(file) # {}
  /\ MaxEnd(file) < AddrMod
  /\ MaxEnd(file) + PageSize - 1 < AddrMod
  /\ MemorySize(file) < AddrMod
-----------------------------------------------------------------------------
(* The calls. *)

Fails(l, err) == call' = [call EXCEPT ![l] = Returned(err)]

(* fs::read or File::parse fails. *)
Unreadable(l) ==
  /\ call[l].phase = "idle"
  /\ Fails(l, "parse")
  /\ UNCHANGED host

Start(l, file) ==
  /\ call[l].phase = "idle"
  /\ IF file.arch # "Aarch64" THEN Fails(l, "architecture")
     ELSE IF ~ LayoutOk(file) THEN Fails(l, "segment")
     ELSE call' = [call EXCEPT ![l] = [@ EXCEPT !.phase = "map", !.file = file,
                                       !.size = MemorySize(file), !.err = "none"]]
  /\ UNCHANGED host

(* A deliberately wrong MapImage: where the mapping landed is not looked   *)
(* at. *)
MapImage_Anywhere(l) ==
  /\ call[l].phase = "map"
  /\ call' = [call EXCEPT ![l].phase = "copy", ![l].next = 1]
  /\ MapOk(call[l].size) \/ UNCHANGED host

MapImage(l) ==
  /\ call[l].phase = "map"
  /\ \/ /\ MapOk(call[l].size)
        /\ call' = [call EXCEPT ![l].phase = "copy", ![l].next = 1]
     \/ /\ \E err \in MapErrors(call[l].size) : Fails(l, err)
        /\ UNCHANGED host

Current(l) == call[l].file.segs[call[l].next]

(* What is wrong with a segment, in the order in which the code looks.     *)
SegmentError(s, size) ==
  IF ~ s.readable THEN "data"
  ELSE IF Len(s.data) > s.size THEN "segment"
  ELSE IF ~ InBounds(s.address, Len(s.data), size) THEN "outside"
  ELSE "none"

(* A deliberately wrong CopyFails: the error returns without the drop of   *)
(* the memory. *)
CopyFails_Leak(l) ==
  /\ call[l].phase = "copy"
  /\ LET err == SegmentError(Current(l), call[l].size)
     IN  err # "none" /\ Fails(l, err)
  /\ UNCHANGED host

(* The error returns from load_bytes, and memory is dropped on the way.    *)
CopyFails(l) ==
  /\ call[l].phase = "copy"
  /\ LET err == SegmentError(Current(l), call[l].size)
     IN  err # "none" /\ Fails(l, err)
  /\ Unmap

(* A deliberately wrong Copy: runs past the last segment. *)
Copy_OffByOne(l) ==
  /\ call[l].phase = "copy"
  /\ SegmentError(Current(l), call[l].size) = "none"
  /\ host' = Written(Current(l).address, Current(l).data)
  /\ call' = [call EXCEPT ![l].next = @ + 1,
                          ![l].phase = IF call[l].next > Len(call[l].file.segs)
                                       THEN "loaded" ELSE "copy"]

(* A deliberately wrong Copy: spins on a segment without file bytes.       *)
Copy_Stuck(l) ==
  /\ call[l].phase = "copy"
  /\ SegmentError(Current(l), call[l].size) = "none"
  /\ Current(l).data # <<>>
  /\ host' = Written(Current(l).address, Current(l).data)
  /\ call' = [call EXCEPT ![l].next = @ + 1,
                          ![l].phase = IF call[l].next = Len(call[l].file.segs)
                                       THEN "loaded" ELSE "copy"]

(* One segment is copied; after the last one the image is handed over.     *)
Copy(l) ==
  /\ call[l].phase = "copy"
  /\ SegmentError(Current(l), call[l].size) = "none"
  /\ host' = Written(Current(l).address, Current(l).data)
  /\ call' = [call EXCEPT ![l].next = @ + 1,
                          ![l].phase = IF call[l].next = Len(call[l].file.segs)
                                       THEN "loaded" ELSE "copy"]

(* GuestMemory::map called by itself, as bin/smoke.rs does. *)
MapDirect(l, size) ==
  /\ call[l].phase = "idle"
  /\ \/ /\ MapOk(size)
        /\ call' = [call EXCEPT ![l] = [Returned("none") EXCEPT !.phase = "loaded",
                                                                !.size = size]]
     \/ /\ \E err \in MapErrors(size) : Fails(l, err)
        /\ UNCHANGED host

(* The LoadedElf, or the GuestMemory, is dropped. *)
Release(l) ==
  /\ call[l].phase = "loaded"
  /\ Fails(l, "none")
  /\ Unmap

Loading(l) == MapImage(l) \/ CopyFails(l) \/ Copy(l)

Next ==
  \E l \in Loader :
    \/ Unreadable(l) \/ \E file \in Files : Start(l, file)
    \/ Loading(l)
    \/ \E size \in DirectSizes : MapDirect(l, size)
    \/ Release(l)

Spec == Init /\ [][Next]_evars

(* A call of load runs to its end; nobody has to make or drop one.         *)
FairSpec == Spec /\ \A l \in Loader : WF_evars(Loading(l))

Phases == {"idle", "map", "copy", "loaded"}
LoadErrors == {"none", "parse", "architecture", "segment", "data", "outside",
               "zero", "nomem", "moved", "exists"}

TypeOK ==
  /\ IsRegion(host)
  /\ \A l \in Loader :
       /\ call[l].phase \in Phases /\ call[l].err \in LoadErrors
       /\ call[l].file \in Files \cup {NoFile}
       /\ call[l].size \in GuestAddress
       /\ call[l].phase = "copy" => call[l].next \in DOMAIN call[l].file.segs
-----------------------------------------------------------------------------
Holding(l) == call[l].phase \in {"copy", "loaded"}

(* Guest memory is mapped exactly while one call or its result holds it,   *)
(* with the size that holder believes in: an error half-way through the    *)
(* segments leaves no mapping behind, and two loaders never share one      *)
(* (elf.rs:97-109, memory.rs:18-38, :80-83).                               *)
Exclusive ==
  /\ \A l, k \in Loader : Holding(l) /\ Holding(k) => l = k
  /\ IF \E l \in Loader : Holding(l)
     THEN \A l \in Loader : Holding(l) => DOMAIN host = 0 .. call[l].size - 1
     ELSE host = Unmapped

(* The load service, as its callers see it: memory exists for them once a  *)
(* call has returned it.                                                   *)
Loaded(l) == call[l].phase = "loaded"

Held ==
  [l \in Loader |->
     IF ~ Loaded(l) THEN [what |-> "nothing"]
     ELSE IF call[l].file = NoFile THEN [what |-> "blank"]
     ELSE [what |-> "program", file |-> call[l].file]]

Image == IF \E l \in Loader : Loaded(l) THEN host ELSE Unmapped

L == INSTANCE LoadService WITH holding <- Held, image <- Image

(* Loading is all or nothing, whatever other threads load meanwhile: the   *)
(* image appears at once, every byte that of the last segment covering it  *)
(* or zero, with room for the stack above it (elf.rs:55-59, :97-109).      *)
ImplementsLoads == L!Spec

(* Every call of load returns (elf.rs:60-116). *)
LoadEnds ==
  \A l \in Loader :
    (call[l].phase \in {"map", "copy"}) ~> (call[l].phase \in {"idle", "loaded"})

(* The two passes agree: once memory is mapped, no segment with memory of   *)
(* its own is found to be outside of it.  Only an empty one can be: the    *)
(* first pass skips it and the second does not (elf.rs:77, :88-97, :107).  *)
OutsideOnlyEmpty ==
  [][\A l \in Loader :
       call[l].phase = "copy" /\ call'[l].err = "outside" => Current(l).size = 0]_evars
=============================================================================
