---------------------------- MODULE LoadingProofs ----------------------------
(***************************************************************************)
(* The loader first: for any number of threads that load any ELF files,    *)
(* with any page and stack sizes, guest memory has one holder at most, an  *)
(* error leaves none, and what a finished load hands over is the whole     *)
(* image of its file, as LoadService describes it.                         *)
(*                                                                         *)
(* Then the process around it: for every PC the guest may jump to and      *)
(* every layout of whole pages the launcher's fetch reads the program and  *)
(* cannot fail, the first stack pointer leaves the stack reserve clear, and*)
(* guest memory is given back however the program ends.                    *)
(***************************************************************************)
EXTENDS Process, WellFoundedInduction, SequenceTheorems, TLAPS

USE GuestMemoryAssumption, ElfLoaderAssumption
-----------------------------------------------------------------------------
(* Max is the greatest element of a bounded set of naturals.               *)
LEMMA MaxProperties ==
  ASSUME NEW S \in SUBSET Nat, S # {}, NEW b \in Nat, \A x \in S : x <= b
  PROVE  Max(S) \in S /\ \A y \in S : y <= Max(S)
<1> DEFINE T == {b - x : x \in S}
           R == OpToRel(<, Nat)
<1>1. \A x \in S : x \in Nat /\ b - x \in T /\ b - x \in Nat
  OBVIOUS
<1>2. T \subseteq Nat /\ T # {}
  BY <1>1
<1>3. PICK m \in T : \A t \in T : ~ (<<t, m>> \in R)
  BY <1>2, NatLessThanWellFounded, WFMin
<1>4. \A t \in T : ~ (t < m)
  <2>1. \A t \in T : t < m => <<t, m>> \in R
    BY <1>2 DEF OpToRel
  <2> QED BY <1>3, <2>1
<1>5. PICK x \in S : m = b - x
  BY <1>3
<1> HIDE DEF T, R
<1>6. ASSUME NEW y \in S PROVE x >= y
  <2>1. ~ (b - y < b - x)
    BY <1>1, <1>4, <1>5
  <2>2. x \in Nat /\ y \in Nat
    BY <1>1
  <2> QED BY <2>1, <2>2
<1>7. Max(S) \in S /\ \A y \in S : Max(S) >= y
  BY <1>6 DEF Max
<1> QED BY <1>1, <1>7

(* Rounding up to a page: the next multiple of the page size. *)
LEMMA AlignUpProperties ==
  ASSUME NEW v \in Nat
  PROVE  /\ AlignUp(v) \in Nat /\ v <= AlignUp(v)
         /\ \E k \in Nat : AlignUp(v) = k * PageSize
<1> DEFINE n == v + PageSize - 1
           k == n \div PageSize
<1>1. PageSize \in Nat \ {0} /\ n \in Nat
  OBVIOUS
<1>2. k \in Nat /\ n % PageSize \in 0 .. PageSize - 1
      /\ n = PageSize * k + (n % PageSize)
  BY <1>1
<1>3. k * PageSize = PageSize * k /\ k * PageSize \in Nat
  BY <1>1, <1>2
<1>4. v <= k * PageSize
  BY <1>1, <1>2, <1>3
<1> QED BY <1>2, <1>3, <1>4 DEF AlignUp

(* The segments of a file. *)
LEMMA SegmentType ==
  ASSUME NEW file \in Files
  PROVE  /\ file.segs \in Seq(Segment)
         /\ Len(file.segs) \in Nat /\ DOMAIN file.segs = 1 .. Len(file.segs)
         /\ \A i \in 1 .. Len(file.segs) :
              /\ file.segs[i] \in Segment
              /\ file.segs[i].address \in Nat /\ file.segs[i].size \in Nat
              /\ file.segs[i].address < AddrMod /\ file.segs[i].size < AddrMod
              /\ file.segs[i].data \in Seq(Byte) /\ Len(file.segs[i].data) \in Nat
              /\ file.segs[i].readable \in BOOLEAN
              /\ End(file.segs[i]) \in Nat
<1>1. file.segs \in Seq(Segment)
  OBVIOUS
<1>2. ASSUME NEW i \in 1 .. Len(file.segs)
      PROVE  /\ file.segs[i] \in Segment
             /\ file.segs[i].address \in Nat /\ file.segs[i].size \in Nat
             /\ file.segs[i].address < AddrMod /\ file.segs[i].size < AddrMod
             /\ file.segs[i].data \in Seq(Byte) /\ Len(file.segs[i].data) \in Nat
             /\ file.segs[i].readable \in BOOLEAN
             /\ End(file.segs[i]) \in Nat
  <2> DEFINE s == file.segs[i]
  <2>1. s \in Segment
    BY <1>1
  <2> HIDE DEF s
  <2>2. /\ s.address \in Nat /\ s.size \in Nat
        /\ s.address < AddrMod /\ s.size < AddrMod
        /\ s.data \in Seq(Byte) /\ s.readable \in BOOLEAN
    BY <2>1 DEF Segment, GuestAddress
  <2>3. Len(s.data) \in Nat /\ End(s) \in Nat
    BY <2>2 DEF End
  <2> QED BY <2>1, <2>2, <2>3 DEF s
<1> QED BY <1>1, <1>2

(* The memory that is mapped for a file: every segment that occupies       *)
(* memory ends at least the stack and the slack below its end.             *)
LEMMA LayoutProperties ==
  ASSUME NEW file \in Files, LayoutOk(file)
  PROVE  /\ MemorySize(file) \in GuestAddress /\ MemorySize(file) > 0
         /\ \A i \in Occupied(file) :
              End(file.segs[i]) + StackSize + Slack <= MemorySize(file)
         /\ \E k \in Nat : MemorySize(file) = k * PageSize + StackSize + Slack
<1> DEFINE ends == {End(file.segs[i]) : i \in Occupied(file)}
           top == MaxEnd(file)
<1>1. \A i \in Occupied(file) :
        /\ End(file.segs[i]) \in Nat /\ End(file.segs[i]) > 0
        /\ End(file.segs[i]) <= AddrMod + AddrMod
  <2>1. ASSUME NEW s, s.address \in Nat, s.size \in Nat, s.size > 0,
               s.address < AddrMod, s.size < AddrMod
        PROVE  End(s) \in Nat /\ End(s) > 0 /\ End(s) <= AddrMod + AddrMod
    BY <2>1 DEF End
  <2> QED BY <2>1, SegmentType DEF Occupied
<1>2. ends \in SUBSET Nat /\ ends # {} /\ \A e \in ends : e <= AddrMod + AddrMod
  BY <1>1 DEF LayoutOk
<1>3. top \in ends /\ \A e \in ends : e <= top
  <2>1. AddrMod + AddrMod \in Nat
    OBVIOUS
  <2> HIDE DEF ends
  <2>2. Max(ends) \in ends /\ \A e \in ends : e <= Max(ends)
    BY <1>2, <2>1, MaxProperties
  <2> QED BY <2>2 DEF MaxEnd, ends
<1>4. top \in Nat /\ top > 0 /\ \A i \in Occupied(file) : End(file.segs[i]) <= top
  BY <1>1, <1>3
<1> HIDE DEF top
<1>5. PICK k \in Nat : AlignUp(top) = k * PageSize
  BY <1>4, AlignUpProperties
<1>6. /\ AlignUp(top) \in Nat /\ top <= AlignUp(top)
      /\ MemorySize(file) = AlignUp(top) + StackSize + Slack
      /\ MemorySize(file) < AddrMod
  BY <1>4, AlignUpProperties DEF MemorySize, LayoutOk, top
<1>7. MemorySize(file) \in GuestAddress /\ MemorySize(file) > 0
  BY <1>4, <1>6 DEF GuestAddress
<1>8. \A i \in Occupied(file) :
        End(file.segs[i]) + StackSize + Slack <= MemorySize(file)
  BY <1>1, <1>4, <1>6
<1> QED BY <1>5, <1>6, <1>7, <1>8
-----------------------------------------------------------------------------
(* The inductive invariant.                                                *)

(* The addresses that the file bytes of a segment cover. *)
Span(s) == s.address .. s.address + Len(s.data) - 1

(* Memory h holds the first n segments of the file: a byte is that of the  *)
(* last of them that covers it, or zero.                                   *)
Holds(h, file, n) ==
  \A a \in DOMAIN h :
    \/ h[a] = 0 /\ \A i \in 1 .. n : a \notin Span(file.segs[i])
    \/ \E i \in 1 .. n :
         /\ a \in Span(file.segs[i])
         /\ \A j \in i + 1 .. n : a \notin Span(file.segs[j])
         /\ h[a] = file.segs[i].data[a - file.segs[i].address + 1]

(* The second pass has accepted the first n segments.                      *)
Accepted(file, n, size) ==
  \A i \in 1 .. n : SegmentError(file.segs[i], size) = "none"

CallRecord ==
  [phase : Phases, file : Files \cup {NoFile}, size : GuestAddress,
   next : Nat, err : LoadErrors]

(* What a call knows of its file and, once it has memory, of memory h.     *)
CallOk(c, h) ==
  /\ c \in CallRecord
  /\ c.phase # "idle" => c.err = "none"
  /\ c.phase \in {"copy", "loaded"} => c.size > 0
  /\ c.phase \in {"map", "copy"} => c.file # NoFile
  /\ c.file # NoFile =>
       /\ c.file \in Files /\ c.file.arch = "Aarch64"
       /\ LayoutOk(c.file) /\ c.size = MemorySize(c.file)
  /\ c.phase = "copy" =>
       /\ c.next \in DOMAIN c.file.segs
       /\ Accepted(c.file, c.next - 1, c.size) /\ Holds(h, c.file, c.next - 1)
  /\ c.phase = "loaded" /\ c.file # NoFile =>
       /\ Accepted(c.file, Len(c.file.segs), c.size)
       /\ Holds(h, c.file, Len(c.file.segs))

IInv ==
  /\ IsRegion(host)
  /\ call \in [Loader -> CallRecord]
  /\ \A l \in Loader : CallOk(call[l], host)
  /\ Exclusive

LEMMA IInvTypeOK == IInv => TypeOK
BY DEF IInv, CallOk, CallRecord, TypeOK

(* Memory does not matter to a call that has none.                         *)
LEMMA CallOkElsewhere ==
  ASSUME NEW c, NEW h, NEW g, CallOk(c, h), c.phase \notin {"copy", "loaded"}
  PROVE  CallOk(c, g)
BY DEF CallOk
-----------------------------------------------------------------------------
LEMMA InitIInv == Init => IInv
<1> SUFFICES ASSUME Init PROVE IInv
  OBVIOUS
<1>1. IsRegion(host)
  <2>1. DOMAIN host = 0 .. 0 - 1 /\ 0 \in 0 .. AddrMod - 1
    BY DEF Init, Unmapped
  <2>2. host \in [DOMAIN host -> Byte]
    BY DEF Init, Unmapped
  <2> QED BY <2>1, <2>2 DEF IsRegion
<1>2. Returned("none") \in CallRecord
  BY DEF Returned, CallRecord, Phases, LoadErrors, GuestAddress
<1>3. \A h : CallOk(Returned("none"), h)
  BY <1>2 DEF CallOk, Returned
<1>4. Exclusive
  BY DEF Init, Exclusive, Holding, Returned
<1> QED BY <1>1, <1>2, <1>3, <1>4 DEF IInv, Init

(* A call that returns with an error, or drops what it returned, knows     *)
(* nothing any more.                                                       *)
LEMMA ReturnedOk ==
  ASSUME NEW err \in LoadErrors, NEW h
  PROVE  Returned(err) \in CallRecord /\ CallOk(Returned(err), h)
<1>1. Returned(err) \in CallRecord
  BY DEF Returned, CallRecord, Phases, GuestAddress
<1> QED BY <1>1 DEF CallOk, Returned

(* Three ways in which a step of l leaves the others and Exclusive intact. *)

OthersSame(l) ==
  /\ call' \in [Loader -> CallRecord]
  /\ \A k \in Loader : k # l => call'[k] = call[k]

(* The memory of a holder, if it is one, keeps its size. *)
LEMMA KeepsMemory ==
  ASSUME IInv, NEW l \in Loader, OthersSame(l), CallOk(call'[l], host'),
         IsRegion(host'), DOMAIN host' = DOMAIN host,
         Holding(l)' <=> Holding(l),
         Holding(l) => call'[l].size = call[l].size,
         Holding(l) \/ host' = host
  PROVE  IInv'
<1>1. \A k \in Loader : Holding(k)' <=> Holding(k)
  BY DEF OthersSame, Holding
<1>2. \A k \in Loader : Holding(k) => call'[k].size = call[k].size
  BY DEF OthersSame
<1>3. ASSUME NEW k \in Loader PROVE CallOk(call'[k], host')
  <2>1. CASE k = l
    BY <2>1
  <2>2. CASE k # l /\ host' = host
    BY <2>2 DEF IInv, OthersSame
  <2>3. CASE k # l /\ Holding(l)
    <3>1. ~ Holding(k)
      BY <2>3 DEF IInv, Exclusive
    <3> QED BY <2>3, <3>1, CallOkElsewhere DEF IInv, OthersSame, Holding
  <2> QED BY <2>1, <2>2, <2>3
<1>4. (~ \E k \in Loader : Holding(k)) => host' = host
  OBVIOUS
<1>5. Exclusive'
  <2>1. \A j, k \in Loader : Holding(j)' /\ Holding(k)' => j = k
    BY <1>1 DEF IInv, Exclusive
  <2>2. \A k \in Loader : Holding(k)' => DOMAIN host' = 0 .. call'[k].size - 1
    BY <1>1, <1>2 DEF IInv, Exclusive
  <2>3. (~ \E k \in Loader : Holding(k)') => host' = Unmapped
    BY <1>1, <1>4 DEF IInv, Exclusive
  <2> QED BY <2>1, <2>2, <2>3 DEF Exclusive, Unmapped
<1> QED BY <1>3, <1>5 DEF IInv, OthersSame

(* Memory is mapped only for one who finds none mapped. *)
LEMMA TakesMemory ==
  ASSUME IInv, NEW l \in Loader, OthersSame(l), CallOk(call'[l], host'),
         MapOk(call'[l].size), Holding(l)'
  PROVE  IInv' /\ \A k \in Loader : ~ Holding(k)
<1>1. call'[l].size \in GuestAddress /\ call'[l].size > 0
  BY DEF CallOk, CallRecord, MapOk
<1> DEFINE n == call'[l].size
<1>2. \A k \in Loader : ~ Holding(k)
  <2> SUFFICES ASSUME NEW k \in Loader, Holding(k) PROVE FALSE
    OBVIOUS
  <2>1. DOMAIN host = 0 .. call[k].size - 1 /\ call[k].size \in Nat /\ call[k].size > 0
    BY DEF IInv, Exclusive, CallOk, CallRecord, GuestAddress, Holding
  <2>2. 0 \in DOMAIN host
    BY <2>1
  <2>3. DOMAIN host = {}
    BY DEF MapOk, Unmapped
  <2> QED BY <2>2, <2>3
<1>3. DOMAIN host' = 0 .. n - 1 /\ host' \in [DOMAIN host' -> Byte]
  BY DEF MapOk, Zeroed
<1>4. IsRegion(host')
  <2>1. n \in 0 .. AddrMod - 1
    BY <1>1 DEF GuestAddress
  <2> QED BY <1>3, <2>1 DEF IsRegion
<1>5. \A k \in Loader : k # l => ~ Holding(k)' /\ CallOk(call'[k], host')
  BY <1>2, CallOkElsewhere DEF IInv, OthersSame, Holding
<1>6. Exclusive'
  <2>1. \A k \in Loader : Holding(k)' => k = l
    BY <1>5
  <2> QED BY <1>3, <2>1 DEF Exclusive
<1> QED BY <1>2, <1>4, <1>5, <1>6 DEF IInv, OthersSame

(* The holder gives its memory back. *)
LEMMA GivesMemoryBack ==
  ASSUME IInv, NEW l \in Loader, OthersSame(l), CallOk(call'[l], host'),
         Holding(l), ~ Holding(l)', Unmap
  PROVE  IInv'
<1>1. \A k \in Loader : k # l => ~ Holding(k) /\ ~ Holding(k)'
  BY DEF IInv, Exclusive, OthersSame, Holding
<1>2. \A k \in Loader : CallOk(call'[k], host')
  BY <1>1, CallOkElsewhere DEF IInv, OthersSame, Holding
<1>3. IsRegion(host')
  <2>1. DOMAIN host' = 0 .. 0 - 1 /\ 0 \in 0 .. AddrMod - 1
    BY DEF Unmap, Unmapped
  <2>2. host' \in [DOMAIN host' -> Byte]
    BY DEF Unmap, Unmapped
  <2> QED BY <2>1, <2>2 DEF IsRegion
<1>4. Exclusive'
  BY <1>1 DEF Exclusive, Unmap
<1> QED BY <1>2, <1>3, <1>4 DEF IInv, OthersSame
-----------------------------------------------------------------------------
(* The actions. *)

LEMMA FailsOk ==
  ASSUME IInv, NEW l \in Loader, NEW err \in LoadErrors, Fails(l, err)
  PROVE  OthersSame(l) /\ CallOk(call'[l], host') /\ ~ Holding(l)'
<1>1. call'[l] = Returned(err) /\ call' \in [Loader -> CallRecord]
      /\ \A k \in Loader : k # l => call'[k] = call[k]
  BY ReturnedOk DEF IInv, Fails
<1>2. Returned(err).phase = "idle"
  BY DEF Returned
<1> QED BY <1>1, <1>2, ReturnedOk DEF OthersSame, Holding

(* A call that fails before it has memory. *)
LEMMA FailsEarlyIInv ==
  ASSUME IInv, NEW l \in Loader, NEW err \in LoadErrors, Fails(l, err),
         ~ Holding(l), UNCHANGED host
  PROVE  IInv'
<1>1. IsRegion(host')
  BY DEF IInv
<1> QED BY <1>1, FailsOk, KeepsMemory

LEMMA UnreadableIInv ==
  ASSUME IInv, NEW l \in Loader, Unreadable(l)
  PROVE  IInv'
BY FailsEarlyIInv DEF Unreadable, Holding, LoadErrors

LEMMA StartIInv ==
  ASSUME IInv, NEW l \in Loader, NEW file \in Files, Start(l, file)
  PROVE  IInv'
<1>1. ~ Holding(l) /\ UNCHANGED host /\ call[l] \in CallRecord /\ IsRegion(host')
  BY DEF Start, Holding, IInv
<1>2. CASE Fails(l, "architecture") \/ Fails(l, "segment")
  BY <1>1, <1>2, FailsEarlyIInv DEF LoadErrors
<1>3. CASE /\ file.arch = "Aarch64" /\ LayoutOk(file)
           /\ call' = [call EXCEPT ![l] = [@ EXCEPT !.phase = "map", !.file = file,
                                             !.size = MemorySize(file), !.err = "none"]]
  <2> DEFINE c == [call[l] EXCEPT !.phase = "map", !.file = file,
                                  !.size = MemorySize(file), !.err = "none"]
  <2>1. MemorySize(file) \in GuestAddress
    BY <1>3, LayoutProperties
  <2>2. /\ c \in CallRecord /\ c.phase = "map" /\ c.file = file
        /\ c.size = MemorySize(file) /\ c.err = "none"
    BY <1>1, <2>1 DEF CallRecord, Phases, LoadErrors
  <2>3. call' = [call EXCEPT ![l] = c]
    BY <1>3
  <2> HIDE DEF c
  <2>4. call'[l] = c /\ OthersSame(l)
    BY <2>2, <2>3 DEF IInv, OthersSame
  <2>5. CallOk(c, host')
    BY <1>3, <2>2 DEF CallOk, NoFile
  <2>6. ~ Holding(l)'
    BY <2>2, <2>4 DEF Holding
  <2> QED BY <1>1, <2>4, <2>5, <2>6, KeepsMemory
<1> QED BY <1>2, <1>3 DEF Start

LEMMA MapErrorsType == \A size : MapErrors(size) \subseteq LoadErrors
BY DEF MapErrors, LoadErrors

(* The record of a call that has just mapped its memory. *)
LEMMA MappedCall ==
  ASSUME IInv, NEW l \in Loader, call[l].phase = "map",
         call' = [call EXCEPT ![l].phase = "copy", ![l].next = 1]
  PROVE  /\ OthersSame(l) /\ call'[l] \in CallRecord
         /\ call'[l].phase = "copy" /\ call'[l].next = 1 /\ call'[l].err = "none"
         /\ call'[l].file = call[l].file /\ call'[l].size = call[l].size
<1>1. call[l] \in CallRecord /\ call[l].err = "none"
  BY DEF IInv, CallOk
<1> DEFINE c == [call[l] EXCEPT !.phase = "copy", !.next = 1]
<1>2. /\ c \in CallRecord /\ c.phase = "copy" /\ c.next = 1 /\ c.err = "none"
      /\ c.file = call[l].file /\ c.size = call[l].size
  BY <1>1 DEF CallRecord, Phases
<1>3. call'[l] = c /\ (\A k \in Loader : k # l => call'[k] = call[k])
      /\ DOMAIN call' = Loader
  BY <1>1 DEF IInv, CallRecord
<1>4. call' = [k \in Loader |-> IF k = l THEN c ELSE call[k]]
  BY <1>1 DEF IInv, CallRecord
<1> HIDE DEF c
<1> QED BY <1>2, <1>3, <1>4 DEF IInv, OthersSame

LEMMA MapImageIInv ==
  ASSUME IInv, NEW l \in Loader, MapImage(l)
  PROVE  IInv'
<1>1. CASE (\E err \in MapErrors(call[l].size) : Fails(l, err)) /\ UNCHANGED host
  BY <1>1, MapErrorsType, FailsEarlyIInv DEF MapImage, Holding
<1>2. CASE MapOk(call[l].size)
           /\ call' = [call EXCEPT ![l].phase = "copy", ![l].next = 1]
  <2>1. call[l].phase = "map"
    BY DEF MapImage
  <2> DEFINE c == call'[l]
             file == call[l].file
  <2>2. /\ OthersSame(l) /\ c \in CallRecord
        /\ c.phase = "copy" /\ c.next = 1 /\ c.err = "none"
        /\ c.file = file /\ c.size = call[l].size
    BY <1>2, <2>1, MappedCall
  <2>3. /\ file # NoFile /\ file \in Files /\ file.arch = "Aarch64"
        /\ LayoutOk(file) /\ call[l].size = MemorySize(file)
    BY <2>1 DEF IInv, CallOk
  <2>4. 1 \in DOMAIN file.segs
    BY <2>3, SegmentType DEF LayoutOk, Occupied
  <2>5. Holds(host', file, 0) /\ Accepted(file, 0, c.size)
    BY <1>2 DEF MapOk, Zeroed, Holds, Accepted
  <2>6. call[l].size > 0
    BY <1>2 DEF MapOk
  <2> HIDE DEF c, file
  <2>7. CallOk(c, host')
    BY <2>2, <2>3, <2>4, <2>5, <2>6 DEF CallOk
  <2>8. Holding(l)'
    BY <2>2 DEF Holding, c
  <2> QED BY <1>2, <2>2, <2>7, <2>8, TakesMemory DEF c
<1> QED BY <1>1, <1>2 DEF MapImage

(* The next segment is written over the ones before it. *)
LEMMA HoldsOneMore ==
  ASSUME NEW file \in Files, NEW n \in 1 .. Len(file.segs), NEW h, NEW g,
         Holds(h, file, n - 1), DOMAIN g = DOMAIN h,
         \A a \in DOMAIN h :
           g[a] = IF a \in Span(file.segs[n])
                  THEN file.segs[n].data[a - file.segs[n].address + 1] ELSE h[a]
  PROVE  Holds(g, file, n)
<1> SUFFICES ASSUME NEW a \in DOMAIN h
             PROVE  \/ g[a] = 0 /\ \A i \in 1 .. n : a \notin Span(file.segs[i])
                    \/ \E i \in 1 .. n :
                         /\ a \in Span(file.segs[i])
                         /\ \A j \in i + 1 .. n : a \notin Span(file.segs[j])
                         /\ g[a] = file.segs[i].data[a - file.segs[i].address + 1]
  BY DEF Holds
<1>1. n \in Nat /\ n - 1 \in Nat /\ \A i \in 1 .. n : i = n \/ i \in 1 .. n - 1
  BY SegmentType
<1>2. CASE a \in Span(file.segs[n])
  <2>1. \A j \in n + 1 .. n : FALSE
    BY <1>1
  <2> QED BY <1>1, <1>2, <2>1
<1>3. CASE a \notin Span(file.segs[n])
  <2>1. g[a] = h[a]
    BY <1>3
  <2>2. CASE h[a] = 0 /\ \A i \in 1 .. n - 1 : a \notin Span(file.segs[i])
    BY <1>1, <1>3, <2>1, <2>2
  <2>3. CASE \E i \in 1 .. n - 1 :
               /\ a \in Span(file.segs[i])
               /\ \A j \in i + 1 .. n - 1 : a \notin Span(file.segs[j])
               /\ h[a] = file.segs[i].data[a - file.segs[i].address + 1]
    <3>1. PICK i \in 1 .. n - 1 :
               /\ a \in Span(file.segs[i])
               /\ \A j \in i + 1 .. n - 1 : a \notin Span(file.segs[j])
               /\ h[a] = file.segs[i].data[a - file.segs[i].address + 1]
      BY <2>3
    <3>2. \A j \in i + 1 .. n : j = n \/ j \in i + 1 .. n - 1
      BY <1>1
    <3>3. \A j \in i + 1 .. n : a \notin Span(file.segs[j])
      BY <1>3, <3>1, <3>2
    <3>4. i \in 1 .. n
      BY <1>1
    <3> QED BY <2>1, <3>1, <3>3, <3>4
  <2> QED BY <2>2, <2>3 DEF Holds
<1> QED BY <1>2, <1>3

(* A call in its second pass. *)
LEMMA CopyingCall ==
  ASSUME IInv, NEW l \in Loader, call[l].phase = "copy"
  PROVE  LET file == call[l].file
             size == call[l].size
             n == call[l].next
         IN  /\ call[l] \in CallRecord /\ call[l].err = "none" /\ Holding(l)
             /\ file # NoFile /\ file \in Files /\ file.arch = "Aarch64"
             /\ LayoutOk(file) /\ size = MemorySize(file)
             /\ size \in Nat /\ size > 0 /\ size < AddrMod
             /\ n \in 1 .. Len(file.segs) /\ Current(l) = file.segs[n]
             /\ Accepted(file, n - 1, size) /\ Holds(host, file, n - 1)
             /\ DOMAIN host = 0 .. size - 1
<1>1. Holding(l) /\ call[l] \in CallRecord /\ CallOk(call[l], host)
  BY DEF IInv, Holding
<1>2. DOMAIN host = 0 .. call[l].size - 1
  BY <1>1 DEF IInv, Exclusive
<1>3. call[l].size \in Nat /\ call[l].size < AddrMod
  BY <1>1 DEF CallRecord, GuestAddress
<1> QED BY <1>1, <1>2, <1>3, SegmentType DEF CallOk, Current

(* The record of a call after a segment. *)
LEMMA CopiedCall ==
  ASSUME IInv, NEW l \in Loader, Copy(l)
  PROVE  /\ OthersSame(l) /\ call'[l] \in CallRecord
         /\ call'[l].next = call[l].next + 1
         /\ call'[l].phase = IF call[l].next = Len(call[l].file.segs)
                             THEN "loaded" ELSE "copy"
         /\ call'[l].file = call[l].file /\ call'[l].size = call[l].size
         /\ call'[l].err = call[l].err
<1> DEFINE p == IF call[l].next = Len(call[l].file.segs) THEN "loaded" ELSE "copy"
           m == call[l].next + 1
           c == [call[l] EXCEPT !.next = m, !.phase = p]
<1>1. call[l] \in CallRecord /\ m \in Nat
  BY DEF IInv, CallRecord
<1>2. p \in Phases
  BY DEF Phases
<1>3. call' = [k \in Loader |-> IF k = l THEN c ELSE call[k]]
  BY <1>1 DEF Copy, IInv, CallRecord
<1> HIDE DEF p, m
<1>4. /\ c \in CallRecord /\ c.next = m /\ c.phase = p
      /\ c.file = call[l].file /\ c.size = call[l].size /\ c.err = call[l].err
  BY <1>1, <1>2 DEF CallRecord
<1> HIDE DEF c
<1> QED BY <1>3, <1>4 DEF IInv, OthersSame, p, m

LEMMA CopyIInv ==
  ASSUME IInv, NEW l \in Loader, Copy(l)
  PROVE  IInv'
<1> DEFINE file == call[l].file
           size == call[l].size
           n == call[l].next
           s == file.segs[n]
           c == call'[l]
<1>1. call[l].phase = "copy"
  BY DEF Copy
<1>2. /\ call[l].err = "none" /\ Holding(l)
      /\ file # NoFile /\ file \in Files /\ file.arch = "Aarch64"
      /\ LayoutOk(file) /\ size = MemorySize(file)
      /\ size > 0 /\ n \in 1 .. Len(file.segs) /\ Current(l) = s
      /\ Accepted(file, n - 1, size) /\ Holds(host, file, n - 1)
  BY <1>1, CopyingCall
<1>3. /\ OthersSame(l) /\ c \in CallRecord /\ c.next = n + 1
      /\ c.phase = (IF n = Len(file.segs) THEN "loaded" ELSE "copy")
      /\ c.file = file /\ c.size = size /\ c.err = "none"
  BY <1>2, CopiedCall
<1>4. /\ SegmentError(s, size) = "none"
      /\ host' = [a \in DOMAIN host |->
                    IF a \in Span(s) THEN s.data[a - s.address + 1] ELSE host[a]]
  BY <1>2 DEF Copy, Written, Span
<1>5. DOMAIN host' = DOMAIN host
  BY <1>4
<1>6. s.data \in Seq(Byte) /\ Len(s.data) \in Nat /\ s.address \in Nat
  BY <1>2, SegmentType
<1> HIDE DEF file, size, n, s, c
<1>7. IsRegion(host')
  <2>1. \A a \in DOMAIN host : a \in Int
    BY DEF IInv, IsRegion
  <2>2. \A a \in DOMAIN host : a \in Span(s) => a - s.address + 1 \in 1 .. Len(s.data)
    BY <1>6, <2>1 DEF Span
  <2>3. \A a \in DOMAIN host : a \in Span(s) => s.data[a - s.address + 1] \in Byte
    BY <1>6, <2>2, ElementOfSeq
  <2>4. \A a \in DOMAIN host : host[a] \in Byte
    BY DEF IInv, IsRegion
  <2>5. host' \in [DOMAIN host -> Byte]
    BY <1>4, <2>3, <2>4
  <2> QED BY <1>5, <2>5 DEF IInv, IsRegion
<1>8. n \in Nat /\ Len(file.segs) \in Nat /\ DOMAIN file.segs = 1 .. Len(file.segs)
  BY <1>2, SegmentType
<1>9. Holds(host', file, n)
  BY <1>2, <1>4, <1>5, HoldsOneMore DEF s
<1>10. Accepted(file, n, size)
  <2>1. \A i \in 1 .. n : i = n \/ i \in 1 .. n - 1
    BY <1>8
  <2> QED BY <1>2, <1>4, <2>1 DEF Accepted, s
<1>11. CallOk(c, host')
  <2>1. CASE n = Len(file.segs)
    BY <1>2, <1>3, <1>9, <1>10, <2>1 DEF CallOk
  <2>2. CASE n # Len(file.segs)
    <3>1. n + 1 \in 1 .. Len(file.segs) /\ n + 1 - 1 = n
      BY <1>2, <1>8, <2>2
    <3> QED BY <1>2, <1>3, <1>8, <1>9, <1>10, <2>2, <3>1 DEF CallOk
  <2> QED BY <2>1, <2>2
<1>12. Holding(l)'
  BY <1>3 DEF Holding, c
<1> QED BY <1>2, <1>3, <1>5, <1>7, <1>11, <1>12, KeepsMemory DEF c, size

LEMMA SegmentErrors == \A s, size : SegmentError(s, size) \in LoadErrors
BY DEF SegmentError, LoadErrors

LEMMA CopyFailsIInv ==
  ASSUME IInv, NEW l \in Loader, CopyFails(l)
  PROVE  IInv'
<1>1. PICK err \in LoadErrors : Fails(l, err)
  BY SegmentErrors DEF CopyFails
<1>2. Holding(l) /\ Unmap
  BY DEF CopyFails, Holding
<1> QED BY <1>1, <1>2, FailsOk, GivesMemoryBack

LEMMA MapDirectIInv ==
  ASSUME IInv, NEW l \in Loader, NEW size \in DirectSizes, MapDirect(l, size)
  PROVE  IInv'
<1>1. CASE (\E err \in MapErrors(size) : Fails(l, err)) /\ UNCHANGED host
  BY <1>1, MapErrorsType, FailsEarlyIInv DEF MapDirect, Holding
<1>2. CASE /\ MapOk(size)
           /\ call' = [call EXCEPT ![l] = [Returned("none") EXCEPT !.phase = "loaded",
                                                                   !.size = size]]
  <2> DEFINE c == [Returned("none") EXCEPT !.phase = "loaded", !.size = size]
  <2>1. /\ c \in CallRecord /\ c.phase = "loaded" /\ c.size = size /\ c.size > 0
        /\ c.file = NoFile /\ c.err = "none"
    BY <1>2 DEF Returned, CallRecord, Phases, LoadErrors, MapOk
  <2>2. call' = [call EXCEPT ![l] = c]
    BY <1>2
  <2> HIDE DEF c
  <2>3. call'[l] = c /\ OthersSame(l)
    BY <2>1, <2>2 DEF IInv, OthersSame
  <2>4. CallOk(c, host') /\ Holding(l)'
    BY <2>1, <2>3 DEF CallOk, Holding
  <2> QED BY <1>2, <2>1, <2>3, <2>4, TakesMemory
<1> QED BY <1>1, <1>2 DEF MapDirect

LEMMA ReleaseIInv ==
  ASSUME IInv, NEW l \in Loader, Release(l)
  PROVE  IInv'
<1>1. Holding(l) /\ Unmap /\ Fails(l, "none") /\ "none" \in LoadErrors
  BY DEF Release, Holding, LoadErrors
<1> QED BY <1>1, FailsOk, GivesMemoryBack

LEMMA StepIInv == IInv /\ [Next]_evars => IInv'
<1> SUFFICES ASSUME IInv, [Next]_evars PROVE IInv'
  OBVIOUS
<1>1. CASE UNCHANGED evars
  <2>1. call' = call /\ host' = host
    BY <1>1 DEF evars
  <2>2. Exclusive'
    BY <2>1 DEF IInv, Exclusive, Holding
  <2> QED BY <2>1, <2>2 DEF IInv
<1>2. CASE Next
  BY <1>2, UnreadableIInv, StartIInv, MapImageIInv, CopyIInv, CopyFailsIInv,
     MapDirectIInv, ReleaseIInv DEF Next, Loading
<1> QED BY <1>1, <1>2

LEMMA Invariance == Spec => []IInv
BY InitIInv, StepIInv, PTL DEF Spec

(* Guest memory is a region of bytes, and calls are what TypeOK says.      *)
THEOREM TypeCorrect == Spec => []TypeOK
BY Invariance, IInvTypeOK, PTL

(* Guest memory is mapped exactly while one call, or its result, holds it. *)
THEOREM OneHolder == Spec => []Exclusive
BY Invariance, PTL DEF IInv
-----------------------------------------------------------------------------
(* A segment with memory of its own lies inside the memory mapped for it.  *)
LEMMA OccupiedInBounds ==
  ASSUME NEW file \in Files, LayoutOk(file), NEW i \in Occupied(file),
         Len(file.segs[i].data) <= file.segs[i].size
  PROVE  InBounds(file.segs[i].address, Len(file.segs[i].data), MemorySize(file))
<1> DEFINE at == file.segs[i].address
           size == file.segs[i].size
           len == Len(file.segs[i].data)
           end == End(file.segs[i])
           n == MemorySize(file)
<1>1. /\ at \in Nat /\ size \in Nat /\ len \in Nat
      /\ end = at + size /\ len <= size
  BY SegmentType DEF Occupied, End
<1>2. end + StackSize + Slack <= n /\ n \in Nat /\ n < AddrMod
  BY LayoutProperties DEF GuestAddress
<1>3. StackSize \in Nat /\ Slack \in Nat /\ AddrMod \in Nat
  OBVIOUS
<1> HIDE DEF at, size, len, end, n
<1>4. at + len <= n
  BY <1>1, <1>2, <1>3
<1>5. at + len < AddrMod
  BY <1>1, <1>2, <1>3, <1>4
<1> QED BY <1>4, <1>5 DEF InBounds, at, len, n

LEMMA OutsideStep ==
  IInv /\ [Next]_evars =>
    [\A l \in Loader :
       call[l].phase = "copy" /\ call'[l].err = "outside" => Current(l).size = 0]_evars
<1> SUFFICES ASSUME IInv, Next, NEW l \in Loader,
                    call[l].phase = "copy", call'[l].err = "outside"
             PROVE  Current(l).size = 0
  BY DEF evars
<1>1. /\ call[l].err = "none"
      /\ call[l].file \in Files /\ LayoutOk(call[l].file)
      /\ call[l].size = MemorySize(call[l].file)
      /\ call[l].next \in 1 .. Len(call[l].file.segs)
      /\ Current(l) = call[l].file.segs[call[l].next]
  BY CopyingCall
<1>2. CopyFails(l)
  <2>1. PICK k \in Loader :
          \/ Unreadable(k) \/ \E file \in Files : Start(k, file)
          \/ Loading(k)
          \/ \E size \in DirectSizes : MapDirect(k, size)
          \/ Release(k)
    BY DEF Next
  <2>2. k = l
    <3> SUFFICES ASSUME k # l PROVE call'[l] = call[l]
      BY <1>1
    <3> QED BY <2>1 DEF Unreadable, Start, Loading, MapImage, Copy, CopyFails,
                        MapDirect, Release, Fails, IInv
  <2>3. ~ Copy(l)
    BY <1>1, CopiedCall
  <2> QED BY <2>1, <2>2, <2>3
          DEF Unreadable, Start, Loading, MapImage, MapDirect, Release
<1>3. SegmentError(Current(l), call[l].size) = "outside"
  BY <1>2 DEF CopyFails, Fails, Returned, IInv
<1>4. /\ Len(Current(l).data) <= Current(l).size
      /\ ~ InBounds(Current(l).address, Len(Current(l).data), call[l].size)
  <2>1. Current(l).size \in Nat /\ Len(Current(l).data) \in Nat
    BY <1>1, SegmentType
  <2> QED BY <1>3, <2>1 DEF SegmentError
<1>5. call[l].next \notin Occupied(call[l].file)
  BY <1>1, <1>4, OccupiedInBounds
<1>6. Current(l).size \in Nat
  BY <1>1, SegmentType
<1> QED BY <1>1, <1>5, <1>6, SegmentType DEF Occupied

(* Only a segment without memory of its own can turn out to be outside of  *)
(* the memory that the first pass computed.                                *)
THEOREM PassesAgree == Spec => OutsideOnlyEmpty
BY Invariance, OutsideStep, PTL DEF Spec, OutsideOnlyEmpty
-----------------------------------------------------------------------------
(* The loader implements the load service.                                 *)

(* At most one load is over, and what it returned is guest memory. *)
LEMMA LoadedHolds ==
  ASSUME IInv, NEW l \in Loader, Holding(l)
  PROVE  \A k \in Loader : k # l => ~ Loaded(k)
BY DEF IInv, Exclusive, Holding, Loaded

(* A step after which the same calls are over, with the same files and the *)
(* same memory.                                                            *)
LEMMA Stutters ==
  ASSUME IInv, NEW l \in Loader, OthersSame(l), ~ Loaded(l), ~ Loaded(l)',
         host' = host \/ \A k \in Loader : k # l => ~ Loaded(k)
  PROVE  UNCHANGED <<Held, Image>>
<1>1. \A k \in Loader : Loaded(k)' <=> Loaded(k)
  BY DEF OthersSame, Loaded
<1>2. Held' = Held
  BY <1>1 DEF Held, OthersSame
<1>3. CASE \E k \in Loader : Loaded(k)
  <2>1. (\E k \in Loader : Loaded(k)') /\ host' = host
    BY <1>1, <1>3
  <2>2. Image = host
    BY <1>3 DEF Image
  <2>3. Image' = host'
    BY <2>1 DEF Image
  <2> QED BY <1>2, <2>1, <2>2, <2>3
<1>4. CASE ~ \E k \in Loader : Loaded(k)
  <2>1. ~ \E k \in Loader : Loaded(k)'
    BY <1>1, <1>4
  <2>2. Image = Unmapped
    BY <1>4 DEF Image
  <2>3. Image' = Unmapped
    BY <2>1 DEF Image, Unmapped
  <2> QED BY <1>2, <2>2, <2>3
<1> QED BY <1>2, <1>3, <1>4

LEMMA FailsStutters ==
  ASSUME IInv, NEW l \in Loader, NEW err \in LoadErrors, Fails(l, err), ~ Loaded(l),
         host' = host \/ Holding(l)
  PROVE  UNCHANGED <<Held, Image>>
<1>1. OthersSame(l) /\ ~ Loaded(l)'
  BY FailsOk DEF Holding, Loaded
<1> QED BY <1>1, LoadedHolds, Stutters

(* What memory holds after the last segment is what the service says.      *)
LEMMA ImageOfFile ==
  ASSUME NEW file \in Files, NEW n, n = Len(file.segs), NEW h, Holds(h, file, n),
         \A a \in DOMAIN h : a \in Int
  PROVE  \A a \in DOMAIN h : h[a] = L!ByteAt(file, a)
<1> SUFFICES ASSUME NEW a \in DOMAIN h PROVE h[a] = L!ByteAt(file, a)
  OBVIOUS
<1> DEFINE cover == L!Covering(file, a)
<1>1. n \in Nat /\ cover = {i \in 1 .. n : a \in Span(file.segs[i])}
  BY SegmentType DEF L!Covering, Span
<1>2. CASE h[a] = 0 /\ \A i \in 1 .. n : a \notin Span(file.segs[i])
  BY <1>1, <1>2 DEF L!ByteAt
<1>3. ASSUME NEW i \in 1 .. n, a \in Span(file.segs[i]),
             \A j \in i + 1 .. n : a \notin Span(file.segs[j]),
             h[a] = file.segs[i].data[a - file.segs[i].address + 1]
      PROVE  h[a] = L!ByteAt(file, a)
  <2>1. i \in cover /\ cover \subseteq Int /\ \A j \in cover : i >= j
    <3>1. \A j \in 1 .. n : j <= i \/ j \in i + 1 .. n
      BY <1>1
    <3> QED BY <1>1, <1>3, <3>1
  <2> HIDE DEF cover
  <2>2. Max(cover) = i
    <3>1. Max(cover) \in cover /\ \A j \in cover : Max(cover) >= j
      BY <2>1 DEF Max
    <3>2. Max(cover) \in Int /\ i \in Int /\ i >= Max(cover) /\ Max(cover) >= i
      BY <2>1, <3>1
    <3> QED BY <3>2
  <2>3. L!Max(cover) = Max(cover)
    BY DEF L!Max, Max
  <2> QED BY <1>3, <2>1, <2>2, <2>3 DEF L!ByteAt, cover
<1> QED BY <1>1, <1>2, <1>3 DEF Holds

LEMMA ServiceInit == Init => L!Init
<1> SUFFICES ASSUME Init PROVE L!Init
  OBVIOUS
<1>1. \A l \in Loader : ~ Loaded(l)
  BY DEF Init, Returned, Loaded
<1>2. Held = [l \in Loader |-> [what |-> "nothing"]]
  BY <1>1 DEF Held
<1>3. Image = Unmapped
  BY <1>1 DEF Image
<1> QED BY <1>2, <1>3 DEF L!Init, L!Nothing, Unmapped

(* Nobody holds a program: what the service requires before one is loaded. *)
LEMMA NobodyLoaded ==
  (\A k \in Loader : ~ Loaded(k)) => L!Free /\ Image = Unmapped
BY DEF L!Free, L!Nothing, Held, Image

(* When the call of l is over, memory is what it mapped. *)
LEMMA LoadedBy ==
  ASSUME NEW l \in Loader, OthersSame(l), Loaded(l)',
         NEW what, what = IF call'[l].file = NoFile THEN L!Blank
                          ELSE L!Program(call'[l].file)
  PROVE  Held' = [Held EXCEPT ![l] = what] /\ Image' = host'
<1>1. Held' = [Held EXCEPT ![l] = what]
  BY DEF OthersSame, Held, Loaded, L!Blank, L!Program
<1>2. Image' = host'
  BY DEF Image
<1> QED BY <1>1, <1>2

(* The last segment makes the program appear, whole. *)
LEMMA LastCopy ==
  ASSUME IInv, IInv', NEW l \in Loader, Copy(l), Loaded(l)'
  PROVE  \E file \in Files : L!Load(l, file)
<1> DEFINE file == call[l].file
           n == call[l].size
           segs == file.segs
<1>1. /\ call[l].phase = "copy" /\ Holding(l)
      /\ file \in Files /\ file # NoFile /\ file.arch = "Aarch64"
      /\ LayoutOk(file) /\ n = MemorySize(file) /\ n \in 1 .. AddrMod - 1
      /\ DOMAIN host = 0 .. n - 1
  BY CopyingCall DEF Copy
<1>2. OthersSame(l) /\ call'[l].file = file /\ call'[l].size = n
  BY CopiedCall
<1>3. \A k \in Loader : ~ Loaded(k)
  BY <1>1, LoadedHolds DEF Loaded
<1>4. Held' = [Held EXCEPT ![l] = L!Program(file)] /\ Image' = host'
  BY <1>1, <1>2, LoadedBy
<1>5. Accepted(file, Len(segs), n) /\ Holds(host', file, Len(segs))
  BY <1>1, <1>2 DEF IInv, CallOk, Loaded
<1>6. DOMAIN host' = 0 .. n - 1 /\ host' = [a \in 0 .. n - 1 |-> host'[a]]
  <2>1. DOMAIN host' = 0 .. n - 1
    BY <1>1 DEF Copy, Written
  <2>2. host' \in [DOMAIN host' -> Byte]
    BY DEF IInv, IsRegion
  <2> QED BY <2>1, <2>2
<1>7. \A a \in 0 .. n - 1 : host'[a] = L!ByteAt(file, a)
  <2>1. \A a \in DOMAIN host' : a \in Int
    BY <1>6
  <2> HIDE DEF file
  <2> QED BY <1>1, <1>5, <1>6, <2>1, ImageOfFile
<1> HIDE DEF file, n
<1>8. L!WellFormed(file)
  <2>1. ASSUME NEW i \in 1 .. Len(segs)
        PROVE  segs[i].readable /\ Len(segs[i].data) <= segs[i].size
    <3>1. SegmentError(segs[i], n) = "none"
      BY <1>5 DEF Accepted
    <3>2. Len(segs[i].data) \in Nat /\ segs[i].size \in Nat
      BY <1>1, SegmentType
    <3> QED BY <3>1, <3>2 DEF SegmentError
  <2>2. \E i \in DOMAIN segs : segs[i].size > 0
    BY <1>1 DEF LayoutOk, Occupied
  <2>3. DOMAIN segs = 1 .. Len(segs)
    BY <1>1, SegmentType
  <2> QED BY <1>1, <2>1, <2>2, <2>3 DEF L!WellFormed
<1>9. L!Roomy(file, n)
  <2>1. ASSUME NEW i \in DOMAIN segs, segs[i].size > 0
        PROVE  segs[i].address + segs[i].size + StackSize <= n
    <3>1. i \in Occupied(file)
      BY <2>1 DEF Occupied
    <3>2. End(segs[i]) \in Nat /\ End(segs[i]) + StackSize + Slack <= n
      BY <1>1, <3>1, LayoutProperties, SegmentType DEF Occupied
    <3>3. StackSize \in Nat /\ Slack \in Nat /\ n \in Nat
      BY <1>1
    <3>4. End(segs[i]) + StackSize <= n
      BY <3>2, <3>3
    <3> QED BY <3>4 DEF End
  <2> QED BY <2>1 DEF L!Roomy
<1>10. L!Load(l, file)
  <2>1. host' = [a \in 0 .. n - 1 |-> L!ByteAt(file, a)]
    BY <1>6, <1>7
  <2>2. L!Free
    BY <1>3, NobodyLoaded
  <2>3. \E m \in 1 .. AddrMod - 1 :
          /\ DOMAIN Image' = 0 .. m - 1
          /\ L!Roomy(file, m)
          /\ Image' = [a \in 0 .. m - 1 |-> L!ByteAt(file, a)]
    BY <1>1, <1>4, <1>6, <1>9, <2>1
  <2> QED BY <1>4, <1>8, <2>2, <2>3 DEF L!Load
<1> QED BY <1>1, <1>10

LEMMA ServiceStep == IInv /\ [Next]_evars => [L!Next]_(L!svars)
<1> SUFFICES ASSUME IInv, [Next]_evars PROVE L!Next \/ UNCHANGED <<Held, Image>>
  BY DEF L!svars
<1>1. CASE UNCHANGED evars
  BY <1>1 DEF evars, Held, Image, Loaded, Unmapped
<1>2. ASSUME NEW l \in Loader, Unreadable(l)
      PROVE  UNCHANGED <<Held, Image>>
  BY <1>2, FailsStutters DEF Unreadable, Loaded, LoadErrors
<1>3. ASSUME NEW l \in Loader, NEW file \in Files, Start(l, file)
      PROVE  UNCHANGED <<Held, Image>>
  <2>1. ~ Loaded(l) /\ host' = host
    BY <1>3 DEF Start, Loaded
  <2>2. CASE Fails(l, "architecture") \/ Fails(l, "segment")
    BY <2>1, <2>2, FailsStutters DEF LoadErrors
  <2>3. CASE call' = [call EXCEPT ![l] = [@ EXCEPT !.phase = "map", !.file = file,
                                             !.size = MemorySize(file), !.err = "none"]]
    <3>1. IInv'
      BY <1>3, StartIInv
    <3>2. OthersSame(l) /\ call'[l].phase = "map"
      BY <2>3, <3>1 DEF IInv, OthersSame, CallRecord
    <3> QED BY <2>1, <3>2, Stutters DEF Loaded
  <2> QED BY <1>3, <2>2, <2>3 DEF Start
<1>4. ASSUME NEW l \in Loader, MapImage(l)
      PROVE  UNCHANGED <<Held, Image>>
  <2>1. CASE (\E err \in MapErrors(call[l].size) : Fails(l, err)) /\ UNCHANGED host
    BY <1>4, <2>1, MapErrorsType, FailsStutters DEF MapImage, Loaded
  <2>2. CASE MapOk(call[l].size)
             /\ call' = [call EXCEPT ![l].phase = "copy", ![l].next = 1]
    <3>1. /\ call[l].phase = "map" /\ OthersSame(l)
          /\ call'[l].phase = "copy" /\ call'[l].size = call[l].size
      BY <1>4, <2>2, MappedCall DEF MapImage
    <3>2. Holding(l)' /\ CallOk(call'[l], host')
      BY <1>4, <3>1, MapImageIInv DEF Holding, IInv
    <3>3. \A k \in Loader : ~ Loaded(k)
      BY <2>2, <3>1, <3>2, TakesMemory DEF Holding, Loaded
    <3> QED BY <3>1, <3>3, Stutters DEF Loaded
  <2> QED BY <1>4, <2>1, <2>2 DEF MapImage
<1>5. ASSUME NEW l \in Loader, CopyFails(l)
      PROVE  UNCHANGED <<Held, Image>>
  <2>1. PICK err \in LoadErrors : Fails(l, err)
    BY <1>5, SegmentErrors DEF CopyFails
  <2> QED BY <1>5, <2>1, FailsStutters DEF CopyFails, Holding, Loaded
<1>6. ASSUME NEW l \in Loader, Copy(l)
      PROVE  L!Next \/ UNCHANGED <<Held, Image>>
  <2>1. CASE Loaded(l)'
    BY <1>6, <2>1, CopyIInv, LastCopy DEF L!Next
  <2>2. CASE ~ Loaded(l)'
    <3>1. ~ Loaded(l) /\ Holding(l) /\ OthersSame(l)
      BY <1>6, CopiedCall DEF Copy, Loaded, Holding
    <3> QED BY <2>2, <3>1, LoadedHolds, Stutters
  <2> QED BY <2>1, <2>2
<1>7. ASSUME NEW l \in Loader, NEW size \in DirectSizes, MapDirect(l, size)
      PROVE  L!Next \/ UNCHANGED <<Held, Image>>
  <2>1. CASE (\E err \in MapErrors(size) : Fails(l, err)) /\ UNCHANGED host
    BY <1>7, <2>1, MapErrorsType, FailsStutters DEF MapDirect, Loaded
  <2>2. CASE /\ MapOk(size)
             /\ call' = [call EXCEPT ![l] = [Returned("none") EXCEPT !.phase = "loaded",
                                                                     !.size = size]]
    <3>1. IInv'
      BY <1>7, MapDirectIInv
    <3>2. /\ OthersSame(l) /\ call'[l].phase = "loaded" /\ call'[l].file = NoFile
          /\ call'[l].size = size
      BY <2>2, <3>1 DEF IInv, OthersSame, Returned
    <3>3. Holding(l)' /\ CallOk(call'[l], host')
      BY <3>1, <3>2 DEF Holding, IInv
    <3>4. \A k \in Loader : ~ Loaded(k)
      BY <2>2, <3>2, <3>3, TakesMemory DEF Holding, Loaded
    <3>5. Held' = [Held EXCEPT ![l] = L!Blank] /\ Image' = host'
      BY <3>2, LoadedBy DEF Loaded
    <3>6. size \in 1 .. AddrMod - 1
      BY <2>2 DEF MapOk, GuestAddress
    <3>7. Image' = [a \in 0 .. size - 1 |-> 0]
      BY <2>2, <3>5 DEF MapOk, Zeroed
    <3>8. L!Reserve(l)
      BY <3>4, <3>5, <3>6, <3>7, NobodyLoaded DEF L!Reserve
    <3> QED BY <3>8 DEF L!Next
  <2> QED BY <1>7, <2>1, <2>2 DEF MapDirect
<1>8. ASSUME NEW l \in Loader, Release(l)
      PROVE  L!Next
  <2>1. Loaded(l) /\ Holding(l) /\ Fails(l, "none") /\ host' = Unmapped
    BY <1>8 DEF Release, Loaded, Holding, Unmap
  <2>2. OthersSame(l) /\ ~ Loaded(l)'
    BY <2>1, FailsOk DEF LoadErrors, Holding, Loaded
  <2>3. \A k \in Loader : ~ Loaded(k)'
    BY <2>1, <2>2, LoadedHolds DEF OthersSame, Loaded
  <2>4. Image' = Unmapped
    BY <2>3 DEF Image, Unmapped
  <2>5. Held' = [Held EXCEPT ![l] = L!Nothing]
    BY <2>2 DEF OthersSame, Held, Loaded, L!Nothing
  <2>6. Held[l] # L!Nothing
    <3>1. Held[l] \in {[what |-> "blank"], [what |-> "program", file |-> call[l].file]}
      BY <2>1 DEF Held
    <3>2. Held[l].what \in {"blank", "program"} /\ L!Nothing.what = "nothing"
      BY <3>1 DEF L!Nothing
    <3> QED BY <3>2
  <2>7. L!Release(l)
    BY <2>4, <2>5, <2>6 DEF L!Release, Unmapped
  <2> QED BY <2>7 DEF L!Next
<1> QED BY <1>1, <1>2, <1>3, <1>4, <1>5, <1>6, <1>7, <1>8 DEF Next, Loading

(* Whoever loads what, and whatever fails half-way: a program appears in   *)
(* memory whole or not at all, to one holder at a time.                    *)
THEOREM Refinement == Spec => ImplementsLoads
BY Invariance, ServiceInit, ServiceStep, PTL DEF Spec, ImplementsLoads, L!Spec
-----------------------------------------------------------------------------
(* What is left of a call: the mapping, and the segments to copy. *)
ToLoad(l) ==
  IF call[l].phase = "map" THEN Len(call[l].file.segs) + 1
  ELSE IF call[l].phase = "copy" THEN Len(call[l].file.segs) - call[l].next + 1
  ELSE 0

LEMMA ToLoadType == IInv => \A l \in Loader : ToLoad(l) \in Nat
<1> SUFFICES ASSUME IInv, NEW l \in Loader PROVE ToLoad(l) \in Nat
  OBVIOUS
<1>1. CASE call[l].phase = "map"
  <2>1. Len(call[l].file.segs) \in Nat
    BY <1>1, SegmentType DEF IInv, CallOk
  <2> QED BY <1>1, <2>1 DEF ToLoad
<1>2. CASE call[l].phase = "copy"
  <2>1. call[l].next \in 1 .. Len(call[l].file.segs) /\ Len(call[l].file.segs) \in Nat
    BY <1>2, CopyingCall, SegmentType
  <2> QED BY <1>2, <2>1 DEF ToLoad
<1>3. CASE call[l].phase \notin {"map", "copy"}
  BY <1>3 DEF ToLoad
<1> QED BY <1>1, <1>2, <1>3

(* Each step of a call leaves it less to do. *)
LEMMA LoadingStep ==
  ASSUME IInv, NEW l \in Loader, Loading(l)
  PROVE  ToLoad(l)' < ToLoad(l)
<1> DEFINE segs == call[l].file.segs
           n == call[l].next
<1>1. /\ call[l].phase \in {"map", "copy"} /\ Len(segs) \in Nat
      /\ call[l].phase = "map" => ToLoad(l) = Len(segs) + 1
      /\ call[l].phase = "copy" =>
           n \in 1 .. Len(segs) /\ ToLoad(l) = Len(segs) - n + 1
  <2>1. call[l].phase \in {"map", "copy"}
    BY DEF Loading, MapImage, Copy, CopyFails
  <2>2. Len(segs) \in Nat
    BY <2>1, SegmentType DEF IInv, CallOk
  <2>3. call[l].phase = "copy" => n \in 1 .. Len(segs)
    BY CopyingCall
  <2> QED BY <2>1, <2>2, <2>3 DEF ToLoad
<1>2. ASSUME NEW err, Fails(l, err) PROVE ToLoad(l)' < ToLoad(l)
  <2>1. ToLoad(l)' = 0
    BY <1>2 DEF Fails, Returned, IInv, ToLoad
  <2>2. ToLoad(l) > 0
    <3> HIDE DEF segs, n
    <3> QED BY <1>1
  <2> QED BY <2>1, <2>2
<1>3. CASE MapImage(l)
  <2>1. CASE call' = [call EXCEPT ![l].phase = "copy", ![l].next = 1]
    <3>1. /\ call[l].phase = "map" /\ call'[l].phase = "copy"
          /\ call'[l].next = 1 /\ call'[l].file = call[l].file
      BY <1>3, <2>1, MappedCall DEF MapImage
    <3>2. ToLoad(l)' = Len(segs) - 1 + 1
      BY <3>1 DEF ToLoad
    <3> QED BY <1>1, <3>1, <3>2
  <2> QED BY <1>2, <1>3, <2>1 DEF MapImage
<1>4. CASE CopyFails(l)
  BY <1>2, <1>4 DEF CopyFails
<1>5. CASE Copy(l)
  <2>1. /\ call[l].phase = "copy" /\ call'[l].file = call[l].file
        /\ call'[l].next = n + 1
        /\ call'[l].phase = IF n = Len(segs) THEN "loaded" ELSE "copy"
    BY <1>5, CopiedCall DEF Copy
  <2>2. ToLoad(l)' = IF n = Len(segs) THEN 0 ELSE Len(segs) - (n + 1) + 1
    BY <2>1 DEF ToLoad
  <2> HIDE DEF segs, n
  <2> QED BY <1>1, <2>1, <2>2
<1> QED BY <1>3, <1>4, <1>5 DEF Loading

(* While l loads, a step of another thread does not touch its call.        *)
LEMMA LoadOfItsOwn ==
  IInv /\ [Next]_evars =>
    [\A l \in Loader :
       ToLoad(l) > 0 => ToLoad(l)' < ToLoad(l) \/ call'[l] = call[l]]_evars
<1> SUFFICES ASSUME IInv, Next, NEW l \in Loader, ToLoad(l) > 0, call'[l] # call[l]
             PROVE  ToLoad(l)' < ToLoad(l)
  OBVIOUS
<1>1. call[l].phase \in {"map", "copy"}
  BY DEF ToLoad
<1>2. PICK k \in Loader :
        \/ Unreadable(k) \/ \E file \in Files : Start(k, file)
        \/ Loading(k)
        \/ \E size \in DirectSizes : MapDirect(k, size)
        \/ Release(k)
  BY DEF Next
<1>3. k = l
  BY <1>2 DEF Unreadable, Start, Loading, MapImage, Copy, CopyFails, MapDirect,
              Release, Fails, IInv
<1>4. Loading(l)
  BY <1>1, <1>2, <1>3 DEF Unreadable, Start, MapDirect, Release
<1> QED BY <1>4, LoadingStep

(* A call of load that has begun to load ends within as many steps as its  *)
(* file has segments, and one: no other thread can add to it, set it back  *)
(* or finish it (elf.rs:97-109).                                           *)
THEOREM LoadsAreBounded ==
  Spec => /\ [](\A l \in Loader : ToLoad(l) \in Nat)
          /\ [][\A l \in Loader :
                  ToLoad(l) > 0 => ToLoad(l)' < ToLoad(l) \/ call'[l] = call[l]]_evars
BY Invariance, ToLoadType, LoadOfItsOwn, PTL DEF Spec
-----------------------------------------------------------------------------
(* The loader's own invariant, and what main.rs knows at each stage: only  *)
(* the main thread loads, and it holds a program from the end of load on.  *)
PInv ==
  /\ IInv /\ ProcessTypeOK
  /\ \A l \in Loader : l # main => call[l].phase = "idle"
  /\ call[main].phase = "loaded" => File # NoFile
  /\ stage = "done" => call[main].phase = "idle"
  /\ FetchNeverFails /\ WindowExact /\ StackClear

USE ProcessAssumption, LayoutAssumption
-----------------------------------------------------------------------------
(* Arithmetic with products, which the provers need help with.             *)

LEMMA ProductMonotone ==
  ASSUME NEW a \in Nat, NEW b \in Nat, NEW w \in Nat, a <= b
  PROVE  a * w <= b * w
<1>1. b - a \in Nat /\ b = a + (b - a)
  OBVIOUS
<1>2. b * w = a * w + (b - a) * w
  BY <1>1
<1>3. (b - a) * w \in Nat /\ a * w \in Nat /\ b * w \in Nat
  BY <1>1
<1> QED BY <1>2, <1>3

LEMMA Division ==
  ASSUME NEW n \in Nat, NEW m \in Nat \ {0}
  PROVE  n \div m \in Nat /\ n % m \in 0 .. m - 1 /\ n = m * (n \div m) + (n % m)
OBVIOUS

LEMMA MultipleOf ==
  ASSUME NEW n \in Nat, NEW m \in Nat \ {0}, n % m = 0
  PROVE  n \div m \in Nat /\ n = (n \div m) * m
<1>1. n \div m \in Nat /\ n = m * (n \div m) + (n % m)
  BY Division
<1> QED BY <1>1

(* Rounding down to a multiple. *)
LEMMA AlignDown ==
  ASSUME NEW v \in Nat, NEW m \in Nat \ {0}
  PROVE  /\ (v \div m) * m \in Nat /\ (v \div m) * m <= v
         /\ v < (v \div m) * m + m /\ ((v \div m) * m) % m = 0
<1> DEFINE k == v \div m
<1>1. k \in Nat /\ v % m \in 0 .. m - 1 /\ v = m * k + (v % m)
  BY Division
<1> HIDE DEF k
<1>2. k * m = m * k /\ k * m \in Nat
  BY <1>1
<1> DEFINE n == k * m
<1>3. n = m * k /\ n \in Nat
  BY <1>2
<1> HIDE DEF n
<1>4. n % m = 0
  <2> DEFINE q == n \div m
             r == n % m
  <2>1. q \in Nat /\ r \in 0 .. m - 1 /\ n = m * q + r
    BY <1>3, Division
  <2> HIDE DEF q, r
  <2>2. CASE k = q
    BY <1>3, <2>1, <2>2 DEF r
  <2>3. CASE k < q
    <3>1. (k + 1) * m <= q * m /\ (k + 1) * m = m * k + m /\ q * m = m * q
      BY <1>1, <2>1, <2>3, ProductMonotone
    <3> QED BY <1>3, <2>1, <3>1
  <2>4. CASE q < k
    <3>1. (q + 1) * m <= k * m /\ (q + 1) * m = m * q + m /\ k * m = m * k
      BY <1>1, <2>1, <2>4, ProductMonotone
    <3> QED BY <1>3, <2>1, <3>1
  <2> QED BY <1>1, <2>1, <2>2, <2>3, <2>4
<1> QED BY <1>1, <1>2, <1>4 DEF k, n

(* The page after guest memory is still an address range. *)
LEMMA RoomAboveMemory ==
  ASSUME NEW file \in Files, LayoutOk(file)
  PROVE  MemorySize(file) + PageSize <= AddrMod
<1>1. PageSize \in Nat \ {0} /\ AddrMod \in Nat /\ StackSize \in Nat /\ Slack \in Nat
  OBVIOUS
<1>2. PICK k \in Nat : MemorySize(file) = k * PageSize + StackSize + Slack
  BY LayoutProperties
<1> DEFINE s == StackSize \div PageSize
           t == Slack \div PageSize
           u == AddrMod \div PageSize
           n == k + s + t
<1>3. /\ s \in Nat /\ StackSize = s * PageSize
      /\ t \in Nat /\ Slack = t * PageSize
      /\ u \in Nat /\ AddrMod = u * PageSize
  BY <1>1, MultipleOf
<1>4. n \in Nat /\ MemorySize(file) = n * PageSize
  BY <1>1, <1>2, <1>3
<1>5. n * PageSize < u * PageSize
  BY <1>3, <1>4 DEF LayoutOk
<1> HIDE DEF s, t, u, n
<1>6. n + 1 <= u
  <2>1. CASE u <= n
    <3>1. u * PageSize <= n * PageSize
      BY <1>1, <1>3, <1>4, <2>1, ProductMonotone
    <3> QED BY <1>1, <1>3, <1>4, <1>5, <3>1
  <2> QED BY <1>3, <1>4, <2>1
<1>7. (n + 1) * PageSize <= u * PageSize
  BY <1>1, <1>3, <1>4, <1>6, ProductMonotone
<1>8. (n + 1) * PageSize = n * PageSize + PageSize
  BY <1>1, <1>4
<1> QED BY <1>3, <1>4, <1>7, <1>8

(* A set of numbers has a least one. *)
LEMMA Least ==
  ASSUME NEW T \in SUBSET Nat, T # {}
  PROVE  \E m \in T : \A t \in T : m <= t
<1> DEFINE R == OpToRel(<, Nat)
<1>1. PICK m \in T : \A t \in T : ~ (<<t, m>> \in R)
  BY NatLessThanWellFounded, WFMin
<1>2. \A t \in T : t < m => <<t, m>> \in R
  BY DEF OpToRel
<1>3. \A t \in T : ~ (t < m)
  BY <1>1, <1>2
<1>4. \A t \in T : m <= t
  BY <1>3
<1> QED BY <1>4
-----------------------------------------------------------------------------
LEMMA MainLoads == main \in Loader
BY DEF main

(* What main.rs holds once its program is loaded. *)
LEMMA Program ==
  ASSUME PInv, call[main].phase = "loaded"
  PROVE  /\ File \in Files /\ LayoutOk(File)
         /\ Size = MemorySize(File) /\ Size \in Nat /\ Size > 0
         /\ Size + PageSize <= AddrMod
         /\ \A a \in 0 .. Size - 1 : a \in DOMAIN host /\ host[a] = L!ByteAt(File, a)
<1>1. CallOk(call[main], host) /\ File # NoFile /\ Holding(main)
  BY MainLoads DEF PInv, IInv, Holding
<1>2. /\ File \in Files /\ LayoutOk(File) /\ Size = MemorySize(File)
      /\ Holds(host, File, Len(File.segs))
      /\ Size > 0 /\ Size \in Nat
  BY <1>1 DEF CallOk, CallRecord, GuestAddress, File, Size
<1>3. DOMAIN host = 0 .. Size - 1
  BY <1>1, MainLoads DEF PInv, IInv, Exclusive, Size
<1>4. \A a \in DOMAIN host : a \in Int
  BY <1>2, <1>3
<1> DEFINE file == File
<1>5. file \in Files /\ Holds(host, file, Len(file.segs))
  BY <1>2
<1> HIDE DEF file
<1>6. \A a \in DOMAIN host : host[a] = L!ByteAt(file, a)
  BY <1>4, <1>5, ImageOfFile
<1> QED BY <1>2, <1>3, <1>6, RoomAboveMemory DEF file
-----------------------------------------------------------------------------
(* The fetch loop. *)

LEMMA RoundsProperties ==
  ASSUME NEW p
  PROVE  LET n == Rounds(p)
         IN  /\ n \in 0 .. WordsPerFetch
             /\ \A i \in 0 .. n - 1 : Round(p, i) = "read"
             /\ n = WordsPerFetch \/ Round(p, n) # "read"
<1> DEFINE T == {n \in 0 .. WordsPerFetch : n = WordsPerFetch \/ Round(p, n) # "read"}
<1>1. WordsPerFetch \in T /\ T \subseteq Nat
  OBVIOUS
<1>2. PICK m \in T : \A t \in T : m <= t
  BY <1>1, Least
<1>3. m \in 0 .. WordsPerFetch /\ (m = WordsPerFetch \/ Round(p, m) # "read")
  OBVIOUS
<1>4. ASSUME NEW i \in 0 .. m - 1 PROVE Round(p, i) = "read"
  <2>1. i \in 0 .. WordsPerFetch /\ ~ (m <= i)
    BY <1>3
  <2>2. i \notin T
    BY <1>2, <2>1
  <2> QED BY <2>1, <2>2
<1> HIDE DEF T
<1>5. \E n \in 0 .. WordsPerFetch :
        /\ \A i \in 0 .. n - 1 : Round(p, i) = "read"
        /\ n = WordsPerFetch \/ Round(p, n) # "read"
  BY <1>3, <1>4
<1> QED BY <1>5 DEF Rounds

(* A word is read exactly if memory holds all of it: the addresses looked  *)
(* at are at most one page above the end of memory.                        *)
LEMMA FetchLoop ==
  ASSUME NEW p \in Nat, Size \in Nat, Size + PageSize <= AddrMod,
         ~ Outside(p)
  PROVE  LET n == Rounds(p)
         IN  /\ n = WordsPerFetch \/ Round(p, n) = "break"
             /\ \A i \in 1 .. WordsPerFetch :
                  i <= n <=> p + (i - 1) * WordBytes + WordBytes <= Size
<1> DEFINE n == Rounds(p)
           at(i) == p + i * WordBytes
<1>1. /\ n \in 0 .. WordsPerFetch
      /\ \A i \in 0 .. n - 1 : Round(p, i) = "read"
      /\ n = WordsPerFetch \/ Round(p, n) # "read"
  BY RoundsProperties
<1> HIDE DEF n
<1>2. WordBytes \in Nat \ {0} /\ AddrMod \in Nat /\ PageSize \in Nat
      /\ WordsPerFetch \in Nat /\ WordBytes < PageSize
  OBVIOUS
<1>3. \A i \in Nat : at(i) \in Nat /\ at(i + 1) = at(i) + WordBytes
  BY <1>2
<1>4. \A i, j \in Nat : i <= j => at(i) <= at(j)
  <2> SUFFICES ASSUME NEW i \in Nat, NEW j \in Nat, i <= j PROVE at(i) <= at(j)
    OBVIOUS
  <2>1. i * WordBytes <= j * WordBytes
    BY <1>2, ProductMonotone
  <2>2. i * WordBytes \in Nat /\ j * WordBytes \in Nat
    BY <1>2
  <2> QED BY <2>1, <2>2
<1>5. at(0) = p
  BY <1>2
<1>6. \A i \in Nat :
        Round(p, i) = IF at(i) >= AddrMod THEN "overflow"
                      ELSE IF at(i) + WordBytes >= AddrMod THEN "panic"
                      ELSE IF at(i) + WordBytes > Size THEN "break"
                      ELSE "read"
  BY DEF Round
<1> HIDE DEF at
<1>7. \A i \in 0 .. n - 1 : at(i) + WordBytes <= Size
  <2> SUFFICES ASSUME NEW i \in 0 .. n - 1 PROVE at(i) + WordBytes <= Size
    OBVIOUS
  <2>1. i \in Nat /\ Round(p, i) = "read"
    BY <1>1
  <2>2. at(i) \in Nat
    BY <1>3, <2>1
  <2>3. ~ (at(i) + WordBytes > Size)
    BY <1>6, <2>1
  <2> QED BY <1>2, <2>2, <2>3
<1>8. n \in Nat /\ at(n) \in Nat /\ at(n) <= Size
  <2>1. CASE n = 0
    <3>1. p <= Size
      BY <1>2 DEF Outside
    <3> QED BY <1>1, <1>5, <2>1, <3>1
  <2>2. CASE n > 0
    <3>1. n - 1 \in Nat /\ n - 1 \in 0 .. n - 1 /\ n \in Nat /\ (n - 1) + 1 = n
      BY <1>1, <2>2
    <3>2. at(n) = at(n - 1) + WordBytes
      BY <1>3, <3>1
    <3> QED BY <1>3, <1>7, <3>1, <3>2
  <2> QED BY <1>1, <2>1, <2>2
<1>9. Round(p, n) \in {"break", "read"}
  <2>1. ~ (at(n) >= AddrMod) /\ ~ (at(n) + WordBytes >= AddrMod)
    BY <1>2, <1>8
  <2> QED BY <1>6, <1>8, <2>1
<1>10. ASSUME NEW i \in 1 .. WordsPerFetch
       PROVE  i <= n <=> at(i - 1) + WordBytes <= Size
  <2> i - 1 \in Nat /\ i \in Nat
    OBVIOUS
  <2>1. i - 1 \in Nat /\ i \in Nat /\ at(i - 1) \in Nat
    BY <1>3
  <2>2. CASE i <= n
    BY <1>1, <1>7, <2>1, <2>2
  <2>3. CASE n < i
    <3>1. n # WordsPerFetch /\ n <= i - 1
      BY <1>1, <1>2, <2>1, <2>3
    <3>2. Round(p, n) = "break"
      BY <1>1, <1>9, <3>1
    <3>3. at(n) + WordBytes > Size
      BY <1>6, <1>8, <3>2
    <3>4. at(n) <= at(i - 1)
      BY <1>4, <1>8, <2>1, <3>1
    <3> QED BY <1>2, <1>8, <2>1, <2>3, <3>3, <3>4
  <2> QED BY <1>1, <2>1, <2>2, <2>3
<1>11. \A i \in 1 .. WordsPerFetch :
         i <= n <=> p + (i - 1) * WordBytes + WordBytes <= Size
  BY <1>10 DEF at
<1>12. n = WordsPerFetch \/ Round(p, n) = "break"
  BY <1>1, <1>9
<1> QED BY <1>11, <1>12 DEF n
-----------------------------------------------------------------------------
(* The steps. *)

(* Window w is the one a fetch at p gets of the file. *)
WindowIs(w, p, file, size) ==
  \A i \in 1 .. WordsPerFetch :
    LET at == p + (i - 1) * WordBytes
    IN  w[i] = IF at + WordBytes <= size
               THEN [j \in 1 .. WordBytes |-> L!ByteAt(file, at + j - 1)]
               ELSE ZeroBytes

LEMMA WindowExactNow ==
  WindowExact <=> (stage = "fetched" => WindowIs(window, gpc, File, Size))
BY DEF WindowExact, WindowIs

LEMMA WindowExactNext ==
  WindowExact' <=> (stage' = "fetched" => WindowIs(window', gpc', File', Size'))
BY DEF WindowExact, WindowIs, ZeroBytes

LEMMA InitPInv == ProcessInit => PInv
<1> SUFFICES ASSUME ProcessInit PROVE PInv
  OBVIOUS
<1>1. IInv /\ \A l \in Loader : call[l] = Returned("none")
  BY InitIInv DEF ProcessInit, Init
<1>2. Returned("none").phase = "idle"
  BY DEF Returned
<1>3. 0 \in GuestAddress
  BY DEF GuestAddress
<1> QED BY <1>1, <1>2, <1>3, IInvTypeOK, MainLoads
        DEF PInv, ProcessInit, ProcessTypeOK, Results, FetchNeverFails, WindowExact,
            StackClear

LEMMA TypeOKNext == IInv' => TypeOK'
BY IInvTypeOK, PTL

(* A step that leaves the loader alone. *)
LEMMA LoaderSame ==
  ASSUME PInv, UNCHANGED <<host, call>>
  PROVE  IInv' /\ TypeOK'
<1>1. IInv /\ UNCHANGED evars
  BY DEF PInv, evars
<1>2. IInv'
  BY <1>1, StepIInv
<1> QED BY <1>2, TypeOKNext

LEMMA LoadImagePInv ==
  ASSUME PInv, LoadImage
  PROVE  PInv'
<1> USE MainLoads
<1>1. IInv /\ call \in [Loader -> CallRecord]
  BY DEF PInv, IInv
<1> DEFINE MainOnly ==
             /\ \A l \in Loader : l # main => call'[l] = call[l]
             /\ call'[main].phase = "loaded" => call'[main].file # NoFile
<1>2. ASSUME NEW err, Fails(main, err) PROVE MainOnly
  BY <1>1, <1>2 DEF Fails, Returned
<1>3. IInv' /\ MainOnly
  <2>1. CASE Unreadable(main)
    BY <1>2, <2>1, UnreadableIInv DEF PInv, Unreadable
  <2>2. ASSUME NEW file \in Files, Start(main, file)
        PROVE  IInv' /\ MainOnly
    <3>1. CASE Fails(main, "architecture") \/ Fails(main, "segment")
      BY <1>1, <1>2, <2>2, <3>1, StartIInv
    <3>2. CASE call' = [call EXCEPT ![main] =
                          [@ EXCEPT !.phase = "map", !.file = file,
                                    !.size = MemorySize(file), !.err = "none"]]
      <4> DEFINE c == [call[main] EXCEPT !.phase = "map", !.file = file,
                                         !.size = MemorySize(file), !.err = "none"]
      <4>1. c.phase = "map"
        BY <1>1 DEF CallRecord
      <4>2. call' = [call EXCEPT ![main] = c]
        BY <3>2
      <4> HIDE DEF c
      <4> QED BY <1>1, <2>2, <4>1, <4>2, StartIInv
    <3> QED BY <2>2, <3>1, <3>2 DEF Start
  <2>3. CASE MapImage(main)
    <3>1. CASE \E err \in MapErrors(call[main].size) : Fails(main, err)
      BY <1>1, <1>2, <2>3, <3>1, MapImageIInv
    <3>2. CASE call' = [call EXCEPT ![main].phase = "copy", ![main].next = 1]
      <4>1. OthersSame(main) /\ call'[main].phase = "copy"
        BY <1>1, <2>3, <3>2, MappedCall DEF MapImage
      <4> QED BY <1>1, <2>3, <4>1, MapImageIInv DEF OthersSame
    <3> QED BY <2>3, <3>1, <3>2 DEF MapImage
  <2>4. CASE CopyFails(main)
    BY <1>1, <1>2, <2>4, CopyFailsIInv DEF CopyFails
  <2>5. CASE Copy(main)
    <3>1. call[main].phase = "copy"
      BY <2>5 DEF Copy
    <3>2. call[main].file # NoFile
      BY <1>1, <3>1, CopyingCall
    <3> QED BY <1>1, <2>5, <3>2, CopyIInv, CopiedCall DEF OthersSame
  <2> QED BY <2>1, <2>2, <2>3, <2>4, <2>5 DEF LoadImage, Loading
<1>4. stage = "load" /\ result = "none" /\ UNCHANGED <<gpc, sp, window>>
  BY DEF LoadImage, PInv, ProcessTypeOK
<1>5. \/ stage' = "load" /\ result' = "none"
      \/ stage' = "done" /\ result' = "load" /\ call'[main].phase = "idle"
  BY <1>4 DEF LoadImage
<1>6. ProcessTypeOK'
  BY <1>3, <1>4, <1>5, TypeOKNext DEF PInv, ProcessTypeOK, Results
<1>7. /\ \A l \in Loader : l # main => call'[l].phase = "idle"
      /\ call'[main].phase = "loaded" => File' # NoFile
      /\ stage' = "done" => call'[main].phase = "idle"
  BY <1>3, <1>5 DEF PInv, File
<1>8. FetchNeverFails' /\ WindowExact' /\ StackClear'
  BY <1>5 DEF FetchNeverFails, WindowExact, StackClear
<1> QED BY <1>3, <1>6, <1>7, <1>8 DEF PInv

LEMMA EndsPInv ==
  ASSUME PInv, NEW why \in Results \ {"none", "overflow", "panic"}, Ends(why)
  PROVE  PInv'
<1>1. IInv' /\ call'[main] = Returned("none")
      /\ \A l \in Loader : l # main => call'[l] = call[l]
  BY MainLoads, ReleaseIInv DEF PInv, IInv, Ends, Release, Fails
<1>2. call'[main].phase = "idle"
  BY <1>1 DEF Returned
<1>3. stage' = "done" /\ result' = why /\ UNCHANGED <<gpc, sp, window>>
  BY DEF Ends
<1>4. ProcessTypeOK'
  BY <1>1, <1>3, TypeOKNext DEF PInv, ProcessTypeOK
<1>5. FetchNeverFails' /\ WindowExact' /\ StackClear'
  BY <1>3 DEF FetchNeverFails, WindowExact, StackClear
<1> QED BY <1>1, <1>2, <1>3, <1>4, <1>5 DEF PInv

(* The first stack pointer. *)
LEMMA FirstStackPointer ==
  ASSUME NEW file \in Files, LayoutOk(file), NEW n, n = MemorySize(file)
  PROVE  LET first == (SaturatingSub(n, SpGap) \div SpAlign) * SpAlign
         IN  /\ first \in GuestAddress /\ first % SpAlign = 0 /\ first < n
             /\ \A i \in Occupied(file) : End(file.segs[i]) + StackSize <= first
<1> DEFINE v == SaturatingSub(n, SpGap)
           first == (v \div SpAlign) * SpAlign
<1>1. n \in Nat /\ n < AddrMod /\ AddrMod \in Nat
  BY LayoutProperties DEF GuestAddress
<1>2. PICK k \in Nat : n = k * PageSize + StackSize + Slack
  BY LayoutProperties
<1>3. k * PageSize \in Nat /\ StackSize \in Nat /\ Slack \in Nat
      /\ SpGap \in Nat \ {0} /\ SpAlign \in Nat \ {0} /\ SpGap + SpAlign <= Slack
  OBVIOUS
<1>4. v = n - SpGap /\ v \in Nat
  BY <1>1, <1>2, <1>3 DEF SaturatingSub
<1> HIDE DEF v
<1>5. /\ first \in Nat /\ first <= v /\ v < first + SpAlign /\ first % SpAlign = 0
  BY <1>3, <1>4, AlignDown
<1> HIDE DEF first
<1>6. first < n /\ first \in GuestAddress
  BY <1>1, <1>3, <1>4, <1>5 DEF GuestAddress
<1>7. ASSUME NEW i \in Occupied(file) PROVE End(file.segs[i]) + StackSize <= first
  <2>1. End(file.segs[i]) + StackSize + Slack <= n
    BY LayoutProperties
  <2>2. End(file.segs[i]) \in Nat
    BY SegmentType DEF Occupied
  <2> QED BY <1>1, <1>3, <1>4, <1>5, <2>1, <2>2
<1> QED BY <1>5, <1>6, <1>7 DEF first, v

LEMMA SetupPInv ==
  ASSUME PInv, Setup
  PROVE  PInv'
<1>1. /\ call[main].phase = "loaded" /\ stage' = "loop" /\ gpc' = File.entry
      /\ sp' = (SaturatingSub(Size, SpGap) \div SpAlign) * SpAlign
      /\ UNCHANGED <<host, call, window, result>> /\ result = "none"
  BY DEF Setup, PInv, ProcessTypeOK
<1>2. File \in Files /\ LayoutOk(File) /\ Size = MemorySize(File)
  BY <1>1, Program
<1>3. File' = File /\ Size' = Size
  BY <1>1 DEF File, Size
<1>4. /\ sp' \in GuestAddress /\ sp' % SpAlign = 0 /\ sp' < Size
      /\ \A i \in Occupied(File) : End(File.segs[i]) + StackSize <= sp'
  BY <1>1, <1>2, FirstStackPointer
<1>5. StackClear'
  BY <1>1, <1>3, <1>4 DEF StackClear, Occupied, End
<1>6. File.entry \in GuestAddress
  BY <1>2
<1>7. ProcessTypeOK'
  BY <1>1, <1>4, <1>6, LoaderSame DEF PInv, ProcessTypeOK
<1>8. FetchNeverFails' /\ WindowExact'
  BY <1>1 DEF PInv, FetchNeverFails, WindowExact
<1> QED BY <1>1, <1>3, <1>5, <1>7, <1>8, LoaderSame DEF PInv

(* The words handed over are those of the file's image. *)
LEMMA WindowOfFile ==
  ASSUME PInv, call[main].phase = "loaded", ~ Outside(gpc), NEW i \in 1 .. WordsPerFetch
  PROVE  LET at == gpc + (i - 1) * WordBytes
         IN  WindowAt(gpc, Rounds(gpc))[i] =
               IF at + WordBytes <= Size
               THEN [j \in 1 .. WordBytes |-> L!ByteAt(File, at + j - 1)]
               ELSE ZeroBytes
<1> DEFINE at == gpc + (i - 1) * WordBytes
           n == Rounds(gpc)
<1>1. /\ Size \in Nat /\ Size + PageSize <= AddrMod /\ gpc \in Nat
      /\ \A a \in 0 .. Size - 1 : host[a] = L!ByteAt(File, a)
  BY Program DEF PInv, ProcessTypeOK, GuestAddress
<1>2. i <= n <=> at + WordBytes <= Size
  BY <1>1, FetchLoop
<1>3. WindowAt(gpc, n)[i] = IF i <= n THEN ReadWord(at) ELSE ZeroBytes
  BY DEF WindowAt
<1>4. at \in Nat /\ WordBytes \in Nat
  <2>1. i - 1 \in Nat /\ WordBytes \in Nat
    OBVIOUS
  <2> QED BY <1>1, <2>1
<1> HIDE DEF at, n
<1>5. CASE at + WordBytes <= Size
  <2>1. ASSUME NEW j \in 1 .. WordBytes
        PROVE  host[at + j - 1] = L!ByteAt(File, at + j - 1)
    <3>1. at + j - 1 \in 0 .. Size - 1
      BY <1>1, <1>4, <1>5
    <3> QED BY <1>1, <3>1
  <2>2. ReadWord(at) = [j \in 1 .. WordBytes |-> L!ByteAt(File, at + j - 1)]
    BY <2>1 DEF ReadWord
  <2> QED BY <1>2, <1>3, <1>5, <2>2 DEF at, n
<1>6. CASE ~ (at + WordBytes <= Size)
  BY <1>2, <1>3, <1>6 DEF at, n
<1> QED BY <1>5, <1>6

LEMMA FetchPInv ==
  ASSUME PInv, Fetch
  PROVE  PInv'
<1>1. stage = "loop" /\ ~ Outside(gpc) /\ call[main].phase = "loaded" /\ result = "none"
  BY DEF Fetch, PInv, ProcessTypeOK
<1>2. Size \in Nat /\ Size + PageSize <= AddrMod /\ gpc \in Nat
  BY <1>1, Program DEF PInv, ProcessTypeOK, GuestAddress
<1>3. Rounds(gpc) = WordsPerFetch \/ Round(gpc, Rounds(gpc)) = "break"
  BY <1>1, <1>2, FetchLoop
<1>4. /\ window' = WindowAt(gpc, Rounds(gpc)) /\ stage' = "fetched"
      /\ UNCHANGED <<host, call, gpc, sp, result>>
  BY <1>3 DEF Fetch
<1>5. File' = File /\ Size' = Size
  BY <1>4 DEF File, Size
<1>6. WindowIs(window', gpc', File', Size')
  BY <1>1, <1>4, <1>5, WindowOfFile DEF WindowIs
<1>7. ProcessTypeOK'
  BY <1>1, <1>4, LoaderSame DEF PInv, ProcessTypeOK
<1>8. FetchNeverFails' /\ StackClear'
  BY <1>1, <1>4, <1>5 DEF PInv, FetchNeverFails, StackClear, Occupied, End
<1> QED BY <1>1, <1>4, <1>5, <1>6, <1>7, <1>8, LoaderSame, WindowExactNext DEF PInv

LEMMA BlockRanPInv ==
  ASSUME PInv, BlockRan
  PROVE  PInv'
<1>1. /\ stage = "fetched" /\ stage' = "loop" /\ gpc' \in GuestAddress
      /\ UNCHANGED <<host, call, sp, result>>
      /\ call[main].phase = "loaded" /\ result = "none"
  BY DEF BlockRan, PInv, ProcessTypeOK
<1>2. File' = File /\ Size' = Size
  BY <1>1 DEF File, Size
<1>3. ProcessTypeOK'
  BY <1>1, LoaderSame DEF PInv, ProcessTypeOK
<1>4. FetchNeverFails' /\ StackClear' /\ WindowExact'
  BY <1>1, <1>2 DEF PInv, FetchNeverFails, StackClear, WindowExact, Occupied, End
<1> QED BY <1>1, <1>2, <1>3, <1>4, LoaderSame DEF PInv

LEMMA StepPInv == PInv /\ [ProcessNext]_pvars => PInv'
<1> SUFFICES ASSUME PInv, [ProcessNext]_pvars PROVE PInv'
  OBVIOUS
<1>1. CASE UNCHANGED pvars
  <2>1. UNCHANGED <<host, call, stage, gpc, sp, window, result>>
    BY <1>1 DEF pvars
  <2>2. File' = File /\ Size' = Size
    BY <2>1 DEF File, Size
  <2>3. ProcessTypeOK'
    BY <2>1, LoaderSame DEF PInv, ProcessTypeOK
  <2>4. FetchNeverFails' /\ StackClear' /\ WindowExact'
    BY <2>1, <2>2, WindowExactNow, WindowExactNext
       DEF PInv, FetchNeverFails, StackClear, Occupied, End
  <2> QED BY <2>1, <2>2, <2>3, <2>4, LoaderSame DEF PInv
<1>2. CASE Exit
  BY <1>2, EndsPInv DEF Exit, Results
<1>3. CASE PcOutside
  BY <1>3, EndsPInv DEF PcOutside, Results
<1>4. CASE OutOfBudget
  BY <1>4, EndsPInv DEF OutOfBudget, Results
<1>5. CASE Refused
  BY <1>5, EndsPInv DEF Refused, Results
<1> QED BY <1>1, <1>2, <1>3, <1>4, <1>5, LoadImagePInv, SetupPInv, FetchPInv,
           BlockRanPInv DEF ProcessNext

LEMMA ProcessInvariance == ProcessSpec => []PInv
BY InitPInv, StepPInv, PTL DEF ProcessSpec
-----------------------------------------------------------------------------
(* Every variable is what it is meant to be; while the guest runs, a       *)
(* program is loaded (main.rs:28-66).                                      *)
THEOREM ProcessTypeCorrect == ProcessSpec => []ProcessTypeOK
BY ProcessInvariance, PTL DEF PInv

(* Fetching never ends the program, whatever PC the guest jumps to.        *)
THEOREM FetchIsSafe == ProcessSpec => []FetchNeverFails
BY ProcessInvariance, PTL DEF PInv

(* The translator sees the file's own words, and zeros past memory's end.  *)
THEOREM FetchReadsTheProgram == ProcessSpec => []WindowExact
BY ProcessInvariance, PTL DEF PInv

(* The first stack pointer is aligned, in memory and clear of the program. *)
THEOREM StackIsReserved == ProcessSpec => []StackClear
BY ProcessInvariance, PTL DEF PInv

(* Guest memory is given back however the program ends.                    *)
THEOREM MemoryGivenBack == ProcessSpec => []MemoryReturned
<1>1. ASSUME PInv PROVE MemoryReturned
  <2> SUFFICES ASSUME stage = "done" PROVE host = Unmapped
    BY DEF MemoryReturned
  <2>1. \A l \in Loader : call[l].phase = "idle"
    BY <1>1 DEF PInv
  <2>2. \A l \in Loader : ~ Holding(l)
    BY <2>1 DEF Holding
  <2> QED BY <1>1, <2>2 DEF PInv, IInv, Exclusive
<1> QED BY <1>1, ProcessInvariance, PTL
=============================================================================
