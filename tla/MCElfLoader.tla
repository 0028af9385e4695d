---------------------------- MODULE MCElfLoader ----------------------------
(* Files of up to two segments: overlapping ones, BSS, more file bytes than*)
(* memory, no memory at all, ends at and past the end of the address space,*)
(* bytes that cannot be read.                                              *)
EXTENDS ElfLoader

Seg(address, size, data) ==
  [address |-> address, size |-> size, data |-> data, readable |-> TRUE]

MCSegments ==
  {Seg(0, 2, <<1, 2>>), Seg(1, 3, <<2>>), Seg(7, 5, <<1, 1>>), Seg(3, 1, <<2, 1>>),
   Seg(20, 4, <<>>), Seg(23, 0, <<>>), Seg(2, 0, <<>>), Seg(30, 2, <<1>>),
   [Seg(4, 2, <<1>>) EXCEPT !.readable = FALSE]}

File(arch, segs) == [arch |-> arch, entry |-> 0, segs |-> segs]

MCFiles ==
  {File("Aarch64", <<s>>) : s \in MCSegments}
  \cup {File("Aarch64", <<s, t>>) : s, t \in MCSegments}
  \cup {File("X86_64", <<Seg(0, 2, <<1, 2>>)>>), File("Aarch64", <<>>)}

MCDirect == {0, 16}
=============================================================================
