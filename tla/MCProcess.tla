----------------------------- MODULE MCProcess -----------------------------
(* Images that end on a page and off it, near the start and the end of the *)
(* address space.                                                          *)
EXTENDS Process

Seg(address, size, data) ==
  [address |-> address, size |-> size, data |-> data, readable |-> TRUE]
File1(entry, s) == [arch |-> "Aarch64", entry |-> entry, segs |-> <<s>>]
File2(entry, s, t) == [arch |-> "Aarch64", entry |-> entry, segs |-> <<s, t>>]

MCFiles ==
  {File1(0, Seg(0, 3, <<1, 2, 1>>)), File1(1, Seg(2, 2, <<1, 2>>)),
   File1(9, Seg(5, 6, <<2, 1, 1>>)), File1(18, Seg(17, 3, <<1, 2, 2>>)),
   File1(30, Seg(18, 1, <<2>>)), File1(3, Seg(20, 3, <<1, 2, 1>>)), File2(3, Seg(1, 3, <<1, 1, 1>>), Seg(2, 8, <<2, 2>>)),
   File2(3, Seg(4, 4, <<1, 1, 1, 1>>), Seg(14, 1, <<2, 2>>))}
=============================================================================
