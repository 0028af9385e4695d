---------------------------- MODULE DecoderProofs ----------------------------
(***************************************************************************)
(* The bit level of the lifter, for every 32-bit word and every            *)
(* instruction that its four classes can express: the masks claim the      *)
(* words of these classes and no others, the fields cut out of a word are  *)
(* those of the instruction it encodes, and what is handed on is an        *)
(* instruction as the proofs about the pipeline assume it (WellFormed).    *)
(***************************************************************************)
EXTENDS Decoder, PipelineProofs

-----------------------------------------------------------------------------
(* Powers of two and the numbers that bits stand for.                      *)

LEMMA Powers ==
  /\ 2 ^ 0 = 1 /\ 2 ^ 1 = 2 /\ 2 ^ 2 = 4 /\ 2 ^ 3 = 8 /\ 2 ^ 4 = 16 /\ 2 ^ 5 = 32
  /\ 2 ^ 6 = 64 /\ 2 ^ 7 = 128 /\ 2 ^ 8 = 256 /\ 2 ^ 9 = 512 /\ 2 ^ 10 = 1024
  /\ 2 ^ 11 = 2048 /\ 2 ^ 12 = 4096 /\ 2 ^ 13 = 8192 /\ 2 ^ 14 = 16384
  /\ 2 ^ 15 = 32768 /\ 2 ^ 16 = 65536 /\ 2 ^ 17 = 131072 /\ 2 ^ 18 = 262144
  /\ 2 ^ 19 = 524288
OBVIOUS

LEMMA PowerStep ==
  ASSUME NEW n \in 0 .. 18
  PROVE  2 ^ (n + 1) = 2 * 2 ^ n /\ 2 ^ n \in Nat \ {0}
<1>1. CASE n = 0
  BY <1>1, Powers
<1>2. CASE n = 1
  BY <1>2, Powers
<1>3. CASE n = 2
  BY <1>3, Powers
<1>4. CASE n = 3
  BY <1>4, Powers
<1>5. CASE n = 4
  BY <1>5, Powers
<1>6. CASE n = 5
  BY <1>6, Powers
<1>7. CASE n = 6
  BY <1>7, Powers
<1>8. CASE n = 7
  BY <1>8, Powers
<1>9. CASE n = 8
  BY <1>9, Powers
<1>10. CASE n = 9
  BY <1>10, Powers
<1>11. CASE n = 10
  BY <1>11, Powers
<1>12. CASE n = 11
  BY <1>12, Powers
<1>13. CASE n = 12
  BY <1>13, Powers
<1>14. CASE n = 13
  BY <1>14, Powers
<1>15. CASE n = 14
  BY <1>15, Powers
<1>16. CASE n = 15
  BY <1>16, Powers
<1>17. CASE n = 16
  BY <1>17, Powers
<1>18. CASE n = 17
  BY <1>18, Powers
<1>19. CASE n = 18
  BY <1>19, Powers
<1> QED BY <1>1, <1>2, <1>3, <1>4, <1>5, <1>6, <1>7, <1>8, <1>9, <1>10,
           <1>11, <1>12, <1>13, <1>14, <1>15, <1>16, <1>17, <1>18, <1>19

(* One more binary digit. *)
LEMMA NextDigit ==
  ASSUME NEW r \in Int, NEW b \in Nat \ {0}
  PROVE  r % (2 * b) = (r % b) + (IF (r \div b) % 2 = 1 THEN b ELSE 0)
<1> DEFINE q == r \div b
           s == r % b
           h == q \div 2
           t == q % 2
<1>1. q \in Int /\ s \in 0 .. b - 1 /\ r = b * q + s
  OBVIOUS
<1>2. h \in Int /\ t \in {0, 1} /\ q = 2 * h + t
  BY <1>1
<1> HIDE DEF q, s, h, t
<1>3. CASE t = 0
  <2>1. r = (2 * b) * h + s /\ s \in 0 .. 2 * b - 1
    BY <1>1, <1>2, <1>3
  <2>2. r % (2 * b) = s
    BY <1>2, <2>1
  <2> QED BY <1>3, <2>2 DEF q, s, t
<1>4. CASE t = 1
  <2>1. r = (2 * b) * h + (b + s) /\ b + s \in 0 .. 2 * b - 1
    BY <1>1, <1>2, <1>4
  <2>2. r % (2 * b) = b + s
    BY <1>2, <2>1
  <2> QED BY <1>1, <1>4, <2>2 DEF q, s, t
<1> QED BY <1>2, <1>3, <1>4

LEMMA Wide == NBits("X64") = 64 /\ NBits("W32") = 32 /\ Bits("X64") = 0 .. 63
BY Powers, DecoderAssumption DEF NBits, Bits

LEMMA SumStep ==
  ASSUME NEW f, NEW v, Sums(f, v, 64), NEW n \in 0 .. 63
  PROVE  f[n] \in Int /\ (n \in v => f[n + 1] = f[n] + 2 ^ n) /\ (n \notin v => f[n + 1] = f[n])
<1>1. n \in 0 .. 64 - 1 /\ n \in 0 .. 64
  OBVIOUS
<1> QED BY <1>1 DEF Sums

(* A number that has no bits from k on is the sum of the k bits below.     *)
LEMMA NumberBelow ==
  ASSUME NEW k \in 0 .. 63, NEW v \in SUBSET (0 .. k - 1)
  PROVE  \E f : Sums(f, v, 64) /\ Number(v) = f[k]
<1>1. PICK f : Sums(f, v, 64) /\ Number(v) = f[64]
  BY Wide, NumberSum
<1> DEFINE S == {n \in Nat : k <= n /\ n <= 64 => f[n] = f[k]}
<1>2. 0 \in S
  OBVIOUS
<1>3. \A n \in Nat : n \in S => n + 1 \in S
  <2> SUFFICES ASSUME NEW n \in Nat, n \in S, k <= n + 1, n + 1 <= 64
               PROVE  f[n + 1] = f[k]
    OBVIOUS
  <2>1. CASE k = n + 1
    BY <2>1
  <2>2. CASE k <= n
    <3>1. f[n] = f[k] /\ n \in 0 .. 63 /\ n \notin v
      BY <2>2
    <3>2. f[n + 1] = f[n]
      BY <1>1, <3>1, SumStep
    <3> QED BY <3>1, <3>2
  <2> QED BY <2>1, <2>2
<1>4. 64 \in S
  <2> HIDE DEF S
  <2> QED BY <1>2, <1>3, Induction
<1> QED BY <1>1, <1>4

(* The bits of a two's complement number stand for it, modulo 2^k.         *)
LEMMA NumberOfTwos ==
  ASSUME NEW n \in Int, NEW k \in 0 .. 19
  PROVE  Number(Twos(n, k)) = n % 2 ^ k
<1> DEFINE r == n % 2 ^ k
           v == Twos(n, k)
<1>1. v \in SUBSET (0 .. k - 1) /\ \A i \in 0 .. k - 1 : i \in v <=> (r \div 2 ^ i) % 2 = 1
  BY DEF Twos
<1>2. 2 ^ k \in Nat \ {0}
  <2>1. CASE k \in 0 .. 18
    BY <2>1, PowerStep
  <2>2. CASE k = 19
    BY <2>2, Powers
  <2> QED BY <2>1, <2>2
<1>3. r \in Int /\ r % 2 ^ k = r
  BY <1>2
<1> HIDE DEF v, r
<1>0. k \in 0 .. 63
  OBVIOUS
<1>4. PICK f : Sums(f, v, 64) /\ Number(v) = f[k]
  BY <1>0, <1>1, NumberBelow
<1> DEFINE S == {m \in Nat : m <= k => f[m] = r % 2 ^ m}
<1>5. 0 \in S
  BY <1>3, <1>4, Powers DEF Sums
<1>6. \A m \in Nat : m \in S => m + 1 \in S
  <2> SUFFICES ASSUME NEW m \in Nat, m \in S, m + 1 <= k
               PROVE  f[m + 1] = r % 2 ^ (m + 1)
    OBVIOUS
  <2> DEFINE b == 2 ^ m
  <2>1. m \in 0 .. 18 /\ m \in 0 .. k - 1 /\ m \in 0 .. 63
    OBVIOUS
  <2>2. b \in Nat \ {0} /\ 2 ^ (m + 1) = 2 * b
    BY <2>1, PowerStep
  <2>3. f[m] = r % b
    BY <2>1
  <2>4. f[m + 1] = f[m] + IF m \in v THEN b ELSE 0
    <3>1. /\ f[m] \in Int
          /\ m \in v => f[m + 1] = f[m] + 2 ^ m
          /\ m \notin v => f[m + 1] = f[m]
      BY <1>4, <2>1, SumStep
    <3> HIDE DEF v
    <3> QED BY <3>1
  <2>5. m \in v <=> (r \div b) % 2 = 1
    BY <1>1, <2>1
  <2> HIDE DEF b
  <2>6. r % (2 * b) = (r % b) + (IF (r \div b) % 2 = 1 THEN b ELSE 0)
    BY <1>3, <2>2, NextDigit
  <2> QED BY <2>2, <2>3, <2>4, <2>5, <2>6
<1>7. k \in S
  <2> HIDE DEF S
  <2> QED BY <1>5, <1>6, Induction
<1> QED BY <1>3, <1>4, <1>7 DEF v, r

(* k bits stand for a number below 2^k. *)
LEMMA NumberFits ==
  ASSUME NEW k \in 0 .. 19, NEW v \in SUBSET (0 .. k - 1)
  PROVE  Number(v) \in 0 .. 2 ^ k - 1
<1>0. k \in 0 .. 63
  OBVIOUS
<1>1. PICK f : Sums(f, v, 64) /\ Number(v) = f[k]
  BY <1>0, NumberBelow
<1> DEFINE S == {m \in Nat : m <= k => f[m] \in 0 .. 2 ^ m - 1}
<1>2. 0 \in S
  BY <1>1, Powers DEF Sums
<1>3. \A m \in Nat : m \in S => m + 1 \in S
  <2> SUFFICES ASSUME NEW m \in Nat, m \in S, m + 1 <= k
               PROVE  f[m + 1] \in 0 .. 2 ^ (m + 1) - 1
    OBVIOUS
  <2> DEFINE b == 2 ^ m
  <2>1. m \in 0 .. 18 /\ m \in 0 .. 63
    OBVIOUS
  <2>2. b \in Nat \ {0} /\ 2 ^ (m + 1) = 2 * b
    BY <2>1, PowerStep
  <2>3. f[m] \in 0 .. b - 1
    BY <2>1
  <2>4. f[m + 1] = f[m] + IF m \in v THEN b ELSE 0
    <3>1. /\ f[m] \in Int
          /\ m \in v => f[m + 1] = f[m] + 2 ^ m
          /\ m \notin v => f[m + 1] = f[m]
      BY <1>1, <2>1, SumStep
    <3> QED BY <3>1
  <2> HIDE DEF b
  <2> QED BY <2>2, <2>3, <2>4
<1>4. k \in S
  <2> HIDE DEF S
  <2> QED BY <1>2, <1>3, Induction
<1> QED BY <1>1, <1>4

(* Two bits. *)
LEMMA TwoBits ==
  ASSUME NEW v \in SUBSET (0 .. 1)
  PROVE  Number(v) = (IF 0 \in v THEN 1 ELSE 0) + (IF 1 \in v THEN 2 ELSE 0)
<1>1. PICK f : Sums(f, v, 64) /\ Number(v) = f[2]
  <2>1. 2 \in 0 .. 63 /\ v \in SUBSET (0 .. 2 - 1)
    OBVIOUS
  <2> QED BY <2>1, NumberBelow
<1>2. f[0] = 0
  BY <1>1 DEF Sums
<1>3. f[1] = IF 0 \in v THEN 1 ELSE 0
  <2> DEFINE n == 0
  <2>1. n \in 0 .. 63
    OBVIOUS
  <2> HIDE DEF n
  <2>2. /\ n \in v => f[n + 1] = f[n] + 2 ^ n
        /\ n \notin v => f[n + 1] = f[n]
    BY <1>1, <2>1, SumStep
  <2>3. n = 0 /\ n + 1 = 1 /\ 2 ^ n = 1
    BY Powers DEF n
  <2> QED BY <1>2, <2>2, <2>3
<1>4. f[2] = f[1] + IF 1 \in v THEN 2 ELSE 0
  <2> DEFINE n == 1
  <2>1. n \in 0 .. 63
    OBVIOUS
  <2> HIDE DEF n
  <2>2. /\ n \in v => f[n + 1] = f[n] + 2 ^ n
        /\ n \notin v => f[n + 1] = f[n]
    BY <1>1, <2>1, SumStep
  <2>3. n = 1 /\ n + 1 = 2 /\ 2 ^ n = 2
    BY Powers DEF n
  <2> QED BY <1>3, <2>2, <2>3
<1> QED BY <1>1, <1>3, <1>4
-----------------------------------------------------------------------------
(* The masks and patterns, bit by bit. *)

LEMMA MaskedBits ==
  ASSUME NEW mask, NEW value \in SUBSET mask
  PROVE  Masked(mask, value) <=> \A i \in mask : i \in word <=> i \in value
BY DEF Masked

LEMMA BcondBits ==
  IsBcond <=> /\ 31 \notin word /\ 30 \in word /\ 29 \notin word /\ 28 \in word
              /\ 27 \notin word /\ 26 \in word /\ 25 \notin word /\ 24 \notin word
              /\ 4 \notin word
<1>1. (24 .. 31) \cup {4} = {24, 25, 26, 27, 28, 29, 30, 31, 4}
  OBVIOUS
<1>2. IsBcond <=> \A i \in {24, 25, 26, 27, 28, 29, 30, 31, 4} :
                    i \in word <=> i \in {30, 28, 26}
  BY <1>1, MaskedBits DEF IsBcond
<1> QED BY <1>2

LEMMA CompareBits ==
  /\ IsCbz <=> /\ 30 \notin word /\ 29 \in word /\ 28 \in word /\ 27 \notin word
               /\ 26 \in word /\ 25 \notin word /\ 24 \notin word
  /\ IsCbnz <=> /\ 30 \notin word /\ 29 \in word /\ 28 \in word /\ 27 \notin word
                /\ 26 \in word /\ 25 \notin word /\ 24 \in word
<1>1. 24 .. 30 = {24, 25, 26, 27, 28, 29, 30}
  OBVIOUS
<1>2. IsCbz <=> \A i \in {24, 25, 26, 27, 28, 29, 30} : i \in word <=> i \in {29, 28, 26}
  BY <1>1, MaskedBits DEF IsCbz
<1>3. IsCbnz <=> \A i \in {24, 25, 26, 27, 28, 29, 30} :
                   i \in word <=> i \in {29, 28, 26, 24}
  BY <1>1, MaskedBits DEF IsCbnz
<1> QED BY <1>2, <1>3

LEMMA MoveBits ==
  /\ IsMovz <=> /\ 30 \in word /\ 29 \notin word /\ 28 \in word /\ 27 \notin word
                /\ 26 \notin word /\ 25 \in word /\ 24 \notin word /\ 23 \in word
  /\ IsMovn <=> /\ 30 \notin word /\ 29 \notin word /\ 28 \in word /\ 27 \notin word
                /\ 26 \notin word /\ 25 \in word /\ 24 \notin word /\ 23 \in word
<1>1. 23 .. 30 = {23, 24, 25, 26, 27, 28, 29, 30}
  OBVIOUS
<1>2. IsMovz <=> \A i \in {23, 24, 25, 26, 27, 28, 29, 30} :
                   i \in word <=> i \in {30, 28, 25, 23}
  BY <1>1, MaskedBits DEF IsMovz
<1>3. IsMovn <=> \A i \in {23, 24, 25, 26, 27, 28, 29, 30} :
                   i \in word <=> i \in {28, 25, 23}
  BY <1>1, MaskedBits DEF IsMovn
<1> QED BY <1>2, <1>3

LEMMA MemBits ==
  /\ IsLoad <=> /\ 29 \in word /\ 28 \in word /\ 27 \in word /\ 26 \notin word
                /\ 25 \notin word /\ 24 \in word /\ 23 \notin word /\ 22 \in word
  /\ IsStore <=> /\ 29 \in word /\ 28 \in word /\ 27 \in word /\ 26 \notin word
                 /\ 25 \notin word /\ 24 \in word /\ 23 \notin word /\ 22 \notin word
<1>1. 22 .. 29 = {22, 23, 24, 25, 26, 27, 28, 29}
  OBVIOUS
<1>2. IsLoad <=> \A i \in {22, 23, 24, 25, 26, 27, 28, 29} :
                   i \in word <=> i \in {29, 28, 27, 24, 22}
  BY <1>1, MaskedBits DEF IsLoad
<1>3. IsStore <=> \A i \in {22, 23, 24, 25, 26, 27, 28, 29} :
                    i \in word <=> i \in {29, 28, 27, 24}
  BY <1>1, MaskedBits DEF IsStore
<1> QED BY <1>2, <1>3

(* The two fields of two bits, and what they select. *)
LEMMA SizeBits ==
  /\ Size \in {2, 3} <=> 31 \in word
  /\ 31 \in word => Size = IF 30 \in word THEN 3 ELSE 2
<1> DEFINE v == Field(30, 2)
<1>1. v \in SUBSET (0 .. 1) /\ (0 \in v <=> 30 \in word) /\ (1 \in v <=> 31 \in word)
  BY DEF Field
<1> HIDE DEF v
<1>2. Number(v) = (IF 0 \in v THEN 1 ELSE 0) + (IF 1 \in v THEN 2 ELSE 0)
  BY <1>1, TwoBits
<1>3. Size = Number(v)
  BY DEF Size, v
<1> QED BY <1>1, <1>2, <1>3

LEMMA HalfBits == BadHalf <=> 31 \notin word /\ 22 \in word
<1> DEFINE v == Field(21, 2)
<1>1. v \in SUBSET (0 .. 1) /\ (1 \in v <=> 22 \in word)
  BY DEF Field
<1> HIDE DEF v
<1>2. Number(v) = (IF 0 \in v THEN 1 ELSE 0) + (IF 1 \in v THEN 2 ELSE 0)
  BY <1>1, TwoBits
<1>3. BadHalf <=> WidthBit = "W32" /\ Number(v) > 1
  BY DEF BadHalf, v
<1> QED BY <1>1, <1>2, <1>3 DEF WidthBit

LEMMA HandledBits ==
  /\ Handled(word) <=>
       IsBcond \/ IsCbz \/ IsCbnz \/ IsMovz \/ IsMovn
         \/ ((IsLoad \/ IsStore) /\ 31 \in word)
  /\ Unallocated(word) <=> (IsMovz \/ IsMovn) /\ 31 \notin word /\ 22 \in word
<1>1. Matches(word, <<0, 1, 0, 1, 0, 1, 0, 0>>) <=>
        /\ 31 \notin word /\ 30 \in word /\ 29 \notin word /\ 28 \in word
        /\ 27 \notin word /\ 26 \in word /\ 25 \notin word /\ 24 \notin word
  <2>1. DOMAIN <<0, 1, 0, 1, 0, 1, 0, 0>> = {1, 2, 3, 4, 5, 6, 7, 8}
    OBVIOUS
  <2> QED BY <2>1 DEF Matches, X
<1>2. Matches(word, <<X, 0, 1, 1, 0, 1, 0>>) <=>
        /\ 30 \notin word /\ 29 \in word /\ 28 \in word
        /\ 27 \notin word /\ 26 \in word /\ 25 \notin word
  <2>1. DOMAIN <<X, 0, 1, 1, 0, 1, 0>> = {1, 2, 3, 4, 5, 6, 7}
    OBVIOUS
  <2> QED BY <2>1 DEF Matches, X
<1>3. Matches(word, MoveWide) <=>
        /\ 29 \notin word /\ 28 \in word /\ 27 \notin word /\ 26 \notin word
        /\ 25 \in word /\ 24 \notin word /\ 23 \in word
  <2>1. DOMAIN MoveWide = {1, 2, 3, 4, 5, 6, 7, 8, 9}
    BY DEF MoveWide
  <2> QED BY <2>1 DEF Matches, X, MoveWide
<1>4. Matches(word, <<1, X, 1, 1, 1, 0, 0, 1, 0>>) <=>
        /\ 31 \in word /\ 29 \in word /\ 28 \in word /\ 27 \in word
        /\ 26 \notin word /\ 25 \notin word /\ 24 \in word /\ 23 \notin word
  <2>1. DOMAIN <<1, X, 1, 1, 1, 0, 0, 1, 0>> = {1, 2, 3, 4, 5, 6, 7, 8, 9}
    OBVIOUS
  <2> QED BY <2>1 DEF Matches, X
<1> HIDE DEF Matches
<1> QED BY <1>1, <1>2, <1>3, <1>4, BcondBits, CompareBits, MoveBits, MemBits
        DEF Handled, Unallocated
-----------------------------------------------------------------------------
(* Fields put in place and cut out again. *)

Within(v, n) == v \subseteq 0 .. n - 1
Apart(rest, low, n) == \A i \in rest : i < low \/ low + n <= i

LEMMA CutOut ==
  ASSUME NEW low \in Int, NEW n \in Nat, NEW v, Within(v, n),
         NEW rest, Apart(rest, low, n), word = rest \cup Place(v, low)
  PROVE  Field(low, n) = v
<1>0. v \subseteq 0 .. n - 1 /\ \A i \in rest : i < low \/ low + n <= i
  BY DEF Within, Apart
<1>1. ASSUME NEW i \in v PROVE i \in Field(low, n)
  <2> DEFINE j == i + low
  <2>1. j \in word /\ j \in low .. low + n - 1 /\ j - low = i
    BY <1>0 DEF Place
  <2> HIDE DEF j
  <2> QED BY <2>1 DEF Field
<1>2. ASSUME NEW j \in word \cap (low .. low + n - 1) PROVE j - low \in v
  <2>1. PICK i \in v : j = i + low
    BY <1>0 DEF Place
  <2>2. j - low = i
    BY <1>0, <2>1
  <2> QED BY <2>1, <2>2
<1> QED BY <1>1, <1>2 DEF Field

LEMMA PlaceRange ==
  ASSUME NEW n \in Nat, NEW v, Within(v, n), NEW low \in Int
  PROVE  \A i \in Place(v, low) : i \in Int /\ low <= i /\ i < low + n
BY DEF Place, Within

LEMMA PlaceZero == ASSUME NEW v \in SUBSET Int PROVE Place(v, 0) = v
<1>1. \A i \in v : i + 0 = i
  OBVIOUS
<1> QED BY <1>1 DEF Place

LEMMA TwosRange == ASSUME NEW n, NEW k PROVE Within(Twos(n, k), k)
BY DEF Twos, Within

LEMMA TwosBit ==
  ASSUME NEW n, NEW k, NEW i \in 0 .. k - 1
  PROVE  i \in Twos(n, k) <=> ((n % 2 ^ k) \div 2 ^ i) % 2 = 1
BY DEF Twos

LEMMA SignExtension ==
  ASSUME NEW o \in Offset19
  PROVE  SignExtend19(Twos(o, 19)) = o
<1> DEFINE h == 2 ^ 18
           m == 2 ^ 19
           v == Twos(o, 19)
<1>1. h \in Nat \ {0} /\ m = 2 * h
  BY Powers
<1>2. o \in Int /\ -h <= o /\ o < h
  BY <1>1 DEF Offset19
<1>3. Number(v) = o % m /\ (18 \in v <=> ((o % m) \div h) % 2 = 1)
  <2>1. Number(v) = o % m
    <3>1. o \in Int /\ 19 \in 0 .. 19
      BY <1>2
    <3>2. \A n \in Int, k \in 0 .. 19 : Number(Twos(n, k)) = n % 2 ^ k
      BY NumberOfTwos
    <3> QED BY <3>1, <3>2, Zenon
  <2>2. 18 \in 0 .. 19 - 1
    OBVIOUS
  <2> QED BY <2>1, <2>2, TwosBit
<1>4. SignExtend19(v) = Number(v) - (IF 18 \in v THEN m ELSE 0)
  BY DEF SignExtend19
<1> HIDE DEF h, m, v
<1>5. CASE o >= 0
  <2>1. o % m = o /\ o \div h = 0
    BY <1>1, <1>2, <1>5
  <2> QED BY <1>2, <1>3, <1>4, <2>1 DEF v
<1>6. CASE o < 0
  <2>1. o + m = m * 0 + (o + m) /\ o = m * (-1) + (o + m) /\ o + m >= 0 /\ o + m < m
    BY <1>1, <1>2, <1>6
  <2>2. o % m = o + m
    BY <1>1, <1>2, <2>1
  <2>3. o + m = h * 1 + (o + h) /\ o + h >= 0 /\ o + h < h
    BY <1>1, <1>2, <1>6
  <2>4. (o + m) \div h = 1
    BY <1>1, <1>2, <2>3
  <2>5. 18 \in v
    BY <1>3, <2>2, <2>4
  <2>6. m \in Int
    BY <1>1
  <2> QED BY <1>2, <1>3, <1>4, <2>2, <2>5, <2>6 DEF v
<1> QED BY <1>2, <1>5, <1>6

LEMMA SmallNumber ==
  /\ \A n \in RegField5 : Number(Twos(n, 5)) = n
  /\ \A n \in 0 .. 15 : Number(Twos(n, 4)) = n
  /\ \A n \in 0 .. 3 : Number(Twos(n, 2)) = n
BY NumberOfTwos, Powers DEF RegField5

(* B.cond: encoded and lifted. *)
LEMMA BcondRoundTrip ==
  ASSUME NEW w \in [op : {"BCOND"}, offset : Offset19, cond : 0 .. 15], word = Encode(w)
  PROVE  IsBcond /\ BcondFields = w
<1> DEFINE top == {30, 28, 26}
           off == Twos(w.offset, 19)
           cond == Twos(w.cond, 4)
<1>1. Top(<<0, 1, 0, 1, 0, 1, 0, 0>>) = top
  <2>1. DOMAIN <<0, 1, 0, 1, 0, 1, 0, 0>> = {1, 2, 3, 4, 5, 6, 7, 8}
    OBVIOUS
  <2> QED BY <2>1 DEF Top
<1>2. word = top \cup Place(off, 5) \cup cond
  BY <1>1 DEF Encode
<1>3. Within(off, 19) /\ Within(cond, 4)
  BY TwosRange
<1> HIDE DEF off, cond
<1>4. /\ \A i \in Place(off, 5) : i \in Int /\ 5 <= i /\ i < 24
      /\ \A i \in cond : i \in Int /\ 0 <= i /\ i < 4
  <2>1. \A i \in Place(off, 5) : i \in Int /\ 5 <= i /\ i < 5 + 19
    BY <1>3, PlaceRange
  <2> QED BY <1>3, <2>1 DEF Within
<1>5. IsBcond
  BY <1>2, <1>4, BcondBits
<1>6. Field(5, 19) = off
  <2> DEFINE rest == top \cup cond
  <2>1. word = rest \cup Place(off, 5) /\ Apart(rest, 5, 19)
    BY <1>2, <1>4 DEF Apart
  <2> HIDE DEF rest
  <2> QED BY <1>3, <2>1, CutOut
<1>7. Field(0, 4) = cond
  <2> DEFINE rest == top \cup Place(off, 5)
  <2>1. word = rest \cup Place(cond, 0) /\ Apart(rest, 0, 4)
    BY <1>2, <1>3, <1>4, PlaceZero DEF Apart
  <2> HIDE DEF rest
  <2> QED BY <1>3, <2>1, CutOut
<1>8. SignExtend19(Field(5, 19)) = w.offset /\ Number(Field(0, 4)) = w.cond
  BY <1>6, <1>7, SignExtension, SmallNumber DEF off, cond
<1> QED BY <1>5, <1>8 DEF BcondFields

(* CBZ, CBNZ. *)
LEMMA CompareRoundTrip ==
  ASSUME NEW w \in [op : {"CBZ", "CBNZ"}, width : Widths, rt : RegField5,
                    offset : Offset19],
         word = Encode(w)
  PROVE  (IsCbz \/ IsCbnz) /\ CompareFields = w
<1> DEFINE pattern == <<Sf(w), 0, 1, 1, 0, 1, 0, IF w.op = "CBZ" THEN 0 ELSE 1>>
           top == Top(pattern)
           off == Twos(w.offset, 19)
           rt == Twos(w.rt, 5)
<1>1. /\ \A i \in top : i \in Int /\ 24 <= i
      /\ 31 \in top <=> w.width = "X64"
      /\ 24 \in top <=> w.op = "CBNZ"
      /\ 30 \notin top /\ 29 \in top /\ 28 \in top /\ 27 \notin top /\ 26 \in top
      /\ 25 \notin top
  <2>1. DOMAIN pattern = {1, 2, 3, 4, 5, 6, 7, 8}
    OBVIOUS
  <2>2. /\ pattern[1] = Sf(w) /\ pattern[2] = 0 /\ pattern[3] = 1 /\ pattern[4] = 1
        /\ pattern[5] = 0 /\ pattern[6] = 1 /\ pattern[7] = 0
        /\ pattern[8] = IF w.op = "CBZ" THEN 0 ELSE 1
    OBVIOUS
  <2>3. top = {32 - i : i \in {j \in {1, 2, 3, 4, 5, 6, 7, 8} : pattern[j] = 1}}
    BY <2>1 DEF Top
  <2> HIDE DEF pattern, top
  <2> QED BY <2>2, <2>3 DEF Sf
<1>2. word = top \cup Place(off, 5) \cup rt
  BY DEF Encode
<1>3. Within(off, 19) /\ Within(rt, 5)
  BY TwosRange
<1> HIDE DEF off, rt, top, pattern
<1>4. /\ \A i \in Place(off, 5) : i \in Int /\ 5 <= i /\ i < 24
      /\ \A i \in rt : i \in Int /\ 0 <= i /\ i < 5
  <2>1. \A i \in Place(off, 5) : i \in Int /\ 5 <= i /\ i < 5 + 19
    BY <1>3, PlaceRange
  <2> QED BY <1>3, <2>1 DEF Within
<1>5. /\ 31 \in word <=> w.width = "X64"
      /\ 24 \in word <=> w.op = "CBNZ"
      /\ 30 \notin word /\ 29 \in word /\ 28 \in word /\ 27 \notin word /\ 26 \in word
      /\ 25 \notin word
  BY <1>1, <1>2, <1>4
<1>6. (IsCbz \/ IsCbnz) /\ (IsCbnz <=> w.op = "CBNZ")
  BY <1>5, CompareBits
<1>7. Field(5, 19) = off
  <2> DEFINE rest == top \cup rt
  <2>1. word = rest \cup Place(off, 5) /\ Apart(rest, 5, 19)
    BY <1>1, <1>2, <1>4 DEF Apart
  <2> HIDE DEF rest
  <2> QED BY <1>3, <2>1, CutOut
<1>8. Field(0, 5) = rt
  <2> DEFINE rest == top \cup Place(off, 5)
  <2>1. word = rest \cup Place(rt, 0) /\ Apart(rest, 0, 5)
    BY <1>1, <1>2, <1>3, <1>4, PlaceZero DEF Apart
  <2> HIDE DEF rest
  <2> QED BY <1>3, <2>1, CutOut
<1>9. SignExtend19(Field(5, 19)) = w.offset /\ RegField(0) = w.rt
  BY <1>7, <1>8, SignExtension, SmallNumber DEF off, rt, RegField
<1>10. WidthBit = w.width
  BY <1>5 DEF WidthBit, Widths
<1> QED BY <1>6, <1>9, <1>10 DEF CompareFields

(* MOVZ, MOVN. *)
LEMMA MoveRoundTrip ==
  ASSUME NEW w \in [op : {"MOVZ", "MOVN"}, width : Widths, rd : RegField5,
                    v : SUBSET (0 .. 63)],
         \E hw \in Quarters(w.width) : Fills(w.v, hw),
         word = Encode(w)
  PROVE  (IsMovz \/ IsMovn) /\ ~ BadHalf /\ MoveFields = w
<1> DEFINE q == Quarter(w)
           pattern == <<Sf(w), IF w.op = "MOVZ" THEN 1 ELSE 0, 0, 1, 0, 0, 1, 0, 1>>
           top == Top(pattern)
           hw == Twos(q, 2)
           imm == {i - 16 * q : i \in w.v}
           rd == Twos(w.rd, 5)
<1>0. q \in 0 .. 3 /\ (w.width = "W32" => q \in 0 .. 1) /\ w.v \subseteq 16 * q .. 16 * q + 15
  <2>1. q \in Quarters(w.width) /\ Fills(w.v, q)
    BY DEF Quarter
  <2> HIDE DEF q
  <2> QED BY <2>1 DEF Quarters, Fills
<1>1. /\ \A i \in top : i \in Int /\ 23 <= i
      /\ 31 \in top <=> w.width = "X64"
      /\ 30 \in top <=> w.op = "MOVZ"
      /\ 29 \notin top /\ 28 \in top /\ 27 \notin top /\ 26 \notin top /\ 25 \in top
      /\ 24 \notin top /\ 23 \in top
  <2>1. DOMAIN pattern = {1, 2, 3, 4, 5, 6, 7, 8, 9}
    OBVIOUS
  <2>2. /\ pattern[1] = Sf(w) /\ pattern[2] = IF w.op = "MOVZ" THEN 1 ELSE 0
        /\ pattern[3] = 0 /\ pattern[4] = 1 /\ pattern[5] = 0 /\ pattern[6] = 0
        /\ pattern[7] = 1 /\ pattern[8] = 0 /\ pattern[9] = 1
    OBVIOUS
  <2>3. top = {32 - i : i \in {j \in {1, 2, 3, 4, 5, 6, 7, 8, 9} : pattern[j] = 1}}
    BY <2>1 DEF Top
  <2> HIDE DEF pattern, top
  <2> QED BY <2>2, <2>3 DEF Sf
<1>2. word = top \cup Place(hw, 21) \cup Place(w.v, 5 - 16 * q) \cup rd
  BY DEF Encode
<1>3. Within(hw, 2) /\ Within(rd, 5) /\ Within(imm, 16)
  <2>1. Within(hw, 2) /\ Within(rd, 5)
    BY TwosRange
  <2> HIDE DEF q
  <2> QED BY <1>0, <2>1 DEF Within
<1>4. Place(w.v, 5 - 16 * q) = Place(imm, 5)
  <2> HIDE DEF q
  <2>1. \A i \in w.v : i \in Int /\ i + (5 - 16 * q) = (i - 16 * q) + 5
    BY <1>0
  <2> QED BY <2>1 DEF Place
<1>5. Number(hw) = q /\ (1 \in hw => q \notin 0 .. 1) /\ Number(rd) = w.rd
  <2>1. Number(hw) = q /\ Number(rd) = w.rd
    <3> HIDE DEF q
    <3> QED BY <1>0, SmallNumber
  <2>2. Number(hw) = (IF 0 \in hw THEN 1 ELSE 0) + (IF 1 \in hw THEN 2 ELSE 0)
    <3>1. hw \in SUBSET (0 .. 1)
      <4> HIDE DEF hw
      <4> QED BY <1>3 DEF Within
    <3> HIDE DEF hw
    <3> QED BY <3>1, TwoBits
  <2> HIDE DEF hw, q
  <2> QED BY <2>1, <2>2
<1> DEFINE shifted == {i \in 0 .. 63 : i - 16 * q \in imm}
<1>6. shifted = w.v
  <2> HIDE DEF q
  <2>1. ASSUME NEW i \in shifted PROVE i \in w.v
    <3>1. PICK j \in w.v : i - 16 * q = j - 16 * q
      OBVIOUS
    <3> QED BY <1>0, <3>1
  <2>2. ASSUME NEW i \in w.v PROVE i \in shifted
    BY <1>0
  <2> QED BY <2>1, <2>2
<1> HIDE DEF q, hw, imm, rd, top, pattern
<1>7. /\ \A i \in Place(hw, 21) : i \in Int /\ 21 <= i /\ i < 23
      /\ \A i \in Place(imm, 5) : i \in Int /\ 5 <= i /\ i < 21
      /\ \A i \in rd : i \in Int /\ 0 <= i /\ i < 5
  <2>1. \A i \in Place(hw, 21) : i \in Int /\ 21 <= i /\ i < 21 + 2
    BY <1>3, PlaceRange
  <2>2. \A i \in Place(imm, 5) : i \in Int /\ 5 <= i /\ i < 5 + 16
    BY <1>3, PlaceRange
  <2> QED BY <1>3, <2>1, <2>2 DEF Within
<1>8. /\ 31 \in word <=> w.width = "X64"
      /\ 30 \in word <=> w.op = "MOVZ"
      /\ 29 \notin word /\ 28 \in word /\ 27 \notin word /\ 26 \notin word
      /\ 25 \in word /\ 24 \notin word /\ 23 \in word
  BY <1>1, <1>2, <1>4, <1>7
<1>9. (IsMovz \/ IsMovn) /\ (IsMovn <=> w.op = "MOVN")
  BY <1>8, MoveBits
<1>10. Field(21, 2) = hw
  <2> DEFINE rest == top \cup Place(imm, 5) \cup rd
  <2>1. word = rest \cup Place(hw, 21) /\ Apart(rest, 21, 2)
    BY <1>1, <1>2, <1>4, <1>7 DEF Apart
  <2> HIDE DEF rest
  <2> QED BY <1>3, <2>1, CutOut
<1>11. Field(5, 16) = imm
  <2> DEFINE rest == top \cup Place(hw, 21) \cup rd
  <2>1. word = rest \cup Place(imm, 5) /\ Apart(rest, 5, 16)
    BY <1>1, <1>2, <1>4, <1>7 DEF Apart
  <2> HIDE DEF rest
  <2> QED BY <1>3, <2>1, CutOut
<1>12. Field(0, 5) = rd
  <2> DEFINE rest == top \cup Place(hw, 21) \cup Place(imm, 5)
  <2>1. word = rest \cup Place(rd, 0) /\ Apart(rest, 0, 5)
    BY <1>1, <1>2, <1>3, <1>4, <1>7, PlaceZero DEF Apart, Within
  <2> HIDE DEF rest
  <2> QED BY <1>3, <2>1, CutOut
<1>13. WidthBit = w.width
  BY <1>8 DEF WidthBit, Widths
<1>14. ~ BadHalf
  <2>1. BadHalf <=> w.width = "W32" /\ q > 1
    BY <1>5, <1>10, <1>13 DEF BadHalf
  <2> QED BY <1>0, <2>1
<1>15. Shift("Lsl", Field(5, 16), 16 * Number(Field(21, 2)), "X64") = w.v
  BY <1>5, <1>6, <1>10, <1>11, Wide DEF Shift
<1>16. RegField(0) = w.rd
  BY <1>5, <1>12 DEF RegField
<1> QED BY <1>9, <1>13, <1>14, <1>15, <1>16 DEF MoveFields

(* LDR, STR with an unsigned offset. *)
LEMMA MemRoundTrip ==
  ASSUME NEW w \in [op : {"LDR", "STR"}, width : Widths, rt : RegField5, rn : RegField5,
                    offset : SUBSET (0 .. 63)],
         w.offset \subseteq Scale(w) .. Scale(w) + 11,
         word = Encode(w)
  PROVE  (IsLoad \/ IsStore) /\ 31 \in word /\ MemFields = w
<1> DEFINE s == Scale(w)
           pattern == <<1, Sf(w), 1, 1, 1, 0, 0, 1, 0, IF w.op = "LDR" THEN 1 ELSE 0>>
           top == Top(pattern)
           imm == {i - s : i \in w.offset}
           rn == Twos(w.rn, 5)
           rt == Twos(w.rt, 5)
<1>0. s \in {2, 3} /\ s = (IF w.width = "X64" THEN 3 ELSE 2)
  BY DEF Scale
<1>1. /\ \A i \in top : i \in Int /\ 22 <= i
      /\ 30 \in top <=> w.width = "X64"
      /\ 22 \in top <=> w.op = "LDR"
      /\ 31 \in top /\ 29 \in top /\ 28 \in top /\ 27 \in top /\ 26 \notin top
      /\ 25 \notin top /\ 24 \in top /\ 23 \notin top
  <2>1. DOMAIN pattern = {1, 2, 3, 4, 5, 6, 7, 8, 9, 10}
    OBVIOUS
  <2>2. /\ pattern[1] = 1 /\ pattern[2] = Sf(w) /\ pattern[3] = 1 /\ pattern[4] = 1
        /\ pattern[5] = 1 /\ pattern[6] = 0 /\ pattern[7] = 0 /\ pattern[8] = 1
        /\ pattern[9] = 0 /\ pattern[10] = IF w.op = "LDR" THEN 1 ELSE 0
    OBVIOUS
  <2>3. top = {32 - i : i \in {j \in {1, 2, 3, 4, 5, 6, 7, 8, 9, 10} : pattern[j] = 1}}
    BY <2>1 DEF Top
  <2> HIDE DEF pattern, top
  <2> QED BY <2>2, <2>3 DEF Sf
<1>2. word = top \cup Place(w.offset, 10 - s) \cup Place(rn, 5) \cup rt
  BY DEF Encode
<1>3. Within(rn, 5) /\ Within(rt, 5) /\ Within(imm, 12)
  <2>1. Within(rn, 5) /\ Within(rt, 5)
    BY TwosRange
  <2> HIDE DEF s
  <2>2. w.offset \subseteq s .. s + 11
    BY DEF s
  <2> QED BY <1>0, <2>1, <2>2 DEF Within
<1>4. Place(w.offset, 10 - s) = Place(imm, 10)
  <2> HIDE DEF s
  <2>1. \A i \in w.offset : i \in Int /\ i + (10 - s) = (i - s) + 10
    BY <1>0
  <2> QED BY <2>1 DEF Place
<1>5. Number(rn) = w.rn /\ Number(rt) = w.rt
  BY SmallNumber
<1> DEFINE shifted == {i \in 0 .. 63 : i - s \in imm}
<1>6. shifted = w.offset
  <2> HIDE DEF s
  <2>1. ASSUME NEW i \in shifted PROVE i \in w.offset
    <3>1. PICK j \in w.offset : i - s = j - s
      OBVIOUS
    <3> QED BY <1>0, <3>1
  <2>2. ASSUME NEW i \in w.offset PROVE i \in shifted
    OBVIOUS
  <2> QED BY <2>1, <2>2
<1> HIDE DEF s, imm, rn, rt, top, pattern
<1>7. /\ \A i \in Place(imm, 10) : i \in Int /\ 10 <= i /\ i < 22
      /\ \A i \in Place(rn, 5) : i \in Int /\ 5 <= i /\ i < 10
      /\ \A i \in rt : i \in Int /\ 0 <= i /\ i < 5
  <2>1. \A i \in Place(imm, 10) : i \in Int /\ 10 <= i /\ i < 10 + 12
    BY <1>3, PlaceRange
  <2>2. \A i \in Place(rn, 5) : i \in Int /\ 5 <= i /\ i < 5 + 5
    BY <1>3, PlaceRange
  <2> QED BY <1>3, <2>1, <2>2 DEF Within
<1>8. /\ 30 \in word <=> w.width = "X64"
      /\ 22 \in word <=> w.op = "LDR"
      /\ 31 \in word /\ 29 \in word /\ 28 \in word /\ 27 \in word /\ 26 \notin word
      /\ 25 \notin word /\ 24 \in word /\ 23 \notin word
  BY <1>1, <1>2, <1>4, <1>7
<1>9. (IsLoad \/ IsStore) /\ (IsLoad <=> w.op = "LDR")
  BY <1>8, MemBits
<1>10. Field(10, 12) = imm
  <2> DEFINE rest == top \cup Place(rn, 5) \cup rt
  <2>1. word = rest \cup Place(imm, 10) /\ Apart(rest, 10, 12)
    BY <1>1, <1>2, <1>4, <1>7 DEF Apart
  <2> HIDE DEF rest
  <2> QED BY <1>3, <2>1, CutOut
<1>11. Field(5, 5) = rn
  <2> DEFINE rest == top \cup Place(imm, 10) \cup rt
  <2>1. word = rest \cup Place(rn, 5) /\ Apart(rest, 5, 5)
    BY <1>1, <1>2, <1>4, <1>7 DEF Apart
  <2> HIDE DEF rest
  <2> QED BY <1>3, <2>1, CutOut
<1>12. Field(0, 5) = rt
  <2> DEFINE rest == top \cup Place(imm, 10) \cup Place(rn, 5)
  <2>1. word = rest \cup Place(rt, 0) /\ Apart(rest, 0, 5)
    BY <1>1, <1>2, <1>3, <1>4, <1>7, PlaceZero DEF Apart, Within
  <2> HIDE DEF rest
  <2> QED BY <1>3, <2>1, CutOut
<1>13. Size = s /\ (IF Size = 2 THEN "W32" ELSE "X64") = w.width
  BY <1>0, <1>8, SizeBits DEF Widths
<1>14. Shift("Lsl", Field(10, 12), Size, "X64") = w.offset
  BY <1>6, <1>10, <1>13, Wide DEF Shift
<1>15. RegField(0) = w.rt /\ RegField(5) = w.rn
  BY <1>5, <1>11, <1>12 DEF RegField
<1> QED BY <1>8, <1>9, <1>13, <1>14, <1>15 DEF MemFields
-----------------------------------------------------------------------------
(* What lift_one_at makes of a word. *)

LEMMA Exclusive ==
  /\ IsBcond => ~ IsCbz /\ ~ IsCbnz /\ ~ IsMovz /\ ~ IsMovn /\ ~ IsLoad /\ ~ IsStore
  /\ IsCbz \/ IsCbnz => ~ IsMovz /\ ~ IsMovn /\ ~ IsLoad /\ ~ IsStore
  /\ IsMovz \/ IsMovn => ~ IsLoad /\ ~ IsStore
BY BcondBits, CompareBits, MoveBits, MemBits

(* The outcomes of lift_one_at's own masks. *)
LEMMA LiftWordCases ==
  /\ IsBcond => LiftWord = LiftOneAt(BcondFields, p) /\ Decoded = BcondFields
  /\ IsCbz \/ IsCbnz =>
       LiftWord = LiftOneAt(CompareFields, p) /\ Decoded = CompareFields
  /\ IsMovz \/ IsMovn =>
       /\ LiftWord = IF BadHalf THEN Unsupported ELSE LiftOneAt(MoveFields, p)
       /\ Decoded = MoveFields
  /\ (IsLoad \/ IsStore) /\ 31 \in word =>
       LiftWord = LiftOneAt(MemFields, p) /\ Decoded = MemFields
  /\ \/ IsBcond \/ IsCbz \/ IsCbnz \/ IsMovz \/ IsMovn
     \/ (IsLoad \/ IsStore) /\ 31 \in word
     \/ LiftWord = ToCrate
<1>1. CASE IsBcond
  BY <1>1, Exclusive DEF LiftWord, Decoded
<1>2. CASE IsCbz \/ IsCbnz
  BY <1>2, Exclusive DEF LiftWord, Decoded
<1>3. CASE IsMovz \/ IsMovn
  BY <1>3, Exclusive DEF LiftWord, Decoded
<1>4. CASE (IsLoad \/ IsStore) /\ 31 \in word
  <2>1. Size \in {2, 3}
    BY <1>4, SizeBits
  <2> QED BY <1>4, <2>1, Exclusive DEF LiftWord, Decoded
<1>5. CASE /\ ~ IsBcond /\ ~ IsCbz /\ ~ IsCbnz /\ ~ IsMovz /\ ~ IsMovn
           /\ ~ ((IsLoad \/ IsStore) /\ 31 \in word)
  <2>1. ~ ((IsLoad \/ IsStore) /\ Size \in {2, 3})
    BY <1>5, SizeBits
  <2> QED BY <1>5, <2>1 DEF LiftWord
<1> QED BY <1>1, <1>2, <1>3, <1>4, <1>5

(* An instruction of the four classes comes out of its own encoding.       *)
LEMMA RoundTrip ==
  ASSUME NEW w, Encodable(w), word = Encode(w)
  PROVE  LiftWord = LiftOneAt(w, p)
<1>1. CASE w \in [op : {"BCOND"}, offset : Offset19, cond : 0 .. 15]
  <2>1. IsBcond /\ BcondFields = w
    BY <1>1, BcondRoundTrip
  <2> QED BY <2>1, LiftWordCases
<1>2. CASE w \in [op : {"CBZ", "CBNZ"}, width : Widths, rt : RegField5, offset : Offset19]
  <2>1. (IsCbz \/ IsCbnz) /\ CompareFields = w
    BY <1>2, CompareRoundTrip
  <2> QED BY <2>1, LiftWordCases
<1>3. CASE /\ w \in [op : {"MOVZ", "MOVN"}, width : Widths, rd : RegField5,
                     v : SUBSET (0 .. 63)]
           /\ \E hw \in Quarters(w.width) : Fills(w.v, hw)
  <2>1. (IsMovz \/ IsMovn) /\ ~ BadHalf /\ MoveFields = w
    BY <1>3, MoveRoundTrip
  <2> QED BY <2>1, LiftWordCases
<1>4. CASE /\ w \in [op : {"LDR", "STR"}, width : Widths, rt : RegField5,
                     rn : RegField5, offset : SUBSET (0 .. 63)]
           /\ w.offset \subseteq Scale(w) .. Scale(w) + 11
  <2>1. (IsLoad \/ IsStore) /\ 31 \in word /\ MemFields = w
    BY <1>4, MemRoundTrip
  <2> QED BY <2>1, LiftWordCases
<1> QED BY <1>1, <1>2, <1>3, <1>4 DEF Encodable

(* A field of a register, condition or size is in its range, whatever the  *)
(* word. *)
LEMMA FieldNumber ==
  ASSUME NEW low \in Int, NEW n \in 0 .. 19
  PROVE  Number(Field(low, n)) \in 0 .. 2 ^ n - 1
<1> DEFINE v == Field(low, n)
<1>1. v \in SUBSET (0 .. n - 1)
  BY DEF Field
<1> HIDE DEF v
<1>2. Number(v) \in 0 .. 2 ^ n - 1
  BY <1>1, NumberFits
<1> QED BY <1>2 DEF v

LEMMA BcondWellFormed == WellFormed(BcondFields)
<1>1. Number(Field(0, 4)) \in 0 .. 15
  <2>1. 4 \in 0 .. 19 /\ 2 ^ 4 - 1 = 15
    BY Powers
  <2>2. Number(Field(0, 4)) \in 0 .. 2 ^ 4 - 1
    BY <2>1, FieldNumber
  <2> QED BY <2>1, <2>2
<1>2. SignExtend19(Field(5, 19)) \in Int
  BY NumberIsInt, Powers DEF SignExtend19
<1> DEFINE w == BcondFields
<1>3. w.op = "BCOND" /\ w.offset \in Int /\ w.cond \in 0 .. 15
  BY <1>1, <1>2 DEF BcondFields
<1> HIDE DEF w
<1>4. WellFormed(w)
  BY <1>3 DEF WellFormed, DataProcessing, VariableShift
<1> QED BY <1>4 DEF w

LEMMA RegFieldRange == ASSUME NEW low \in Int PROVE RegField(low) \in RegNum
<1>1. RegField(low) \in 0 .. 31
  <2>1. 5 \in 0 .. 19 /\ 2 ^ 5 - 1 = 31
    BY Powers
  <2>2. Number(Field(low, 5)) \in 0 .. 2 ^ 5 - 1
    BY <2>1, FieldNumber
  <2> QED BY <2>1, <2>2 DEF RegField
<1> QED BY <1>1, DecoderAssumption DEF RegNum, R31

LEMMA CompareWellFormed == WellFormed(CompareFields)
<1>1. SignExtend19(Field(5, 19)) \in Int
  BY NumberIsInt, Powers DEF SignExtend19
<1> DEFINE w == CompareFields
<1>2. /\ w.op \in {"CBZ", "CBNZ"} /\ w.width \in Widths
      /\ w.rt \in RegNum /\ w.offset \in Int
  BY <1>1, RegFieldRange DEF CompareFields, WidthBit, Widths
<1> HIDE DEF w
<1>3. WellFormed(w)
  BY <1>2 DEF WellFormed, DataProcessing, VariableShift
<1> QED BY <1>3 DEF w

LEMMA MoveWellFormed == WellFormed(MoveFields)
<1> DEFINE w == MoveFields
<1>1. /\ w.op \in {"MOVZ", "MOVN"} /\ w.width \in Widths
      /\ w.rd \in RegNum /\ w.v \in XWord
  BY RegFieldRange DEF MoveFields, WidthBit, Widths, XWord, Shift
<1> HIDE DEF w
<1>2. WellFormed(w)
  BY <1>1 DEF WellFormed, DataProcessing, VariableShift
<1> QED BY <1>2 DEF w

LEMMA MemWellFormed == WellFormed(MemFields)
<1> DEFINE w == MemFields
<1>1. /\ w.op \in {"LDR", "STR"} /\ w.width \in Widths
      /\ w.rt \in RegNum /\ w.rn \in RegNum /\ w.offset \in XWord
  BY RegFieldRange DEF MemFields, Widths, XWord, Shift
<1> HIDE DEF w
<1>2. WellFormed(w)
  BY <1>1 DEF WellFormed, DataProcessing, VariableShift
<1> QED BY <1>2 DEF w

(* What is lifted has an opcode of its own. *)
LEMMA LiftedOpcodes ==
  /\ LiftOneAt(BcondFields, p).opcode = "BranchCond"
  /\ LiftOneAt(CompareFields, p).opcode = "BranchCond"
  /\ LiftOneAt(MoveFields, p).opcode = "Mov"
  /\ LiftOneAt(MemFields, p).opcode \in {"Load", "Store"}
<1>1. ASSUME NEW w, w.op \in {"BCOND", "CBZ", "CBNZ"}
      PROVE  LiftOneAt(w, p).opcode = "BranchCond"
  BY <1>1 DEF LiftOneAt, LiftBranch, Branches, IRInst, DataProcessing, VariableShift
<1>2. ASSUME NEW w, w.op \in {"MOVZ", "MOVN"}
      PROVE  LiftOneAt(w, p).opcode = "Mov"
  BY <1>2 DEF LiftOneAt, LiftMoveWide, Branches, IRInst, DataProcessing, VariableShift
<1>3. ASSUME NEW w, w.op \in {"LDR", "STR"}
      PROVE  LiftOneAt(w, p).opcode \in {"Load", "Store"}
  BY <1>3 DEF LiftOneAt, LiftMem, Branches, IRInst, DataProcessing, VariableShift
<1>4. BcondFields.op = "BCOND"
  BY DEF BcondFields
<1>5. CompareFields.op \in {"CBZ", "CBNZ"}
  BY DEF CompareFields
<1>6. MoveFields.op \in {"MOVZ", "MOVN"}
  BY DEF MoveFields
<1>7. MemFields.op \in {"LDR", "STR"}
  BY DEF MemFields
<1> QED BY <1>1, <1>2, <1>3, <1>4, <1>5, <1>6, <1>7

(* The three properties, of what lift_one_at makes of any word. *)
LEMMA LiftClaims ==
  /\ LiftWord = ToCrate <=> ~ Handled(word)
  /\ LiftWord = Unsupported <=> Unallocated(word)
  /\ LiftWord # Pending
<1>1. /\ ToCrate.opcode = "ToCrate" /\ Unsupported.opcode = "Unsupported"
      /\ Pending.opcode = "Pending"
  BY DEF ToCrate, Unsupported, Pending, IRInst
<1>2. \/ LiftWord = ToCrate
      \/ LiftWord = Unsupported
      \/ LiftWord.opcode \in {"BranchCond", "Mov", "Load", "Store"}
  BY LiftWordCases, LiftedOpcodes
<1>3. LiftWord = ToCrate <=> ~ Handled(word)
  BY <1>1, LiftWordCases, LiftedOpcodes, HandledBits
<1>4. LiftWord = Unsupported <=> Unallocated(word)
  BY <1>1, LiftWordCases, LiftedOpcodes, HandledBits, HalfBits, BcondBits,
     CompareBits, MoveBits, MemBits
<1> QED BY <1>1, <1>2, <1>3, <1>4

LEMMA LiftWellFormed ==
  ASSUME LiftWord \notin {ToCrate, Unsupported}
  PROVE  WellFormed(Decoded) /\ LiftWord = LiftOneAt(Decoded, p)
BY LiftWordCases, BcondWellFormed, CompareWellFormed, MoveWellFormed, MemWellFormed
-----------------------------------------------------------------------------
(* The inductive invariant: a word of Samples is the encoding of its       *)
(* instruction, and ir is the answer for the word, if there is one yet.    *)
IInv ==
  /\ inst = Raw \/ (Encodable(inst) /\ word = Encode(inst))
  /\ ir = Pending \/ ir = LiftWord

LEMMA SameWord == ASSUME UNCHANGED <<word, p>> PROVE LiftWord' = LiftWord
BY DEF LiftWord, IsBcond, IsCbz, IsCbnz, IsMovz, IsMovn, IsLoad, IsStore, Masked,
       BcondFields, CompareFields, MoveFields, MemFields, BadHalf, Size, RegField,
       Field, WidthBit

(* What lift_one_at was given and what it answers belong together          *)
(* (lift/mod.rs:28-29).                                                    *)
THEOREM Inductive == Spec => []IInv
<1>1. Init => IInv
  BY DecoderAssumption DEF Init, IInv
<1>2. IInv /\ [Lift]_dvars => IInv'
  <2> SUFFICES ASSUME IInv, [Lift]_dvars PROVE IInv'
    OBVIOUS
  <2>1. CASE UNCHANGED dvars
    <3>1. UNCHANGED <<word, p, inst, ir>>
      BY <2>1 DEF dvars
    <3>2. LiftWord' = LiftWord
      BY <3>1, SameWord
    <3> QED BY <3>1, <3>2 DEF IInv
  <2>2. CASE Lift
    <3>1. UNCHANGED <<word, p, inst>> /\ ir' = LiftWord
      BY <2>2 DEF Lift
    <3>2. LiftWord' = LiftWord
      BY <3>1, SameWord
    <3> QED BY <3>1, <3>2 DEF IInv
  <2> QED BY <2>1, <2>2
<1> QED BY <1>1, <1>2, PTL DEF Spec

(* FieldsExact: whatever instructions of the four classes the samples are, *)
(* each comes out of its encoding unchanged (lift/mod.rs:15, :21-25).      *)
THEOREM FieldsAreExact == Spec => []FieldsExact
<1>1. IInv => FieldsExact
  BY RoundTrip DEF IInv, FieldsExact
<1> QED BY <1>1, Inductive, PTL

(* ClaimsExact: of all 2^32 words, the masks take those of their classes   *)
(* and no others (lift/mod.rs:15, :23, :25).                               *)
THEOREM ClaimsAreExact == Spec => []ClaimsExact
<1>1. IInv => ClaimsExact
  <2> SUFFICES ASSUME IInv, ir # Pending
               PROVE  /\ (ir = ToCrate) = ~ Handled(word)
                      /\ (ir = Unsupported) = Unallocated(word)
    BY Zenon DEF ClaimsExact
  <2>1. ir = LiftWord
    BY DEF IInv
  <2>2. Handled(word) \in BOOLEAN /\ Unallocated(word) \in BOOLEAN
    BY DEF Handled, Unallocated, Matches
  <2>3. (ir = ToCrate) <=> ~ Handled(word)
    BY <2>1, LiftClaims
  <2>4. (ir = Unsupported) <=> Unallocated(word)
    BY <2>1, LiftClaims
  <2> QED BY <2>2, <2>3, <2>4
<1> QED BY <1>1, Inductive, PTL

(* FieldsWellFormed: what is handed on from any word is well formed, which *)
(* the pipeline's theorems assume of the instructions they are about       *)
(* (lift/mod.rs:15, :21-25).                                               *)
THEOREM DecodedIsWellFormed == Spec => []FieldsWellFormed
<1>1. IInv => FieldsWellFormed
  <2> SUFFICES ASSUME IInv, ir \notin {Pending, ToCrate, Unsupported}
               PROVE  WellFormed(Decoded) /\ ir = LiftOneAt(Decoded, p)
    BY DEF FieldsWellFormed
  <2>1. ir = LiftWord
    BY DEF IInv
  <2> QED BY <2>1, LiftWellFormed
<1> QED BY <1>1, Inductive, PTL
=============================================================================
