--------------------------- MODULE WizBuffersProofs ---------------------------
(***************************************************************************)
(* Proofs about WizBuffers, for sockets, rings, counts of the pointers and *)
(* datagrams of every number and size.  The rings implement the streams of *)
(* ByteStreams; a size that was read twice was there; recvfrom() never     *)
(* takes contents for a header.                                            *)
(*                                                                         *)
(* The arithmetic comes first: a ring whose size divides the count of the  *)
(* pointers does not notice their wrap, and the rings lie apart in the     *)
(* memory (RingsApart, by the least number for which the bases would not   *)
(* grow).  Then what one write and one read do to one ring (PutStep,       *)
(* TakeStep), what a reading of two bytes has seen (Sizing), and what      *)
(* makes a ring a row of datagrams (Parsed).  The invariant IInv puts them *)
(* together.                                                               *)
(***************************************************************************)
EXTENDS WizBuffers, SequenceTheorems, WellFoundedInduction, TLAPS

-----------------------------------------------------------------------------
(* Remainders.                                                             *)

\* Quotient and remainder, and that there is one of each.
LEMMA Division ==
  ASSUME NEW m \in Nat \ {0}, NEW a \in Int
  PROVE  a \div m \in Int /\ a % m \in 0 .. m - 1 /\ a = m * (a \div m) + (a % m)
BY Z3

LEMMA UniqueQuotient ==
  ASSUME NEW m \in Nat \ {0}, NEW q \in Int, NEW r \in 0 .. m - 1, NEW a \in Int, a = m * q + r
  PROVE  a \div m = q /\ a % m = r
BY Z3

\* Whole multiples do not count.
LEMMA RemainderShift ==
  ASSUME NEW m \in Nat \ {0}, NEW a \in Int, NEW q \in Int, NEW b \in Int, b = m * q + a
  PROVE  b % m = a % m
<1>1. a \div m \in Int /\ a % m \in 0 .. m - 1 /\ a = m * (a \div m) + (a % m)
  BY Division
<1>2. b = m * (q + (a \div m)) + (a % m) /\ q + (a \div m) \in Int
  BY <1>1, Z3
<1> QED
  BY <1>1, <1>2, UniqueQuotient, ZenonT(30)

\* Within a lap of a number that is less than m.
LEMMA OneLap ==
  ASSUME NEW m \in Nat \ {0}, NEW a \in - m .. 2 * m - 1
  PROVE  a % m = IF a < 0 THEN a + m ELSE IF a < m THEN a ELSE a - m
<1>1. CASE a < 0
  <2>1. a = m * (-1) + (a + m) /\ a + m \in 0 .. m - 1
    BY <1>1
  <2> QED
    BY <1>1, <2>1, UniqueQuotient
<1>2. CASE a >= 0 /\ a < m
  <2>1. a = m * 0 + a /\ a \in 0 .. m - 1
    BY <1>2
  <2> QED
    BY <1>2, <2>1, UniqueQuotient
<1>3. CASE a >= m
  <2>1. a = m * 1 + (a - m) /\ a - m \in 0 .. m - 1
    BY <1>3
  <2> QED
    BY <1>3, <2>1, UniqueQuotient
<1> QED
  BY <1>1, <1>2, <1>3

\* Going on by k from a, up to a lap.
LEMMA GoesOn ==
  ASSUME NEW m \in Nat \ {0}, NEW a \in Nat, NEW k \in 0 .. m
  PROVE  /\ a % m \in 0 .. m - 1
         /\ (a + k) % m = IF (a % m) + k < m THEN (a % m) + k ELSE (a % m) + k - m
<1> DEFINE r == a % m  b == r + k
<1>1. a \div m \in Int /\ r \in 0 .. m - 1 /\ a = m * (a \div m) + r
  BY Division
<1>2. a + k = m * (a \div m) + b /\ b \in Int /\ a + k \in Int
  BY <1>1, Z3
<1>3. (a + k) % m = b % m
  <2> DEFINE q == a \div m  c == a + k
  <2>1. c = m * q + b /\ b \in Int /\ c \in Int /\ q \in Int
    BY <1>1, <1>2
  <2>2. c % m = b % m
    <3> HIDE DEF q, c, b
    <3> QED
      BY <2>1, RemainderShift
  <2> QED
    BY <2>2
<1>4. b \in - m .. 2 * m - 1 /\ b >= 0
  BY <1>1
<1>5. b % m = IF b < m THEN b ELSE b - m
  <2> HIDE DEF b
  <2>1. b % m = IF b < 0 THEN b + m ELSE IF b < m THEN b ELSE b - m
    BY <1>4, OneLap, Zenon
  <2> QED
    BY <1>4, <2>1
<1> QED
  BY <1>1, <1>3, <1>5

\* Less than a lap apart, two numbers have different remainders.
LEMMA LapApart ==
  ASSUME NEW m \in Nat \ {0}, NEW a \in Nat, NEW j \in 0 .. m - 1, NEW k \in 0 .. m - 1, j # k
  PROVE  (a + j) % m # (a + k) % m
<1> DEFINE r == a % m
<1>1. j \in 0 .. m /\ k \in 0 .. m
  OBVIOUS
<1>2. r \in 0 .. m - 1 /\ (a + j) % m = IF r + j < m THEN r + j ELSE r + j - m
  BY <1>1, GoesOn, Zenon
<1>3. (a + k) % m = IF r + k < m THEN r + k ELSE r + k - m
  BY <1>1, GoesOn, Zenon
<1> DEFINE x == (a + j) % m  y == (a + k) % m
<1>4. x # y
  <2> HIDE DEF r
  <2> QED
    BY <1>2, <1>3
<1> QED
  BY <1>4

-----------------------------------------------------------------------------
(* Where the rings are.                                                    *)

\* A set of numbers that is not empty has a smallest one.
LEMMA Smallest ==
  ASSUME NEW S \in SUBSET Nat, S # {}
  PROVE  \E n \in S : \A k \in S : n <= k
<1> DEFINE Below == {r \in Nat \X Nat : r[1] < r[2]}
<1>1. IsWellFoundedOn(Below, Nat)
  BY NatLessThanWellFounded DEF OpToRel
<1>2. PICK n \in S : \A k \in S : ~(<<k, n>> \in Below)
  <2> HIDE DEF Below
  <2> QED
    BY <1>1, WFMin
<1>3. \A k \in S : k \in Nat /\ n \in Nat /\ ~(k < n)
  BY <1>2
<1> QED
  BY <1>3

\* So a set of numbers from 0 on that goes on with each is all of them.
LEMMA Induction ==
  ASSUME NEW last \in Nat, NEW S, 0 \in S, \A n \in 0 .. last - 1 : n \in S => n + 1 \in S
  PROVE  0 .. last \subseteq S
<1> SUFFICES ASSUME ~(0 .. last \subseteq S)
             PROVE  FALSE
  OBVIOUS
<1> DEFINE T == {n \in 0 .. last : n \notin S}
<1>1. T \in SUBSET Nat /\ T # {}
  OBVIOUS
<1>2. PICK n \in T : \A k \in T : n <= k
  <2> HIDE DEF T
  <2> QED
    BY <1>1, Smallest
<1>3. n \in 1 .. last /\ n \notin S /\ n - 1 \in 0 .. last - 1 /\ (n - 1) + 1 = n
  BY <1>2
<1>4. n - 1 \notin T
  BY <1>2, <1>3
<1> QED
  BY <1>3, <1>4

\* The first n bases exist.
BasesTo(n) ==
  {f \in [0 .. n -> Nat] : f[0] = 0 /\ \A s \in 1 .. n : f[s] = f[s - 1] + SockSize[s - 1]}

\* The table of the bases exists: the least table that is missing has a predecessor.
LEMMA BasesExist == BasesTo(Socks) # {}
<1> DEFINE S == {n \in 0 .. Socks : BasesTo(n) # {}}
<1>1. Socks \in Nat
  BY SocksAssumption
<1>2. 0 \in S
  <2>1. [s \in 0 .. 0 |-> 0] \in BasesTo(0)
    BY DEF BasesTo
  <2> QED
    BY <1>1, <2>1
<1>3. ASSUME NEW n \in 0 .. Socks - 1, n \in S
      PROVE  n + 1 \in S
  <2>1. PICK f : f \in BasesTo(n)
    BY <1>3
  <2>2. n \in Sock /\ SockSize[n] \in Nat
    BY SizeAssumption DEF Sock
  <2> DEFINE g == [s \in 0 .. n + 1 |-> IF s = n + 1 THEN f[n] + SockSize[n] ELSE f[s]]
  <2>3. f \in [0 .. n -> Nat] /\ f[0] = 0 /\ \A s \in 1 .. n : f[s] = f[s - 1] + SockSize[s - 1]
    BY <2>1 DEF BasesTo
  <2>4. g \in [0 .. n + 1 -> Nat] /\ g[0] = 0
    BY <2>2, <2>3
  <2>5. ASSUME NEW s \in 1 .. n + 1
        PROVE  g[s] = g[s - 1] + SockSize[s - 1]
    <3>1. CASE s = n + 1
      BY <2>3, <3>1
    <3>2. CASE s # n + 1
      <4>1. s \in 1 .. n /\ s - 1 \in 0 .. n
        BY <3>2
      <4> QED
        BY <2>3, <4>1
    <3> QED
      BY <3>1, <3>2
  <2>6. g \in BasesTo(n + 1)
    BY <2>4, <2>5 DEF BasesTo
  <2> QED
    BY <1>1, <2>6
<1>4. Socks \in 0 .. Socks /\ 0 .. Socks \subseteq S
  <2> HIDE DEF S
  <2> QED
    BY <1>1, <1>2, <1>3, Induction
<1> QED
  BY <1>4

\* Base is what its definition says.
LEMMA BaseIs ==
  /\ Base[0] = 0
  /\ \A s \in 0 .. Socks : Base[s] \in Nat
  /\ \A s \in Sock : Base[s + 1] = Base[s] + SockSize[s]
<1>1. Socks \in Nat
  BY SocksAssumption
<1>2. PICK f : f \in BasesTo(Socks)
  BY BasesExist
<1>3. f \in [0 .. Socks -> Nat] /\ f[0] = 0 /\ \A s \in 1 .. Socks : f[s] = f[s - 1] + SockSize[s - 1]
  BY <1>2 DEF BasesTo
<1>4. f = [s \in 0 .. Socks |-> IF s = 0 THEN 0 ELSE f[s - 1] + SockSize[s - 1]]
  BY <1>3
<1>5. Base = [s \in 0 .. Socks |-> IF s = 0 THEN 0 ELSE Base[s - 1] + SockSize[s - 1]]
  BY <1>4 DEF Base
<1>6. Base[0] = 0
  BY <1>1, <1>5
<1>7. \A s \in Sock : Base[s + 1] = Base[s] + SockSize[s]
  BY <1>1, <1>5 DEF Sock
<1> DEFINE S == {s \in 0 .. Socks : Base[s] \in Nat}
<1>8. 0 \in S /\ \A s \in 0 .. Socks - 1 : s \in S => s + 1 \in S
  BY <1>1, <1>6, <1>7, SizeAssumption DEF Sock
<1>9. 0 .. Socks \subseteq S
  <2> HIDE DEF S
  <2> QED
    BY <1>1, <1>8, Induction
<1> QED
  BY <1>6, <1>7, <1>9

\* The ring of a socket ends before that of the next.
LEMMA BaseGrows == \A t \in 0 .. Socks : \A s \in Sock : s < t => Base[s] + SockSize[s] <= Base[t]
<1> DEFINE S == {t \in 0 .. Socks : \A s \in Sock : s < t => Base[s] + SockSize[s] <= Base[t]}
<1>1. Socks \in Nat
  BY SocksAssumption
<1>2. 0 \in S
  BY <1>1 DEF Sock
<1>3. ASSUME NEW t \in 0 .. Socks - 1, t \in S
      PROVE  t + 1 \in S
  <2>1. t \in Sock /\ Base[t + 1] = Base[t] + SockSize[t] /\ Base[t] \in Nat /\ SockSize[t] \in Nat
    BY <1>1, BaseIs, SizeAssumption DEF Sock
  <2>2. ASSUME NEW s \in Sock, s < t + 1
        PROVE  Base[s] + SockSize[s] <= Base[t + 1]
    <3>1. Base[s] \in Nat /\ SockSize[s] \in Nat
      BY <1>1, BaseIs, SizeAssumption DEF Sock
    <3>2. s = t \/ s < t
      BY <2>2 DEF Sock
    <3> QED
      BY <1>3, <2>1, <3>1, <3>2
  <2> QED
    BY <1>1, <2>2
<1>4. 0 .. Socks \subseteq S
  <2> HIDE DEF S
  <2> QED
    BY <1>1, <1>2, <1>3, Induction
<1> QED
  BY <1>4

\* The cell of a socket to which a pointer points.
Slot(s, ptr) == Base[s] + (ptr % SockSize[s])

\* The constants, as the proofs use them.
LEMMA SizesArePositive ==
  /\ Modulus \in Nat \ {0}
  /\ \A s \in Sock : /\ SockSize[s] \in Nat \ {0} /\ SockSize[s] < Modulus /\ Modulus % SockSize[s] = 0
                     /\ Base[s] \in Nat
  /\ 0 \in Sock
BY SocksAssumption, SizeAssumption, BaseIs DEF Sock

\* A slot is a cell of the memory.
LEMMA SlotInRing ==
  ASSUME NEW s \in Sock, NEW ptr \in Nat
  PROVE  Slot(s, ptr) \in Base[s] .. Base[s] + SockSize[s] - 1 /\ Slot(s, ptr) \in Cell
<1>1. SockSize[s] \in Nat \ {0} /\ Base[s] \in Nat /\ Base[Socks] \in Nat
  BY SizesArePositive, SocksAssumption, BaseIs
<1>2. ptr % SockSize[s] \in 0 .. SockSize[s] - 1
  <2>1. ptr \in Int
    OBVIOUS
  <2> QED
    BY <1>1, <2>1, Division, Zenon
<1>3. Base[s] + SockSize[s] <= Base[Socks]
  BY SocksAssumption, BaseGrows DEF Sock
<1> QED
  BY <1>1, <1>2, <1>3 DEF Slot, Cell

\* Sockets do not share cells.
LEMMA RingsApart ==
  ASSUME NEW s \in Sock, NEW t \in Sock, s # t, NEW p \in Nat, NEW q \in Nat
  PROVE  Slot(s, p) # Slot(t, q)
<1>1. /\ Slot(s, p) \in Base[s] .. Base[s] + SockSize[s] - 1
      /\ Slot(t, q) \in Base[t] .. Base[t] + SockSize[t] - 1
  BY SlotInRing
<1>2. Base[s] + SockSize[s] <= Base[t] \/ Base[t] + SockSize[t] <= Base[s]
  <2>1. (s < t \/ t < s) /\ s \in 0 .. Socks /\ t \in 0 .. Socks
    BY SocksAssumption DEF Sock
  <2> QED
    BY <2>1, BaseGrows
<1>3. Base[s] \in Nat /\ Base[t] \in Nat /\ SockSize[s] \in Nat /\ SockSize[t] \in Nat
  BY SizesArePositive
<1> QED
  BY <1>1, <1>2, <1>3

-----------------------------------------------------------------------------
(* What is in a ring.                                                      *)

\* A ring that divides the count of the pointer does not notice its wrap.
LEMMA SlotWraps ==
  ASSUME NEW s \in Sock, NEW a \in Nat, NEW k \in Nat
  PROVE  Slot(s, (a % Modulus) + k) = Slot(s, a + k)
<1> DEFINE m == SockSize[s]  all == Modulus
           d == all \div m  q == a \div all  r == a % all  x == r + k  y == a + k  e == d * q
<1>1. m \in Nat \ {0} /\ all \in Nat \ {0} /\ all % m = 0
  BY SizesArePositive
<1> HIDE DEF m, all
<1>2. d \in Int /\ all = m * d
  <2>1. d \in Int /\ all = m * d + 0
    BY <1>1, Division
  <2> QED
    BY <1>1, <2>1, Z3
<1>3. q \in Int /\ r \in 0 .. all - 1 /\ a = all * q + r
  BY <1>1, Division
<1>4. y = m * e + x /\ x \in Int /\ y \in Int /\ e \in Int
  <2> HIDE DEF d, q, r
  <2> QED
    BY <1>1, <1>2, <1>3, Z3
<1>5. y % m = x % m
  <2> HIDE DEF x, y, e
  <2> QED
    BY <1>1, <1>4, RemainderShift
<1> QED
  BY <1>5 DEF Slot, m, all

\* The slots of a ring are different cells.
LEMMA SlotsApart ==
  ASSUME NEW s \in Sock, NEW a \in Nat, NEW j \in 0 .. SockSize[s] - 1, NEW k \in 0 .. SockSize[s] - 1, j # k
  PROVE  Slot(s, a + j) # Slot(s, a + k)
<1> DEFINE m == SockSize[s]  x == (a + j) % m  y == (a + k) % m
<1>1. m \in Nat \ {0} /\ Base[s] \in Nat
  BY SizesArePositive
<1>2. x # y /\ x \in Int /\ y \in Int
  <2>1. j \in 0 .. m - 1 /\ k \in 0 .. m - 1 /\ a + j \in Int /\ a + k \in Int
    BY <1>1
  <2> HIDE DEF m
  <2>2. x # y
    BY <1>1, <2>1, LapApart
  <2>3. x \in Int
    BY <1>1, <2>1, Division
  <2>4. y \in Int
    BY <1>1, <2>1, Division
  <2> QED
    BY <2>2, <2>3, <2>4
<1>3. Base[s] + x # Base[s] + y
  <2> HIDE DEF x, y
  <2> QED
    BY <1>1, <1>2
<1> QED
  BY <1>3 DEF Slot

\* The n bytes from pointer r on.
RingOf(mem, r, n, s) == [i \in 1 .. n |-> mem[Slot(s, r + i - 1)]]

\* What is in a ring is a sequence of bytes.
LEMMA RingIsSeq ==
  ASSUME NEW s \in Sock, NEW mem \in [Cell -> Byte], NEW r \in Nat, NEW n \in Nat
  PROVE  /\ RingOf(mem, r, n, s) \in Seq(Byte)
         /\ Len(RingOf(mem, r, n, s)) = n
         /\ \A i \in 1 .. n : RingOf(mem, r, n, s)[i] = mem[Slot(s, r + i - 1)]
<1>1. \A i \in 1 .. n : mem[Slot(s, r + i - 1)] \in Byte
  <2> TAKE i \in 1 .. n
  <2>1. r + i - 1 \in Nat
    OBVIOUS
  <2> QED
    BY <2>1, SlotInRing
<1> QED
  BY <1>1 DEF RingOf

\* "new" is the memory "mem" with the data in the ring of s from pointer p on.
Puts(mem, new, s, p, data) ==
  /\ new \in [Cell -> Byte]
  /\ \A k \in 1 .. Len(data) : new[Slot(s, p + k - 1)] = data[k]
  /\ \A c \in Cell : (\A k \in 1 .. Len(data) : c # Slot(s, p + k - 1)) => new[c] = mem[c]

\* If there is room, what was in the ring stays and the data stand behind it.
LEMMA PutAppends ==
  ASSUME NEW s \in Sock, NEW mem \in [Cell -> Byte], NEW new \in [Cell -> Byte], NEW r \in Nat, NEW n \in Nat,
         NEW data \in Seq(Byte), n + Len(data) <= SockSize[s],
         Puts(mem, new, s, Advance(r, n), data)
  PROVE  RingOf(new, r, n + Len(data), s) = RingOf(mem, r, n, s) \o data
<1> DEFINE len == Len(data)  old == RingOf(mem, r, n, s)  all == RingOf(new, r, n + len, s)
           p == (r + n) % Modulus
<1>0. Puts(mem, new, s, p, data)
  BY DEF Advance
<1>1. len \in Nat /\ n + len \in Nat /\ new \in [Cell -> Byte] /\ SockSize[s] \in Nat
  BY SizesArePositive DEF Puts
<1>2. /\ old \in Seq(Byte) /\ Len(old) = n
      /\ \A i \in 1 .. n : old[i] = mem[Slot(s, r + i - 1)]
  BY RingIsSeq
<1>3. /\ all \in Seq(Byte) /\ Len(all) = n + len
      /\ \A i \in 1 .. n + len : all[i] = new[Slot(s, r + i - 1)]
  BY <1>1, RingIsSeq, ZenonT(30)
<1> HIDE DEF old, all, p
<1>4. \A k \in 1 .. len : Slot(s, p + k - 1) = Slot(s, r + (n + k - 1))
  <2> TAKE k \in 1 .. len
  <2>1. r + n \in Nat /\ k - 1 \in Nat
    BY <1>1
  <2>2. Slot(s, p + (k - 1)) = Slot(s, (r + n) + (k - 1))
    BY <2>1, SlotWraps DEF p
  <2>3. p \in Int
    BY <2>1, SizesArePositive, Division DEF p
  <2>4. p + k - 1 = p + (k - 1) /\ r + (n + k - 1) = (r + n) + (k - 1)
    BY <1>1, <2>3
  <2> QED
    BY <2>2, <2>4
<1>5. ASSUME NEW i \in 1 .. n
      PROVE  all[i] = old[i]
  <2>1. r + i - 1 \in Nat /\ r + i - 1 = r + (i - 1)
    OBVIOUS
  <2>2. ASSUME NEW k \in 1 .. len
        PROVE  Slot(s, r + i - 1) # Slot(s, p + k - 1)
    <3>1. i - 1 \in 0 .. SockSize[s] - 1 /\ n + k - 1 \in 0 .. SockSize[s] - 1 /\ i - 1 # n + k - 1
      BY <1>1
    <3> QED
      BY <1>4, <2>1, <3>1, SlotsApart
  <2>3. new[Slot(s, r + i - 1)] = mem[Slot(s, r + i - 1)]
    <3>1. Slot(s, r + i - 1) \in Cell
      BY <2>1, SlotInRing
    <3> QED
      BY <2>2, <1>0, <3>1 DEF Puts
  <2> QED
    BY <1>1, <1>2, <1>3, <2>3
<1>6. ASSUME NEW k \in 1 .. len
      PROVE  all[n + k] = data[k]
  <2>1. n + k \in 1 .. n + len /\ r + (n + k) - 1 = r + (n + k - 1)
    BY <1>1
  <2>2. all[n + k] = new[Slot(s, p + k - 1)]
    BY <1>3, <1>4, <2>1
  <2>3. new[Slot(s, p + k - 1)] = data[k]
    BY <1>0 DEF Puts
  <2> QED
    BY <2>2, <2>3
<1>7. /\ old \o data \in Seq(Byte) /\ Len(old \o data) = n + len
      /\ \A i \in 1 .. n : (old \o data)[i] = old[i]
      /\ \A k \in 1 .. len : (old \o data)[n + k] = data[k]
  <2>1. /\ old \o data \in Seq(Byte) /\ Len(old \o data) = Len(old) + Len(data)
        /\ \A i \in 1 .. Len(old) + Len(data) :
             (old \o data)[i] = IF i <= Len(old) THEN old[i] ELSE data[i - Len(old)]
    BY <1>2, ConcatProperties, Zenon
  <2>2. ASSUME NEW k \in 1 .. len
        PROVE  (old \o data)[n + k] = data[k]
    <3>1. n + k \in 1 .. n + len /\ ~(n + k <= n) /\ (n + k) - n = k
      BY <1>1
    <3> QED
      BY <1>2, <2>1, <3>1
  <2>3. ASSUME NEW i \in 1 .. n
        PROVE  (old \o data)[i] = old[i]
    BY <1>1, <1>2, <2>1
  <2> QED
    BY <1>2, <2>1, <2>2, <2>3
<1>8. \A i \in 1 .. n + len : all[i] = (old \o data)[i]
  <2> TAKE i \in 1 .. n + len
  <2>0. i <= n \/ i > n
    BY <1>1
  <2>1. CASE i <= n
    <3>1. i \in 1 .. n
      BY <1>1, <2>1
    <3>2. all[i] = old[i]
      BY <1>5, <3>1
    <3>3. (old \o data)[i] = old[i]
      BY <1>7, <3>1
    <3> QED
      BY <3>2, <3>3
  <2>2. CASE i > n
    <3>1. i - n \in 1 .. len /\ n + (i - n) = i
      BY <1>1, <2>2
    <3> QED
      BY <1>6, <1>7, <3>1
  <2> QED
    BY <2>0, <2>1, <2>2, Zenon
<1>9. all = old \o data
  BY <1>3, <1>7, <1>8, SeqEqual
<1> QED
  BY <1>9 DEF old, all

\* The other rings stay as they are.
LEMMA PutStaysInRing ==
  ASSUME NEW s \in Sock, NEW t \in Sock, s # t, NEW mem \in [Cell -> Byte], NEW new, NEW p \in Nat,
         NEW data \in Seq(Byte), Puts(mem, new, s, p, data), NEW r \in Nat, NEW n \in Nat
  PROVE  RingOf(new, r, n, t) = RingOf(mem, r, n, t)
<1>1. ASSUME NEW i \in 1 .. n
      PROVE  new[Slot(t, r + i - 1)] = mem[Slot(t, r + i - 1)]
  <2>1. r + i - 1 \in Nat
    OBVIOUS
  <2>2. \A k \in 1 .. Len(data) : Slot(t, r + i - 1) # Slot(s, p + k - 1)
    <3> TAKE k \in 1 .. Len(data)
    <3>1. p + k - 1 \in Nat
      OBVIOUS
    <3> QED
      BY <2>1, <3>1, RingsApart
  <2> QED
    BY <2>1, <2>2, SlotInRing DEF Puts
<1> QED
  BY <1>1 DEF RingOf

\* Taking k bytes out leaves the rest.
LEMMA TakeDrops ==
  ASSUME NEW s \in Sock, NEW mem \in [Cell -> Byte], NEW r \in Nat, NEW n \in Nat, NEW k \in 0 .. n
  PROVE  RingOf(mem, (r + k) % Modulus, n - k, s) = SubSeq(RingOf(mem, r, n, s), k + 1, n)
<1> DEFINE old == RingOf(mem, r, n, s)
<1>1. \A i \in 1 .. n : old[i] = mem[Slot(s, r + i - 1)]
  BY RingIsSeq
<1>2. ASSUME NEW i \in 1 .. n - k
      PROVE  mem[Slot(s, ((r + k) % Modulus) + i - 1)] = old[k + i]
  <2>1. r + k \in Nat /\ i - 1 \in Nat
    OBVIOUS
  <2>2. Slot(s, ((r + k) % Modulus) + (i - 1)) = Slot(s, (r + k) + (i - 1))
    BY <2>1, SlotWraps
  <2>3. (r + k) % Modulus \in Int
    BY <2>1, SizesArePositive, Division
  <2> DEFINE q == (r + k) % Modulus
  <2>4. q + i - 1 = q + (i - 1)
    <3> HIDE DEF q
    <3> QED
      BY <2>3
  <2>5. (r + k) + (i - 1) = r + (k + i) - 1 /\ k + i \in 1 .. n
    OBVIOUS
  <2> QED
    BY <1>1, <2>2, <2>4, <2>5
<1> DEFINE rest == SubSeq(old, k + 1, n)  new == RingOf(mem, (r + k) % Modulus, n - k, s)
<1>3. /\ rest \in Seq(Byte) /\ Len(rest) = n - k
      /\ \A i \in 1 .. n - k : rest[i] = old[k + i]
  <2>1. old \in Seq(Byte) /\ Len(old) = n
    BY RingIsSeq
  <2>2. \A i \in k + 1 .. n : old[i] \in Byte
    BY <2>1
  <2>3. k + 1 \in Int /\ n \in Int
    OBVIOUS
  <2> HIDE DEF old
  <2>4. /\ SubSeq(old, k + 1, n) \in Seq(Byte)
        /\ Len(SubSeq(old, k + 1, n)) = IF k + 1 <= n THEN n - (k + 1) + 1 ELSE 0
        /\ \A i \in 1 .. n - (k + 1) + 1 : SubSeq(old, k + 1, n)[i] = old[(k + 1) + i - 1]
    BY <2>2, <2>3, SubSeqProperties
  <2>5. n - (k + 1) + 1 = n - k /\ \A i \in 1 .. n - k : (k + 1) + i - 1 = k + i
    OBVIOUS
  <2> QED
    BY <2>4, <2>5
<1>4. /\ new \in Seq(Byte) /\ Len(new) = n - k
      /\ \A i \in 1 .. n - k : new[i] = mem[Slot(s, ((r + k) % Modulus) + i - 1)]
  <2> DEFINE q == (r + k) % Modulus
  <2>1. q \in Nat /\ n - k \in Nat
    <3>1. r + k \in Int /\ Modulus \in Nat \ {0}
      BY SizesArePositive
    <3>2. q \in 0 .. Modulus - 1
      BY <3>1, Division, Zenon
    <3> HIDE DEF q
    <3> QED
      BY <3>1, <3>2
  <2> HIDE DEF q
  <2>2. /\ RingOf(mem, q, n - k, s) \in Seq(Byte) /\ Len(RingOf(mem, q, n - k, s)) = n - k
        /\ \A i \in 1 .. n - k : RingOf(mem, q, n - k, s)[i] = mem[Slot(s, q + i - 1)]
    BY <2>1, RingIsSeq
  <2> QED
    BY <2>2 DEF q
<1>5. new = rest
  <2>1. \A i \in 1 .. n - k : new[i] = rest[i]
    BY <1>2, <1>3, <1>4
  <2> HIDE DEF new, rest
  <2> QED
    BY <1>3, <1>4, <2>1, SeqEqual
<1> QED
  BY <1>5

-----------------------------------------------------------------------------
(* Pointers, and the ways to write and to read.                            *)

Pointer == 0 .. Modulus - 1

\* A pointer advances by at most one wrap.
LEMMA AdvanceIs ==
  ASSUME NEW p \in Pointer, NEW n \in 0 .. Modulus
  PROVE  Advance(p, n) = (IF p + n < Modulus THEN p + n ELSE p + n - Modulus) /\ Advance(p, n) \in Pointer
<1> DEFINE x == p + n  m == Modulus
<1>1. m \in Nat \ {0}
  BY SizesArePositive
<1>2. x \in - m .. 2 * m - 1 /\ x >= 0
  BY <1>1 DEF Pointer
<1> HIDE DEF x, m
<1>3. x % m = IF x < 0 THEN x + m ELSE IF x < m THEN x ELSE x - m
  BY <1>1, <1>2, OneLap
<1> DEFINE v == x % m
<1>4. v = (IF x < m THEN x ELSE x - m) /\ v \in 0 .. m - 1
  BY <1>1, <1>2, <1>3
<1>5. Advance(p, n) = v
  BY DEF Advance, x, m
<1> HIDE DEF v
<1> QED
  BY <1>1, <1>4, <1>5 DEF x, m, Pointer

\* How far pointer w is ahead of pointer r.
Ahead(w, r) == (w - r) % Modulus

\* A pointer is ahead by at most one wrap.
LEMMA AheadIs ==
  ASSUME NEW w \in Pointer, NEW r \in Pointer
  PROVE  Ahead(w, r) = (IF w < r THEN w - r + Modulus ELSE w - r) /\ Ahead(w, r) \in Pointer
<1> DEFINE x == w - r  m == Modulus
<1>1. m \in Nat \ {0}
  BY SizesArePositive
<1>2. x \in - m .. 2 * m - 1 /\ x < m
  BY <1>1 DEF Pointer
<1>3. w < r <=> x < 0
  BY <1>1 DEF Pointer
<1> HIDE DEF x, m
<1>4. x % m = IF x < 0 THEN x + m ELSE IF x < m THEN x ELSE x - m
  BY <1>1, <1>2, OneLap
<1>5. x % m = (IF x < 0 THEN x + m ELSE x) /\ x % m \in 0 .. m - 1
  BY <1>1, <1>2, <1>4
<1> QED
  BY <1>3, <1>5 DEF x, m, Ahead, Pointer

\* To be ahead is to be that far on.
LEMMA AheadAgain ==
  ASSUME NEW w \in Pointer, NEW r \in Pointer
  PROVE  w = (r + Ahead(w, r)) % Modulus
<1>1. /\ Ahead(w, r) = (IF w < r THEN w - r + Modulus ELSE w - r) /\ Ahead(w, r) \in Pointer
      /\ Modulus \in Nat \ {0}
  BY AheadIs, SizesArePositive
<1>2. Advance(r, Ahead(w, r)) = IF r + Ahead(w, r) < Modulus THEN r + Ahead(w, r) ELSE r + Ahead(w, r) - Modulus
  <2>1. Ahead(w, r) \in 0 .. Modulus
    BY <1>1 DEF Pointer
  <2> QED
    BY <2>1, AdvanceIs
<1>3. Advance(r, Ahead(w, r)) = w
  BY <1>1, <1>2 DEF Pointer
<1> QED
  BY <1>3 DEF Advance

\* The one ahead goes on, or the one behind does.
LEMMA AheadGrows ==
  ASSUME NEW w \in Pointer, NEW r \in Pointer, NEW n \in Nat, Ahead(w, r) + n < Modulus
  PROVE  Advance(w, n) \in Pointer /\ Ahead(Advance(w, n), r) = Ahead(w, r) + n
<1>1. /\ Ahead(w, r) = (IF w < r THEN w - r + Modulus ELSE w - r) /\ Ahead(w, r) \in Pointer
      /\ Modulus \in Nat \ {0}
  BY AheadIs, SizesArePositive
<1>2. n \in 0 .. Modulus
  BY <1>1 DEF Pointer
<1>3. /\ Advance(w, n) = (IF w + n < Modulus THEN w + n ELSE w + n - Modulus)
      /\ Advance(w, n) \in Pointer
  BY <1>2, AdvanceIs
<1> DEFINE v == Advance(w, n)
<1>4. Ahead(v, r) = IF v < r THEN v - r + Modulus ELSE v - r
  <2> HIDE DEF v
  <2>1. v \in Pointer
    BY <1>3 DEF v
  <2> QED
    BY <2>1, AheadIs
<1> QED
  BY <1>1, <1>2, <1>3, <1>4 DEF Pointer

LEMMA AheadShrinks ==
  ASSUME NEW w \in Pointer, NEW r \in Pointer, NEW n \in 0 .. Ahead(w, r)
  PROVE  Advance(r, n) \in Pointer /\ Ahead(w, Advance(r, n)) = Ahead(w, r) - n
<1>1. /\ Ahead(w, r) = (IF w < r THEN w - r + Modulus ELSE w - r) /\ Ahead(w, r) \in Pointer
      /\ Modulus \in Nat \ {0}
  BY AheadIs, SizesArePositive
<1>2. n \in 0 .. Modulus
  BY <1>1 DEF Pointer
<1>3. /\ Advance(r, n) = (IF r + n < Modulus THEN r + n ELSE r + n - Modulus)
      /\ Advance(r, n) \in Pointer
  BY <1>2, AdvanceIs
<1> DEFINE v == Advance(r, n)
<1>4. Ahead(w, v) = IF w < v THEN w - v + Modulus ELSE w - v
  <2> HIDE DEF v
  <2>1. v \in Pointer
    BY <1>3 DEF v
  <2> QED
    BY <2>1, AheadIs
<1> QED
  BY <1>1, <1>2, <1>3, <1>4 DEF Pointer

\* Where the k-th byte from pointer p on is.
LEMMA SlotIs ==
  ASSUME NEW s \in Sock, NEW p \in Nat, NEW k \in 1 .. SockSize[s]
  PROVE  /\ p % SockSize[s] \in 0 .. SockSize[s] - 1
         /\ Slot(s, p + k - 1) = Base[s] + (IF (p % SockSize[s]) + k <= SockSize[s]
                                            THEN (p % SockSize[s]) + k - 1
                                            ELSE (p % SockSize[s]) + k - 1 - SockSize[s])
<1> DEFINE m == SockSize[s]  o == p % m  j == k - 1
<1>1. m \in Nat \ {0} /\ Base[s] \in Nat
  BY SizesArePositive
<1>2. j \in 0 .. m /\ p + k - 1 = p + j /\ p + j \in Nat
  BY <1>1
<1>3. o \in 0 .. m - 1 /\ (p + j) % m = IF o + j < m THEN o + j ELSE o + j - m
  <2> HIDE DEF m, j
  <2> QED
    BY <1>1, <1>2, GoesOn
<1>4. Slot(s, p + k - 1) = Base[s] + ((p + j) % m)
  BY <1>2 DEF Slot
<1>5. Slot(s, p + k - 1) = Base[s] + (IF o + j < m THEN o + j ELSE o + j - m)
  BY <1>3, <1>4
<1> HIDE DEF o, m
<1>6. Slot(s, p + k - 1) = Base[s] + (IF o + k <= m THEN o + k - 1 ELSE o + k - 1 - m)
  BY <1>1, <1>3, <1>5
<1> QED
  BY <1>3, <1>6 DEF o, m

\* The two parts of wiz_send_data.
LEMMA WrittenPuts ==
  ASSUME NEW s \in Sock, memory \in [Cell -> Byte], NEW p \in Nat,
         NEW data \in Seq(Byte), Len(data) <= SockSize[s]
  PROVE  Puts(memory, Written(s, p, data), s, p, data)
<1> DEFINE len == Len(data)  m == SockSize[s]  o == p % m  b == Base[s]
           start == b + o  first == IF o + len > m THEN m - o ELSE len
           new == Written(s, p, data)
<1>1. m \in Nat \ {0} /\ b \in Nat /\ len \in 0 .. m
  BY SizesArePositive
<1>2. o \in 0 .. m - 1
  BY <1>1, SlotIs
<1>3. \A k \in 1 .. len : Slot(s, p + k - 1) = b + (IF o + k <= m THEN o + k - 1 ELSE o + k - 1 - m)
  <2> TAKE k \in 1 .. len
  <2>1. k \in 1 .. SockSize[s]
    BY <1>1
  <2> QED
    BY <2>1, SlotIs, Zenon
<1>4. new = [c \in Cell |->
               IF c \in start .. start + first - 1 THEN data[c - start + 1]
               ELSE IF c \in b .. b + len - first - 1 THEN data[first + c - b + 1]
               ELSE memory[c]]
  BY DEF Written, FirstPart
<1>5. \A k \in 1 .. len : Slot(s, p + k - 1) \in Cell
  <2> TAKE k \in 1 .. len
  <2>1. p + k - 1 \in Nat
    BY <1>1
  <2> QED
    BY <2>1, SlotInRing
<1>6. Cell \subseteq Int
  BY DEF Cell
<1>7. \A k \in 1 .. len : data[k] \in Byte
  OBVIOUS
<1> HIDE DEF new, m, o, b
<1>8. first \in 0 .. len /\ o + first <= m /\ (first < len => first = m - o)
  BY <1>1, <1>2
<1> HIDE DEF first
<1>9. new \in [Cell -> Byte]
  <2>1. ASSUME NEW c \in Cell
        PROVE  /\ c \in start .. start + first - 1 => c - start + 1 \in 1 .. len
               /\ c \in b .. b + len - first - 1 => first + c - b + 1 \in 1 .. len
    BY <1>1, <1>2, <1>6, <1>8
  <2> HIDE DEF start
  <2> QED
    BY <1>4, <1>7, <2>1
<1>10. ASSUME NEW k \in 1 .. len
       PROVE  new[Slot(s, p + k - 1)] = data[k]
  <2> DEFINE c == Slot(s, p + k - 1)
  <2>1. c \in Cell /\ c = b + (IF o + k <= m THEN o + k - 1 ELSE o + k - 1 - m)
    BY <1>3, <1>5
  <2>2. CASE k <= first
    <3>1. c \in start .. start + first - 1 /\ c - start + 1 = k
      <4> HIDE DEF c
      <4> QED
        BY <1>1, <1>2, <1>8, <2>1, <2>2
    <3> HIDE DEF c, start
    <3> QED
      BY <1>4, <2>1, <3>1 DEF c
  <2>3. CASE k > first
    <3>1. /\ c \notin start .. start + first - 1
          /\ c \in b .. b + len - first - 1 /\ first + c - b + 1 = k
      <4>1. first = m - o /\ ~(o + k <= m)
        BY <1>1, <1>2, <1>8, <2>3
      <4>2. c = b + k - first - 1
        BY <1>1, <1>2, <2>1, <4>1
      <4> HIDE DEF c
      <4> QED
        BY <1>1, <1>2, <1>8, <2>3, <4>1, <4>2
    <3> HIDE DEF c, start
    <3> QED
      BY <1>4, <2>1, <3>1 DEF c
  <2> QED
    BY <1>8, <2>2, <2>3
<1>11. ASSUME NEW c \in Cell, \A k \in 1 .. len : c # Slot(s, p + k - 1)
       PROVE  new[c] = memory[c]
  <2>1. c \notin start .. start + first - 1
    <3> SUFFICES ASSUME c \in start .. start + first - 1
                 PROVE  FALSE
      OBVIOUS
    <3> DEFINE k == c - start + 1
    <3>1. k \in 1 .. len /\ o + k <= m /\ c = b + (o + k - 1)
      BY <1>1, <1>2, <1>6, <1>8
    <3>2. Slot(s, p + k - 1) = c
      <4> HIDE DEF k
      <4> QED
        BY <1>3, <3>1
    <3> QED
      BY <1>11, <3>1, <3>2
  <2>2. c \notin b .. b + len - first - 1
    <3> SUFFICES ASSUME c \in b .. b + len - first - 1
                 PROVE  FALSE
      OBVIOUS
    <3> DEFINE k == first + c - b + 1
    <3>1. k \in 1 .. len /\ ~(o + k <= m) /\ c = b + (o + k - 1 - m)
      BY <1>1, <1>2, <1>6, <1>8
    <3>2. Slot(s, p + k - 1) = c
      <4> HIDE DEF k
      <4> QED
        BY <1>3, <3>1
    <3> QED
      BY <1>11, <3>1, <3>2
  <2> HIDE DEF start
  <2> QED
    BY <1>4, <2>1, <2>2
<1> QED
  BY <1>9, <1>10, <1>11 DEF Puts, new

\* What the chip puts into the ring.
LEMMA ArrivalPuts ==
  ASSUME NEW s \in Sock, memory \in [Cell -> Byte], NEW p \in Nat, NEW data \in Seq(Byte),
         Len(data) <= SockSize[s], NEW new,
         new = [c \in Cell |->
                  IF \E i \in 1 .. Len(data) : c = Slot(s, p + i - 1)
                  THEN data[CHOOSE i \in 1 .. Len(data) : c = Slot(s, p + i - 1)]
                  ELSE memory[c]]
  PROVE  Puts(memory, new, s, p, data)
<1> DEFINE len == Len(data)
<1>1. len \in Nat /\ SockSize[s] \in Nat /\ \A k \in 1 .. len : data[k] \in Byte
  BY SizesArePositive
<1>2. \A i, k \in 1 .. len : Slot(s, p + i - 1) = Slot(s, p + k - 1) => i = k
  <2> SUFFICES ASSUME NEW i \in 1 .. len, NEW k \in 1 .. len, i # k
               PROVE  Slot(s, p + i - 1) # Slot(s, p + k - 1)
    OBVIOUS
  <2>1. i - 1 \in 0 .. SockSize[s] - 1 /\ k - 1 \in 0 .. SockSize[s] - 1 /\ i - 1 # k - 1
    BY <1>1
  <2>2. p + i - 1 = p + (i - 1) /\ p + k - 1 = p + (k - 1)
    BY <1>1
  <2> QED
    BY <2>1, <2>2, SlotsApart
<1>3. ASSUME NEW k \in 1 .. len
      PROVE  new[Slot(s, p + k - 1)] = data[k]
  <2>1. p + k - 1 \in Nat
    BY <1>1
  <2>2. Slot(s, p + k - 1) \in Cell
    BY <2>1, SlotInRing
  <2>3. (CHOOSE i \in 1 .. len : Slot(s, p + k - 1) = Slot(s, p + i - 1)) = k
    BY <1>2
  <2> QED
    BY <2>2, <2>3
<1>4. new \in [Cell -> Byte]
  <2>1. ASSUME NEW c \in Cell, \E i \in 1 .. len : c = Slot(s, p + i - 1)
        PROVE  (CHOOSE i \in 1 .. len : c = Slot(s, p + i - 1)) \in 1 .. len
    BY <2>1
  <2> QED
    BY <1>1, <2>1
<1> QED
  BY <1>3, <1>4 DEF Puts

\* The two parts of wiz_recv_data.
LEMMA ReadOutIs ==
  ASSUME NEW s \in Sock, NEW p \in Nat, NEW n \in 0 .. SockSize[s]
  PROVE  ReadOut(s, p, n) = RingOf(memory, p, n, s)
<1> DEFINE m == SockSize[s]  o == p % m  b == Base[s]
           start == b + o  first == IF o + n > m THEN m - o ELSE n
<1>1. m \in Nat \ {0} /\ b \in Nat
  BY SizesArePositive
<1>2. \A i \in 1 .. n : /\ o \in 0 .. m - 1
                        /\ Slot(s, p + i - 1) = b + (IF o + i <= m THEN o + i - 1 ELSE o + i - 1 - m)
  <2> TAKE i \in 1 .. n
  <2>1. i \in 1 .. SockSize[s]
    BY <1>1
  <2> QED
    BY <2>1, SlotIs, Zenon
<1>3. ReadOut(s, p, n) = [i \in 1 .. n |-> IF i <= first THEN memory[start + i - 1] ELSE memory[b + i - first - 1]]
  BY DEF ReadOut, FirstPart
<1>4. ASSUME NEW i \in 1 .. n
      PROVE  Slot(s, p + i - 1) = IF i <= first THEN start + i - 1 ELSE b + i - first - 1
  <2>1. o \in 0 .. m - 1 /\ Slot(s, p + i - 1) = b + (IF o + i <= m THEN o + i - 1 ELSE o + i - 1 - m)
    BY <1>2
  <2> HIDE DEF m, o, b
  <2> QED
    BY <1>1, <2>1
<1> HIDE DEF first, start, b
<1> QED
  BY <1>3, <1>4 DEF RingOf

\* The first k of n bytes.
LEMMA TakeFirst ==
  ASSUME NEW s \in Sock, NEW mem \in [Cell -> Byte], NEW r \in Nat, NEW n \in Nat, NEW k \in 0 .. n
  PROVE  RingOf(mem, r, k, s) = SubSeq(RingOf(mem, r, n, s), 1, k)
<1> DEFINE all == RingOf(mem, r, n, s)  some == RingOf(mem, r, k, s)
<1>1. all \in Seq(Byte) /\ Len(all) = n /\ \A i \in 1 .. n : all[i] = mem[Slot(s, r + i - 1)]
  BY RingIsSeq
<1>2. some \in Seq(Byte) /\ Len(some) = k /\ \A i \in 1 .. k : some[i] = mem[Slot(s, r + i - 1)]
  <2>1. k \in Nat
    OBVIOUS
  <2> QED
    BY <2>1, RingIsSeq
<1> HIDE DEF all, some
<1>3. \A i \in 1 .. k : all[i] \in Byte
  BY <1>1
<1>4. /\ SubSeq(all, 1, k) \in Seq(Byte)
      /\ Len(SubSeq(all, 1, k)) = IF 1 <= k THEN k - 1 + 1 ELSE 0
      /\ \A i \in 1 .. k - 1 + 1 : SubSeq(all, 1, k)[i] = all[1 + i - 1]
  <2>1. 1 \in Int /\ k \in Int
    OBVIOUS
  <2> QED
    BY <1>3, <2>1, SubSeqProperties
<1>5. k - 1 + 1 = k /\ \A i \in 1 .. k : 1 + i - 1 = i /\ i \in 1 .. n
  OBVIOUS
<1>6. some = SubSeq(all, 1, k)
  <2> DEFINE first == SubSeq(all, 1, k)
  <2>1. first \in Seq(Byte) /\ Len(first) = k
    BY <1>4
  <2>2. \A i \in 1 .. k : some[i] = first[i]
    BY <1>1, <1>2, <1>4, <1>5
  <2> HIDE DEF first
  <2>3. some = first
    BY <1>2, <2>1, <2>2, SeqEqual
  <2> QED
    BY <2>3 DEF first
<1> QED
  BY <1>6 DEF all, some

-----------------------------------------------------------------------------
(* The state of the chip.                                                  *)

Chip ==
  /\ memory \in [Cell -> Byte]
  /\ rd \in [Sock -> Pointer] /\ wr \in [Sock -> Pointer]
  /\ \A s \in Sock : Used(s) <= SockSize[s]

\* The bytes in the ring of socket s, the oldest first.
Ring(s) == RingOf(memory, rd[s], Used(s), s)

\* What the state of the chip says of one socket.
LEMMA ChipShape ==
  ASSUME Chip, NEW s \in Sock
  PROVE  /\ rd[s] \in Pointer /\ wr[s] \in Pointer /\ rd[s] \in Nat /\ wr[s] \in Nat
         /\ Used(s) = Ahead(wr[s], rd[s]) /\ Used(s) \in 0 .. SockSize[s]
         /\ Free(s) = SockSize[s] - Used(s)
         /\ Ring(s) \in Seq(Byte) /\ Len(Ring(s)) = Used(s)
<1>1. rd[s] \in Pointer /\ wr[s] \in Pointer /\ Pointer \subseteq Nat
  BY DEF Chip, Pointer
<1>2. Used(s) = Ahead(wr[s], rd[s])
  BY DEF Used, Ahead
<1>3. Used(s) \in Pointer /\ Used(s) \in 0 .. SockSize[s] /\ Used(s) \in Nat
  <2>1. Used(s) \in Pointer
    BY <1>1, <1>2, AheadIs
  <2>2. Used(s) <= SockSize[s] /\ SockSize[s] \in Nat
    BY SizesArePositive DEF Chip
  <2> QED
    BY <2>1, <2>2 DEF Pointer
<1>4. Ring(s) \in Seq(Byte) /\ Len(Ring(s)) = Used(s)
  <2>1. memory \in [Cell -> Byte] /\ rd[s] \in Nat
    BY <1>1 DEF Chip
  <2> QED
    BY <1>3, <2>1, RingIsSeq DEF Ring
<1> QED
  BY <1>1, <1>2, <1>3, <1>4 DEF Free

\* Data that fit are put behind what is in the ring.
LEMMA PutStep ==
  ASSUME Chip, NEW s \in Sock, NEW data \in Seq(Byte), Len(data) <= Free(s),
         Puts(memory, memory', s, wr[s], data),
         wr' = [wr EXCEPT ![s] = Advance(@, Len(data))], rd' = rd
  PROVE  /\ Chip'
         /\ Ring(s)' = Ring(s) \o data /\ Used(s)' = Used(s) + Len(data)
         /\ \A t \in Sock \ {s} : Ring(t)' = Ring(t) /\ Used(t)' = Used(t)
<1> DEFINE len == Len(data)
<1>1. /\ rd[s] \in Pointer /\ wr[s] \in Pointer /\ rd[s] \in Nat /\ wr[s] \in Nat
      /\ Used(s) = Ahead(wr[s], rd[s]) /\ Used(s) \in 0 .. SockSize[s]
      /\ Free(s) = SockSize[s] - Used(s)
  BY ChipShape
<1>2. len \in Nat /\ SockSize[s] \in Nat /\ SockSize[s] < Modulus /\ Modulus \in Nat
  BY SizesArePositive
<1>3. Used(s) + len <= SockSize[s] /\ Used(s) + len < Modulus
  BY <1>1, <1>2
<1>4. Advance(wr[s], len) \in Pointer /\ Ahead(Advance(wr[s], len), rd[s]) = Used(s) + len
  BY <1>1, <1>2, <1>3, AheadGrows
<1>5. /\ wr' \in [Sock -> Pointer] /\ rd' \in [Sock -> Pointer]
      /\ wr'[s] = Advance(wr[s], len) /\ \A t \in Sock \ {s} : wr'[t] = wr[t]
  BY <1>4 DEF Chip
<1>6. Used(s)' = Used(s) + len
  BY <1>4, <1>5 DEF Used, Ahead
<1>7. ASSUME NEW t \in Sock \ {s}
      PROVE  Used(t)' = Used(t)
  BY <1>5, <1>7 DEF Used
<1>8. memory' \in [Cell -> Byte] /\ memory \in [Cell -> Byte]
  BY DEF Puts, Chip
<1>9. Chip'
  <2>1. \A t \in Sock : Used(t)' <= SockSize[t]
    BY <1>3, <1>6, <1>7 DEF Chip
  <2> QED
    BY <1>5, <1>8, <2>1 DEF Chip
<1>10. Ring(s)' = Ring(s) \o data
  <2>1. wr[s] = (rd[s] + Used(s)) % Modulus
    BY <1>1, AheadAgain
  <2>2. Used(s) \in Nat
    BY <1>1
  <2>3. RingOf(memory', rd[s], Used(s) + len, s) = RingOf(memory, rd[s], Used(s), s) \o data
    <3>1. /\ memory \in [Cell -> Byte] /\ memory' \in [Cell -> Byte] /\ rd[s] \in Nat
          /\ Puts(memory, memory', s, Advance(rd[s], Used(s)), data)
      BY <1>1, <1>8, <2>1 DEF Advance
    <3> QED
      BY <1>3, <2>2, <3>1, PutAppends, ZenonT(30)
  <2> QED
    BY <1>6, <2>3 DEF Ring, RingOf, Slot
<1>11. ASSUME NEW t \in Sock \ {s}
       PROVE  Ring(t)' = Ring(t)
  <2>1. rd[t] \in Nat /\ Used(t) \in Nat
    BY ChipShape, SizesArePositive
  <2>2. RingOf(memory', rd[t], Used(t), t) = RingOf(memory, rd[t], Used(t), t)
    <3> DEFINE r == rd[t]  n == Used(t)  p == wr[s]  new == memory'
    <3>1. r \in Nat /\ n \in Nat /\ p \in Nat /\ Puts(memory, new, s, p, data) /\ t \in Sock /\ s # t
      BY <1>1, <2>1
    <3> HIDE DEF r, n, p, new
    <3>2. RingOf(new, r, n, t) = RingOf(memory, r, n, t)
      BY <1>8, <3>1, PutStaysInRing
    <3> QED
      BY <3>2 DEF r, n, new
  <2> QED
    BY <1>7, <2>2 DEF Ring, RingOf, Slot
<1> QED
  BY <1>6, <1>7, <1>9, <1>10, <1>11

\* Bytes that are there are taken from the front.
LEMMA TakeStep ==
  ASSUME Chip, NEW s \in Sock, NEW n \in 0 .. Used(s),
         rd' = [rd EXCEPT ![s] = Advance(@, n)], wr' = wr, memory' = memory
  PROVE  /\ Chip'
         /\ Ring(s)' = SubSeq(Ring(s), n + 1, Len(Ring(s))) /\ Used(s)' = Used(s) - n
         /\ \A t \in Sock \ {s} : Ring(t)' = Ring(t) /\ Used(t)' = Used(t)
<1>1. /\ rd[s] \in Pointer /\ wr[s] \in Pointer /\ rd[s] \in Nat
      /\ Used(s) = Ahead(wr[s], rd[s]) /\ Used(s) \in 0 .. SockSize[s]
      /\ Len(Ring(s)) = Used(s)
  BY ChipShape
<1>2. SockSize[s] \in Nat /\ memory \in [Cell -> Byte]
  BY SizesArePositive DEF Chip
<1>3. Advance(rd[s], n) \in Pointer /\ Ahead(wr[s], Advance(rd[s], n)) = Used(s) - n
  BY <1>1, AheadShrinks
<1>4. /\ rd' \in [Sock -> Pointer] /\ wr' \in [Sock -> Pointer]
      /\ rd'[s] = Advance(rd[s], n) /\ \A t \in Sock \ {s} : rd'[t] = rd[t]
  BY <1>3 DEF Chip
<1>5. Used(s)' = Used(s) - n
  BY <1>3, <1>4 DEF Used, Ahead
<1>6. \A t \in Sock \ {s} : Used(t)' = Used(t)
  BY <1>4 DEF Used
<1>7. Chip'
  <2>1. \A t \in Sock : Used(t)' <= SockSize[t]
    BY <1>1, <1>2, <1>5, <1>6 DEF Chip
  <2> QED
    BY <1>2, <1>4, <2>1 DEF Chip
<1>8. Ring(s)' = SubSeq(Ring(s), n + 1, Len(Ring(s)))
  <2>1. RingOf(memory, (rd[s] + n) % Modulus, Used(s) - n, s) = SubSeq(RingOf(memory, rd[s], Used(s), s), n + 1, Used(s))
    <3> DEFINE r == rd[s]  u == Used(s)
    <3>1. r \in Nat /\ u \in Nat /\ n \in 0 .. u
      BY <1>1, <1>2
    <3> HIDE DEF r, u
    <3>2. RingOf(memory, (r + n) % Modulus, u - n, s) = SubSeq(RingOf(memory, r, u, s), n + 1, u)
      BY <1>2, <3>1, TakeDrops
    <3> QED
      BY <3>2 DEF r, u
  <2>2. RingOf(memory, rd'[s], Used(s) - n, s) = SubSeq(Ring(s), n + 1, Len(Ring(s)))
    BY <1>1, <1>4, <2>1 DEF Advance, Ring
  <2> QED
    BY <1>5, <2>2 DEF Ring, RingOf, Slot
<1>9. \A t \in Sock \ {s} : Ring(t)' = Ring(t)
  BY <1>4, <1>6 DEF Ring, RingOf, Slot
<1> QED
  BY <1>5, <1>6, <1>7, <1>8, <1>9

\* wiz_recv_data returns the first bytes in the ring.
LEMMA ReadsFront ==
  ASSUME Chip, NEW s \in Sock, NEW n \in 0 .. Used(s)
  PROVE  ReadOut(s, rd[s], n) = SubSeq(Ring(s), 1, n)
<1>1. rd[s] \in Nat /\ Used(s) \in 0 .. SockSize[s] /\ SockSize[s] \in Nat /\ memory \in [Cell -> Byte]
  BY ChipShape, SizesArePositive DEF Chip
<1>2. ReadOut(s, rd[s], n) = RingOf(memory, rd[s], n, s)
  <2>1. n \in 0 .. SockSize[s]
    BY <1>1
  <2> QED
    BY <1>1, <2>1, ReadOutIs
<1>3. RingOf(memory, rd[s], n, s) = SubSeq(RingOf(memory, rd[s], Used(s), s), 1, n)
  <2>1. Used(s) \in Nat
    BY <1>1
  <2> QED
    BY <1>1, <2>1, TakeFirst
<1> QED
  BY <1>2, <1>3 DEF Ring

\* The parts of a sequence of bytes.
LEMMA SubSeqIs ==
  ASSUME NEW q \in Seq(Byte), NEW j \in Nat \ {0}, NEW k \in Nat, j <= k + 1, k <= Len(q)
  PROVE  /\ SubSeq(q, j, k) \in Seq(Byte)
         /\ Len(SubSeq(q, j, k)) = k - j + 1
         /\ \A i \in 1 .. k - j + 1 : SubSeq(q, j, k)[i] = q[j + i - 1]
<1> DEFINE p == SubSeq(q, j, k)
<1>1. \A i \in j .. k : q[i] \in Byte
  <2> TAKE i \in j .. k
  <2>1. i \in 1 .. Len(q)
    OBVIOUS
  <2> QED
    BY <2>1
<1>2. j \in Int /\ k \in Int
  OBVIOUS
<1>3. /\ p \in Seq(Byte) /\ Len(p) = IF j <= k THEN k - j + 1 ELSE 0
      /\ \A i \in 1 .. k - j + 1 : p[i] = q[j + i - 1]
  BY <1>1, <1>2, SubSeqProperties
<1> HIDE DEF p
<1>4. Len(p) = k - j + 1
  BY <1>3
<1> QED
  BY <1>3, <1>4 DEF p

-----------------------------------------------------------------------------
(* The size, read byte by byte while it grows.                             *)

\* The upper byte of a greater size is not less.
LEMMA QuotientsGrow ==
  ASSUME NEW m \in Nat \ {0}, NEW a \in Nat, NEW b \in Nat, a <= b
  PROVE  a \div m \in Nat /\ a \div m <= b \div m
<1>1. a \div m \in Nat
  BY Z3
<1>2. a \div m <= b \div m
  BY Z3
<1> QED
  BY <1>1, <1>2

\* Two readings, of a, b and of c, d, that agree are a reading of b alone.
LEMMA Agreement ==
  ASSUME NEW m \in Nat \ {0}, NEW a \in Nat, NEW b \in Nat, NEW c \in Nat, NEW d \in Nat,
         a <= b, b <= c,
         (a \div m) * m + (b % m) = (c \div m) * m + (d % m)
  PROVE  (a \div m) * m + (b % m) = b
<1> DEFINE qa == a \div m  qb == b \div m  qc == c \div m  rb == b % m  rd0 == d % m
           x == m * qa + rb
<1>1. qb \in Nat /\ rb \in 0 .. m - 1 /\ b = m * qb + rb
  <2>1. qb \in Int /\ rb \in 0 .. m - 1 /\ b = m * qb + rb
    BY Division
  <2>2. qb \in Nat
    BY QuotientsGrow
  <2> QED
    BY <2>1, <2>2
<1>2. rd0 \in 0 .. m - 1
  BY Division
<1>3. qa \in Nat /\ qa <= qb
  BY QuotientsGrow
<1>4. qc \in Nat /\ qb <= qc
  <2>1. qb <= qc
    BY QuotientsGrow
  <2>2. qc \in Nat
    BY QuotientsGrow
  <2> QED
    BY <2>1, <2>2
<1>5. x = qa * m + rb /\ x = m * qa + rb /\ x = m * qc + rd0 /\ x \in Int
  <2>1. qa * m + rb = qc * m + rd0
    OBVIOUS
  <2> HIDE DEF qa, qc, rb, rd0
  <2> QED
    BY <1>1, <1>2, <1>3, <1>4, <2>1, Z3
<1> HIDE DEF qa, qb, qc, rb, rd0, x
<1>6. x \div m = qa
  <2>1. qa \in Int /\ rb \in 0 .. m - 1 /\ x \in Int /\ x = m * qa + rb
    BY <1>1, <1>3, <1>5
  <2> QED
    BY <2>1, UniqueQuotient
<1>7. x \div m = qc
  <2>1. qc \in Int /\ rd0 \in 0 .. m - 1 /\ x \in Int /\ x = m * qc + rd0
    BY <1>2, <1>4, <1>5
  <2> QED
    BY <2>1, UniqueQuotient
<1>8. qa = qb
  BY <1>3, <1>1, <1>4, <1>6, <1>7
<1>9. qa * m + rb = b
  BY <1>1, <1>5, <1>8
<1> QED
  BY <1>9 DEF qa, rb

\* Two bytes make a number of two digits.
LEMMA TwoBytes ==
  ASSUME NEW m \in Nat \ {0}, NEW a \in 0 .. m * m - 1, NEW b \in Nat
  PROVE  a \div m \in 0 .. m - 1 /\ a \div m \in 0 .. m * m - 1 /\ (a \div m) * m + (b % m) \in 0 .. m * m - 1
<1> DEFINE q == a \div m  r == a % m  l == b % m
<1>1. q \in Int /\ r \in 0 .. m - 1 /\ a = m * q + r
  <2>1. a \in Int
    BY Z3
  <2> QED
    BY <2>1, Division
<1>2. l \in 0 .. m - 1
  BY Division
<1> HIDE DEF q, r, l
<1>3. q \in 0 .. m - 1
  <2>1. q < m
    <3> SUFFICES ASSUME q >= m
                 PROVE  FALSE
      BY <1>1
    <3>1. m * q >= m * m
      BY <1>1, Z3
    <3>2. a < m * m
      BY Z3
    <3> QED
      BY <1>1, <3>1, <3>2, Z3
  <2>2. q >= 0
    <3> SUFFICES ASSUME q <= -1
                 PROVE  FALSE
      BY <1>1
    <3>1. m * q <= -m
      BY <1>1, Z3
    <3>2. a >= 0
      BY Z3
    <3> QED
      BY <1>1, <3>1, <3>2, Z3
  <2> QED
    BY <1>1, <2>1, <2>2
<1>4. q * m + l \in 0 .. m * m - 1
  <2>1. q * m <= (m - 1) * m /\ q * m >= 0 /\ q * m \in Int /\ (m - 1) * m = m * m - m /\ m * m \in Int
    BY <1>3, Z3
  <2> QED
    BY <1>2, <2>1, Z3
<1>5. q \in 0 .. m * m - 1
  <2>1. m <= m * m /\ m * m \in Int
    BY Z3
  <2> QED
    BY <1>3, <2>1, Z3
<1> QED
  BY <1>3, <1>4, <1>5 DEF q, l

\* What has been read at a place of the reading, when the size was "from" at its
\* beginning and is "size": sizes that were there, in the order of the reading.
Sizing(place, v, v1, from, size) ==
  /\ place \in {"hi1", "lo1", "hi2", "lo2", "ready"} => from <= size
  /\ place = "lo1" => \E a \in from .. size : v1 = a \div Radix
  /\ place = "hi2" => \E a, b \in from .. size : a <= b /\ v1 = (a \div Radix) * Radix + (b % Radix)
  /\ place = "lo2" => \E a, b, c \in from .. size :
       /\ a <= b /\ b <= c
       /\ v1 = (a \div Radix) * Radix + (b % Radix)
       /\ v = c \div Radix
  /\ place = "ready" => v = 0 \/ v \in from .. size

\* What has been read stays true while the size grows.
LEMMA SizeMayGrow ==
  ASSUME NEW from \in Nat, NEW size \in Nat, NEW more \in Nat, size <= more,
         NEW place, NEW v, NEW v1, Sizing(place, v, v1, from, size)
  PROVE  Sizing(place, v, v1, from, more)
<1>1. from .. size \subseteq from .. more
  OBVIOUS
<1>2. place \in {"hi1", "lo1", "hi2", "lo2", "ready"} => from <= more
  BY DEF Sizing
<1>3. place = "lo1" => \E a \in from .. more : v1 = a \div Radix
  BY <1>1, Zenon DEF Sizing
<1>4. place = "hi2" => \E a, b \in from .. more : a <= b /\ v1 = (a \div Radix) * Radix + (b % Radix)
  BY <1>1, Zenon DEF Sizing
<1>5. place = "lo2" => \E a, b, c \in from .. more :
       /\ a <= b /\ b <= c
       /\ v1 = (a \div Radix) * Radix + (b % Radix)
       /\ v = c \div Radix
  BY <1>1, Zenon DEF Sizing
<1>6. place = "ready" => v = 0 \/ v \in from .. more
  BY <1>1, Zenon DEF Sizing
<1> QED
  BY <1>2, <1>3, <1>4, <1>5, <1>6, Zenon DEF Sizing

\* A value of the second reading that agrees with the first was there.
LEMMA SizeAgrees ==
  ASSUME NEW from \in Nat, NEW size \in Nat, NEW v, NEW v1, Sizing("lo2", v, v1, from, size),
         v * Radix + (size % Radix) = v1
  PROVE  v1 \in from .. size
<1>1. PICK a \in from .. size, b \in from .. size, c \in from .. size :
        /\ a <= b /\ b <= c
        /\ v1 = (a \div Radix) * Radix + (b % Radix)
        /\ v = c \div Radix
  BY Zenon DEF Sizing
<1>2. Radix \in Nat \ {0} /\ a \in Nat /\ b \in Nat /\ c \in Nat
  BY RadixAssumption
<1>3. (a \div Radix) * Radix + (b % Radix) = (c \div Radix) * Radix + (size % Radix)
  BY <1>1, Zenon
<1>4. (a \div Radix) * Radix + (b % Radix) = b
  <2> DEFINE m == Radix
  <2>1. m \in Nat \ {0} /\ (a \div m) * m + (b % m) = (c \div m) * m + (size % m)
    BY <1>2, <1>3
  <2> HIDE DEF m
  <2>2. (a \div m) * m + (b % m) = b
    BY <1>1, <1>2, <2>1, Agreement
  <2> QED
    BY <2>2 DEF m
<1> QED
  BY <1>1, <1>4, Zenon

-----------------------------------------------------------------------------
(* Datagrams in a ring.                                                    *)

\* From the header at i to e goes one datagram, and the next follows.
Whole(q, i, e) ==
  /\ e \in i .. Len(q)
  /\ \A j \in i + 1 .. e : q[j].length = NoHeader
  /\ e < Len(q) => q[e + 1].length # NoHeader

\* The r bytes that are left of a datagram, and whole datagrams after them.
Parsed(q, r) ==
  /\ r \in 0 .. Len(q)
  /\ \A i \in 1 .. r : q[i].length = NoHeader
  /\ r < Len(q) => q[r + 1].length # NoHeader
  /\ \A i \in 1 .. Len(q) : q[i].length # NoHeader => Whole(q, i, i + q[i].length)

\* A byte that is a header has a length.
LEMMA LengthOf ==
  ASSUME NEW q \in Seq(Byte), NEW i \in 1 .. Len(q)
  PROVE  /\ q[i].length \in NoHeader .. MaxLength
         /\ q[i].length # NoHeader => q[i].length \in 0 .. MaxLength
<1>1. q[i] \in Byte
  OBVIOUS
<1> QED
  BY <1>1, MaxLengthAssumption DEF Byte, NoHeader

\* A datagram that arrives comes after the others.
LEMMA ParsedGrows ==
  ASSUME NEW q \in Seq(Byte), NEW r, Parsed(q, r), NEW n \in 0 .. MaxLength, NEW d \in Seq(Byte),
         Len(d) = n + 1, d[1].length = n, \A k \in 2 .. n + 1 : d[k].length = NoHeader
  PROVE  Parsed(q \o d, r)
<1> DEFINE len == Len(q)  p == q \o d
<1>1. /\ len \in Nat /\ n \in Nat /\ p \in Seq(Byte) /\ Len(p) = len + n + 1
      /\ \A i \in 1 .. len : p[i] = q[i]
      /\ \A i \in 1 .. n + 1 : p[len + i] = d[i]
  <2>1. /\ p \in Seq(Byte) /\ Len(p) = Len(q) + Len(d)
        /\ \A i \in 1 .. Len(q) + Len(d) : p[i] = IF i <= Len(q) THEN q[i] ELSE d[i - Len(q)]
    BY ConcatProperties, Zenon
  <2>2. len \in Nat /\ n \in Nat
    BY MaxLengthAssumption
  <2> HIDE DEF p, len
  <2>3. Len(p) = len + n + 1 /\ \A i \in 1 .. len + n + 1 : p[i] = IF i <= len THEN q[i] ELSE d[i - len]
    BY <2>1, <2>2 DEF len
  <2>4. \A i \in 1 .. len : p[i] = q[i]
    BY <2>2, <2>3
  <2>5. ASSUME NEW i \in 1 .. n + 1
        PROVE  p[len + i] = d[i]
    <3>1. len + i \in 1 .. len + n + 1 /\ ~(len + i <= len) /\ (len + i) - len = i
      BY <2>2
    <3> QED
      BY <2>3, <3>1
  <2> QED
    BY <2>1, <2>2, <2>3, <2>4, <2>5
<1>2. /\ r \in 0 .. len
      /\ \A i \in 1 .. r : q[i].length = NoHeader
      /\ r < len => q[r + 1].length # NoHeader
      /\ \A i \in 1 .. len : q[i].length # NoHeader => Whole(q, i, i + q[i].length)
  BY DEF Parsed
<1>3. p[len + 1].length = n /\ n # NoHeader
  <2>1. 1 \in 1 .. n + 1
    BY <1>1
  <2> HIDE DEF p, len
  <2> QED
    BY <1>1, <2>1 DEF NoHeader
<1>4. \A k \in 2 .. n + 1 : p[len + k].length = NoHeader
  <2> TAKE k \in 2 .. n + 1
  <2>1. k \in 1 .. n + 1
    BY <1>1
  <2> HIDE DEF p, len
  <2> QED
    BY <1>1, <2>1
<1>5. \A i \in 1 .. len : q[i].length # NoHeader => q[i].length \in 0 .. MaxLength
  BY LengthOf
<1> HIDE DEF p, len
<1>6. r \in 0 .. Len(p) /\ \A i \in 1 .. r : p[i].length = NoHeader
  BY <1>1, <1>2
<1>7. r < Len(p) => p[r + 1].length # NoHeader
  <2>1. CASE r < len
    BY <1>1, <1>2, <2>1
  <2>2. CASE r = len
    BY <1>3, <2>2
  <2> QED
    BY <1>1, <1>2, <2>1, <2>2
<1>8. ASSUME NEW i \in 1 .. Len(p), p[i].length # NoHeader
      PROVE  Whole(p, i, i + p[i].length)
  <2>1. CASE i <= len
    <3>1. i \in 1 .. len /\ p[i] = q[i]
      BY <1>1, <2>1
    <3> DEFINE e == i + q[i].length
    <3>2. /\ e \in i .. len
          /\ \A j \in i + 1 .. e : q[j].length = NoHeader
          /\ e < len => q[e + 1].length # NoHeader
      BY <1>2, <1>8, <3>1 DEF Whole, len
    <3> HIDE DEF e
    <3>3. e \in i .. Len(p) /\ \A j \in i + 1 .. e : p[j].length = NoHeader
      <4>1. e \in i .. Len(p)
        BY <1>1, <3>1, <3>2
      <4>2. \A j \in i + 1 .. e : j \in 1 .. len
        BY <1>1, <3>1, <3>2
      <4> QED
        BY <1>1, <3>2, <4>1, <4>2
    <3>4. e < Len(p) => p[e + 1].length # NoHeader
      <4>1. CASE e < len
        BY <1>1, <3>1, <3>2, <4>1
      <4>2. CASE e = len
        BY <1>3, <4>2
      <4> QED
        BY <1>1, <3>2, <4>1, <4>2
    <3>5. Whole(p, i, e)
      BY <3>3, <3>4 DEF Whole
    <3> QED
      BY <3>1, <3>5 DEF e
  <2>2. CASE i = len + 1
    <3>1. i + p[i].length = Len(p) /\ i \in Nat /\ Len(p) \in Nat /\ i <= Len(p)
      <4>1. p[i].length = n
        BY <1>3, <2>2
      <4>2. i + n = Len(p) /\ i \in Nat /\ Len(p) \in Nat /\ i <= Len(p)
        BY <1>1, <2>2
      <4> QED
        BY <4>1, <4>2
    <3>2. \A j \in i + 1 .. Len(p) : p[j].length = NoHeader
      <4> TAKE j \in i + 1 .. Len(p)
      <4>1. j - len \in 2 .. n + 1 /\ len + (j - len) = j
        BY <1>1, <2>2
      <4> QED
        BY <1>4, <4>1
    <3>3. Whole(p, i, Len(p))
      BY <3>1, <3>2 DEF Whole
    <3> QED
      BY <3>1, <3>3
  <2>3. CASE i > len + 1
    <3>1. i - len \in 2 .. n + 1 /\ len + (i - len) = i
      BY <1>1, <2>3
    <3> QED
      BY <1>4, <1>8, <3>1
  <2> QED
    BY <1>1, <2>1, <2>2, <2>3
<1>9. Parsed(p, r)
  BY <1>6, <1>7, <1>8 DEF Parsed
<1> QED
  BY <1>9 DEF p

\* Datagrams that are k places further on.
LEMMA WholeShifts ==
  ASSUME NEW q \in Seq(Byte), NEW p \in Seq(Byte), NEW k \in 0 .. Len(q), Len(p) = Len(q) - k,
         \A i \in 1 .. Len(q) - k : p[i] = q[k + i],
         \A i \in 1 .. Len(q) : q[i].length # NoHeader => Whole(q, i, i + q[i].length)
  PROVE  \A i \in 1 .. Len(p) : p[i].length # NoHeader => Whole(p, i, i + p[i].length)
<1> SUFFICES ASSUME NEW i \in 1 .. Len(p), p[i].length # NoHeader
             PROVE  Whole(p, i, i + p[i].length)
  OBVIOUS
<1> DEFINE len == Len(q)  n == p[i].length  e == i + n
<1>1. len \in Nat /\ Len(p) = len - k /\ i \in 1 .. len - k /\ k \in 0 .. len
  OBVIOUS
<1>2. n \in 0 .. MaxLength
  BY LengthOf
<1>3. k + i \in 1 .. len /\ p[i] = q[k + i]
  BY <1>1
<1>4. Whole(q, k + i, (k + i) + n)
  BY <1>3
<1>5. (k + i) + n = k + e /\ e \in Int
  BY <1>1, <1>2
<1>6. /\ k + e \in k + i .. len
      /\ \A j \in k + i + 1 .. k + e : q[j].length = NoHeader
      /\ k + e < len => q[k + e + 1].length # NoHeader
  <2>1. Whole(q, k + i, k + e)
    BY <1>4, <1>5
  <2> HIDE DEF e
  <2> QED
    BY <2>1, <1>5 DEF Whole
<1> HIDE DEF e
<1>7. e \in i .. Len(p)
  BY <1>1, <1>5, <1>6
<1>8. \A j \in i + 1 .. e : p[j].length = NoHeader
  <2> TAKE j \in i + 1 .. e
  <2>1. j \in 1 .. len - k /\ k + j \in k + i + 1 .. k + e
    BY <1>1, <1>5, <1>7
  <2> QED
    BY <1>6, <2>1
<1>9. e < Len(p) => p[e + 1].length # NoHeader
  <2> SUFFICES ASSUME e < Len(p)
               PROVE  p[e + 1].length # NoHeader
    OBVIOUS
  <2>1. k + e < len /\ e + 1 \in 1 .. len - k /\ k + e + 1 = k + (e + 1)
    BY <1>1, <1>5, <1>7
  <2> QED
    BY <1>6, <2>1
<1>10. Whole(p, i, e)
  BY <1>7, <1>8, <1>9 DEF Whole
<1> QED
  BY <1>10 DEF e

\* A part of what is left is taken.
LEMMA ParsedShrinks ==
  ASSUME NEW q \in Seq(Byte), NEW r, Parsed(q, r), NEW k \in 0 .. r
  PROVE  Parsed(SubSeq(q, k + 1, Len(q)), r - k)
<1> DEFINE len == Len(q)  p == SubSeq(q, k + 1, len)
<1>1. /\ len \in Nat /\ r \in 0 .. len /\ k \in 0 .. len
      /\ \A i \in 1 .. r : q[i].length = NoHeader
      /\ r < len => q[r + 1].length # NoHeader
      /\ \A i \in 1 .. len : q[i].length # NoHeader => Whole(q, i, i + q[i].length)
  BY DEF Parsed
<1>2. /\ p \in Seq(Byte) /\ Len(p) = len - k
      /\ \A i \in 1 .. len - k : p[i] = q[k + i]
  <2>1. k + 1 \in Nat \ {0} /\ len \in Nat /\ k + 1 <= len + 1 /\ len <= Len(q)
    BY <1>1
  <2>2. /\ p \in Seq(Byte) /\ Len(p) = len - (k + 1) + 1
        /\ \A i \in 1 .. len - (k + 1) + 1 : p[i] = q[(k + 1) + i - 1]
    BY <2>1, SubSeqIs
  <2> HIDE DEF p
  <2>3. len - (k + 1) + 1 = len - k /\ \A i \in 1 .. len - k : (k + 1) + i - 1 = k + i
    BY <1>1
  <2> QED
    BY <2>2, <2>3
<1> HIDE DEF p
<1>3. \A i \in 1 .. Len(p) : p[i].length # NoHeader => Whole(p, i, i + p[i].length)
  BY <1>1, <1>2, WholeShifts
<1>4. r - k \in 0 .. Len(p) /\ \A i \in 1 .. r - k : p[i].length = NoHeader
  <2>1. \A i \in 1 .. r - k : i \in 1 .. len - k /\ k + i \in 1 .. r
    BY <1>1
  <2> QED
    BY <1>1, <1>2, <2>1
<1>5. r - k < Len(p) => p[(r - k) + 1].length # NoHeader
  <2> SUFFICES ASSUME r - k < Len(p)
               PROVE  p[(r - k) + 1].length # NoHeader
    OBVIOUS
  <2>1. r < len /\ (r - k) + 1 \in 1 .. len - k /\ k + ((r - k) + 1) = r + 1
    BY <1>1, <1>2
  <2> QED
    BY <1>1, <1>2, <2>1
<1>6. Parsed(p, r - k)
  BY <1>3, <1>4, <1>5 DEF Parsed
<1> QED
  BY <1>6 DEF p

\* When nothing is left, a header is what comes next.
LEMMA ParsedHead ==
  ASSUME NEW q \in Seq(Byte), Parsed(q, 0), Len(q) # 0
  PROVE  q[1].length \in 0 .. MaxLength /\ Parsed(SubSeq(q, 2, Len(q)), q[1].length)
<1> DEFINE len == Len(q)  p == SubSeq(q, 2, len)  n == q[1].length
<1>1. /\ len \in Nat \ {0} /\ 1 \in 1 .. len /\ q[0 + 1].length # NoHeader
      /\ \A i \in 1 .. len : q[i].length # NoHeader => Whole(q, i, i + q[i].length)
  BY DEF Parsed
<1>2. n # NoHeader /\ n \in 0 .. MaxLength
  BY <1>1, LengthOf
<1>3. /\ p \in Seq(Byte) /\ Len(p) = len - 1
      /\ \A i \in 1 .. len - 1 : p[i] = q[1 + i]
  <2>1. 2 \in Nat \ {0} /\ len \in Nat /\ 2 <= len + 1 /\ len <= Len(q)
    BY <1>1
  <2>2. /\ p \in Seq(Byte) /\ Len(p) = len - 2 + 1
        /\ \A i \in 1 .. len - 2 + 1 : p[i] = q[2 + i - 1]
    BY <2>1, SubSeqIs
  <2> HIDE DEF p
  <2>3. len - 2 + 1 = len - 1 /\ \A i \in 1 .. len - 1 : 2 + i - 1 = 1 + i
    BY <1>1
  <2> QED
    BY <2>2, <2>3
<1>4. Whole(q, 1, 1 + n)
  BY <1>1, <1>2
<1> HIDE DEF p, n
<1>5. \A i \in 1 .. Len(p) : p[i].length # NoHeader => Whole(p, i, i + p[i].length)
  <2>1. 1 \in 0 .. len
    BY <1>1
  <2> QED
    BY <1>1, <1>3, <2>1, WholeShifts
<1>6. /\ 1 + n \in 1 .. len
      /\ \A j \in 1 + 1 .. 1 + n : q[j].length = NoHeader
      /\ 1 + n < len => q[(1 + n) + 1].length # NoHeader
  BY <1>4 DEF Whole
<1>7. n \in 0 .. Len(p) /\ \A i \in 1 .. n : p[i].length = NoHeader
  <2>1. \A i \in 1 .. n : i \in 1 .. len - 1 /\ 1 + i \in 1 + 1 .. 1 + n
    BY <1>1, <1>2, <1>6
  <2> QED
    BY <1>1, <1>2, <1>3, <1>6, <2>1
<1>8. n < Len(p) => p[n + 1].length # NoHeader
  <2> SUFFICES ASSUME n < Len(p)
               PROVE  p[n + 1].length # NoHeader
    OBVIOUS
  <2>1. 1 + n < len /\ n + 1 \in 1 .. len - 1 /\ 1 + (n + 1) = (1 + n) + 1
    BY <1>1, <1>2, <1>3
  <2> QED
    BY <1>3, <1>6, <2>1
<1>9. Parsed(p, n)
  BY <1>5, <1>7, <1>8 DEF Parsed
<1> QED
  BY <1>2, <1>9 DEF p, n

-----------------------------------------------------------------------------
(* The invariant.                                                          *)

Types ==
  /\ use \in Use
  /\ out \in Seq(Byte)
  /\ pc \in Place /\ sn \in Sock
  /\ val \in 0 .. Radix * Radix - 1 /\ val1 \in 0 .. Radix * Radix - 1
  /\ low \in Nat
  /\ sock_remained_size \in NoHeader .. MaxLength
  /\ sock_pack_info \subseteq {"FIRST", "REMAINED"}

ReadPlace == {"hi1", "lo1", "hi2", "lo2", "ready"}

\* Datagrams are received on socket 0, and no call asks for the size while a part
\* of a datagram is left.
Places ==
  /\ use \in {"recvfrom", "pppoe"} => sn = 0
  /\ use = "recvfrom" /\ pc \in ReadPlace => sock_remained_size = 0

Sizes == Sizing(pc, val, val1, low, Size)

Mixed ==
  use = "recvfrom" =>
    /\ Parsed(Ring(0), sock_remained_size)
    /\ pc # "body" => \A i \in 1 .. Len(out) : out[i].length = NoHeader

IInv == Chip /\ Types /\ Places /\ Sizes /\ Mixed

\* The size register has two digits.
LEMMA SizeIs ==
  ASSUME Chip, sn \in Sock
  PROVE  Size \in Nat /\ Size \in 0 .. Radix * Radix - 1
<1>1. /\ Used(sn) \in 0 .. SockSize[sn] /\ Free(sn) = SockSize[sn] - Used(sn)
      /\ SockSize[sn] \in Nat
  BY ChipShape, SizesArePositive
<1>2. Size \in 0 .. SockSize[sn]
  BY <1>1 DEF Size
<1>3. SockSize[sn] < Radix * Radix /\ Radix * Radix \in Nat
  <2>1. Radix * Radix \in Nat
    BY RadixAssumption, Z3
  <2> QED
    BY <2>1, RadixAssumption
<1> DEFINE all == Radix * Radix
<1> HIDE DEF all
<1>4. SockSize[sn] < all /\ all \in Nat
  BY <1>3 DEF all
<1>5. Size \in Nat /\ Size \in 0 .. all - 1
  BY <1>1, <1>2, <1>4
<1> QED
  BY <1>5 DEF all

LEMMA ZeroIsSize == 0 \in 0 .. Radix * Radix - 1
<1>1. Radix * Radix \in Nat \ {0}
  BY RadixAssumption, Z3
<1> DEFINE all == Radix * Radix
<1>2. all \in Nat \ {0}
  BY <1>1
<1> HIDE DEF all
<1>3. 0 \in 0 .. all - 1
  BY <1>2
<1> QED
  BY <1>3 DEF all

\* Nothing happens in the chip.
LEMMA QuietChip ==
  ASSUME Chip, UNCHANGED chipVars
  PROVE  Chip' /\ \A s \in Sock : Ring(s)' = Ring(s) /\ Used(s)' = Used(s)
BY DEF Chip, chipVars, Ring, RingOf, Used, Slot

LEMMA QuietSize ==
  ASSUME UNCHANGED <<use, sn, chipVars>>
  PROVE  Size' = Size
BY DEF Size, Free, Used, chipVars

\* The initial state.
LEMMA InitIInv == Init => IInv
<1> SUFFICES ASSUME Init
             PROVE  IInv
  OBVIOUS
<1>1. 0 \in Sock /\ Modulus \in Nat \ {0} /\ \A s \in Sock : SockSize[s] \in Nat
  BY SizesArePositive
<1>2. 0 \in Pointer
  BY <1>1 DEF Pointer
<1>3. ASSUME NEW s \in Sock
      PROVE  Used(s) = 0
  <2>1. Ahead(0, 0) = 0
    BY <1>2, AheadIs
  <2>2. wr[s] = 0 /\ rd[s] = 0
    BY DEF Init
  <2> QED
    BY <2>1, <2>2 DEF Used, Ahead
<1>4. Chip
  <2>1. memory \in [Cell -> Byte]
    BY <1>1, MaxLengthAssumption DEF Init, Byte, NoHeader
  <2> QED
    BY <1>1, <1>2, <1>3, <2>1 DEF Init, Chip
<1>5. Types
  BY <1>1, ZeroIsSize, MaxLengthAssumption DEF Init, Types, Place, NoHeader
<1>6. Places
  BY DEF Init, Places
<1>7. Sizes
  BY DEF Init, Sizes, Sizing
<1>8. Mixed
  <2>1. Ring(0) \in Seq(Byte) /\ Len(Ring(0)) = 0
    BY <1>1, <1>3, <1>4, ChipShape
  <2>2. Parsed(Ring(0), 0)
    <3> DEFINE q == Ring(0)
    <3>1. Len(q) = 0
      BY <2>1
    <3> HIDE DEF q
    <3>2. Parsed(q, 0)
      BY <3>1 DEF Parsed
    <3> QED
      BY <3>2 DEF q
  <2> QED
    BY <2>2 DEF Init, Mixed
<1> QED
  BY <1>4, <1>5, <1>6, <1>7, <1>8 DEF IInv

\* A call begins.
LEMMA AskSizeKeeps ==
  ASSUME IInv, NEW s \in Sock, AskSize(s)
  PROVE  IInv'
<1>1. /\ pc' = "hi1" /\ sn' = s /\ val' = 0 /\ val1' = 0 /\ out' = <<>>
      /\ low' = (IF use = "send" THEN Free(s) ELSE Used(s))
      /\ UNCHANGED <<use, chipVars, packVars>>
      /\ use \in {"recvfrom", "pppoe"} => s = 0 /\ sock_remained_size = 0
  BY DEF AskSize
<1>2. Chip' /\ \A t \in Sock : Ring(t)' = Ring(t) /\ Used(t)' = Used(t)
  BY <1>1, QuietChip DEF IInv
<1>3. low' \in Nat
  <2>1. Used(s) \in 0 .. SockSize[s] /\ Free(s) = SockSize[s] - Used(s) /\ SockSize[s] \in Nat
    BY ChipShape, SizesArePositive DEF IInv
  <2> QED
    BY <1>1, <2>1
<1>4. Types'
  BY <1>1, <1>3, ZeroIsSize DEF IInv, Types, Place, packVars
<1>5. Places'
  BY <1>1 DEF Places, packVars
<1>6. Sizes'
  <2>1. Size' = low'
    BY <1>1 DEF Size, Free, Used, chipVars
  <2>2. Sizing("hi1", 0, 0, low', Size')
    BY <1>3, <2>1 DEF Sizing
  <2> QED
    BY <1>1, <2>2 DEF Sizes
<1>7. Mixed'
  BY <1>1, <1>2, SizesArePositive DEF IInv, Mixed, packVars
<1> QED
  BY <1>2, <1>4, <1>5, <1>6, <1>7 DEF IInv

\* A step of the reading.
LEMMA ReadsKeep ==
  ASSUME IInv, NEW here \in ReadPlace, NEW there \in ReadPlace, Reads(here, there),
         val' \in 0 .. Radix * Radix - 1, val1' \in 0 .. Radix * Radix - 1,
         Sizing(there, val', val1', low, Size)
  PROVE  IInv'
<1>1. pc = here /\ pc' = there /\ UNCHANGED <<use, chipVars, out, sn, low, packVars>>
  BY DEF Reads
<1>2. Chip' /\ \A t \in Sock : Ring(t)' = Ring(t) /\ Used(t)' = Used(t)
  BY <1>1, QuietChip DEF IInv
<1>3. Types'
  BY <1>1 DEF IInv, Types, Place, ReadPlace, packVars
<1>4. Places'
  BY <1>1 DEF IInv, Places, packVars
<1>5. Sizes'
  <2>1. Size' = Size
    BY <1>1, QuietSize
  <2> QED
    BY <1>1, <2>1 DEF Sizes
<1>6. Mixed'
  <2>1. pc # "body" /\ pc' # "body"
    BY <1>1 DEF ReadPlace
  <2> QED
    BY <1>1, <1>2, <2>1, SizesArePositive DEF IInv, Mixed, packVars
<1> QED
  BY <1>2, <1>3, <1>4, <1>5, <1>6 DEF IInv

\* The four readings.
LEMMA ReadingKeeps ==
  ASSUME IInv, ReadUpper1 \/ ReadLower1 \/ ReadUpper2 \/ ReadLower2
  PROVE  IInv'
<1>1. /\ Size \in Nat /\ Size \in 0 .. Radix * Radix - 1 /\ low \in Nat /\ Radix \in Nat \ {0}
      /\ val \in 0 .. Radix * Radix - 1 /\ val1 \in 0 .. Radix * Radix - 1
  BY SizeIs, RadixAssumption DEF IInv, Types
<1>2. Sizing(pc, val, val1, low, Size)
  BY DEF IInv, Sizes
<1>3. \A a \in low .. Size : a \in Nat /\ a \in 0 .. Radix * Radix - 1
  <2> DEFINE all == Radix * Radix - 1
  <2>1. Size \in 0 .. all /\ all \in Int
    <3>1. Radix * Radix \in Nat
      BY <1>1, Z3
    <3> QED
      BY <1>1, <3>1
  <2> HIDE DEF all
  <2>2. \A a \in low .. Size : a \in Nat /\ a \in 0 .. all
    BY <1>1, <2>1
  <2> QED
    BY <2>2 DEF all
<1>4. \A a \in low .. Size :
        /\ a \div Radix \in 0 .. Radix * Radix - 1
        /\ (a \div Radix) * Radix + (Size % Radix) \in 0 .. Radix * Radix - 1
  <2> TAKE a \in low .. Size
  <2>1. a \in 0 .. Radix * Radix - 1
    BY <1>3
  <2> QED
    BY <1>1, <2>1, TwoBytes, Zenon
<1>5. CASE ReadUpper1
  <2>1. Reads("hi1", "lo1") /\ pc = "hi1" /\ val1' = Size \div Radix /\ val' = val
    BY <1>5 DEF ReadUpper1, Reads
  <2>2. low <= Size /\ Size \in low .. Size
    BY <1>1, <1>2, <2>1 DEF Sizing
  <2>3. val1' \in 0 .. Radix * Radix - 1
    BY <1>4, <2>1, <2>2, Zenon
  <2>4. Sizing("lo1", val', val1', low, Size)
    BY <2>1, <2>2, Zenon DEF Sizing
  <2> QED
    BY <1>1, <2>1, <2>3, <2>4, ReadsKeep DEF ReadPlace
<1>6. CASE ReadLower1
  <2> DEFINE there == IF val1' # 0 THEN "hi2" ELSE IF val = 0 THEN "ready" ELSE "hi1"
  <2>1. Reads("lo1", there) /\ pc = "lo1" /\ val1' = val1 * Radix + (Size % Radix) /\ val' = val
    BY <1>6 DEF ReadLower1, Reads
  <2>2. low <= Size /\ Size \in low .. Size
    BY <1>1, <1>2, <2>1 DEF Sizing
  <2>3. PICK a \in low .. Size : val1 = a \div Radix
    BY <1>2, <2>1 DEF Sizing
  <2>4. val1' = (a \div Radix) * Radix + (Size % Radix) /\ a <= Size
    BY <2>1, <2>3
  <2>5. val1' \in 0 .. Radix * Radix - 1
    BY <1>4, <2>4, Zenon
  <2>6. Sizing("hi2", val', val1', low, Size)
    BY <2>2, <2>4, Zenon DEF Sizing
  <2>7. val = 0 => Sizing("ready", val', val1', low, Size)
    BY <2>1, <2>2, Zenon DEF Sizing
  <2>8. Sizing("hi1", val', val1', low, Size)
    BY <2>2, Zenon DEF Sizing
  <2>9. Sizing(there, val', val1', low, Size) /\ there \in ReadPlace
    BY <2>6, <2>7, <2>8 DEF ReadPlace
  <2> HIDE DEF there
  <2> QED
    BY <1>1, <2>1, <2>5, <2>9, ReadsKeep DEF ReadPlace
<1>7. CASE ReadUpper2
  <2>1. Reads("hi2", "lo2") /\ pc = "hi2" /\ val' = Size \div Radix /\ val1' = val1
    BY <1>7 DEF ReadUpper2, Reads
  <2>2. low <= Size /\ Size \in low .. Size
    BY <1>1, <1>2, <2>1 DEF Sizing
  <2>3. PICK a \in low .. Size, b \in low .. Size :
          a <= b /\ val1 = (a \div Radix) * Radix + (b % Radix)
    BY <1>2, <2>1, Zenon DEF Sizing
  <2>4. val' \in 0 .. Radix * Radix - 1
    BY <1>4, <2>1, <2>2, Zenon
  <2>5. b <= Size
    BY <1>1
  <2>6. Sizing("lo2", val', val1', low, Size)
    BY <2>1, <2>2, <2>3, <2>5, Zenon DEF Sizing
  <2> QED
    BY <1>1, <2>1, <2>4, <2>6, ReadsKeep DEF ReadPlace
<1>8. CASE ReadLower2
  <2> DEFINE there == IF val' = val1 THEN "ready" ELSE "hi1"
  <2>1. Reads("lo2", there) /\ pc = "lo2" /\ val' = val * Radix + (Size % Radix) /\ val1' = val1
    BY <1>8 DEF ReadLower2, Reads
  <2>2. low <= Size
    BY <1>1, <1>2, <2>1 DEF Sizing
  <2>3. PICK c \in low .. Size : val = c \div Radix
    BY <1>2, <2>1, Zenon DEF Sizing
  <2>4. val' = (c \div Radix) * Radix + (Size % Radix)
    BY <2>1, <2>3
  <2>5. val' \in 0 .. Radix * Radix - 1
    BY <1>4, <2>4, Zenon
  <2>6. val' = val1 => val1 \in low .. Size
    BY <1>1, <1>2, <2>1, SizeAgrees
  <2>7. val' = val1 => Sizing("ready", val', val1', low, Size)
    BY <2>2, <2>6, Zenon DEF Sizing
  <2>8. Sizing("hi1", val', val1', low, Size)
    BY <2>2, Zenon DEF Sizing
  <2>9. Sizing(there, val', val1', low, Size) /\ there \in ReadPlace
    BY <2>7, <2>8 DEF ReadPlace
  <2> HIDE DEF there
  <2> QED
    BY <1>1, <2>1, <2>5, <2>9, ReadsKeep DEF ReadPlace
<1> QED
  BY <1>5, <1>6, <1>7, <1>8

\* The chip moves, and the size that a call may be reading does not shrink.
LEMMA ChipKeeps ==
  ASSUME IInv, UNCHANGED <<use, callVars, packVars>>, Chip', out' \in Seq(Byte), Size <= Size',
         use = "recvfrom" => Parsed(Ring(0)', sock_remained_size) /\ out' = out
  PROVE  IInv'
<1>1. Types'
  BY DEF IInv, Types, callVars, packVars
<1>2. Places'
  BY DEF IInv, Places, callVars, packVars
<1>3. Sizes'
  <2>1. Size \in Nat /\ low \in Nat /\ Sizing(pc, val, val1, low, Size)
    BY SizeIs DEF IInv, Types, Sizes
  <2>2. Size' \in Nat
    <3>1. Chip' /\ (sn \in Sock)'
      BY <1>1 DEF Types
    <3>2. Chip /\ sn \in Sock => Size \in Nat
      BY SizeIs
    <3>3. Chip' /\ (sn \in Sock)' => (Size \in Nat)'
      <4>1. Used(sn)' \in 0 .. SockSize[sn'] /\ SockSize[sn'] \in Nat
        <5>1. Pointer \subseteq Nat /\ sn' \in Sock
          BY <3>1 DEF Pointer
        <5>2. wr'[sn'] \in Pointer /\ rd'[sn'] \in Pointer /\ Used(sn)' <= SockSize[sn']
          BY <3>1, <5>1 DEF Chip, Used
        <5>3. Ahead(wr'[sn'], rd'[sn']) \in Pointer
          BY <5>2, AheadIs
        <5>4. Used(sn)' \in Nat
          BY <5>1, <5>3 DEF Used, Ahead
        <5> QED
          BY <5>1, <5>2, <5>4, SizesArePositive
      <4> QED
        BY <4>1 DEF Size, Free
    <3> QED
      BY <3>1, <3>3
  <2>3. Sizing(pc, val, val1, low, Size')
    BY <2>1, <2>2, SizeMayGrow
  <2> QED
    BY <2>3 DEF Sizes, callVars
<1>4. Mixed'
  BY DEF IInv, Mixed, callVars, packVars
<1> QED
  BY <1>1, <1>2, <1>3, <1>4 DEF IInv

\* A call ends.
LEMMA DoneKeeps ==
  ASSUME IInv, Done, Chip', out' \in Seq(Byte), sock_remained_size' \in NoHeader .. MaxLength,
         sock_pack_info' \subseteq {"FIRST", "REMAINED"},
         use = "recvfrom" => /\ Parsed(Ring(0)', sock_remained_size')
                             /\ \A i \in 1 .. Len(out') : out'[i].length = NoHeader
  PROVE  IInv'
<1>1. pc' = "idle" /\ val' = 0 /\ val1' = 0 /\ low' = 0 /\ UNCHANGED <<use, sn>>
  BY DEF Done
<1>2. Types'
  BY <1>1, ZeroIsSize DEF IInv, Types, Place
<1>3. Places'
  BY <1>1 DEF IInv, Places, ReadPlace
<1>4. Sizes'
  BY <1>1 DEF Sizes, Sizing
<1>5. Mixed'
  BY <1>1 DEF Mixed
<1> QED
  BY <1>2, <1>3, <1>4, <1>5 DEF IInv

\* The bytes that the next call or the chip makes.
LEMMA FreshIs ==
  ASSUME Chip, NEW s \in Sock, NEW n \in Nat
  PROVE  /\ Fresh(s, n) \in Seq(Byte) /\ Len(Fresh(s, n)) = n
         /\ \A i \in 1 .. n : /\ Fresh(s, n)[i].sock = s
                              /\ Fresh(s, n)[i].number = Advance(wr[s], i - 1)
                              /\ Fresh(s, n)[i].length = NoHeader
<1>1. \A i \in 1 .. n : Advance(wr[s], i - 1) \in 0 .. Modulus - 1
  <2> TAKE i \in 1 .. n
  <2>1. wr[s] + (i - 1) \in Int /\ Modulus \in Nat \ {0}
    BY ChipShape, SizesArePositive
  <2> QED
    BY <2>1, Division, Zenon DEF Advance
<1>2. NoHeader \in NoHeader .. MaxLength
  BY MaxLengthAssumption DEF NoHeader
<1>3. \A i \in 1 .. n : [sock |-> s, number |-> Advance(wr[s], i - 1), length |-> NoHeader] \in Byte
  BY <1>1, <1>2 DEF Byte
<1> QED
  BY <1>3 DEF Fresh

\* A datagram of n bytes behind its header.
DatagramOf(n) == [Fresh(0, n + 1) EXCEPT ![1].length = n]

\* The header carries the length, the other bytes none.
LEMMA DatagramIs ==
  ASSUME Chip, NEW n \in 0 .. MaxLength
  PROVE  /\ DatagramOf(n) \in Seq(Byte) /\ Len(DatagramOf(n)) = n + 1
         /\ DatagramOf(n)[1].length = n
         /\ \A k \in 2 .. n + 1 : DatagramOf(n)[k].length = NoHeader
         /\ \A i \in 1 .. n + 1 : /\ DatagramOf(n)[i].sock = 0
                                  /\ DatagramOf(n)[i].number = Advance(wr[0], i - 1)
<1> DEFINE f == Fresh(0, n + 1)  d == DatagramOf(n)
<1>1. n + 1 \in Nat \ {0} /\ n \in Nat /\ n \in NoHeader .. MaxLength /\ 0 \in Sock
  BY MaxLengthAssumption, SizesArePositive DEF NoHeader
<1>2. /\ f \in Seq(Byte) /\ Len(f) = n + 1
      /\ \A i \in 1 .. n + 1 : /\ f[i].sock = 0 /\ f[i].number = Advance(wr[0], i - 1)
                               /\ f[i].length = NoHeader
  <2> DEFINE m == n + 1
  <2>1. m \in Nat
    BY <1>1
  <2> HIDE DEF m
  <2>2. /\ Fresh(0, m) \in Seq(Byte) /\ Len(Fresh(0, m)) = m
        /\ \A i \in 1 .. m : /\ Fresh(0, m)[i].sock = 0 /\ Fresh(0, m)[i].number = Advance(wr[0], i - 1)
                             /\ Fresh(0, m)[i].length = NoHeader
    BY <1>1, <2>1, FreshIs
  <2> QED
    BY <2>2 DEF m
<1> HIDE DEF f
<1>3. d = [f EXCEPT ![1] = [f[1] EXCEPT !.length = n]]
  BY DEF DatagramOf, f
<1>4. 1 \in 1 .. n + 1 /\ f[1] \in Byte
  BY <1>1, <1>2
<1> DEFINE h == [f[1] EXCEPT !.length = n]
<1>5. h \in Byte /\ h.length = n /\ h.sock = f[1].sock /\ h.number = f[1].number
  BY <1>1, <1>4 DEF Byte
<1> HIDE DEF h
<1>6. d = [f EXCEPT ![1] = h]
  BY <1>3 DEF h
<1> HIDE DEF d
<1>7. /\ d \in Seq(Byte) /\ Len(d) = n + 1 /\ d[1] = h
      /\ \A i \in 2 .. n + 1 : d[i] = f[i]
  BY <1>1, <1>2, <1>4, <1>5, <1>6
<1>8. \A i \in 1 .. n + 1 : d[i].sock = 0 /\ d[i].number = Advance(wr[0], i - 1)
  <2> TAKE i \in 1 .. n + 1
  <2>1. CASE i = 1
    BY <1>2, <1>4, <1>5, <1>7, <2>1
  <2>2. CASE i # 1
    <3>1. i \in 2 .. n + 1
      BY <2>2
    <3> QED
      BY <1>2, <1>7, <3>1
  <2> QED
    BY <2>1, <2>2
<1>9. \A k \in 2 .. n + 1 : d[k].length = NoHeader
  <2> TAKE k \in 2 .. n + 1
  <2>1. k \in 1 .. n + 1
    OBVIOUS
  <2> QED
    BY <1>2, <1>7, <2>1
<1> QED
  BY <1>5, <1>7, <1>8, <1>9 DEF d

-----------------------------------------------------------------------------
(* The steps: data are put into a ring, or taken out of it.                *)

PutsIn(s, data) ==
  /\ data \in Seq(Byte) /\ Len(data) <= Free(s)
  /\ Puts(memory, memory', s, wr[s], data)
  /\ wr' = [wr EXCEPT ![s] = Advance(@, Len(data))] /\ rd' = rd

TakesOut(s, n) ==
  /\ n \in 0 .. Used(s)
  /\ rd' = [rd EXCEPT ![s] = Advance(@, n)] /\ wr' = wr /\ memory' = memory

\* What PutStep and TakeStep say of these steps.
LEMMA AfterPut ==
  ASSUME Chip, NEW s \in Sock, NEW data, PutsIn(s, data)
  PROVE  /\ Chip'
         /\ Ring(s)' = Ring(s) \o data /\ Used(s)' = Used(s) + Len(data)
         /\ \A t \in Sock \ {s} : Ring(t)' = Ring(t) /\ Used(t)' = Used(t)
<1>1. /\ data \in Seq(Byte) /\ Len(data) <= Free(s)
      /\ Puts(memory, memory', s, wr[s], data)
      /\ wr' = [wr EXCEPT ![s] = Advance(@, Len(data))] /\ rd' = rd
  BY DEF PutsIn
<1> QED
  BY <1>1, PutStep

LEMMA AfterTake ==
  ASSUME Chip, NEW s \in Sock, NEW n, TakesOut(s, n)
  PROVE  /\ Chip'
         /\ Ring(s)' = SubSeq(Ring(s), n + 1, Len(Ring(s))) /\ Used(s)' = Used(s) - n
         /\ \A t \in Sock \ {s} : Ring(t)' = Ring(t) /\ Used(t)' = Used(t)
<1>1. /\ n \in 0 .. Used(s)
      /\ rd' = [rd EXCEPT ![s] = Advance(@, n)] /\ wr' = wr /\ memory' = memory
  BY DEF TakesOut
<1> QED
  BY <1>1, TakeStep

\* A size that is not zero is not more than there is.
LEMMA ReadyIsThere ==
  ASSUME IInv, pc = "ready", val # 0
  PROVE  val \in 1 .. Size
<1>1. val \in low .. Size /\ low \in Nat
  BY DEF IInv, Types, Sizes, Sizing
<1>2. Size \in Nat
  BY SizeIs DEF IInv, Types
<1> QED
  BY <1>1, <1>2

\* wiz_send_data: the size that was read is still free, so the data fit.
LEMMA SendDataPuts ==
  ASSUME IInv, NEW len \in 1 .. SockSize[sn], SendData(len)
  PROVE  PutsIn(sn, Fresh(sn, len)) /\ Len(Fresh(sn, len)) = len
<1>1. /\ use = "send" /\ pc = "ready" /\ len <= val
      /\ memory' = Written(sn, wr[sn], Fresh(sn, len))
      /\ wr' = [wr EXCEPT ![sn] = Advance(@, len)] /\ rd' = rd
  BY DEF SendData
<1>2. Chip /\ sn \in Sock /\ val \in 0 .. Radix * Radix - 1
  BY DEF IInv, Types
<1>3. /\ SockSize[sn] \in Nat /\ Used(sn) \in 0 .. SockSize[sn] /\ Free(sn) = SockSize[sn] - Used(sn)
      /\ wr[sn] \in Nat /\ memory \in [Cell -> Byte]
  BY <1>2, ChipShape, SizesArePositive DEF Chip
<1>4. len \in Nat /\ len <= Free(sn)
  <2>1. val # 0
    BY <1>1, <1>3
  <2>2. val \in 1 .. Size /\ Size = Free(sn)
    BY <1>1, <2>1, ReadyIsThere DEF Size
  <2> QED
    BY <1>1, <1>3, <2>2
<1> DEFINE data == Fresh(sn, len)
<1>5. data \in Seq(Byte) /\ Len(data) = len
  BY <1>2, <1>4, FreshIs
<1> HIDE DEF data
<1>6. Puts(memory, Written(sn, wr[sn], data), sn, wr[sn], data)
  <2>1. Len(data) <= SockSize[sn]
    BY <1>3, <1>4, <1>5
  <2> QED
    BY <1>2, <1>3, <1>5, <2>1, WrittenPuts
<1>7. PutsIn(sn, data)
  BY <1>1, <1>4, <1>5, <1>6 DEF PutsIn, data
<1> QED
  BY <1>5, <1>7 DEF data

\* The chip puts what arrives behind the rest.
LEMMA ArrivePutsIn ==
  ASSUME Chip, NEW s \in Sock, NEW data \in Seq(Byte), Arrive(s, data)
  PROVE  PutsIn(s, data)
<1> DEFINE new == [c \in Cell |->
                     IF \E i \in 1 .. Len(data) : c = Slot(s, wr[s] + i - 1)
                     THEN data[CHOOSE i \in 1 .. Len(data) : c = Slot(s, wr[s] + i - 1)]
                     ELSE memory[c]]
<1>1. /\ Len(data) <= Free(s) /\ memory' = new
      /\ wr' = [wr EXCEPT ![s] = Advance(@, Len(data))] /\ rd' = rd
  BY DEF Arrive, Slot
<1>2. /\ SockSize[s] \in Nat /\ Used(s) \in 0 .. SockSize[s] /\ Free(s) = SockSize[s] - Used(s)
      /\ wr[s] \in Nat /\ memory \in [Cell -> Byte]
  BY ChipShape, SizesArePositive DEF Chip
<1>3. Len(data) <= SockSize[s]
  BY <1>1, <1>2
<1>4. Puts(memory, new, s, wr[s], data)
  BY <1>2, <1>3, ArrivalPuts
<1> HIDE DEF new
<1> QED
  BY <1>1, <1>4 DEF PutsIn

LEMMA ArriveBytePuts ==
  ASSUME IInv, NEW s \in Sock, ArriveByte(s)
  PROVE  PutsIn(s, Fresh(s, 1)) /\ Len(Fresh(s, 1)) = 1
<1>1. Chip /\ 1 \in Nat /\ Arrive(s, Fresh(s, 1))
  BY DEF IInv, ArriveByte
<1>2. Fresh(s, 1) \in Seq(Byte) /\ Len(Fresh(s, 1)) = 1
  BY <1>1, FreshIs
<1> QED
  BY <1>1, <1>2, ArrivePutsIn

LEMMA ArriveDatagramPuts ==
  ASSUME IInv, ArriveDatagram
  PROVE  \E n \in 0 .. MaxLength : PutsIn(0, DatagramOf(n))
<1>1. PICK n \in 0 .. MaxLength : Arrive(0, DatagramOf(n))
  BY DEF ArriveDatagram, DatagramOf
<1>2. Chip /\ 0 \in Sock
  BY SizesArePositive DEF IInv
<1>3. DatagramOf(n) \in Seq(Byte)
  BY <1>2, DatagramIs
<1>4. PutsIn(0, DatagramOf(n))
  BY <1>1, <1>2, <1>3, ArrivePutsIn
<1> QED
  BY <1>4

\* The chip takes the first byte.
LEMMA TransmitTakes ==
  ASSUME IInv, NEW s \in Sock, Transmit(s)
  PROVE  TakesOut(s, 1) /\ out' = SubSeq(Ring(s), 1, 1)
<1>1. /\ Used(s) > 0 /\ out' = <<memory[Slot(s, rd[s])]>>
      /\ rd' = [rd EXCEPT ![s] = Advance(@, 1)] /\ wr' = wr /\ memory' = memory
  BY DEF Transmit, Slot
<1>2. /\ Used(s) \in 0 .. SockSize[s] /\ SockSize[s] \in Nat /\ rd[s] \in Nat
      /\ memory \in [Cell -> Byte] /\ Ring(s) \in Seq(Byte) /\ Len(Ring(s)) = Used(s)
  BY ChipShape, SizesArePositive DEF IInv, Chip
<1>3. 1 \in 0 .. Used(s) /\ 1 \in 1 .. Used(s) /\ Used(s) \in Nat
  BY <1>1, <1>2
<1>4. Ring(s)[1] = memory[Slot(s, rd[s])]
  <2>1. Ring(s)[1] = memory[Slot(s, rd[s] + 1 - 1)]
    BY <1>3 DEF Ring, RingOf
  <2>2. rd[s] + 1 - 1 = rd[s]
    BY <1>2
  <2> QED
    BY <2>1, <2>2
<1>5. SubSeq(Ring(s), 1, 1) = <<Ring(s)[1]>>
  <2> DEFINE q == Ring(s)
  <2>1. q \in Seq(Byte) /\ 1 \in Nat \ {0} /\ 1 <= Len(q) /\ q[1] \in Byte
    BY <1>2, <1>3
  <2> HIDE DEF q
  <2>2. /\ SubSeq(q, 1, 1) \in Seq(Byte) /\ Len(SubSeq(q, 1, 1)) = 1 - 1 + 1
        /\ \A i \in 1 .. 1 - 1 + 1 : SubSeq(q, 1, 1)[i] = q[1 + i - 1]
    BY <2>1, SubSeqIs
  <2>3. SubSeq(q, 1, 1) = <<q[1]>>
    <3> DEFINE p == SubSeq(q, 1, 1)  o == <<q[1]>>
    <3>1. p \in Seq(Byte) /\ Len(p) = 1 /\ p[1] = q[1]
      BY <2>2
    <3>2. o \in Seq(Byte) /\ Len(o) = 1 /\ o[1] = q[1]
      BY <2>1
    <3> HIDE DEF p, o
    <3>3. \A i \in 1 .. Len(p) : p[i] = o[i]
      BY <3>1, <3>2
    <3>4. p = o
      BY <3>1, <3>2, <3>3, SeqEqual
    <3> QED
      BY <3>4 DEF p, o
  <2> QED
    BY <2>3 DEF q
<1> QED
  BY <1>1, <1>3, <1>4, <1>5 DEF TakesOut

\* wiz_recv_data takes the first bytes, when they are there.
LEMMA ReceivesTakes ==
  ASSUME Chip, sn \in Sock, NEW n \in 0 .. Used(sn), Receives(n)
  PROVE  TakesOut(sn, n) /\ out' = SubSeq(Ring(sn), 1, n)
<1>1. /\ out' = ReadOut(sn, rd[sn], n)
      /\ rd' = [rd EXCEPT ![sn] = Advance(@, n)] /\ wr' = wr /\ memory' = memory
  BY DEF Receives
<1> QED
  BY <1>1, ReadsFront DEF TakesOut

\* recv(): what was read as the size is there.
LEMMA RecvDataTakes ==
  ASSUME IInv, NEW len \in 1 .. SockSize[sn], RecvData(len)
  PROVE  \E n \in 0 .. Used(sn) : TakesOut(sn, n) /\ out' = SubSeq(Ring(sn), 1, n)
<1> DEFINE n == IF val < len THEN val ELSE len
<1>1. use = "recv" /\ pc = "ready" /\ val # 0 /\ Receives(n)
  BY DEF RecvData
<1>2. Chip /\ sn \in Sock /\ SockSize[sn] \in Nat
  BY SizesArePositive DEF IInv, Types
<1>3. val \in 1 .. Used(sn)
  BY <1>1, ReadyIsThere DEF Size
<1>4. Used(sn) \in Nat
  BY <1>2, ChipShape
<1>5. n \in 0 .. Used(sn)
  <2>1. CASE val < len
    BY <1>3, <1>4, <2>1
  <2>2. CASE ~(val < len)
    <3>1. len \in Nat /\ len <= val /\ n = len
      BY <1>2, <1>3, <1>4, <2>2
    <3> QED
      BY <1>3, <1>4, <3>1
  <2> QED
    BY <2>1, <2>2
<1> HIDE DEF n
<1> QED
  BY <1>1, <1>2, <1>5, ReceivesTakes

\* recvfrom(): the first byte is there, and it is the next one of the ring.
LEMMA RecvHeadTakes ==
  ASSUME IInv, RecvHead
  PROVE  /\ use = "recvfrom" /\ sn = 0 /\ sock_remained_size = 0
         /\ Len(Ring(0)) # 0
         /\ TakesOut(0, 1) /\ out' = SubSeq(Ring(0), 1, 1)
         /\ out'[1] = Ring(0)[1]
<1>1. use = "recvfrom" /\ pc = "ready" /\ val # 0 /\ Receives(1)
  BY DEF RecvHead
<1>2. Chip /\ sn = 0 /\ sn \in Sock /\ sock_remained_size = 0
  BY <1>1 DEF IInv, Types, Places, ReadPlace
<1>3. val \in 1 .. Used(0)
  BY <1>1, <1>2, ReadyIsThere DEF Size
<1>4. Used(0) \in Nat /\ Ring(0) \in Seq(Byte) /\ Len(Ring(0)) = Used(0)
  BY <1>2, ChipShape, SizesArePositive
<1>5. 1 \in 0 .. Used(0) /\ Len(Ring(0)) # 0
  BY <1>3, <1>4
<1>6. TakesOut(sn, 1) /\ out' = SubSeq(Ring(sn), 1, 1)
  BY <1>1, <1>2, <1>5, ReceivesTakes
<1>7. SubSeq(Ring(0), 1, 1)[1] = Ring(0)[1]
  <2> DEFINE q == Ring(0)
  <2>1. q \in Seq(Byte) /\ 1 \in Nat \ {0} /\ 1 <= Len(q)
    BY <1>4, <1>5
  <2> HIDE DEF q
  <2>2. \A i \in 1 .. 1 - 1 + 1 : SubSeq(q, 1, 1)[i] = q[1 + i - 1]
    BY <2>1, SubSeqIs
  <2> QED
    BY <2>2 DEF q
<1> QED
  BY <1>1, <1>2, <1>5, <1>6, <1>7

\* recvfrom(): what is left of the datagram is there, whatever the size now is.
LEMMA RecvBodyTakes ==
  ASSUME IInv, NEW len \in 1 .. SockSize[sn], RecvBody(len)
  PROVE  \E n \in 0 .. Used(0) :
           /\ use = "recvfrom" /\ sn = 0 /\ n <= sock_remained_size
           /\ TakesOut(0, n) /\ out' = SubSeq(Ring(0), 1, n)
           /\ sock_remained_size' = sock_remained_size - n
           /\ sock_pack_info' \in {sock_pack_info \cup {"REMAINED"}, {}}
           /\ Done
<1> DEFINE n == IF len < sock_remained_size THEN len ELSE sock_remained_size
<1>1. /\ use = "recvfrom" /\ Receives(n) /\ sock_remained_size' = sock_remained_size - n
      /\ sock_pack_info' \in {sock_pack_info \cup {"REMAINED"}, {}}
      /\ Done
  BY DEF RecvBody
<1>2. Chip /\ sn = 0 /\ sn \in Sock /\ SockSize[sn] \in Nat
  BY <1>1, SizesArePositive DEF IInv, Types, Places
<1>3. sock_remained_size \in 0 .. Used(0) /\ Used(0) \in Nat
  <2>1. Parsed(Ring(0), sock_remained_size)
    BY <1>1 DEF IInv, Mixed
  <2>2. Len(Ring(0)) = Used(0) /\ Used(0) \in Nat
    BY <1>2, ChipShape, SizesArePositive
  <2> QED
    BY <2>1, <2>2 DEF Parsed
<1>4. n \in 0 .. Used(0) /\ n <= sock_remained_size
  BY <1>2, <1>3
<1> HIDE DEF n
<1>5. TakesOut(sn, n) /\ out' = SubSeq(Ring(sn), 1, n)
  BY <1>1, <1>2, <1>4, ReceivesTakes
<1> QED
  BY <1>1, <1>2, <1>4, <1>5

\* wiz_recv_ignore(): what is dropped is there.
LEMMA RecvIgnoreTakes ==
  ASSUME IInv, RecvIgnore
  PROVE  TakesOut(sn, val) /\ out' = out /\ use = "pppoe"
<1>1. /\ use = "pppoe" /\ pc = "ready" /\ val # 0
      /\ rd' = [rd EXCEPT ![sn] = Advance(@, val)] /\ wr' = wr /\ memory' = memory /\ out' = out
  BY DEF RecvIgnore
<1>2. val \in 1 .. Used(sn)
  BY <1>1, ReadyIsThere DEF Size
<1>3. val \in 0 .. Used(sn)
  BY <1>2
<1> QED
  BY <1>1, <1>3 DEF TakesOut

\* The parts of a ring are sequences of bytes.
LEMMA FrontOfRing ==
  ASSUME Chip, NEW s \in Sock, NEW n \in 0 .. Used(s)
  PROVE  /\ SubSeq(Ring(s), 1, n) \in Seq(Byte) /\ Len(SubSeq(Ring(s), 1, n)) = n
         /\ \A i \in 1 .. n : SubSeq(Ring(s), 1, n)[i] = Ring(s)[i]
<1> DEFINE q == Ring(s)
<1>1. q \in Seq(Byte) /\ Len(q) = Used(s) /\ Used(s) \in Nat
  BY ChipShape, SizesArePositive
<1>2. q \in Seq(Byte) /\ 1 \in Nat \ {0} /\ n \in Nat /\ 1 <= n + 1 /\ n <= Len(q)
  BY <1>1
<1> DEFINE p == SubSeq(q, 1, n)
<1>3. /\ p \in Seq(Byte) /\ Len(p) = n - 1 + 1
      /\ \A i \in 1 .. n - 1 + 1 : p[i] = q[1 + i - 1]
  <2> HIDE DEF q
  <2> QED
    BY <1>2, SubSeqIs
<1> HIDE DEF p, q
<1>4. n - 1 + 1 = n /\ \A i \in 1 .. n : 1 + i - 1 = i
  BY <1>2
<1>5. p \in Seq(Byte) /\ Len(p) = n /\ \A i \in 1 .. n : p[i] = q[i]
  BY <1>3, <1>4
<1> QED
  BY <1>5 DEF p, q

\* The chip has transmitted a byte: more is free.
LEMMA TransmitKeeps ==
  ASSUME IInv, NEW s \in Sock, Transmit(s)
  PROVE  IInv'
<1>1. use = "send" /\ UNCHANGED <<use, callVars, packVars>>
  BY DEF Transmit
<1>2. TakesOut(s, 1) /\ out' = SubSeq(Ring(s), 1, 1) /\ 1 \in 0 .. Used(s) /\ Chip
  BY TransmitTakes DEF TakesOut, IInv
<1>3. out' \in Seq(Byte)
  BY <1>2, FrontOfRing
<1>4. Chip' /\ Used(s)' = Used(s) - 1 /\ \A t \in Sock \ {s} : Used(t)' = Used(t)
  BY <1>2, AfterTake
<1>5. Size <= Size'
  <2>1. sn \in Sock /\ sn' = sn
    BY <1>1 DEF IInv, Types, callVars
  <2>2. SockSize[sn] \in Nat /\ Used(sn) \in Nat
    BY <1>2, <2>1, ChipShape, SizesArePositive
  <2>3. Size = SockSize[sn] - Used(sn) /\ Size' = SockSize[sn] - Used(sn)'
    BY <1>1, <2>1 DEF Size, Free
  <2>4. Used(sn)' = Used(sn) \/ Used(sn)' = Used(sn) - 1
    <3>1. CASE sn = s
      <4>1. Used(sn)' = Used(s)'
        BY <2>1, <3>1 DEF Used
      <4> QED
        BY <1>4, <3>1, <4>1
    <3>2. CASE sn # s
      <4>1. PICK t \in Sock \ {s} : t = sn
        BY <2>1, <3>2
      <4>2. Used(sn)' = Used(t)'
        BY <2>1, <4>1 DEF Used
      <4> QED
        BY <1>4, <4>1, <4>2
    <3> QED
      BY <3>1, <3>2
  <2> HIDE DEF Size, Used
  <2> QED
    BY <2>2, <2>3, <2>4
<1> QED
  BY <1>1, <1>3, <1>4, <1>5, ChipKeeps

\* Bytes have arrived: more is there.
LEMMA PutGrowsSize ==
  ASSUME IInv, NEW s \in Sock, NEW data, PutsIn(s, data), use # "send", use' = use, sn' = sn
  PROVE  Size <= Size'
<1>1. Chip /\ sn \in Sock /\ Len(data) \in Nat
  BY DEF IInv, Types, PutsIn
<1>2. Used(s)' = Used(s) + Len(data) /\ \A t \in Sock \ {s} : Used(t)' = Used(t)
  BY <1>1, AfterPut
<1>3. Used(sn) \in Nat
  BY <1>1, ChipShape, SizesArePositive
<1>4. Size = Used(sn) /\ Size' = Used(sn)'
  BY DEF Size
<1>5. Used(sn)' = Used(sn) \/ Used(sn)' = Used(sn) + Len(data)
  <2>1. CASE sn = s
    <3>1. Used(sn)' = Used(s)'
      BY <2>1 DEF Used
    <3> QED
      BY <1>2, <2>1, <3>1
  <2>2. CASE sn # s
    <3>1. PICK t \in Sock \ {s} : t = sn
      BY <1>1, <2>2
    <3>2. Used(sn)' = Used(t)'
      BY <3>1 DEF Used
    <3> QED
      BY <1>2, <3>1, <3>2
  <2> QED
    BY <2>1, <2>2
<1> QED
  BY <1>1, <1>3, <1>4, <1>5

LEMMA ArriveByteKeeps ==
  ASSUME IInv, NEW s \in Sock, ArriveByte(s)
  PROVE  IInv'
<1>1. /\ use \in {"recv", "pppoe"} /\ out' = out
      /\ UNCHANGED <<use, callVars, packVars>>
  BY DEF ArriveByte, Arrive
<1>2. Chip /\ PutsIn(s, Fresh(s, 1)) /\ out \in Seq(Byte)
  BY ArriveBytePuts DEF IInv, Types
<1>3. Chip'
  BY <1>2, AfterPut
<1>4. Size <= Size'
  BY <1>1, <1>2, PutGrowsSize DEF callVars
<1> QED
  BY <1>1, <1>2, <1>3, <1>4, ChipKeeps

LEMMA ArriveDatagramKeeps ==
  ASSUME IInv, ArriveDatagram
  PROVE  IInv'
<1>1. use = "recvfrom" /\ out' = out /\ UNCHANGED <<use, callVars, packVars>>
  BY DEF ArriveDatagram, Arrive
<1>2. PICK n \in 0 .. MaxLength : PutsIn(0, DatagramOf(n))
  BY ArriveDatagramPuts
<1>3. Chip /\ 0 \in Sock /\ out \in Seq(Byte)
  BY SizesArePositive DEF IInv, Types
<1>4. Chip' /\ Ring(0)' = Ring(0) \o DatagramOf(n)
  BY <1>2, <1>3, AfterPut
<1>5. Size <= Size'
  BY <1>1, <1>2, <1>3, PutGrowsSize DEF callVars
<1>6. Parsed(Ring(0)', sock_remained_size)
  <2> DEFINE q == Ring(0)  d == DatagramOf(n)  r == sock_remained_size
  <2>1. /\ d \in Seq(Byte) /\ Len(d) = n + 1 /\ d[1].length = n
        /\ \A k \in 2 .. n + 1 : d[k].length = NoHeader
    BY <1>3, DatagramIs
  <2>2. q \in Seq(Byte) /\ Parsed(q, r)
    BY <1>1, <1>3, ChipShape DEF IInv, Mixed
  <2> HIDE DEF q, d, r
  <2>3. Parsed(q \o d, r)
    BY <2>1, <2>2, ParsedGrows
  <2> QED
    BY <1>4, <2>3 DEF q, d, r
<1> QED
  BY <1>1, <1>3, <1>4, <1>5, <1>6, ChipKeeps

\* The calls end.
LEMMA SendDataKeeps ==
  ASSUME IInv, NEW len \in 1 .. SockSize[sn], SendData(len)
  PROVE  IInv'
<1>1. use = "send" /\ Done /\ UNCHANGED <<out, packVars>>
  BY DEF SendData
<1>2. Chip /\ sn \in Sock /\ PutsIn(sn, Fresh(sn, len))
  BY SendDataPuts DEF IInv, Types
<1>3. Chip'
  BY <1>2, AfterPut
<1> QED
  BY <1>1, <1>3, DoneKeeps DEF IInv, Types, packVars

LEMMA RecvDataKeeps ==
  ASSUME IInv, NEW len \in 1 .. SockSize[sn], RecvData(len)
  PROVE  IInv'
<1>1. use = "recv" /\ Done /\ UNCHANGED packVars
  BY DEF RecvData
<1>2. PICK n \in 0 .. Used(sn) : TakesOut(sn, n) /\ out' = SubSeq(Ring(sn), 1, n)
  BY RecvDataTakes
<1>3. Chip /\ sn \in Sock
  BY DEF IInv, Types
<1>4. Chip' /\ out' \in Seq(Byte)
  BY <1>2, <1>3, AfterTake, FrontOfRing
<1> QED
  BY <1>1, <1>4, DoneKeeps DEF IInv, Types, packVars

LEMMA RecvHeadKeeps ==
  ASSUME IInv, RecvHead
  PROVE  IInv'
<1>1. /\ use = "recvfrom" /\ sn = 0 /\ sock_remained_size = 0 /\ Len(Ring(0)) # 0
      /\ TakesOut(0, 1) /\ out' = SubSeq(Ring(0), 1, 1) /\ out'[1] = Ring(0)[1]
  BY RecvHeadTakes
<1>2. /\ sock_remained_size' = out'[1].length /\ sock_pack_info' = {"FIRST"}
      /\ pc' = "body" /\ UNCHANGED <<use, sn, val, val1, low>>
  BY DEF RecvHead
<1>3. Chip /\ 0 \in Sock /\ 1 \in 0 .. Used(0)
  BY <1>1, SizesArePositive DEF IInv, TakesOut
<1>4. Chip' /\ Ring(0)' = SubSeq(Ring(0), 1 + 1, Len(Ring(0))) /\ out' \in Seq(Byte)
  BY <1>1, <1>3, AfterTake, FrontOfRing
<1>5. sock_remained_size' \in 0 .. MaxLength /\ Parsed(Ring(0)', sock_remained_size')
  <2> DEFINE q == Ring(0)
  <2>1. q \in Seq(Byte) /\ Parsed(q, 0) /\ Len(q) # 0
    BY <1>1, <1>3, ChipShape DEF IInv, Mixed
  <2> HIDE DEF q
  <2>2. q[1].length \in 0 .. MaxLength /\ Parsed(SubSeq(q, 2, Len(q)), q[1].length)
    BY <2>1, ParsedHead
  <2>3. sock_remained_size' = q[1].length /\ Ring(0)' = SubSeq(q, 2, Len(q))
    BY <1>1, <1>2, <1>4 DEF q
  <2> QED
    BY <2>2, <2>3
<1>6. Types'
  <2>1. sock_remained_size' \in NoHeader .. MaxLength
    BY <1>5, MaxLengthAssumption DEF NoHeader
  <2> QED
    BY <1>2, <1>4, <2>1 DEF IInv, Types, Place
<1>7. Places'
  BY <1>1, <1>2 DEF Places, ReadPlace
<1>8. Sizes'
  BY <1>2 DEF Sizes, Sizing
<1>9. Mixed'
  BY <1>2, <1>5 DEF Mixed
<1> QED
  BY <1>4, <1>6, <1>7, <1>8, <1>9 DEF IInv

LEMMA RecvBodyKeeps ==
  ASSUME IInv, NEW len \in 1 .. SockSize[sn], RecvBody(len)
  PROVE  IInv'
<1>1. PICK n \in 0 .. Used(0) :
        /\ use = "recvfrom" /\ sn = 0 /\ n <= sock_remained_size
        /\ TakesOut(0, n) /\ out' = SubSeq(Ring(0), 1, n)
        /\ sock_remained_size' = sock_remained_size - n
        /\ sock_pack_info' \in {sock_pack_info \cup {"REMAINED"}, {}}
        /\ Done
  BY RecvBodyTakes
<1>2. Chip /\ 0 \in Sock
  BY SizesArePositive DEF IInv
<1>3. /\ Chip' /\ Ring(0)' = SubSeq(Ring(0), n + 1, Len(Ring(0)))
      /\ out' \in Seq(Byte) /\ Len(out') = n /\ \A i \in 1 .. n : out'[i] = Ring(0)[i]
  BY <1>1, <1>2, AfterTake, FrontOfRing
<1> DEFINE q == Ring(0)  r == sock_remained_size
<1>4. /\ q \in Seq(Byte) /\ Parsed(q, r) /\ Used(0) \in Nat
      /\ r \in NoHeader .. MaxLength /\ sock_pack_info \subseteq {"FIRST", "REMAINED"}
  BY <1>1, <1>2, ChipShape, SizesArePositive DEF IInv, Mixed, Types
<1> HIDE DEF q, r
<1>5. r \in 0 .. Len(q) /\ \A i \in 1 .. r : q[i].length = NoHeader
  BY <1>4 DEF Parsed
<1>6. n \in 0 .. r
  BY <1>1, <1>4, <1>5 DEF r
<1>7. Parsed(SubSeq(q, n + 1, Len(q)), r - n)
  BY <1>4, <1>6, ParsedShrinks
<1>8. Parsed(Ring(0)', sock_remained_size')
  BY <1>1, <1>3, <1>7 DEF q, r
<1>9. \A i \in 1 .. Len(out') : out'[i].length = NoHeader
  <2>1. \A i \in 1 .. n : i \in 1 .. r
    BY <1>5, <1>6
  <2>2. \A i \in 1 .. n : out'[i] = q[i]
    BY <1>3 DEF q
  <2> QED
    BY <1>3, <1>5, <2>1, <2>2
<1>10. sock_remained_size' \in NoHeader .. MaxLength
  <2>1. r - n \in NoHeader .. MaxLength
    BY <1>4, <1>5, <1>6, MaxLengthAssumption DEF NoHeader
  <2> QED
    BY <1>1, <2>1 DEF r
<1>11. sock_pack_info' \subseteq {"FIRST", "REMAINED"}
  BY <1>1, <1>4
<1> QED
  BY <1>1, <1>3, <1>8, <1>9, <1>10, <1>11, DoneKeeps

LEMMA RecvIgnoreKeeps ==
  ASSUME IInv, RecvIgnore
  PROVE  IInv'
<1>1. TakesOut(sn, val) /\ out' = out /\ use = "pppoe"
  BY RecvIgnoreTakes
<1>2. Done /\ UNCHANGED packVars
  BY DEF RecvIgnore
<1>3. Chip /\ sn \in Sock
  BY DEF IInv, Types
<1>4. Chip'
  BY <1>1, <1>3, AfterTake
<1> QED
  BY <1>1, <1>2, <1>4, DoneKeeps DEF IInv, Types, packVars

LEMMA NotYetKeeps ==
  ASSUME IInv, NotYet
  PROVE  IInv'
<1>1. pc = "ready" /\ pc' = "idle" /\ UNCHANGED <<use, chipVars, out, sn, val, val1, low, packVars>>
  BY DEF NotYet
<1>2. Chip' /\ \A t \in Sock : Ring(t)' = Ring(t)
  BY <1>1, QuietChip DEF IInv
<1>3. Types'
  BY <1>1 DEF IInv, Types, Place, packVars
<1>4. Places'
  BY <1>1 DEF IInv, Places, ReadPlace, packVars
<1>5. Sizes'
  BY <1>1 DEF Sizes, Sizing
<1>6. Mixed'
  BY <1>1, <1>2, SizesArePositive DEF IInv, Mixed, packVars
<1> QED
  BY <1>2, <1>3, <1>4, <1>5, <1>6 DEF IInv

LEMMA StutterKeeps ==
  ASSUME IInv, UNCHANGED vars
  PROVE  IInv'
<1>1. UNCHANGED <<use, out, pc, sn, val, val1, low, chipVars, packVars>>
  BY DEF vars, callVars
<1>2. Chip' /\ \A t \in Sock : Ring(t)' = Ring(t)
  BY <1>1, QuietChip DEF IInv
<1>3. Types'
  BY <1>1 DEF IInv, Types, packVars
<1>4. Places'
  BY <1>1 DEF IInv, Places, packVars
<1>5. Sizes'
  <2>1. Size' = Size
    BY <1>1, QuietSize
  <2> QED
    BY <1>1, <2>1 DEF IInv, Sizes
<1>6. Mixed'
  BY <1>1, <1>2, SizesArePositive DEF IInv, Mixed, packVars
<1> QED
  BY <1>2, <1>3, <1>4, <1>5, <1>6 DEF IInv

\* Every step keeps the invariant.
LEMMA NextIInv == IInv /\ [Next]_vars => IInv'
<1> SUFFICES ASSUME IInv, [Next]_vars
             PROVE  IInv'
  OBVIOUS
<1>1. ASSUME NEW s \in Sock, AskSize(s)
      PROVE  IInv'
  BY <1>1, AskSizeKeeps
<1>2. ASSUME NEW s \in Sock, Transmit(s)
      PROVE  IInv'
  BY <1>2, TransmitKeeps
<1>3. ASSUME NEW s \in Sock, ArriveByte(s)
      PROVE  IInv'
  BY <1>3, ArriveByteKeeps
<1>4. CASE ReadUpper1 \/ ReadLower1 \/ ReadUpper2 \/ ReadLower2
  BY <1>4, ReadingKeeps
<1>5. CASE NotYet
  BY <1>5, NotYetKeeps
<1>6. ASSUME NEW len \in 1 .. SockSize[sn], SendData(len)
      PROVE  IInv'
  BY <1>6, SendDataKeeps
<1>7. ASSUME NEW len \in 1 .. SockSize[sn], RecvData(len)
      PROVE  IInv'
  BY <1>7, RecvDataKeeps
<1>8. ASSUME NEW len \in 1 .. SockSize[sn], RecvBody(len)
      PROVE  IInv'
  BY <1>8, RecvBodyKeeps
<1>9. CASE RecvHead
  BY <1>9, RecvHeadKeeps
<1>10. CASE RecvIgnore
  BY <1>10, RecvIgnoreKeeps
<1>11. CASE ArriveDatagram
  BY <1>11, ArriveDatagramKeeps
<1>12. CASE UNCHANGED vars
  BY <1>12, StutterKeeps
<1> QED
  BY <1>1, <1>2, <1>3, <1>4, <1>5, <1>6, <1>7, <1>8, <1>9, <1>10, <1>11, <1>12 DEF Next

\* The invariant holds in every state.
LEMMA AlwaysIInv == Spec => []IInv
<1>1. Init => IInv
  BY InitIInv
<1>2. IInv /\ [Next]_vars => IInv'
  BY NextIInv
<1> QED
  BY <1>1, <1>2, PTL DEF Spec

\* Type correctness: the pointers stay in their 16 bits, what is in the buffer
\* memory is a byte, and the size that was read has two digits.
THEOREM BuffersTypeCorrect == Spec => []TypeOK
<1>1. IInv => TypeOK
  BY DEF IInv, Chip, Types, TypeOK, Pointer
<1> QED
  BY <1>1, AlwaysIInv, PTL

\* The size that getSn_TX_FSR and getSn_RX_RSR agree on was there at one moment of
\* the reading, or is zero (w5100.c:228-259), for rings of every size.
THEOREM SizeWasThereAlways == Spec => []SizeWasThere
<1>1. IInv => SizeWasThere
  BY DEF IInv, Sizes, Sizing, SizeWasThere
<1> QED
  BY <1>1, AlwaysIInv, PTL

\* recvfrom() never takes contents for a header or a header for contents
\* (socket.c:628-765), for datagrams of every length and every room.
THEOREM DatagramsStayApart == Spec => []NeverMixes
<1>1. IInv => NeverMixes
  BY DEF IInv, Mixed, Parsed, NeverMixes, NoHeader
<1> QED
  BY <1>1, AlwaysIInv, PTL

-----------------------------------------------------------------------------
(* The rings implement the streams.                                        *)

Mark == {Known(byte) : byte \in Byte}

KnownOf(q) == [i \in 1 .. Len(q) |-> Known(q[i])]

\* The marks of a sequence of bytes; they are appended and cut with the bytes.
LEMMA KnownIs ==
  ASSUME NEW q \in Seq(Byte)
  PROVE  /\ KnownOf(q) \in Seq(Mark) /\ Len(KnownOf(q)) = Len(q)
         /\ \A i \in 1 .. Len(q) : KnownOf(q)[i] = Known(q[i])
<1>1. \A i \in 1 .. Len(q) : Known(q[i]) \in Mark
  BY DEF Mark
<1>2. Len(q) \in Nat
  OBVIOUS
<1> DEFINE n == Len(q)
<1> HIDE DEF n
<1> QED
  BY <1>1, <1>2 DEF KnownOf, n

LEMMA KnownAppends ==
  ASSUME NEW q \in Seq(Byte), NEW d \in Seq(Byte)
  PROVE  KnownOf(q \o d) = KnownOf(q) \o KnownOf(d)
<1> DEFINE p == q \o d  kq == KnownOf(q)  kd == KnownOf(d)  kp == KnownOf(p)  all == kq \o kd
<1>1. /\ p \in Seq(Byte) /\ Len(p) = Len(q) + Len(d)
      /\ \A i \in 1 .. Len(q) + Len(d) : p[i] = IF i <= Len(q) THEN q[i] ELSE d[i - Len(q)]
  BY ConcatProperties, Zenon
<1>2. kq \in Seq(Mark) /\ Len(kq) = Len(q) /\ \A i \in 1 .. Len(q) : kq[i] = Known(q[i])
  BY KnownIs
<1>3. kd \in Seq(Mark) /\ Len(kd) = Len(d) /\ \A i \in 1 .. Len(d) : kd[i] = Known(d[i])
  BY KnownIs
<1> HIDE DEF p
<1>4. kp \in Seq(Mark) /\ Len(kp) = Len(p) /\ \A i \in 1 .. Len(p) : kp[i] = Known(p[i])
  BY <1>1, KnownIs
<1> HIDE DEF kq, kd, kp
<1>5. /\ all \in Seq(Mark) /\ Len(all) = Len(kq) + Len(kd)
      /\ \A i \in 1 .. Len(kq) + Len(kd) : all[i] = IF i <= Len(kq) THEN kq[i] ELSE kd[i - Len(kq)]
  <2>1. kq \in Seq(Mark) /\ kd \in Seq(Mark)
    BY <1>2, <1>3
  <2> QED
    BY <2>1, ConcatProperties, Zenon
<1> HIDE DEF all
<1>6. Len(q) \in Nat /\ Len(d) \in Nat
  OBVIOUS
<1>7. \A i \in 1 .. Len(kp) : kp[i] = all[i]
  <2> TAKE i \in 1 .. Len(kp)
  <2>1. i \in 1 .. Len(q) + Len(d) /\ i \in 1 .. Len(p)
    BY <1>1, <1>4
  <2>2. CASE i <= Len(q)
    <3>1. i \in 1 .. Len(q)
      BY <1>6, <2>1, <2>2
    <3>2. all[i] = kq[i] /\ p[i] = q[i]
      BY <1>1, <1>2, <1>3, <1>5, <2>1, <2>2
    <3> QED
      BY <1>2, <1>4, <2>1, <3>1, <3>2
  <2>3. CASE ~(i <= Len(q))
    <3>1. i - Len(q) \in 1 .. Len(d)
      BY <1>6, <2>1, <2>3
    <3>2. all[i] = kd[i - Len(q)] /\ p[i] = d[i - Len(q)]
      BY <1>1, <1>2, <1>3, <1>5, <2>1, <2>3
    <3> QED
      BY <1>3, <1>4, <2>1, <3>1, <3>2
  <2> QED
    BY <2>2, <2>3
<1>8. Len(kp) = Len(all)
  BY <1>1, <1>2, <1>3, <1>4, <1>5
<1>9. kp = all
  BY <1>4, <1>5, <1>7, <1>8, SeqEqual
<1> QED
  BY <1>9 DEF kp, all, kq, kd, p

LEMMA KnownPart ==
  ASSUME NEW q \in Seq(Byte), NEW j \in Nat \ {0}, NEW k \in Nat, j <= k + 1, k <= Len(q)
  PROVE  KnownOf(SubSeq(q, j, k)) = SubSeq(KnownOf(q), j, k)
<1> DEFINE p == SubSeq(q, j, k)  kq == KnownOf(q)  kp == KnownOf(p)  part == SubSeq(kq, j, k)
<1>1. /\ p \in Seq(Byte) /\ Len(p) = k - j + 1
      /\ \A i \in 1 .. k - j + 1 : p[i] = q[j + i - 1]
  BY SubSeqIs
<1>2. kq \in Seq(Mark) /\ Len(kq) = Len(q) /\ \A i \in 1 .. Len(q) : kq[i] = Known(q[i])
  BY KnownIs
<1> HIDE DEF p
<1>3. kp \in Seq(Mark) /\ Len(kp) = Len(p) /\ \A i \in 1 .. Len(p) : kp[i] = Known(p[i])
  BY <1>1, KnownIs
<1> HIDE DEF kq, kp
<1>4. \A i \in j .. k : kq[i] \in Mark
  <2> TAKE i \in j .. k
  <2>1. i \in 1 .. Len(kq)
    BY <1>2
  <2> QED
    BY <1>2, <2>1
<1>5. j \in Int /\ k \in Int
  OBVIOUS
<1>6. /\ part \in Seq(Mark) /\ Len(part) = (IF j <= k THEN k - j + 1 ELSE 0)
      /\ \A i \in 1 .. k - j + 1 : part[i] = kq[j + i - 1]
  BY <1>4, <1>5, SubSeqProperties
<1> HIDE DEF part
<1>7. Len(kp) = Len(part)
  BY <1>1, <1>3, <1>6
<1>8. \A i \in 1 .. Len(kp) : kp[i] = part[i]
  <2> TAKE i \in 1 .. Len(kp)
  <2>1. i \in 1 .. k - j + 1 /\ i \in 1 .. Len(p) /\ j + i - 1 \in 1 .. Len(q)
    BY <1>1, <1>3
  <2> QED
    BY <1>1, <1>2, <1>3, <1>6, <2>1
<1>9. kp = part
  BY <1>3, <1>6, <1>7, <1>8, SeqEqual
<1> QED
  BY <1>9 DEF kp, part, kq, p

\* The state of the streams.
Stream == [s \in Sock |->
             [i \in 1 .. Used(s) |-> Known(memory[Base[s] + ((rd[s] + i - 1) % SockSize[s])])]]

OutOf == [i \in 1 .. Len(out) |-> Known(out[i])]

\* The stream of a socket is what its ring holds, before a step and after it.
LEMMA StreamIs ==
  ASSUME NEW s \in Sock, NEW mem \in [Cell -> Byte], NEW r \in Nat, NEW n \in Nat
  PROVE  KnownOf(RingOf(mem, r, n, s))
           = [i \in 1 .. n |-> Known(mem[Base[s] + ((r + i - 1) % SockSize[s])])]
<1> DEFINE q == RingOf(mem, r, n, s)
<1>1. Len(q) = n /\ \A i \in 1 .. n : q[i] = mem[Slot(s, r + i - 1)]
  BY RingIsSeq
<1> HIDE DEF q
<1>2. KnownOf(q) = [i \in 1 .. n |-> Known(mem[Slot(s, r + i - 1)])]
  BY <1>1 DEF KnownOf
<1> QED
  BY <1>2 DEF q, Slot

LEMMA StreamAt ==
  ASSUME Chip, NEW s \in Sock
  PROVE  Stream[s] = KnownOf(Ring(s)) /\ Len(Stream[s]) = Used(s)
<1>1. rd[s] \in Nat /\ Used(s) \in Nat /\ Ring(s) \in Seq(Byte) /\ Len(Ring(s)) = Used(s)
  BY ChipShape, SizesArePositive
<1>2. memory \in [Cell -> Byte]
  BY DEF Chip
<1>3. Stream[s] = KnownOf(Ring(s))
  <2>1. KnownOf(RingOf(memory, rd[s], Used(s), s))
          = [i \in 1 .. Used(s) |-> Known(memory[Base[s] + ((rd[s] + i - 1) % SockSize[s])])]
    BY <1>1, <1>2, StreamIs, ZenonT(30)
  <2> QED
    BY <2>1 DEF Stream, Ring
<1>4. Len(KnownOf(Ring(s))) = Len(Ring(s))
  BY <1>1, KnownIs
<1> QED
  BY <1>1, <1>3, <1>4

LEMMA StreamNext ==
  ASSUME Chip', NEW s \in Sock
  PROVE  Stream'[s] = KnownOf(Ring(s)')
<1>1. rd'[s] \in Nat /\ Used(s)' \in Nat /\ memory' \in [Cell -> Byte]
  <2>1. rd'[s] \in Pointer /\ wr'[s] \in Pointer /\ memory' \in [Cell -> Byte] /\ Pointer \subseteq Nat
    BY DEF Chip, Pointer
  <2>2. Ahead(wr'[s], rd'[s]) \in Pointer
    BY <2>1, AheadIs
  <2> QED
    BY <2>1, <2>2 DEF Used, Ahead
<1> DEFINE mem == memory'  r == rd'[s]  n == Used(s)'
<1>2. KnownOf(RingOf(mem, r, n, s))
        = [i \in 1 .. n |-> Known(mem[Base[s] + ((r + i - 1) % SockSize[s])])]
  <2> HIDE DEF mem, r, n
  <2>1. mem \in [Cell -> Byte] /\ r \in Nat /\ n \in Nat
    BY <1>1 DEF mem, r, n
  <2> QED
    BY <2>1, StreamIs, ZenonT(30)
<1>3. Ring(s)' = RingOf(mem, r, n, s)
  BY DEF Ring, RingOf, Slot
<1>4. Stream'[s] = [i \in 1 .. n |-> Known(mem[Base[s] + ((r + i - 1) % SockSize[s])])]
  BY DEF Stream, Known
<1> QED
  BY <1>2, <1>3, <1>4

\* What is put into a ring is put into its stream.
LEMMA PutMaps ==
  ASSUME Chip, NEW s \in Sock, NEW data, PutsIn(s, data), out' = out,
         \A i \in 1 .. Len(data) : data[i].sock = s /\ data[i].number = Advance(wr[s], i - 1)
  PROVE  Streams!Next
<1> DEFINE n == Len(data)
<1>1. /\ data \in Seq(Byte) /\ n \in Nat /\ n <= Free(s)
      /\ wr' = [wr EXCEPT ![s] = Advance(@, n)]
  BY DEF PutsIn
<1>2. /\ Chip' /\ Ring(s)' = Ring(s) \o data
      /\ \A t \in Sock \ {s} : Ring(t)' = Ring(t)
  BY AfterPut
<1>3. /\ Used(s) \in 0 .. SockSize[s] /\ Free(s) = SockSize[s] - Used(s) /\ SockSize[s] \in Nat
      /\ wr[s] \in Nat /\ Ring(s) \in Seq(Byte) /\ Modulus \in Nat \ {0}
  BY ChipShape, SizesArePositive
<1>4. Used(s) + n <= SockSize[s] /\ n \in 0 .. SockSize[s]
  BY <1>1, <1>3
<1>5. KnownOf(data) = [i \in 1 .. n |-> <<s, (wr[s] + i - 1) % Modulus>>]
  <2>1. ASSUME NEW i \in 1 .. n
        PROVE  Known(data[i]) = <<s, (wr[s] + i - 1) % Modulus>>
    <3>1. wr[s] + (i - 1) = wr[s] + i - 1
      BY <1>1, <1>3
    <3> QED
      BY <3>1 DEF Known, Advance
  <2> QED
    BY <2>1 DEF KnownOf
<1>6. Stream' = [Stream EXCEPT ![s] = @ \o [i \in 1 .. n |-> <<s, (wr[s] + i - 1) % Modulus>>]]
  <2>1. Stream'[s] = Stream[s] \o KnownOf(data)
    <3>1. Stream'[s] = KnownOf(Ring(s)') /\ Stream[s] = KnownOf(Ring(s))
      BY <1>2, StreamNext, StreamAt
    <3>2. KnownOf(Ring(s) \o data) = KnownOf(Ring(s)) \o KnownOf(data)
      BY <1>1, <1>3, KnownAppends
    <3> QED
      BY <1>2, <3>1, <3>2
  <2>2. \A t \in Sock \ {s} : Stream'[t] = Stream[t]
    <3> TAKE t \in Sock \ {s}
    <3>1. Stream'[t] = KnownOf(Ring(t)') /\ Stream[t] = KnownOf(Ring(t))
      BY <1>2, StreamNext, StreamAt
    <3> QED
      BY <1>2, <3>1
  <2>3. Stream = [t \in Sock |-> Stream[t]] /\ Stream' = [t \in Sock |-> Stream'[t]]
    BY DEF Stream
  <2> HIDE DEF Stream
  <2> QED
    BY <1>5, <2>1, <2>2, <2>3
<1>7. Len(Stream[s]) + n <= SockSize[s]
  BY <1>4, StreamAt
<1>8. wr' = [wr EXCEPT ![s] = (@ + n) % Modulus] /\ OutOf' = OutOf
  BY <1>1 DEF Advance, OutOf
<1>9. Streams!Put(s, n)
  BY <1>6, <1>7, <1>8 DEF Streams!Put, Stream, OutOf
<1> QED
  BY <1>4, <1>9 DEF Streams!Next

\* What is taken out of a ring is taken out of its stream.
LEMMA TakeMaps ==
  ASSUME Chip, NEW s \in Sock, NEW n, TakesOut(s, n)
  PROVE  Streams!Discard(s, n) /\ n \in 0 .. SockSize[s]
<1>1. n \in 0 .. Used(s) /\ wr' = wr
  BY DEF TakesOut
<1>2. /\ Chip' /\ Ring(s)' = SubSeq(Ring(s), n + 1, Len(Ring(s)))
      /\ \A t \in Sock \ {s} : Ring(t)' = Ring(t)
  BY AfterTake
<1>3. /\ Used(s) \in 0 .. SockSize[s] /\ SockSize[s] \in Nat
      /\ Ring(s) \in Seq(Byte) /\ Len(Ring(s)) = Used(s)
  BY ChipShape, SizesArePositive
<1>4. n \in 0 .. SockSize[s] /\ n <= Len(Stream[s])
  BY <1>1, <1>3, StreamAt
<1>5. Stream' = [Stream EXCEPT ![s] = SubSeq(@, n + 1, Len(@))]
  <2>1. Stream'[s] = SubSeq(Stream[s], n + 1, Len(Stream[s]))
    <3>1. /\ Stream'[s] = KnownOf(Ring(s)') /\ Stream[s] = KnownOf(Ring(s))
          /\ Len(Stream[s]) = Len(Ring(s))
      BY <1>2, <1>3, StreamNext, StreamAt
    <3> DEFINE q == Ring(s)  len == Len(q)
    <3>2. q \in Seq(Byte) /\ n + 1 \in Nat \ {0} /\ len \in Nat /\ n + 1 <= len + 1 /\ len <= Len(q)
      BY <1>1, <1>3
    <3>3. KnownOf(SubSeq(q, n + 1, len)) = SubSeq(KnownOf(q), n + 1, len)
      <4> HIDE DEF q, len
      <4> QED
        BY <3>2, KnownPart
    <3> QED
      BY <1>2, <3>1, <3>3
  <2>2. \A t \in Sock \ {s} : Stream'[t] = Stream[t]
    <3> TAKE t \in Sock \ {s}
    <3>1. Stream'[t] = KnownOf(Ring(t)') /\ Stream[t] = KnownOf(Ring(t))
      BY <1>2, StreamNext, StreamAt
    <3> QED
      BY <1>2, <3>1
  <2>3. Stream = [t \in Sock |-> Stream[t]] /\ Stream' = [t \in Sock |-> Stream'[t]]
    BY DEF Stream
  <2> HIDE DEF Stream
  <2> QED
    BY <2>1, <2>2, <2>3
<1>6. Streams!Discard(s, n)
  BY <1>1, <1>4, <1>5 DEF Streams!Discard, Stream
<1> QED
  BY <1>4, <1>6

\* ... and it is what the reader gets.
LEMMA GetMaps ==
  ASSUME Chip, NEW s \in Sock, NEW n, TakesOut(s, n), out' = SubSeq(Ring(s), 1, n)
  PROVE  Streams!Next
<1>1. Streams!Discard(s, n) /\ n \in 0 .. SockSize[s] /\ n \in 0 .. Used(s)
  BY TakeMaps DEF TakesOut
<1>2. OutOf' = SubSeq(Stream[s], 1, n)
  <2> DEFINE q == Ring(s)
  <2>1. q \in Seq(Byte) /\ Len(q) = Used(s) /\ Used(s) \in Nat /\ Stream[s] = KnownOf(q)
    BY ChipShape, SizesArePositive, StreamAt
  <2>2. q \in Seq(Byte) /\ 1 \in Nat \ {0} /\ n \in Nat /\ 1 <= n + 1 /\ n <= Len(q)
    BY <1>1, <2>1
  <2> HIDE DEF q
  <2>3. KnownOf(SubSeq(q, 1, n)) = SubSeq(KnownOf(q), 1, n)
    BY <2>2, KnownPart
  <2>4. OutOf' = KnownOf(out')
    BY DEF OutOf, KnownOf, Known
  <2> QED
    BY <2>1, <2>3, <2>4 DEF q
<1>3. Streams!Get(s, n)
  BY <1>1, <1>2 DEF Streams!Get, Stream, OutOf
<1> QED
  BY <1>1, <1>3 DEF Streams!Next

\* A step in which neither the chip nor what was read changes.
LEMMA SameMaps ==
  ASSUME UNCHANGED <<memory, rd, wr, out>>
  PROVE  UNCHANGED Streams!vars
<1>1. Stream' = Stream /\ OutOf' = OutOf
  BY DEF Stream, OutOf, Used, Known
<1> QED
  BY <1>1 DEF Streams!vars, Stream, OutOf

\* The empty rings are the empty streams.
LEMMA InitMaps == Init => Streams!Init
<1> SUFFICES ASSUME Init
             PROVE  Streams!Init
  OBVIOUS
<1>1. Chip
  BY InitIInv DEF IInv
<1>2. wr = [s \in Sock |-> 0] /\ rd = [s \in Sock |-> 0] /\ out = <<>>
  BY DEF Init
<1>3. \A s \in Sock : Used(s) = 0
  <2> TAKE s \in Sock
  <2>1. 0 \in Pointer
    BY SizesArePositive DEF Pointer
  <2>2. Ahead(0, 0) = 0
    BY <2>1, AheadIs
  <2> QED
    BY <1>2, <2>2 DEF Used, Ahead
<1>4. Stream = [s \in Sock |-> <<>>]
  BY <1>3 DEF Stream
<1>5. OutOf = <<>>
  BY <1>2 DEF OutOf
<1> QED
  BY <1>2, <1>4, <1>5 DEF Streams!Init, Stream, OutOf

\* Every step is a step of the streams, or none.
LEMMA StepMaps == IInv /\ [Next]_vars => [Streams!Next]_(Streams!vars)
<1> SUFFICES ASSUME IInv, [Next]_vars
             PROVE  Streams!Next \/ UNCHANGED Streams!vars
  OBVIOUS
<1>0. Chip /\ sn \in Sock /\ 0 \in Sock
  BY SizesArePositive DEF IInv, Types
<1>1. ASSUME NEW s \in Sock, AskSize(s)
      PROVE  Streams!Next
  <2>1. out' = <<>> /\ UNCHANGED <<memory, rd, wr>>
    BY <1>1 DEF AskSize, chipVars
  <2>2. Stream' = Stream /\ OutOf' = <<>>
    BY <2>1 DEF Stream, OutOf, Used, Known
  <2>3. Streams!Forget
    BY <2>1, <2>2 DEF Streams!Forget, Stream, OutOf
  <2> QED
    BY <2>3 DEF Streams!Next
<1>2. ASSUME NEW s \in Sock, Transmit(s)
      PROVE  Streams!Next
  BY <1>0, <1>2, TransmitTakes, GetMaps
<1>3. ASSUME NEW s \in Sock, ArriveByte(s)
      PROVE  Streams!Next
  <2>1. out' = out /\ PutsIn(s, Fresh(s, 1)) /\ Len(Fresh(s, 1)) = 1
    BY <1>3, ArriveBytePuts DEF ArriveByte, Arrive
  <2>2. \A i \in 1 .. 1 : Fresh(s, 1)[i].sock = s /\ Fresh(s, 1)[i].number = Advance(wr[s], i - 1)
    <3>1. 1 \in Nat
      OBVIOUS
    <3> QED
      BY <1>0, <3>1, FreshIs
  <2> QED
    BY <1>0, <2>1, <2>2, PutMaps
<1>4. CASE ReadUpper1 \/ ReadLower1 \/ ReadUpper2 \/ ReadLower2 \/ NotYet
  <2>1. UNCHANGED <<memory, rd, wr, out>>
    BY <1>4 DEF ReadUpper1, ReadLower1, ReadUpper2, ReadLower2, NotYet, Reads, chipVars
  <2> QED
    BY <2>1, SameMaps
<1>5. ASSUME NEW len \in 1 .. SockSize[sn], SendData(len)
      PROVE  Streams!Next
  <2>1. out' = out /\ PutsIn(sn, Fresh(sn, len)) /\ Len(Fresh(sn, len)) = len
    BY <1>5, SendDataPuts DEF SendData
  <2>2. \A i \in 1 .. len : /\ Fresh(sn, len)[i].sock = sn
                            /\ Fresh(sn, len)[i].number = Advance(wr[sn], i - 1)
    <3>1. len \in Nat
      BY <1>0, SizesArePositive
    <3> QED
      BY <1>0, <3>1, FreshIs
  <2> QED
    BY <1>0, <2>1, <2>2, PutMaps
<1>6. ASSUME NEW len \in 1 .. SockSize[sn], RecvData(len)
      PROVE  Streams!Next
  <2>1. PICK n \in 0 .. Used(sn) : TakesOut(sn, n) /\ out' = SubSeq(Ring(sn), 1, n)
    BY <1>6, RecvDataTakes
  <2> QED
    BY <1>0, <2>1, GetMaps
<1>7. ASSUME NEW len \in 1 .. SockSize[sn], RecvBody(len)
      PROVE  Streams!Next
  <2>1. PICK n \in 0 .. Used(0) : TakesOut(0, n) /\ out' = SubSeq(Ring(0), 1, n)
    BY <1>7, RecvBodyTakes
  <2> QED
    BY <1>0, <2>1, GetMaps
<1>8. CASE RecvHead
  <2>1. TakesOut(0, 1) /\ out' = SubSeq(Ring(0), 1, 1)
    BY <1>8, RecvHeadTakes
  <2> QED
    BY <1>0, <2>1, GetMaps
<1>9. CASE RecvIgnore
  <2>1. TakesOut(sn, val) /\ out' = out
    BY <1>9, RecvIgnoreTakes
  <2>2. Streams!Discard(sn, val) /\ val \in 0 .. SockSize[sn]
    BY <1>0, <2>1, TakeMaps
  <2>3. OutOf' = OutOf
    BY <2>1 DEF OutOf
  <2> QED
    BY <1>0, <2>2, <2>3 DEF Streams!Next, OutOf
<1>10. CASE ArriveDatagram
  <2>1. PICK n \in 0 .. MaxLength : PutsIn(0, DatagramOf(n))
    BY <1>10, ArriveDatagramPuts
  <2>2. out' = out
    BY <1>10 DEF ArriveDatagram, Arrive
  <2>3. Len(DatagramOf(n)) = n + 1 /\ \A i \in 1 .. n + 1 : /\ DatagramOf(n)[i].sock = 0
                                                            /\ DatagramOf(n)[i].number = Advance(wr[0], i - 1)
    BY <1>0, DatagramIs
  <2> QED
    BY <1>0, <2>1, <2>2, <2>3, PutMaps
<1>11. CASE UNCHANGED vars
  <2>1. UNCHANGED <<memory, rd, wr, out>>
    BY <1>11 DEF vars, chipVars
  <2> QED
    BY <2>1, SameMaps
<1> QED
  BY <1>1, <1>2, <1>3, <1>4, <1>5, <1>6, <1>7, <1>8, <1>9, <1>10, <1>11 DEF Next

\* The rings implement the streams of ByteStreams (w5100.c:298-384): for sockets
\* and rings of every number and size, with the pointers' wrap and the end of the
\* ring anywhere, every byte comes out once, in order, at its own socket.
THEOREM RingsAreStreams == Spec => StreamsSpec
<1>1. Init => Streams!Init
  BY InitMaps
<1>2. IInv /\ [Next]_vars => [Streams!Next]_(Streams!vars)
  BY StepMaps
<1> QED
  BY <1>1, <1>2, AlwaysIInv, PTL DEF Spec, StreamsSpec, Streams!Spec

=============================================================================
