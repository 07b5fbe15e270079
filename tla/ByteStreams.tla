----------------------------- MODULE ByteStreams -----------------------------
(***************************************************************************)
(* What the driver and the chip promise each other: each socket has a      *)
(* stream of bytes of bounded length.  What is put in comes out once and   *)
(* in order, and no socket meets the bytes of another.  The bytes put into *)
(* a stream carry the numbers 0, 1, 2, ... modulo Modulus.                 *)
(***************************************************************************)
EXTENDS Integers, Sequences

CONSTANTS
  Sock,      \* sockets
  SockSize,  \* the length to which the stream of a socket may grow
  Modulus

VARIABLES
  stream,  \* for each socket the bytes put in and not yet taken out: socket and number
  next,    \* for each socket the number of the byte that is put in next
  out      \* the bytes taken out last

vars == <<stream, next, out>>

Init ==
  /\ stream = [s \in Sock |-> <<>>]
  /\ next = [s \in Sock |-> 0]
  /\ out = <<>>

Put(s, n) ==
  /\ Len(stream[s]) + n <= SockSize[s]
  /\ stream' = [stream EXCEPT ![s] = @ \o [i \in 1 .. n |-> <<s, (next[s] + i - 1) % Modulus>>]]
  /\ next' = [next EXCEPT ![s] = (@ + n) % Modulus]
  /\ UNCHANGED out

Discard(s, n) ==
  /\ n <= Len(stream[s])
  /\ stream' = [stream EXCEPT ![s] = SubSeq(@, n + 1, Len(@))]
  /\ UNCHANGED next

Get(s, n) ==
  /\ Discard(s, n)
  /\ out' = SubSeq(stream[s], 1, n)

\* A new call: the caller has done with what the last one brought.
Forget == out' = <<>> /\ UNCHANGED <<stream, next>>

Next ==
  \/ Forget
  \/ \E s \in Sock : \E n \in 0 .. SockSize[s] :
       Put(s, n) \/ Get(s, n) \/ (Discard(s, n) /\ UNCHANGED out)

Spec == Init /\ [][Next]_vars
=============================================================================
