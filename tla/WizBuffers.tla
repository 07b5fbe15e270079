------------------------------ MODULE WizBuffers ------------------------------
(***************************************************************************)
(* The ring buffers of the sockets (w5100.c:228-384) and recvfrom() on top *)
(* of them (socket.c:594-773).  One buffer memory holds the rings of all   *)
(* sockets one after the other.  A pointer register counts modulo Modulus  *)
(* (2^16) and is masked to the ring.  A size register has two bytes of     *)
(* Radix (256) values, read one at a time while the chip changes it.       *)
(***************************************************************************)
EXTENDS Integers, Sequences

CONSTANTS
  Socks,       \* number of sockets
  SockSize,    \* getSn_TxMAX or getSn_RxMAX of each socket
  Modulus,     \* a multiple of every size
  Radix,
  MaxLength    \* bound: bytes in one datagram

Sock == 0 .. Socks - 1

ASSUME SocksAssumption == Socks \in Nat \ {0}
ASSUME SizeAssumption ==
  /\ SockSize \in [Sock -> Nat \ {0}]
  /\ Modulus \in Nat
  /\ \A s \in Sock : SockSize[s] < Modulus /\ Modulus % SockSize[s] = 0
ASSUME RadixAssumption == Radix \in Nat \ {0} /\ \A s \in Sock : SockSize[s] < Radix * Radix
ASSUME MaxLengthAssumption == MaxLength \in Nat

\* A byte is known by its socket and by its number in what that socket sends or
\* receives.  "length" is the length of the datagram if the byte stands for a
\* datagram's header, and NoHeader if it does not.
NoHeader == -1
Byte == [sock : Sock, number : 0 .. Modulus - 1, length : NoHeader .. MaxLength]

\* getSn_TxBASE and getSn_RxBASE, from the start of the buffer memory.
Base[s \in 0 .. Socks] == IF s = 0 THEN 0 ELSE Base[s - 1] + SockSize[s - 1]

Cell == 0 .. Base[Socks] - 1

VARIABLES
  use,     \* the program sends, receives, or receives datagrams
  memory,  \* the buffer memory
  rd, wr,  \* Sn_TX_RD and Sn_TX_WR, or Sn_RX_RD and Sn_RX_WR
  out,     \* the bytes read last, by the application or by the chip
  pc, sn,  \* the call in progress
  val, val1,
  low,     \* history: the size when the call began
  sock_remained_size,
  sock_pack_info

chipVars == <<memory, rd, wr>>
packVars == <<sock_remained_size, sock_pack_info>>
callVars == <<pc, sn, val, val1, low>>
vars == <<use, chipVars, out, callVars, packVars>>

\* What the program does with its sockets; for datagrams, the first one is open.
Use == {"send", "recv", "recvfrom", "pppoe"}

Place == {"idle", "hi1", "lo1", "hi2", "lo2", "ready", "body"}

TypeOK ==
  /\ use \in Use
  /\ memory \in [Cell -> Byte]
  /\ rd \in [Sock -> 0 .. Modulus - 1] /\ wr \in [Sock -> 0 .. Modulus - 1]
  /\ out \in Seq(Byte)
  /\ pc \in Place /\ sn \in Sock
  /\ val \in 0 .. Radix * Radix - 1 /\ val1 \in 0 .. Radix * Radix - 1
  /\ low \in Nat
  /\ sock_remained_size \in NoHeader .. MaxLength
  /\ sock_pack_info \subseteq {"FIRST", "REMAINED"}

\* OPEN has cleared the pointers.
Init ==
  /\ use \in Use
  /\ memory = [c \in Cell |-> [sock |-> 0, number |-> 0, length |-> NoHeader]]
  /\ rd = [s \in Sock |-> 0] /\ wr = rd
  /\ out = <<>>
  /\ pc = "idle" /\ sn = 0 /\ val = 0 /\ val1 = 0 /\ low = 0
  /\ sock_remained_size = 0 /\ sock_pack_info = {}

-----------------------------------------------------------------------------
(* The rings.                                                              *)

Used(s) == (wr[s] - rd[s]) % Modulus

Free(s) == SockSize[s] - Used(s)

Advance(ptr, len) == (ptr + len) % Modulus

\* The next len bytes of socket s.
Fresh(s, len) ==
  [i \in 1 .. len |-> [sock |-> s, number |-> Advance(wr[s], i - 1), length |-> NoHeader]]

\* Mutant: no look at the end of the ring.
FirstPartWhole(s, ptr, len) == len

\* The bytes up to the end of the ring, when len bytes start at ptr.
FirstPart(s, ptr, len) ==
  IF (ptr % SockSize[s]) + len > SockSize[s] THEN SockSize[s] - (ptr % SockSize[s]) ELSE len

\* wiz_send_data: up to the end of the ring, the rest from its start.
Written(s, ptr, data) ==
  LET start == Base[s] + (ptr % SockSize[s])
      first == FirstPart(s, ptr, Len(data))
  IN  [c \in Cell |->
         IF c \in start .. start + first - 1 THEN data[c - start + 1]
         ELSE IF c \in Base[s] .. Base[s] + Len(data) - first - 1
              THEN data[first + c - Base[s] + 1]
              ELSE memory[c]]

\* wiz_recv_data
ReadOut(s, ptr, len) ==
  LET start == Base[s] + (ptr % SockSize[s])
      first == FirstPart(s, ptr, len)
  IN  [i \in 1 .. len |->
         IF i <= first THEN memory[start + i - 1] ELSE memory[Base[s] + i - first - 1]]

-----------------------------------------------------------------------------
(* getSn_TX_FSR and getSn_RX_RSR: two readings that must agree, the upper  *)
(* byte first.                                                             *)

\* Sn_TX_FSR or Sn_RX_RSR of the socket.
Size == IF use = "send" THEN Free(sn) ELSE Used(sn)

Reads(here, there) ==
  /\ pc = here /\ pc' = there
  /\ UNCHANGED <<use, chipVars, out, sn, low, packVars>>

\* send(), recv() or recvfrom() asks for the size, unless a part of a datagram
\* is left.
AskSize(s) ==
  /\ pc = "idle" /\ pc' = "hi1"
  /\ use \in {"recvfrom", "pppoe"} => s = 0 /\ sock_remained_size = 0
  /\ sn' = s /\ val' = 0 /\ val1' = 0
  /\ low' = IF use = "send" THEN Free(s) ELSE Used(s)
  /\ out' = <<>>
  /\ UNCHANGED <<use, chipVars, packVars>>

ReadUpper1 ==
  /\ Reads("hi1", "lo1")
  /\ val1' = Size \div Radix
  /\ UNCHANGED val

\* Mutant: one reading is enough.
ReadLower1Once ==
  /\ val1' = val1 * Radix + (Size % Radix)
  /\ val' = val1'
  /\ Reads("lo1", "ready")

ReadLower1 ==
  /\ val1' = val1 * Radix + (Size % Radix)
  /\ Reads("lo1", IF val1' # 0 THEN "hi2" ELSE IF val = 0 THEN "ready" ELSE "hi1")
  /\ UNCHANGED val

ReadUpper2 ==
  /\ Reads("hi2", "lo2")
  /\ val' = Size \div Radix
  /\ UNCHANGED val1

ReadLower2 ==
  /\ val' = val * Radix + (Size % Radix)
  /\ Reads("lo2", IF val' = val1 THEN "ready" ELSE "hi1")
  /\ UNCHANGED val1

\* Not enough: the call asks again, or returns busy, or an error for a socket that
\* was closed meanwhile.  None of them changes a ring or what recvfrom() keeps.
NotYet ==
  /\ pc = "ready" /\ pc' = "idle"
  /\ UNCHANGED <<use, chipVars, out, sn, val, val1, low, packVars>>

-----------------------------------------------------------------------------
(* send(), recv(), and recvfrom().                                         *)

\* The call is over; its variables are as good as gone.
Done == pc' = "idle" /\ val' = 0 /\ val1' = 0 /\ low' = 0 /\ UNCHANGED <<use, sn>>

\* wiz_send_data and the SEND command, once the message fits.
SendData(len) ==
  /\ use = "send" /\ pc = "ready" /\ len <= val
  /\ memory' = Written(sn, wr[sn], Fresh(sn, len))
  /\ wr' = [wr EXCEPT ![sn] = Advance(@, len)]
  /\ Done
  /\ UNCHANGED <<rd, out, packVars>>

\* wiz_recv_data of n bytes and the RECV command.
Receives(n) ==
  /\ out' = ReadOut(sn, rd[sn], n)
  /\ rd' = [rd EXCEPT ![sn] = Advance(@, n)]
  /\ UNCHANGED <<memory, wr>>

\* recv() with room for len bytes.
RecvData(len) ==
  /\ use = "recv" /\ pc = "ready" /\ val # 0
  /\ Receives(IF val < len THEN val ELSE len)
  /\ Done
  /\ UNCHANGED packVars

\* recvfrom() finds something and takes it for the header of a datagram.
RecvHead ==
  /\ use = "recvfrom" /\ pc = "ready" /\ val # 0
  /\ Receives(1)
  /\ sock_remained_size' = out'[1].length
  /\ sock_pack_info' = {"FIRST"}
  /\ pc' = "body" /\ UNCHANGED <<use, sn, val, val1, low>>

\* Mutant: a part that the caller has no room for is forgotten, not kept.
RecvBodyForgets(len) ==
  LET n == IF len < sock_remained_size THEN len ELSE sock_remained_size
  IN  /\ use = "recvfrom"
      /\ pc = "body" \/ (pc = "idle" /\ sock_remained_size # 0)
      /\ Receives(n)
      /\ sock_remained_size' = 0
      /\ sock_pack_info' = {}
      /\ Done

\* The contents, or as much of them as the caller has room for.
RecvBody(len) ==
  LET n == IF len < sock_remained_size THEN len ELSE sock_remained_size
  IN  /\ use = "recvfrom"
      /\ pc = "body" \/ (pc = "idle" /\ sock_remained_size # 0)
      /\ Receives(n)
      /\ sock_remained_size' = sock_remained_size - n
      /\ sock_pack_info' = IF n < sock_remained_size THEN sock_pack_info \cup {"REMAINED"} ELSE {}
      /\ Done

\* wiz_recv_ignore, for a PPPoE socket: what has been received is dropped.
RecvIgnore ==
  /\ use = "pppoe" /\ pc = "ready" /\ val # 0
  /\ rd' = [rd EXCEPT ![sn] = Advance(@, val)]
  /\ Done
  /\ UNCHANGED <<memory, wr, out, packVars>>

-----------------------------------------------------------------------------
(* The chip.                                                               *)

\* A byte was transmitted and acknowledged.
Transmit(s) ==
  /\ use = "send" /\ Used(s) > 0
  /\ out' = <<memory[Base[s] + (rd[s] % SockSize[s])]>>
  /\ rd' = [rd EXCEPT ![s] = Advance(@, 1)]
  /\ UNCHANGED <<use, memory, wr, callVars, packVars>>

\* Bytes have arrived, one by one or as a datagram with its header.
Arrive(s, data) ==
  /\ Len(data) <= Free(s)
  /\ memory' =
       [c \in Cell |->
          IF \E i \in 1 .. Len(data) : c = Base[s] + ((wr[s] + i - 1) % SockSize[s])
          THEN data[CHOOSE i \in 1 .. Len(data) : c = Base[s] + ((wr[s] + i - 1) % SockSize[s])]
          ELSE memory[c]]
  /\ wr' = [wr EXCEPT ![s] = Advance(@, Len(data))]
  /\ UNCHANGED <<use, rd, out, callVars, packVars>>

ArriveByte(s) == use \in {"recv", "pppoe"} /\ Arrive(s, Fresh(s, 1))

ArriveDatagram ==
  /\ use = "recvfrom"
  /\ \E n \in 0 .. MaxLength : Arrive(0, [Fresh(0, n + 1) EXCEPT ![1].length = n])

-----------------------------------------------------------------------------

Next ==
  \/ \E s \in Sock : AskSize(s) \/ Transmit(s) \/ ArriveByte(s)
  \/ ReadUpper1 \/ ReadLower1 \/ ReadUpper2 \/ ReadLower2 \/ NotYet
  \/ \E len \in 1 .. SockSize[sn] : SendData(len) \/ RecvData(len) \/ RecvBody(len)
  \/ RecvHead \/ RecvIgnore \/ ArriveDatagram

Spec == Init /\ [][Next]_vars

-----------------------------------------------------------------------------
(* Properties.                                                             *)

\* The rings implement the streams of ByteStreams: every byte arrives once, in
\* order, across the end of the ring and the wrap of the pointer, and no
\* socket overwrites or reads the bytes of its neighbour.
Known(byte) == <<byte.sock, byte.number>>

Streams ==
  INSTANCE ByteStreams
  WITH stream <- [s \in Sock |->
                    [i \in 1 .. Used(s) |->
                       Known(memory[Base[s] + ((rd[s] + i - 1) % SockSize[s])])]],
       next <- wr,
       out <- [i \in 1 .. Len(out) |-> Known(out[i])]

StreamsSpec == Streams!Spec

\* w5100.c:228-259: although the chip changes the register between the four
\* readings, the size that comes out was there, or is zero.
SizeWasThere == pc = "ready" => val = 0 \/ val \in low .. Size

\* recvfrom() takes headers for headers and contents for contents, so what one
\* call returns is from one datagram, in parts of any length (socket.c:628-765).
NeverMixes ==
  use = "recvfrom" =>
    /\ sock_remained_size # NoHeader
    /\ pc # "body" => \A i \in 1 .. Len(out) : out[i].length = NoHeader

=============================================================================
