---------------------------- MODULE WizChipProofs ----------------------------
(***************************************************************************)
(* The chip below socket.c.  First WizSocket: BusyIsReal for every size of *)
(* the transmit buffer and any number of other tasks with stale copies of  *)
(* the shared words.  Then WizRegisters: the settings, the flags and the   *)
(* ring sizes for any number of sockets, memory and patterns.              *)
(***************************************************************************)
EXTENDS WizSocket, WizRegisters, FiniteSetTheorems, SequenceTheorems,
        WellFoundedInduction, TLAPS


Closing == {"close_ir", "close_mode", "close_sending", "close_sr"}

Opening == {"open", "open_mode", "open_sending", "open_sr"}

Sending == {"send_ir", "send_room", "send_set"}

\* A command waits in the register only while its call waits for the chip.
CommandInv ==
  /\ cr = "OPEN" => pc = "open_mode"
  /\ cr = "CLOSE" => pc = "close_ir"
  /\ cr = "LISTEN" => pc = "listen_sr"
  /\ cr = "CONNECT" => pc = "connect_mode"
  /\ cr = "DISCON" => pc = "disc_bit"
  /\ cr = "SEND" => pc = "send_set" /\ unacked < Room
  /\ cr = "RECV" => pc = "recv_done"

\* socket() opens a closed socket, and waits until the chip has opened it.
OpenInv ==
  /\ pc = "open" \/ cr = "OPEN" => sr = "CLOSED" /\ doing # "OPEN"
  /\ doing = "OPEN" => sr = "CLOSED" /\ pc \in {"open_mode", "open_sending", "open_sr"}

\* Before a connection is established nothing was sent on it.
FreshInv ==
  /\ sr \in {"INIT", "LISTEN", "SYN"} => ~greeted /\ pc \notin Sending
  /\ pc \in Closing \cup Opening \cup {"connect_mode", "connect_sr"} => ~greeted

\* After the first message the chip has one to acknowledge, or has flagged
\* the end of the last one, unless send() is just about to hand over the next.
AnsweredInv ==
  /\ Connected
  /\ (greeted /\ pc \notin {"send_room", "send_set"}) \/ (pc = "send_set" /\ cr = "none")
  => unacked > 0 \/ ir # {}

\* The interrupts are off in send() after the greeting, or while it closes.
MaskedInv == masked => pc \in Closing \/ greeted

IInv == TypeOK /\ CommandInv /\ OpenInv /\ FreshInv /\ AnsweredInv /\ MaskedInv

-----------------------------------------------------------------------------
(* Every step preserves IInv.                                              *)

LEMMA CallSteps ==
  ASSUME IInv, NEW b \in BOOLEAN,
         \/ Close \/ Listen \/ Connect \/ Disconnect \/ Receive
         \/ Socket(b) \/ SetIoMode(b) \/ Send(b)
  PROVE  IInv'
<1> USE RoomAssumption
<1> USE DEF IInv, TypeOK, CommandInv, OpenInv, FreshInv, AnsweredInv, MaskedInv
<1> USE DEF Closing, Opening, Sending, Status, Command, Place, ServerCall, Connected
<1> USE DEF Go, GoClose, SendReturns, chipVars, wordVars, callVars
<1>1. CASE Close
  BY <1>1 DEF Close
<1>2. CASE Listen
  BY <1>2 DEF Listen
<1>3. CASE Connect
  BY <1>3 DEF Connect
<1>4. CASE Disconnect
  BY <1>4 DEF Disconnect
<1>5. CASE Receive
  BY <1>5 DEF Receive
<1>6. CASE Socket(b)
  BY <1>6 DEF Socket
<1>7. CASE SetIoMode(b)
  BY <1>7 DEF SetIoMode
<1>8. CASE Send(b)
  BY <1>8 DEF Send
<1>9. QED
  BY <1>1, <1>2, <1>3, <1>4, <1>5, <1>6, <1>7, <1>8

LEMMA OpenSteps ==
  ASSUME IInv,
         \/ CloseCommand \/ CloseFlags \/ CloseMode \/ CloseSending
         \/ CloseDone \/ OpenCommand \/ OpenMode \/ OpenSending
         \/ OpenDone
  PROVE  IInv'
<1> USE RoomAssumption
<1> USE DEF IInv, TypeOK, CommandInv, OpenInv, FreshInv, AnsweredInv, MaskedInv
<1> USE DEF Closing, Opening, Sending, Status, Command, Place, ServerCall, Connected
<1> USE DEF Go, GoClose, SendReturns, chipVars, wordVars, callVars
<1>1. CASE CloseCommand
  <2>1. TypeOK'
    BY <1>1, ZenonT(30) DEF CloseCommand
  <2>2. CommandInv' /\ OpenInv'
    BY <1>1 DEF CloseCommand
  <2>3. FreshInv'
    BY <1>1 DEF CloseCommand
  <2>4. AnsweredInv' /\ MaskedInv'
    BY <1>1 DEF CloseCommand
  <2>5. QED
    BY <2>1, <2>2, <2>3, <2>4
<1>2. CASE CloseFlags
  BY <1>2 DEF CloseFlags
<1>3. CASE CloseMode
  <2>1. TypeOK'
    BY <1>3, ZenonT(30) DEF CloseMode
  <2>2. CommandInv' /\ OpenInv'
    BY <1>3 DEF CloseMode
  <2>3. FreshInv'
    BY <1>3 DEF CloseMode
  <2>4. AnsweredInv' /\ MaskedInv'
    BY <1>3 DEF CloseMode
  <2>5. QED
    BY <2>1, <2>2, <2>3, <2>4
<1>4. CASE CloseSending
  <2>1. TypeOK'
    BY <1>4, ZenonT(30) DEF CloseSending
  <2>2. CommandInv' /\ OpenInv'
    BY <1>4 DEF CloseSending
  <2>3. FreshInv'
    BY <1>4 DEF CloseSending
  <2>4. AnsweredInv' /\ MaskedInv'
    BY <1>4 DEF CloseSending
  <2>5. QED
    BY <2>1, <2>2, <2>3, <2>4
<1>5. CASE CloseDone
  BY <1>5 DEF CloseDone
<1>6. CASE OpenCommand
  BY <1>6 DEF OpenCommand
<1>7. CASE OpenMode
  <2>1. TypeOK'
    BY <1>7, ZenonT(30) DEF OpenMode
  <2>2. CommandInv' /\ OpenInv'
    BY <1>7 DEF OpenMode
  <2>3. FreshInv'
    BY <1>7 DEF OpenMode
  <2>4. AnsweredInv' /\ MaskedInv'
    BY <1>7 DEF OpenMode
  <2>5. QED
    BY <2>1, <2>2, <2>3, <2>4
<1>8. CASE OpenSending
  <2>1. TypeOK'
    BY <1>8, ZenonT(30) DEF OpenSending
  <2>2. CommandInv' /\ OpenInv'
    BY <1>8 DEF OpenSending
  <2>3. FreshInv'
    BY <1>8 DEF OpenSending
  <2>4. AnsweredInv' /\ MaskedInv'
    BY <1>8 DEF OpenSending
  <2>5. QED
    BY <2>1, <2>2, <2>3, <2>4
<1>9. CASE OpenDone
  BY <1>9 DEF OpenDone
<1>10. QED
  BY <1>1, <1>2, <1>3, <1>4, <1>5, <1>6, <1>7, <1>8, <1>9

LEMMA LinkSteps ==
  ASSUME IInv,
         \/ ListenDone \/ ConnectMode \/ ConnectDone \/ DisconnectSending
         \/ DisconnectMode \/ DisconnectDone
  PROVE  IInv'
<1> USE RoomAssumption
<1> USE DEF IInv, TypeOK, CommandInv, OpenInv, FreshInv, AnsweredInv, MaskedInv
<1> USE DEF Closing, Opening, Sending, Status, Command, Place, ServerCall, Connected
<1> USE DEF Go, GoClose, SendReturns, chipVars, wordVars, callVars
<1>1. CASE ListenDone
  BY <1>1 DEF ListenDone
<1>2. CASE ConnectMode
  BY <1>2 DEF ConnectMode
<1>3. CASE ConnectDone
  BY <1>3 DEF ConnectDone
<1>4. CASE DisconnectSending
  <2>1. TypeOK'
    BY <1>4, ZenonT(30) DEF DisconnectSending
  <2>2. CommandInv' /\ OpenInv'
    BY <1>4 DEF DisconnectSending
  <2>3. FreshInv'
    BY <1>4 DEF DisconnectSending
  <2>4. AnsweredInv' /\ MaskedInv'
    BY <1>4 DEF DisconnectSending
  <2>5. QED
    BY <2>1, <2>2, <2>3, <2>4
<1>5. CASE DisconnectMode
  BY <1>5 DEF DisconnectMode
<1>6. CASE DisconnectDone
  BY <1>6 DEF DisconnectDone
<1>7. QED
  BY <1>1, <1>2, <1>3, <1>4, <1>5, <1>6

LEMMA DataSteps ==
  ASSUME IInv, NEW b \in BOOLEAN,
         \/ SendStatus \/ SendFlags \/ SendRoom \/ SendSet
         \/ ReceiveTurn(b) \/ ReceiveDone
  PROVE  IInv'
<1> USE RoomAssumption
<1> USE DEF IInv, TypeOK, CommandInv, OpenInv, FreshInv, AnsweredInv, MaskedInv
<1> USE DEF Closing, Opening, Sending, Status, Command, Place, ServerCall, Connected
<1> USE DEF Go, GoClose, SendReturns, chipVars, wordVars, callVars
<1>1. CASE SendStatus
  <2>1. UNCHANGED <<chipVars, wordVars, flag, greeted>> /\ pc = "send" /\ cr = "none"
    BY <1>1 DEF SendStatus
  <2>2. CASE ~Connected /\ pc' = "idle" /\ masked' = FALSE /\ after' = after
    <3>1. TypeOK'
      BY <2>1, <2>2, ZenonT(30)
    <3>2. CommandInv' /\ OpenInv'
      BY <2>1, <2>2
    <3>3. FreshInv'
      BY <2>1, <2>2
    <3>4. AnsweredInv' /\ MaskedInv'
      BY <2>1, <2>2
    <3>5. QED
      BY <3>1, <3>2, <3>3, <3>4
  <2>3. CASE pc' \in {"send_ir", "send_room"} /\ UNCHANGED <<after, masked>> /\ Connected
    BY <2>1, <2>3
  <2>4. QED
    BY <1>1, <2>2, <2>3 DEF SendStatus
<1>2. CASE SendFlags
  <2>1. /\ UNCHANGED <<sr, cr, doing, unacked, sock_io_mode, heldSending, heldMode, flag, greeted>>
        /\ pc = "send_ir" /\ cr = "none"
    BY <1>2 DEF SendFlags
  <2>2. CASE "SENDOK" \in ir
    <3>1. /\ pc' = "send_room" /\ ir' = ir \ {"SENDOK"} /\ sock_is_sending' = FALSE
          /\ UNCHANGED <<after, masked>>
      BY <1>2, <2>2 DEF SendFlags
    <3>2. QED
      <4>1. TypeOK'
        BY <2>1, <3>1, ZenonT(30)
      <4>2. CommandInv' /\ OpenInv'
        BY <2>1, <3>1
      <4>3. FreshInv'
        BY <2>1, <3>1
      <4>4. AnsweredInv' /\ MaskedInv'
        BY <2>1, <3>1
      <4>5. QED
        BY <4>1, <4>2, <4>3, <4>4
  <2>3. CASE "SENDOK" \notin ir /\ "TIMEOUT" \in ir
    <3>1. pc' = "close" /\ after' = "idle" /\ UNCHANGED <<ir, sock_is_sending, masked>>
      BY <1>2, <2>3 DEF SendFlags
    <3>2. QED
      BY <2>1, <2>3, <3>1
  <2>4. CASE ir = {}
    <3>1. SendReturns("send_ir", TRUE) /\ UNCHANGED <<ir, sock_is_sending>>
      BY <1>2, <2>4 DEF SendFlags
    <3>2. /\ pc' \in {"send", "idle"} /\ masked' \in BOOLEAN /\ (masked' => masked)
          /\ after' = after
      BY <3>1
    <3>3. QED
      BY <2>1, <3>1, <3>2
  <2>5. QED
    BY <2>2, <2>3, <2>4
<1>3. CASE SendRoom
  BY <1>3 DEF SendRoom
<1>4. CASE SendSet
  BY <1>4 DEF SendSet
<1>5. CASE ReceiveTurn(b)
  BY <1>5 DEF ReceiveTurn
<1>6. CASE ReceiveDone
  BY <1>6 DEF ReceiveDone
<1>7. QED
  BY <1>1, <1>2, <1>3, <1>4, <1>5, <1>6

LEMMA OtherSteps ==
  ASSUME IInv, NEW b \in BOOLEAN,
         \/ OtherLoads \/ OtherStoresSending(b) \/ OtherStoresMode(b)
  PROVE  IInv'
<1> USE RoomAssumption
<1> USE DEF IInv, TypeOK, CommandInv, OpenInv, FreshInv, AnsweredInv, MaskedInv
<1> USE DEF Closing, Opening, Sending, Status, Command, Place, ServerCall, Connected
<1> USE DEF Go, GoClose, SendReturns, chipVars, wordVars, callVars
<1>1. CASE OtherLoads
  BY <1>1 DEF OtherLoads
<1>2. CASE OtherStoresSending(b)
  BY <1>2 DEF OtherStoresSending
<1>3. CASE OtherStoresMode(b)
  BY <1>3 DEF OtherStoresMode
<1>4. QED
  BY <1>1, <1>2, <1>3

LEMMA ChipSteps ==
  ASSUME IInv,
         \/ Take \/ Perform \/ Peer \/ Acknowledged \/ GivesUp \/ Closes
  PROVE  IInv'
<1> USE RoomAssumption
<1> USE DEF IInv, TypeOK, CommandInv, OpenInv, FreshInv, AnsweredInv, MaskedInv
<1> USE DEF Closing, Opening, Sending, Status, Command, Place, ServerCall, Connected
<1> USE DEF Go, GoClose, SendReturns, chipVars, wordVars, callVars
<1>1. CASE Take
  <2>1. /\ cr' = "none" /\ cr # "none" /\ doing = "none"
        /\ UNCHANGED <<sr, ir, wordVars, pc, callVars>>
    BY <1>1 DEF Take
  <2>2. CASE cr = "SEND"
    <3>1. doing' = "none" /\ unacked' = IF Connected THEN unacked + 1 ELSE unacked
      BY <1>1, <2>2 DEF Take
    <3>2. QED
      BY <2>1, <2>2, <3>1
  <2>3. CASE cr # "SEND"
    <3>1. doing' \in {cr, "none"} /\ unacked' = unacked
      BY <1>1, <2>3 DEF Take
    <3>2. QED
      BY <2>1, <2>3, <3>1
  <2>4. QED
    BY <2>2, <2>3
<1>6. CASE Perform
  <2>1. /\ doing' = "none" /\ doing # "none" /\ sr' = Obeyed(doing, sr)
        /\ unacked' = IF doing = "OPEN" THEN 0 ELSE unacked
        /\ UNCHANGED <<cr, ir, wordVars, pc, callVars>>
    BY <1>6 DEF Perform
  <2>2. CASE doing = "OPEN"
    <3>1. sr' = "INIT" /\ unacked' = 0
      BY <2>1, <2>2 DEF Obeyed
    <3>2. QED
      <4>1. TypeOK'
        BY <2>1, <2>2, <3>1
      <4>2. CommandInv' /\ OpenInv'
        BY <2>1, <2>2, <3>1
      <4>3. FreshInv'
        BY <2>1, <2>2, <3>1
      <4>4. AnsweredInv' /\ MaskedInv'
        BY <2>1, <2>2, <3>1
      <4>5. QED
        BY <4>1, <4>2, <4>3, <4>4
  <2>3. CASE doing # "OPEN"
    <3>1. unacked' = unacked
      BY <2>1, <2>3
    <3>2. /\ doing = "CLOSE" => sr' = "CLOSED"
          /\ doing = "LISTEN" => sr' = IF sr = "INIT" THEN "LISTEN" ELSE sr
      BY <2>1 DEF Obeyed
    <3>3. /\ doing = "CONNECT" => sr' = IF sr = "INIT" THEN "SYN" ELSE sr
          /\ doing = "DISCON" => sr' = IF Connected THEN "CLOSING" ELSE sr
          /\ doing \in {"SEND", "RECV"} => sr' = sr
      BY <2>1 DEF Obeyed
    <3>4. QED
      BY <2>1, <2>3, <3>1, <3>2, <3>3
  <2>4. QED
    BY <2>2, <2>3
<1>2. CASE Peer
  BY <1>2 DEF Peer
<1>3. CASE Acknowledged
  BY <1>3 DEF Acknowledged
<1>4. CASE GivesUp
  BY <1>4 DEF GivesUp
<1>5. CASE Closes
  BY <1>5 DEF Closes
<1>7. QED
  BY <1>1, <1>2, <1>3, <1>4, <1>5, <1>6

LEMMA InvInit == Init => IInv
<1> SUFFICES ASSUME Init PROVE IInv
  OBVIOUS
<1>1. unacked \in 0 .. Room
  BY RoomAssumption DEF Init
<1>2. TypeOK
  BY <1>1 DEF Init, TypeOK, Status, Command, Place, ServerCall
<1>3. CommandInv /\ OpenInv /\ MaskedInv
  BY DEF Init, CommandInv, OpenInv, MaskedInv
<1>4. FreshInv /\ AnsweredInv
  BY DEF Init, FreshInv, AnsweredInv, Connected, Closing, Opening, Sending
<1>5. QED
  BY <1>2, <1>3, <1>4 DEF IInv

LEMMA InvNext == IInv /\ [Next]_vars => IInv'
<1> SUFFICES ASSUME IInv, [Next]_vars PROVE IInv'
  OBVIOUS
<1>1. CASE Calls
  BY <1>1, CallSteps DEF Calls
<1>2. CASE Continues
  BY <1>2, OpenSteps, LinkSteps, DataSteps DEF Continues
<1>3. CASE Others
  BY <1>3, OtherSteps DEF Others
<1>4. CASE Chip
  BY <1>4, ChipSteps DEF Chip
<1>5. CASE UNCHANGED vars
  BY <1>5 DEF vars, chipVars, wordVars, callVars, IInv, TypeOK, CommandInv, OpenInv,
              FreshInv, AnsweredInv, MaskedInv, Connected
<1>6. QED
  BY <1>1, <1>2, <1>3, <1>4, <1>5 DEF Next

LEMMA InvAlways == Spec => []IInv
BY InvInit, InvNext, PTL DEF Spec

-----------------------------------------------------------------------------
(* The theorems.                                                           *)

\* Registers, words, copies and places keep their types; the transmit buffer
\* never holds more messages than fit (send() and its loop on Sn_TX_FSR).
THEOREM SocketTypeCorrect == Spec => []TypeOK
<1>1. IInv => TypeOK
  BY DEF IInv
<1>2. QED
  BY <1>1, InvAlways, PTL

\* A busy bit that send() finds with the interrupts off is no stale copy of
\* another task: the chip owes an acknowledgement or has flagged the outcome.
THEOREM MaskedBusyIsReal == Spec => []BusyIsReal
<1>1. IInv => BusyIsReal
  BY DEF IInv, AnsweredInv, MaskedInv, BusyIsReal, Closing
<1>2. QED
  BY <1>1, InvAlways, PTL

-----------------------------------------------------------------------------
(* WizRegisters: the registers do not overlap.                             *)

\* The register that an address belongs to: of the chip, or of the socket at offset o.
ChipRegister(a) ==
  CASE a \in Cells(MR) -> MR [] a \in Cells(GAR) -> GAR [] a \in Cells(SUBR) -> SUBR
    [] a \in Cells(SHAR) -> SHAR [] a \in Cells(SIPR) -> SIPR [] a \in Cells(IR) -> IR
    [] a \in Cells(IMR) -> IMR [] a \in Cells(RTR) -> RTR [] a \in Cells(RCR) -> RCR
    [] a \in Cells(RMSR) -> RMSR [] a \in Cells(TMSR) -> TMSR
    [] a \in Cells(PTIMER) -> PTIMER [] a \in Cells(PMAGIC) -> PMAGIC

SocketRegister(s, a) ==
  CASE a \in Cells(Sn_MR(s)) -> Sn_MR(s) [] a \in Cells(Sn_IR(s)) -> Sn_IR(s)
    [] a \in Cells(Sn_SR(s)) -> Sn_SR(s) [] a \in Cells(Sn_PORT(s)) -> Sn_PORT(s)
    [] a \in Cells(Sn_DHAR(s)) -> Sn_DHAR(s) [] a \in Cells(Sn_DIPR(s)) -> Sn_DIPR(s)
    [] a \in Cells(Sn_DPORT(s)) -> Sn_DPORT(s) [] a \in Cells(Sn_MSSR(s)) -> Sn_MSSR(s)
    [] a \in Cells(Sn_TOS(s)) -> Sn_TOS(s) [] a \in Cells(Sn_TTL(s)) -> Sn_TTL(s)
    [] a \in Cells(Sn_TX_WR(s)) -> Sn_TX_WR(s) [] a \in Cells(Sn_RX_RD(s)) -> Sn_RX_RD(s)

OfChip == {MR, GAR, SUBR, SHAR, SIPR, IR, IMR, RTR, RCR, RMSR, TMSR, PTIMER, PMAGIC}

OfSocket(s) ==
  {Sn_MR(s), Sn_IR(s), Sn_SR(s), Sn_PORT(s), Sn_DHAR(s), Sn_DIPR(s), Sn_DPORT(s), Sn_MSSR(s),
   Sn_TOS(s), Sn_TTL(s), Sn_TX_WR(s), Sn_RX_RD(s)}

BlockOf(a) == (a - \h400) \div \h100

LEMMA SocketsAreNumbers == Socks \in Nat /\ 0 < Socks /\ 0 \in Sock /\ Sock \subseteq Nat
BY SocksAssumption DEF Sock

LEMMA RegisterIs == Register = OfChip \cup UNION {OfSocket(s) : s \in Sock}
BY DEF Register, Setting, Common, Options, OtherSettings, OfChip, OfSocket

LEMMA ChipCells ==
  ASSUME NEW r \in OfChip, NEW a \in Cells(r)
  PROVE  r = ChipRegister(a) /\ a \in 0 .. \h29
BY DEF OfChip, Cells, ChipRegister, At, MR, GAR, SUBR, SHAR, SIPR, IR, IMR, RTR, RCR, RMSR, TMSR, PTIMER, PMAGIC

LEMMA SocketCells ==
  ASSUME NEW s \in Nat, NEW r \in OfSocket(s), NEW a \in Cells(r)
  PROVE  r = SocketRegister(s, a) /\ a \in Nat /\ a >= \h400 /\ BlockOf(a) = s
<1> DEFINE b == WIZCHIP_SREG_BLOCK(s)
<1>1. b \in Nat /\ b = \h400 + \h100 * s
  BY DEF WIZCHIP_SREG_BLOCK
<1>2. r = SocketRegister(s, a) /\ a \in b .. b + \h29
  <2> HIDE DEF b
  <2> QED
    BY <1>1 DEF b, OfSocket, Cells, SocketRegister, At, Sn_MR, Sn_IR, Sn_SR, Sn_PORT, Sn_DHAR, Sn_DIPR,
                Sn_DPORT, Sn_MSSR, Sn_TOS, Sn_TTL, Sn_TX_WR, Sn_RX_RD
<1> QED
  BY <1>1, <1>2 DEF BlockOf

\* No two registers have an address in common.
LEMMA RegistersApart ==
  ASSUME NEW r \in Register, NEW q \in Register, NEW a, a \in Cells(r), a \in Cells(q)
  PROVE  r = q
<1>1. CASE r \in OfChip /\ q \in OfChip
  BY <1>1, ChipCells
<1>2. ASSUME NEW s \in Sock, r \in OfSocket(s), q \in OfChip PROVE FALSE
  BY <1>2, ChipCells, SocketCells, SocketsAreNumbers
<1>3. ASSUME NEW s \in Sock, q \in OfSocket(s), r \in OfChip PROVE FALSE
  BY <1>3, ChipCells, SocketCells, SocketsAreNumbers
<1>4. ASSUME NEW s \in Sock, NEW t \in Sock, r \in OfSocket(s), q \in OfSocket(t) PROVE r = q
  <2>1. r = SocketRegister(s, a) /\ BlockOf(a) = s
    BY <1>4, SocketCells, SocketsAreNumbers
  <2>2. q = SocketRegister(t, a) /\ BlockOf(a) = t
    BY <1>4, SocketCells, SocketsAreNumbers
  <2> QED
    BY <2>1, <2>2
<1> QED
  BY <1>1, <1>2, <1>3, <1>4, RegisterIs

\* An address is a number, and a register at least one byte wide.
LEMMA Widths ==
  ASSUME NEW r \in Register
  PROVE  /\ r.address \in Nat /\ r.width \in 1 .. 6
         /\ r.address \in Cells(r)
         /\ r = At(r.address, r.width)
         /\ Cells(r) \subseteq Address
         /\ \A i \in 1 .. r.width : r.address + i - 1 \in Cells(r)
<1>1. r.address \in Nat /\ r.width \in 1 .. 6 /\ r = At(r.address, r.width)
  <2>1. CASE r \in OfChip
    BY <2>1 DEF OfChip, At, MR, GAR, SUBR, SHAR, SIPR, IR, IMR, RTR, RCR, RMSR, TMSR, PTIMER, PMAGIC
  <2>2. ASSUME NEW s \in Sock, r \in OfSocket(s) PROVE r.address \in Nat /\ r.width \in 1 .. 6 /\ r = At(r.address, r.width)
    <3>1. WIZCHIP_SREG_BLOCK(s) \in Nat
      BY SocketsAreNumbers DEF WIZCHIP_SREG_BLOCK
    <3> QED
      BY <2>2, <3>1 DEF OfSocket, At, Sn_MR, Sn_IR, Sn_SR, Sn_PORT, Sn_DHAR, Sn_DIPR,
                Sn_DPORT, Sn_MSSR, Sn_TOS, Sn_TTL, Sn_TX_WR, Sn_RX_RD
  <2> QED
    BY <2>1, <2>2, RegisterIs
<1>2. Cells(r) \subseteq Address
  BY DEF Address
<1> QED
  BY <1>1, <1>2 DEF Cells

\* What the memory m holds in the register r.
In(m, r) == [i \in 1 .. r.width |-> m[r.address + i - 1]]

Memory == [Address -> Byte]

Bytes(r) == [1 .. r.width -> Byte]

LEMMA Reading ==
  ASSUME NEW m \in Memory, NEW r \in Register
  PROVE  In(m, r) \in Bytes(r) /\ m[r.address] \in Byte /\ In(m, r)[1] = m[r.address]
<1>1. \A i \in 1 .. r.width : r.address + i - 1 \in Address
  BY Widths
<1> QED
  BY <1>1, Widths DEF Memory, In, Bytes

\* A register that is written holds what was written, and every other one what it held.
LEMMA Writing ==
  ASSUME NEW m \in Memory, NEW r \in Register, NEW bytes \in Bytes(r)
  PROVE  /\ Put(m, r, bytes) \in Memory
         /\ In(Put(m, r, bytes), r) = bytes
         /\ \A q \in Register \ {r} : In(Put(m, r, bytes), q) = In(m, q) /\ Put(m, r, bytes)[q.address] = m[q.address]
         /\ Put(m, r, bytes)[r.address] = bytes[1]
<1> DEFINE p == Put(m, r, bytes)
<1>1. \A a \in Address : p[a] = IF a \in Cells(r) THEN bytes[a - r.address + 1] ELSE m[a]
  BY Widths DEF Put, Memory
<1>2. \A a \in Cells(r) : a - r.address + 1 \in 1 .. r.width
  BY Widths DEF Cells
<1>3. p \in Memory
  <2>1. DOMAIN p = Address /\ p = [a \in Address |-> p[a]]
    BY Widths DEF Put, Memory
  <2>2. \A a \in Address : p[a] \in Byte
    BY <1>1, <1>2 DEF Memory, Bytes
  <2> QED
    BY <2>1, <2>2 DEF Memory
<1>4. In(p, r) = bytes /\ p[r.address] = bytes[1]
  <2>1. \A i \in 1 .. r.width : p[r.address + i - 1] = bytes[i]
    BY <1>1, Widths
  <2> HIDE DEF p
  <2> QED
    BY <2>1, Widths DEF In, Bytes
<1>5. ASSUME NEW q \in Register \ {r} PROVE In(p, q) = In(m, q) /\ p[q.address] = m[q.address]
  <2>1. \A i \in 1 .. q.width : q.address + i - 1 \in Address /\ q.address + i - 1 \notin Cells(r)
    BY Widths, RegistersApart
  <2>2. \A i \in 1 .. q.width : p[q.address + i - 1] = m[q.address + i - 1]
    BY <1>1, <2>1
  <2>3. q.address \in Address /\ q.address \notin Cells(r)
    BY Widths, RegistersApart
  <2> QED
    BY <2>2, <2>3, <1>1 DEF In
<1> QED
  BY <1>3, <1>4, <1>5

LEMMA BitsAreBytes == \A n : Bits(n) \in Byte
BY DEF Bits, Byte

\* Each register is one of the set, and those of different names differ.
LEMMA ResetValues == \A r \in Register : ResetValue(r) \in Bytes(r)
<1> TAKE r \in Register
<1>1. r.width \in 1 .. 6
  BY Widths
<1>2. RTR.width = 2 /\ RCR.width = 1 /\ RMSR.width = 1 /\ TMSR.width = 1
  BY DEF RTR, RCR, RMSR, TMSR, At
<1>3. Zero(r) \in Bytes(r)
  BY <1>1 DEF Zero, Bytes, Byte
<1>4. \A n, k : <<Bits(n), Bits(k)>> \in [1 .. 2 -> Byte] /\ <<Bits(n)>> \in [1 .. 1 -> Byte]
  BY BitsAreBytes
<1> QED
  BY <1>2, <1>3, <1>4, ZenonT(30) DEF ResetValue, Bytes

\* After a reset every register holds its reset value.
LEMMA AfterReset ==
  /\ ResetMemory \in Memory
  /\ \A r \in Register : In(ResetMemory, r) = ResetValue(r) /\ ResetMemory[r.address] = ResetValue(r)[1]
<1>1. ASSUME NEW r \in Register, NEW a \in Cells(r)
      PROVE  ResetMemory[a] = ResetValue(r)[a - r.address + 1]
  <2>1. a \in Address
    BY DEF Address
  <2>2. (CHOOSE q \in Register : a \in Cells(q)) = r
    BY RegistersApart
  <2> QED
    BY <2>1, <2>2 DEF ResetMemory
<1>2. ASSUME NEW r \in Register PROVE \A a \in Cells(r) : ResetMemory[a] \in Byte
  <2>1. \A a \in Cells(r) : a - r.address + 1 \in 1 .. r.width
    BY Widths DEF Cells
  <2> QED
    BY <1>1, <2>1, ResetValues DEF Bytes
<1>3. ResetMemory \in Memory
  BY <1>2 DEF ResetMemory, Memory, Address
<1>4. ASSUME NEW r \in Register PROVE In(ResetMemory, r) = ResetValue(r) /\ ResetMemory[r.address] = ResetValue(r)[1]
  <2>1. \A i \in 1 .. r.width : ResetMemory[r.address + i - 1] = ResetValue(r)[i]
    BY <1>1, Widths
  <2> QED
    BY <2>1, ResetValues, Widths DEF In, Bytes
<1> QED
  BY <1>3, <1>4

-----------------------------------------------------------------------------
(* Which register is which.                                                *)

Addresses4 == {SHAR, GAR, SUBR, SIPR}

SingleBytes == {MR, IMR, RMSR, TMSR}

Plain == Addresses4 \cup SingleBytes \cup {IR}

OfStatus(s) == {Sn_MR(s), Sn_IR(s), Sn_SR(s)}

LEMMA InTheMap ==
  /\ Plain \subseteq Register /\ Setting \subseteq Register /\ Common \subseteq Setting
  /\ \A s \in Sock : OfStatus(s) \subseteq Register /\ Options(s) \subseteq Setting /\ OtherSettings(s) \subseteq Setting
BY DEF Plain, SingleBytes, Addresses4, Register, OfStatus, Setting

LEMMA PlainWidths ==
  /\ SHAR.width = 6 /\ GAR.width = 4 /\ SUBR.width = 4 /\ SIPR.width = 4
  /\ \A r \in {MR, IR, IMR, RMSR, TMSR} : r.width = 1
  /\ \A s \in Sock : \A r \in OfStatus(s) : r.width = 1
BY DEF At, MR, GAR, SUBR, SHAR, SIPR, IR, IMR, RMSR, TMSR, OfStatus, Sn_MR, Sn_IR, Sn_SR

LEMMA PlainDiffer ==
  /\ SHAR # GAR /\ SHAR # SUBR /\ SHAR # SIPR /\ GAR # SUBR /\ GAR # SIPR /\ SUBR # SIPR
  /\ \A r \in Addresses4 : r \notin {MR, IR, IMR, RMSR, TMSR}
  /\ MR # IR /\ MR # IMR /\ MR # RMSR /\ MR # TMSR /\ IR # IMR /\ IR # RMSR /\ IR # TMSR
  /\ IMR # RMSR /\ IMR # TMSR /\ RMSR # TMSR
BY DEF Addresses4, At, MR, GAR, SUBR, SHAR, SIPR, IR, IMR, RMSR, TMSR

LEMMA StatusDiffers ==
  ASSUME NEW s \in Sock
  PROVE  /\ Sn_MR(s) # Sn_IR(s) /\ Sn_MR(s) # Sn_SR(s) /\ Sn_IR(s) # Sn_SR(s)
         /\ \A t \in Sock : Sn_IR(t) \in OfStatus(s) => t = s
         /\ OfStatus(s) \cap Plain = {}
<1>1. WIZCHIP_SREG_BLOCK(s) \in Nat /\ WIZCHIP_SREG_BLOCK(s) = \h400 + \h100 * s
  BY SocketsAreNumbers DEF WIZCHIP_SREG_BLOCK
<1>2. ASSUME NEW t \in Sock, Sn_IR(t) \in OfStatus(s) PROVE t = s
  <2>1. WIZCHIP_SREG_BLOCK(t) \in Nat /\ WIZCHIP_SREG_BLOCK(t) = \h400 + \h100 * t /\ s \in Nat /\ t \in Nat
    BY SocketsAreNumbers DEF WIZCHIP_SREG_BLOCK
  <2> QED
    BY <1>1, <1>2, <2>1 DEF OfStatus, Sn_MR, Sn_IR, Sn_SR, At
<1>3. \A r \in OfStatus(s) : r.address >= \h400
  BY <1>1, SocketsAreNumbers DEF OfStatus, Sn_MR, Sn_IR, Sn_SR, At
<1>4. \A r \in Plain : r.address \in 0 .. \h29
  BY DEF Plain, SingleBytes, Addresses4, At, MR, GAR, SUBR, SHAR, SIPR, IR, IMR, RMSR, TMSR
<1>5. Sn_MR(s) # Sn_IR(s) /\ Sn_MR(s) # Sn_SR(s) /\ Sn_IR(s) # Sn_SR(s)
  BY <1>1 DEF Sn_MR, Sn_IR, Sn_SR, At
<1> QED
  BY <1>2, <1>3, <1>4, <1>5

LEMMA SettingsDiffer ==
  ASSUME NEW r \in Setting
  PROVE  r \notin Plain /\ \A s \in Sock : r \notin OfStatus(s)
<1>1. CASE r \in Common
  <2>1. r \notin Plain /\ r.address \in 0 .. \h29
    BY <1>1 DEF Common, Plain, SingleBytes, Addresses4, At, MR, GAR, SUBR, SHAR, SIPR, IR, IMR, RMSR, TMSR, RTR, RCR, PTIMER, PMAGIC
  <2>2. ASSUME NEW s \in Sock, r \in OfStatus(s) PROVE FALSE
    BY <2>1, <2>2, SocketsAreNumbers DEF OfStatus, Sn_MR, Sn_IR, Sn_SR, At, WIZCHIP_SREG_BLOCK
  <2> QED
    BY <2>1, <2>2
<1>2. ASSUME NEW t \in Sock, r \in Options(t) \cup OtherSettings(t) PROVE r \notin Plain /\ \A s \in Sock : r \notin OfStatus(s)
  <2>1. WIZCHIP_SREG_BLOCK(t) \in Nat /\ WIZCHIP_SREG_BLOCK(t) = \h400 + \h100 * t /\ t \in Nat
    BY SocketsAreNumbers DEF WIZCHIP_SREG_BLOCK
  <2>2. \E o \in {4, 6, 12, 16, 18, 21, 22, 36, 40} : r.address = WIZCHIP_SREG_BLOCK(t) + o
    BY <1>2, <2>1 DEF Options, OtherSettings, At, Sn_PORT, Sn_DHAR, Sn_DIPR, Sn_DPORT, Sn_MSSR, Sn_TOS, Sn_TTL, Sn_TX_WR, Sn_RX_RD
  <2>3. \A q \in Plain : q.address \in 0 .. \h29
    BY DEF Plain, SingleBytes, Addresses4, At, MR, GAR, SUBR, SHAR, SIPR, IR, IMR, RMSR, TMSR
  <2>4. r \notin Plain
    BY <2>1, <2>2, <2>3
  <2>5. ASSUME NEW s \in Sock, r \in OfStatus(s) PROVE FALSE
    <3>1. WIZCHIP_SREG_BLOCK(s) \in Nat /\ WIZCHIP_SREG_BLOCK(s) = \h400 + \h100 * s /\ s \in Nat
      BY SocketsAreNumbers DEF WIZCHIP_SREG_BLOCK
    <3>2. \E o \in {0, 2, 3} : r.address = WIZCHIP_SREG_BLOCK(s) + o
      BY <2>5, <3>1 DEF OfStatus, Sn_MR, Sn_IR, Sn_SR, At
    <3> QED
      BY <3>1, <3>2, <2>1, <2>2
  <2> QED
    BY <2>4, <2>5
<1> QED
  BY <1>1, <1>2 DEF Setting

-----------------------------------------------------------------------------
(* Several registers written, one after the other.                         *)

\* From m to n only the registers of S may have changed.
Keeps(m, n, S) ==
  \A q \in Register \ S : In(n, q) = In(m, q) /\ n[q.address] = m[q.address]

LEMMA WritingKeeps ==
  ASSUME NEW m \in Memory, NEW r \in Register, NEW bytes \in Bytes(r)
  PROVE  /\ Put(m, r, bytes) \in Memory /\ In(Put(m, r, bytes), r) = bytes
         /\ Put(m, r, bytes)[r.address] = bytes[1] /\ Keeps(m, Put(m, r, bytes), {r})
BY Writing DEF Keeps

LEMMA KeepsOn ==
  ASSUME NEW m, NEW n, NEW k, NEW S, NEW T, Keeps(m, n, S), Keeps(n, k, T)
  PROVE  Keeps(m, k, S \cup T)
BY DEF Keeps

NetInfoType ==
  [mac : [1 .. 6 -> Byte], gw : [1 .. 4 -> Byte], sn : [1 .. 4 -> Byte], ip : [1 .. 4 -> Byte],
   dns : [1 .. 4 -> Byte], dhcp : {"none", "static"}]

Holds4(m, i) ==
  In(m, SHAR) = i.mac /\ In(m, GAR) = i.gw /\ In(m, SUBR) = i.sn /\ In(m, SIPR) = i.ip

LEMMA NetInfoIsSet ==
  ASSUME NEW m \in Memory, NEW i \in NetInfoType
  PROVE  /\ WithNetInfo(m, i) \in Memory /\ Keeps(m, WithNetInfo(m, i), Addresses4)
         /\ Holds4(WithNetInfo(m, i), i)
<1> DEFINE a == Put(m, SHAR, i.mac)
<1> DEFINE b == Put(a, GAR, i.gw)
<1> DEFINE c == Put(b, SUBR, i.sn)
<1> DEFINE d == Put(c, SIPR, i.ip)
<1>1. SHAR \in Register /\ GAR \in Register /\ SUBR \in Register /\ SIPR \in Register
  BY InTheMap DEF Plain, SingleBytes, Addresses4
<1>2. i.mac \in Bytes(SHAR) /\ i.gw \in Bytes(GAR) /\ i.sn \in Bytes(SUBR) /\ i.ip \in Bytes(SIPR)
  BY PlainWidths DEF NetInfoType, Bytes
<1>3. a \in Memory /\ In(a, SHAR) = i.mac /\ Keeps(m, a, {SHAR})
  BY <1>1, <1>2, WritingKeeps
<1> HIDE DEF a
<1>4. b \in Memory /\ In(b, GAR) = i.gw /\ Keeps(a, b, {GAR})
  BY <1>1, <1>2, <1>3, WritingKeeps
<1> HIDE DEF b
<1>5. c \in Memory /\ In(c, SUBR) = i.sn /\ Keeps(b, c, {SUBR})
  BY <1>1, <1>2, <1>4, WritingKeeps
<1> HIDE DEF c
<1>6. d \in Memory /\ In(d, SIPR) = i.ip /\ Keeps(c, d, {SIPR})
  BY <1>1, <1>2, <1>5, WritingKeeps
<1>7. WithNetInfo(m, i) = d
  BY DEF WithNetInfo, a, b, c
<1> HIDE DEF d
<1>8. Keeps(m, d, Addresses4)
  BY <1>3, <1>4, <1>5, <1>6 DEF Keeps, Addresses4
<1>9. Holds4(d, i)
  BY <1>1, <1>3, <1>4, <1>5, <1>6, PlainDiffer DEF Keeps, Holds4
<1> QED
  BY <1>6, <1>7, <1>8, <1>9

LEMMA NetInfoTyped ==
  ASSUME chip \in Memory, _DNS_ \in [1 .. 4 -> Byte], _DHCP_ \in {"none", "static"}
  PROVE  NetInfo \in NetInfoType /\ Holds4(chip, NetInfo)
<1>1. SHAR \in Register /\ GAR \in Register /\ SUBR \in Register /\ SIPR \in Register
  BY InTheMap DEF Plain, SingleBytes, Addresses4
<1>2. /\ In(chip, SHAR) \in [1 .. 6 -> Byte] /\ In(chip, GAR) \in [1 .. 4 -> Byte]
      /\ In(chip, SUBR) \in [1 .. 4 -> Byte] /\ In(chip, SIPR) \in [1 .. 4 -> Byte]
  BY <1>1, Reading, PlainWidths DEF Bytes
<1>3. \A r \in Register : Get(r) = In(chip, r)
  BY DEF Get, In
<1> QED
  BY <1>1, <1>2, <1>3 DEF NetInfo, NetInfoType, Holds4

\* After a software reset the addresses are there and all other registers reset.
LEMMA AfterSoftReset ==
  ASSUME chip \in Memory, _DNS_ \in [1 .. 4 -> Byte], _DHCP_ \in {"none", "static"}
  PROVE  /\ SoftReset \in Memory /\ Holds4(SoftReset, NetInfo) /\ Keeps(ResetMemory, SoftReset, Addresses4)
BY NetInfoTyped, NetInfoIsSet, AfterReset DEF SoftReset

-----------------------------------------------------------------------------
(* The sum of the sizes of the rings.                                      *)

LEMMA Smallest ==
  ASSUME NEW S \in SUBSET Nat, S # {}
  PROVE  \E n \in S : \A k \in S : n <= k
<1> DEFINE Below == {r \in Nat \X Nat : r[1] < r[2]}
<1>1. IsWellFoundedOn(Below, Nat)
  BY NatLessThanWellFounded DEF OpToRel
<1>2. PICK n \in S : \A k \in S : ~(<<k, n>> \in Below)
  <2> HIDE DEF Below
  <2> QED
    BY <1>1, WFMin
<1>3. \A k \in S : k \in Nat /\ n \in Nat /\ ~(k < n)
  BY <1>2
<1> QED
  BY <1>3

\* What holds of 0, and of each number after one of which it holds, holds of all.
LEMMA Induction ==
  ASSUME NEW S, 0 \in S, \A n \in Nat : n \in S => n + 1 \in S
  PROVE  Nat \subseteq S
<1> SUFFICES ASSUME ~(Nat \subseteq S) PROVE FALSE
  OBVIOUS
<1> DEFINE T == {n \in Nat : n \notin S}
<1>1. T \in SUBSET Nat /\ T # {}
  OBVIOUS
<1>2. PICK n \in T : \A k \in T : n <= k
  <2> HIDE DEF T
  <2> QED
    BY <1>1, Smallest
<1>3. n \in Nat /\ n # 0 /\ n \notin S /\ n - 1 \in Nat /\ (n - 1) + 1 = n
  BY <1>2
<1>4. n - 1 \notin T
  BY <1>2, <1>3
<1> QED
  BY <1>3, <1>4

One(S) == CHOOSE x \in S : TRUE

LEMMA OneIs == ASSUME NEW S, S # {} PROVE One(S) \in S
BY DEF One

\* The sum of f over the sockets of S, from the sums over smaller sets.
SumOver(T, f, S) == IF S = {} THEN 0 ELSE f[One(S)] + T[S \ {One(S)}]

Sums(f) == {T \in [SUBSET Sock -> Nat] : \A S \in SUBSET Sock : T[S] = SumOver(T, f, S)}

LEMMA SockIsFinite ==
  /\ \A S \in SUBSET Sock : IsFiniteSet(S) /\ Cardinality(S) \in Nat /\ Cardinality(S) <= Socks
  /\ Cardinality(Sock) = Socks
  /\ \A S \in SUBSET Sock : S # {} => S \ {One(S)} \in SUBSET Sock /\ Cardinality(S) = Cardinality(S \ {One(S)}) + 1
<1>1. IsFiniteSet(Sock) /\ Cardinality(Sock) = Socks
  BY SocksAssumption, FS_Interval DEF Sock
<1>2. ASSUME NEW S \in SUBSET Sock
      PROVE  IsFiniteSet(S) /\ Cardinality(S) \in Nat /\ Cardinality(S) <= Socks
  BY <1>1, FS_Subset, FS_CardinalityType
<1>3. ASSUME NEW S \in SUBSET Sock, S # {}
      PROVE  S \ {One(S)} \in SUBSET Sock /\ Cardinality(S) = Cardinality(S \ {One(S)}) + 1
  <2>1. One(S) \in S
    BY <1>3, OneIs
  <2>2. Cardinality(S \ {One(S)}) = Cardinality(S) - 1
    BY <1>2, <2>1, FS_RemoveElement
  <2> QED
    BY <1>2, <2>2
<1> QED
  BY <1>1, <1>2, <1>3

\* There is such a table: those for sets of n sockets go on to sets of n + 1.
LEMMA SumsExist ==
  ASSUME NEW f \in [Sock -> Nat]
  PROVE  Sums(f) # {}
<1> DEFINE Upto(n, T) == \A S \in SUBSET Sock : Cardinality(S) <= n => T[S] = SumOver(T, f, S)
<1> DEFINE A == {n \in Nat : \E T \in [SUBSET Sock -> Nat] : Upto(n, T)}
<1>1. 0 \in A
  <2> DEFINE T == [S \in SUBSET Sock |-> 0]
  <2>1. \A S \in SUBSET Sock : Cardinality(S) <= 0 => S = {}
    BY SockIsFinite, FS_EmptySet
  <2>2. T \in [SUBSET Sock -> Nat] /\ Upto(0, T)
    BY <2>1 DEF SumOver
  <2> QED
    BY <2>2
<1>2. ASSUME NEW n \in Nat, n \in A PROVE n + 1 \in A
  <2>1. PICK T \in [SUBSET Sock -> Nat] : Upto(n, T)
    BY <1>2
  <2> DEFINE U == [S \in SUBSET Sock |-> IF Cardinality(S) = n + 1 THEN SumOver(T, f, S) ELSE T[S]]
  <2>2. \A S \in SUBSET Sock : SumOver(T, f, S) \in Nat
    BY SockIsFinite, OneIs DEF SumOver
  <2>3. U \in [SUBSET Sock -> Nat]
    BY <2>2
  <2>4. ASSUME NEW S \in SUBSET Sock, Cardinality(S) <= n + 1 PROVE U[S] = SumOver(U, f, S)
    <3>1. SumOver(U, f, S) = SumOver(T, f, S)
      <4>1. CASE S = {}
        BY <4>1 DEF SumOver
      <4>2. CASE S # {}
        <5> DEFINE R == S \ {One(S)}
        <5>1. R \in SUBSET Sock /\ Cardinality(S) = Cardinality(R) + 1 /\ Cardinality(R) \in Nat
          BY <4>2, SockIsFinite
        <5>2. U[R] = T[R]
          BY <5>1, <2>4
        <5> QED
          BY <5>2, <4>2 DEF SumOver
      <4> QED
        BY <4>1, <4>2
    <3>2. U[S] = SumOver(T, f, S)
      <4>1. Cardinality(S) \in Nat
        BY SockIsFinite
      <4> QED
        BY <2>1, <2>4, <4>1
    <3> QED
      BY <3>1, <3>2
  <2> HIDE DEF U
  <2>5. Upto(n + 1, U)
    BY <2>4
  <2> QED
    BY <2>3, <2>5
<1> HIDE DEF A
<1>3. Socks \in A
  BY <1>1, <1>2, Induction, SocksAssumption
<1>4. PICK T \in [SUBSET Sock -> Nat] : Upto(Socks, T)
  BY <1>3 DEF A
<1>5. T \in Sums(f)
  BY <1>4, SockIsFinite DEF Sums
<1> QED
  BY <1>5

\* Of smaller terms the sum is smaller.
LEMMA SumGrows ==
  ASSUME NEW f \in [Sock -> Nat], NEW g \in [Sock -> Nat], \A s \in Sock : f[s] <= g[s],
         NEW T \in Sums(f), NEW U \in Sums(g)
  PROVE  T[Sock] <= U[Sock]
<1> DEFINE A == {n \in Nat : \A S \in SUBSET Sock : Cardinality(S) = n => T[S] <= U[S]}
<1>1. /\ T \in [SUBSET Sock -> Nat] /\ U \in [SUBSET Sock -> Nat]
      /\ \A S \in SUBSET Sock : T[S] = SumOver(T, f, S) /\ U[S] = SumOver(U, g, S)
  BY DEF Sums
<1>2. 0 \in A
  <2>1. \A S \in SUBSET Sock : Cardinality(S) = 0 => S = {}
    BY SockIsFinite, FS_EmptySet
  <2>2. T[{}] = 0 /\ U[{}] = 0
    BY <1>1 DEF SumOver
  <2>3. \A S \in SUBSET Sock : Cardinality(S) = 0 => T[S] <= U[S]
    <3> TAKE S \in SUBSET Sock
    <3> HAVE Cardinality(S) = 0
    <3>1. T[S] = 0 /\ U[S] = 0
      BY <2>1, <2>2
    <3> QED
      BY <3>1
  <2> QED
    BY <2>3
<1>3. ASSUME NEW n \in Nat, n \in A PROVE n + 1 \in A
  <2>1. ASSUME NEW S \in SUBSET Sock, Cardinality(S) = n + 1 PROVE T[S] <= U[S]
    <3>1. S # {}
      <4>1. Cardinality({}) = 0 /\ n + 1 # 0
        BY FS_EmptySet
      <4> QED
        BY <2>1, <4>1
    <3> DEFINE x == One(S)
    <3> DEFINE R == S \ {x}
    <3>2. x \in Sock /\ R \in SUBSET Sock /\ Cardinality(R) = n
      <4>1. Cardinality(R) \in Nat /\ Cardinality(S) = Cardinality(R) + 1 /\ R \in SUBSET Sock
        BY <3>1, SockIsFinite
      <4>2. x \in S
        BY <3>1, OneIs
      <4> QED
        BY <2>1, <4>1, <4>2
    <3>3. T[R] <= U[R] /\ f[x] <= g[x]
      BY <1>3, <3>2
    <3>4. T[S] = f[x] + T[R] /\ U[S] = g[x] + U[R]
      BY <1>1, <3>1 DEF SumOver
    <3>5. T[R] \in Nat /\ U[R] \in Nat /\ f[x] \in Nat /\ g[x] \in Nat
      BY <1>1, <3>2
    <3> HIDE DEF x, R
    <3> QED
      BY <3>3, <3>4, <3>5
  <2> QED
    BY <2>1
<1> HIDE DEF A
<1>4. Socks \in A
  BY <1>2, <1>3, Induction, SocksAssumption
<1> QED
  BY <1>4, SockIsFinite DEF A

\* There is only one.
LEMMA OneSum ==
  ASSUME NEW f \in [Sock -> Nat], NEW T \in Sums(f), NEW U, \A S \in SUBSET Sock : U[S] = SumOver(U, f, S)
  PROVE  U[Sock] = T[Sock]
<1>1. \A S \in SUBSET Sock : T[S] = SumOver(T, f, S)
  BY DEF Sums
<1> DEFINE A == {n \in Nat : \A S \in SUBSET Sock : Cardinality(S) = n => U[S] = T[S]}
<1>2. 0 \in A
  <2>1. \A S \in SUBSET Sock : Cardinality(S) = 0 => S = {}
    BY SockIsFinite, FS_EmptySet
  <2>2. T[{}] = 0 /\ U[{}] = 0
    BY <1>1 DEF SumOver
  <2> QED
    BY <2>1, <2>2
<1>3. ASSUME NEW n \in Nat, n \in A PROVE n + 1 \in A
  <2>1. ASSUME NEW S \in SUBSET Sock, Cardinality(S) = n + 1 PROVE U[S] = T[S]
    <3>1. S # {}
      <4>1. Cardinality({}) = 0 /\ n + 1 # 0
        BY FS_EmptySet
      <4> QED
        BY <2>1, <4>1
    <3> DEFINE R == S \ {One(S)}
    <3>2. R \in SUBSET Sock /\ Cardinality(R) = n
      <4>1. Cardinality(R) \in Nat /\ Cardinality(S) = Cardinality(R) + 1 /\ R \in SUBSET Sock
        BY <3>1, SockIsFinite
      <4> QED
        BY <2>1, <4>1
    <3>3. U[R] = T[R]
      BY <1>3, <3>2
    <3> QED
      BY <1>1, <3>1, <3>3 DEF SumOver
  <2> QED
    BY <2>1
<1> HIDE DEF A
<1>4. Nat \subseteq A
  BY <1>2, <1>3, Induction
<1> QED
  BY <1>4, SockIsFinite DEF A

\* MapThenSumSet is the last entry of such a table.
LEMMA SumIs ==
  ASSUME NEW f \in [Sock -> Nat], NEW T \in Sums(f)
  PROVE  MapThenSumSet(LAMBDA s : f[s], Sock) = T[Sock]
<1> DEFINE It(V) == V = [S \in SUBSET Sock |-> IF S = {} THEN 0
                           ELSE f[CHOOSE x \in S : TRUE] + V[S \ {CHOOSE x \in S : TRUE}]]
<1> DEFINE U == CHOOSE V : It(V)
<1>1. It(T)
  BY DEF Sums, SumOver, One
<1>2. It(U)
  BY <1>1
<1>3. MapThenSumSet(LAMBDA s : f[s], Sock) = U[Sock]
  BY DEF MapThenSumSet, MapThenFoldSet
<1> HIDE DEF U
<1>4. \A S \in SUBSET Sock : U[S] = SumOver(U, f, S)
  BY <1>2 DEF SumOver, One
<1> QED
  BY <1>3, <1>4, OneSum

LEMMA SumOfRingsIs ==
  ASSUME NEW r, NEW f \in [Sock -> Nat], \A s \in Sock : f[s] = RingSize(r, s), NEW T \in Sums(f)
  PROVE  MapThenSumSet(LAMBDA s : RingSize(r, s), Sock) = T[Sock]
<1> DEFINE It(V) == V = [S \in SUBSET Sock |-> IF S = {} THEN 0
                           ELSE RingSize(r, CHOOSE x \in S : TRUE) + V[S \ {CHOOSE x \in S : TRUE}]]
<1> DEFINE U == CHOOSE V : It(V)
<1>1. \A S \in SUBSET Sock : S # {} => f[One(S)] = RingSize(r, CHOOSE x \in S : TRUE)
  BY OneIs DEF One
<1>2. It(T)
  BY <1>1 DEF Sums, SumOver, One
<1>3. It(U)
  BY <1>2, ZenonT(30)
<1>4. MapThenSumSet(LAMBDA s : RingSize(r, s), Sock) = U[Sock]
  BY DEF MapThenSumSet, MapThenFoldSet
<1> HIDE DEF U
<1>5. \A S \in SUBSET Sock : U[S] = SumOver(U, f, S)
  BY <1>1, <1>3 DEF SumOver, One
<1> QED
  BY <1>4, <1>5, OneSum

\* The sizes f fit into the memory.
Fitting(f) == \E T \in Sums(f) : T[Sock] <= BufferMemory

LEMMA FittingIs ==
  ASSUME NEW f \in [Sock -> Nat], NEW T \in Sums(f)
  PROVE  Fitting(f) <=> T[Sock] <= BufferMemory
<1>1. ASSUME NEW U \in Sums(f) PROVE U[Sock] = T[Sock]
  BY OneSum DEF Sums
<1> QED
  BY <1>1 DEF Fitting

LEMMA SmallerFits ==
  ASSUME NEW f \in [Sock -> Nat], NEW g \in [Sock -> Nat], \A s \in Sock : f[s] <= g[s], Fitting(g)
  PROVE  Fitting(f)
<1>1. PICK U \in Sums(g) : U[Sock] <= BufferMemory
  BY DEF Fitting
<1>2. PICK T \in Sums(f) : TRUE
  BY SumsExist
<1>3. T[Sock] <= U[Sock]
  BY SumGrows
<1>4. T[Sock] \in Nat /\ U[Sock] \in Nat /\ BufferMemory \in Int
  BY SocksAssumption DEF Sums
<1> QED
  BY <1>1, <1>3, <1>4 DEF Fitting

\* Two for each.
LEMMA TwoEachFits == Fitting([s \in Sock |-> 2])
<1> DEFINE f == [s \in Sock |-> 2]
<1> DEFINE T == [S \in SUBSET Sock |-> 2 * Cardinality(S)]
<1>1. ASSUME NEW S \in SUBSET Sock PROVE T[S] = SumOver(T, f, S) /\ T[S] \in Nat
  <2>1. CASE S = {}
    BY <2>1, FS_EmptySet DEF SumOver
  <2>2. CASE S # {}
    <3> DEFINE R == S \ {One(S)}
    <3>1. R \in SUBSET Sock /\ Cardinality(S) = Cardinality(R) + 1 /\ Cardinality(R) \in Nat
      BY <2>2, SockIsFinite
    <3>2. One(S) \in Sock
      BY <2>2, OneIs
    <3>3. f[One(S)] = 2 /\ T[R] = 2 * Cardinality(R) /\ T[S] = 2 * Cardinality(S)
      BY <3>1, <3>2
    <3>4. SumOver(T, f, S) = f[One(S)] + T[R]
      BY <2>2 DEF SumOver
    <3> HIDE DEF f, T, R
    <3> QED
      BY <3>1, <3>3, <3>4
  <2> QED
    BY <2>1, <2>2
<1>2. T[Sock] = 2 * Socks
  BY SockIsFinite
<1>3. T \in Sums(f)
  <2>1. T \in [SUBSET Sock -> Nat]
    BY <1>1
  <2> HIDE DEF T, f
  <2> QED
    BY <1>1, <2>1 DEF Sums
<1> QED
  BY <1>2, <1>3, SocksAssumption DEF Fitting

\* The size of the ring of s that the byte of RMSR or TMSR says.
SizeIn(flags, s) == 2 ^ ((IF 2 * s \in flags THEN 1 ELSE 0) + (IF 2 * s + 1 \in flags THEN 2 ELSE 0))

SizesIn(flags) == [s \in Sock |-> SizeIn(flags, s)]

LEMMA Powers ==
  /\ 2 ^ 0 = 1 /\ 2 ^ 1 = 2 /\ 2 ^ 2 = 4 /\ 2 ^ 3 = 8
  /\ 2 ^ 4 = 16 /\ 2 ^ 5 = 32 /\ 2 ^ 6 = 64 /\ 2 ^ 7 = 128
BY Z3

LEMMA SizeIs ==
  ASSUME NEW flags, NEW s \in Sock
  PROVE  SizeIn(flags, s) = IF 2 * s \in flags THEN (IF 2 * s + 1 \in flags THEN 8 ELSE 2)
                            ELSE (IF 2 * s + 1 \in flags THEN 4 ELSE 1)
<1>1. CASE 2 * s \in flags /\ 2 * s + 1 \in flags
  BY <1>1, Powers, 1 + 2 = 3 DEF SizeIn
<1>2. CASE 2 * s \in flags /\ 2 * s + 1 \notin flags
  BY <1>2, Powers, 1 + 0 = 1 DEF SizeIn
<1>3. CASE 2 * s \notin flags /\ 2 * s + 1 \in flags
  BY <1>3, Powers, 0 + 2 = 2 DEF SizeIn
<1>4. CASE 2 * s \notin flags /\ 2 * s + 1 \notin flags
  BY <1>4, Powers, 0 + 0 = 0 DEF SizeIn
<1> QED
  BY <1>1, <1>2, <1>3, <1>4

LEMMA SizesTyped == \A flags : SizesIn(flags) \in [Sock -> Nat]
BY SizeIs DEF SizesIn

\* Of the numbers up to seven, the place of the highest bit.
LEMMA HighestBitIs ==
  ASSUME NEW n \in 1 .. 7
  PROVE  HighestBit(n) = IF n = 1 THEN 0 ELSE IF n <= 3 THEN 1 ELSE 2
<1> DEFINE h == IF n = 1 THEN 0 ELSE IF n <= 3 THEN 1 ELSE 2
<1>1. n \div 1 = n /\ (n \div 2 = 1 <=> n \in 2 .. 3) /\ (n \div 4 = 1 <=> n \in 4 .. 7) /\ n \div 8 = 0
      /\ n \div 16 = 0 /\ n \div 32 = 0 /\ n \div 64 = 0 /\ n \div 128 = 0
  OBVIOUS
<1>2. h \in 0 .. 7 /\ n \div 2 ^ h = 1
  <2>1. CASE n = 1
    BY <2>1, <1>1, Powers
  <2>2. CASE n \in 2 .. 3
    BY <2>2, <1>1, Powers
  <2>3. CASE n \in 4 .. 7
    BY <2>3, <1>1, Powers
  <2> QED
    BY <2>1, <2>2, <2>3
<1>3. ASSUME NEW j \in 0 .. 7, n \div 2 ^ j = 1 PROVE j = h
  <2>1. CASE j = 0
    BY <2>1, <1>1, <1>3
  <2>2. CASE j = 1
    BY <2>2, <1>1, <1>3
  <2>3. CASE j = 2
    BY <2>3, <1>1, <1>3
  <2>4. CASE j = 3
    BY <2>4, <1>1, <1>3
  <2>5. CASE j = 4
    BY <2>5, <1>1, <1>3
  <2>6. CASE j = 5
    BY <2>6, <1>1, <1>3
  <2>7. CASE j = 6
    BY <2>7, <1>1, <1>3
  <2>8. CASE j = 7
    BY <2>8, <1>1, <1>3
  <2> QED
    BY <2>1, <2>2, <2>3, <2>4, <2>5, <2>6, <2>7, <2>8
<1> HIDE DEF h
<1>4. HighestBit(n) = h
  BY <1>2, <1>3 DEF HighestBit
<1> QED
  BY <1>4 DEF h

LEMMA LowBits ==
  /\ 0 \notin Bits(0) /\ 1 \notin Bits(0)
  /\ 1 \notin Bits(1) /\ 0 \notin Bits(2)
BY Powers DEF Bits

\* A ring is never larger than what was asked for it.
LEMMA SizeIsAsked ==
  ASSUME NEW sizes \in [Sock -> Nat \ {0}], NEW old, NEW s \in Sock, NEW byte,
         byte = {b \in 0 .. 7 : IF b \div 2 \in Sock
                        THEN b % 2 \in Bits(HighestBit(sizes[b \div 2]))
                        ELSE b \in old}
  PROVE  SizeIn(byte, s) <= sizes[s]
<1> DEFINE n == sizes[s]
<1>1. n \in Nat /\ n > 0 /\ s \in Nat
  BY SocketsAreNumbers
<1>2. /\ (2 * s) \div 2 = s /\ (2 * s) % 2 = 0
      /\ (2 * s + 1) \div 2 = s /\ (2 * s + 1) % 2 = 1
  BY <1>1
<1>3. /\ 2 * s \in byte => 0 \in Bits(HighestBit(n))
      /\ 2 * s + 1 \in byte => 1 \in Bits(HighestBit(n))
  BY <1>2
<1>4. CASE n >= 8
  BY <1>1, <1>4, SizeIs
<1>5. CASE n = 1
  BY <1>3, <1>5, HighestBitIs, LowBits, SizeIs
<1>6. CASE n \in 2 .. 3
  <2>1. HighestBit(n) = 1
    BY <1>6, HighestBitIs
  <2> QED
    BY <1>3, <1>6, <2>1, LowBits, SizeIs
<1>7. CASE n \in 4 .. 7
  <2>1. HighestBit(n) = 2
    BY <1>7, HighestBitIs
  <2> QED
    BY <1>3, <1>7, <2>1, LowBits, SizeIs
<1> QED
  BY <1>1, <1>4, <1>5, <1>6, <1>7

LEMMA AskedFits ==
  ASSUME NEW sizes \in [Sock -> Nat \ {0}], Fits(sizes), NEW old, NEW byte,
         byte = {b \in 0 .. 7 : IF b \div 2 \in Sock
                        THEN b % 2 \in Bits(HighestBit(sizes[b \div 2]))
                        ELSE b \in old}
  PROVE  Fitting(SizesIn(byte))
<1>1. Fitting(sizes)
  <2>1. sizes \in [Sock -> Nat]
    OBVIOUS
  <2>2. PICK T \in Sums(sizes) : TRUE
    BY <2>1, SumsExist
  <2> QED
    BY <2>1, <2>2, FittingIs, SumIs DEF Fits
<1>2. \A s \in Sock : SizesIn(byte)[s] <= sizes[s]
  BY SizeIsAsked DEF SizesIn
<1> QED
  BY <1>1, <1>2, SizesTyped, SmallerFits

LEMMA ResetFits == Fitting(SizesIn(Bits(\h55)))
<1>1. \A k \in {1, 3, 5, 7} : k \notin Bits(\h55)
  <2>1. ~ (\h55 \div 2 ^ 1) % 2 = 1 /\ ~ (\h55 \div 2 ^ 3) % 2 = 1
    OBVIOUS
  <2>2. ~ (\h55 \div 2 ^ 5) % 2 = 1 /\ ~ (\h55 \div 2 ^ 7) % 2 = 1
    OBVIOUS
  <2> QED
    BY <2>1, <2>2 DEF Bits
<1>2. ASSUME NEW s \in Sock PROVE SizesIn(Bits(\h55))[s] <= 2
  <2>1. 2 * s + 1 \notin Bits(\h55)
    <3>1. s \in Nat /\ Bits(\h55) \subseteq 0 .. 7
      BY SocketsAreNumbers DEF Bits
    <3> QED
      BY <3>1, <1>1
  <2> QED
    BY <2>1, SizeIs DEF SizesIn
<1> QED
  BY <1>2, TwoEachFits, SizesTyped, SmallerFits

\* What RingsFit says of a register.
LEMMA RingsAre ==
  ASSUME NEW r \in {TMSR, RMSR}, Fitting(SizesIn(Flags(r)))
  PROVE  MapThenSumSet(LAMBDA s : RingSize(r, s), Sock) <= BufferMemory
<1> DEFINE f == SizesIn(Flags(r))
<1>1. \A s \in Sock : f[s] = RingSize(r, s)
  <2> TAKE s \in Sock
  <2>1. s \in Nat
    BY SocketsAreNumbers
  <2>2. (0 \in Field(r, s) <=> 2 * s \in Flags(r)) /\ (1 \in Field(r, s) <=> 2 * s + 1 \in Flags(r))
    BY <2>1 DEF Field
  <2> QED
    BY <2>2 DEF RingSize, SizesIn, SizeIn
<1>2. f \in [Sock -> Nat]
  BY SizesTyped
<1> HIDE DEF f
<1>3. PICK T \in Sums(f) : TRUE
  BY <1>2, SumsExist
<1>4. MapThenSumSet(LAMBDA s : RingSize(r, s), Sock) = T[Sock]
  BY <1>1, <1>2, <1>3, SumOfRingsIs
<1>5. Fitting(f) <=> T[Sock] <= BufferMemory
  BY <1>2, <1>3, FittingIs
<1> QED
  BY <1>4, <1>5 DEF f

LEMMA SizesAreSet ==
  ASSUME NEW m \in Memory, NEW r \in {RMSR, TMSR}, NEW sizes \in [Sock -> Nat \ {0}], Fits(sizes)
  PROVE  /\ WithSizes(m, r, sizes) \in Memory /\ Keeps(m, WithSizes(m, r, sizes), {r})
         /\ Fitting(SizesIn(WithSizes(m, r, sizes)[r.address]))
<1>1. r \in Register /\ r.width = 1
  BY InTheMap, PlainWidths DEF Plain, SingleBytes
<1> DEFINE byte == {b \in 0 .. 7 : IF b \div 2 \in Sock
                        THEN b % 2 \in Bits(HighestBit(sizes[b \div 2]))
                        ELSE b \in m[r.address]}
<1>2. byte \in Byte
  BY DEF Byte
<1>5. Fitting(SizesIn(byte))
  BY AskedFits
<1> HIDE DEF byte
<1>3. <<byte>> \in Bytes(r)
  BY <1>1, <1>2 DEF Bytes
<1>4. WithSizes(m, r, sizes) = Put(m, r, <<byte>>)
  BY DEF WithSizes, byte
<1> QED
  BY <1>1, <1>3, <1>4, <1>5, WritingKeeps

-----------------------------------------------------------------------------
(* The invariant.                                                          *)

Types ==
  /\ chip \in Memory /\ info \in NetInfoType
  /\ phase \in {"idle", "sending"} /\ sn \in Sock /\ taddr \in [1 .. 4 -> Byte]
  /\ phase = "idle" => taddr = Zero(SUBR)

\* While sendto() has taken the mask away it is in taddr.
AddressesKept ==
  /\ info.dns = _DNS_ /\ info.dhcp = _DHCP_
  /\ In(chip, SHAR) = info.mac /\ In(chip, GAR) = info.gw /\ In(chip, SIPR) = info.ip
  /\ info.sn = IF taddr = Zero(SUBR) THEN In(chip, SUBR) ELSE taddr

OptionsKept == DOMAIN asked = Setting /\ \A r \in Setting : asked[r] = In(chip, r)

ModesKept ==
  /\ \A r \in {RMSR, TMSR} : Fitting(SizesIn(chip[r.address]))
  /\ Flags(MR) = mode
  /\ mask = GetInterruptMask \cap Kind

Flagged == {IR} \cup {Sn_IR(s) : s \in Sock}

FlagsInv == DOMAIN raised = Flagged /\ \A r \in Flagged : raised[r] \subseteq chip[r.address]

RegistersInv == Types /\ AddressesKept /\ OptionsKept /\ ModesKept /\ FlagsInv

LEMMA FlaggedAre == Flagged \subseteq Register /\ \A r \in Flagged : r.width = 1 /\ r \notin Setting /\ r \notin (Plain \ {IR})
<1>1. IR \in Plain /\ \A s \in Sock : Sn_IR(s) \in OfStatus(s)
  BY DEF Plain, SingleBytes, OfStatus
<1> QED
  BY <1>1, InTheMap, PlainWidths, StatusDiffers, SettingsDiffer DEF Flagged

\* What stays when only the registers of S are written.
LEMMA AddressesStay ==
  ASSUME RegistersInv, NEW S, Keeps(chip, chip', S), S \cap Addresses4 = {},
         UNCHANGED <<info, _DNS_, _DHCP_, taddr>>
  PROVE  AddressesKept'
<1>1. Addresses4 \subseteq Register
  BY InTheMap DEF Plain, SingleBytes
<1>2. \A r \in Addresses4 : In(chip', r) = In(chip, r)
  BY <1>1 DEF Keeps
<1> QED
  BY <1>2 DEF RegistersInv, AddressesKept, Addresses4

LEMMA OptionsStay ==
  ASSUME RegistersInv, NEW S, Keeps(chip, chip', S), S \cap Setting = {}, UNCHANGED asked
  PROVE  OptionsKept'
BY InTheMap DEF RegistersInv, OptionsKept, Keeps

LEMMA ModesStay ==
  ASSUME RegistersInv, NEW S, Keeps(chip, chip', S), S \cap SingleBytes = {}, UNCHANGED <<mode, mask>>
  PROVE  ModesKept'
<1>1. SingleBytes \subseteq Register
  BY InTheMap DEF Plain, SingleBytes
<1>2. \A r \in SingleBytes : chip'[r.address] = chip[r.address]
  BY <1>1 DEF Keeps
<1>3. Flags(MR)' = Flags(MR) /\ Flags(IMR)' = Flags(IMR)
  BY <1>2 DEF Flags, SingleBytes
<1> QED
  BY <1>2, <1>3 DEF SingleBytes, RegistersInv, ModesKept, GetInterruptMask

LEMMA FlagsStay ==
  ASSUME RegistersInv, NEW S, Keeps(chip, chip', S), S \cap Flagged = {}, UNCHANGED raised
  PROVE  FlagsInv'
BY FlaggedAre DEF RegistersInv, FlagsInv, Keeps

LEMMA Sequences6 ==
  ASSUME NEW p \in Patterns
  PROVE  /\ \A n \in 1 .. 6 : First(p, n) \in [1 .. n -> Byte]
         /\ SubSeq(p, 3, 6) \in [1 .. 4 -> Byte] /\ SubSeq(p, 2, 5) \in [1 .. 4 -> Byte]
<1>1. p \in [1 .. 6 -> Byte]
  BY PatternsAssumption
<1>3. ASSUME NEW i \in 1 .. 6, NEW j \in 1 .. 6, NEW n \in Nat, n = j - i + 1
      PROVE  SubSeq(p, i, j) \in [1 .. n -> Byte]
  <2>1. \A k \in i .. j : p[k] \in Byte
    BY <1>1
  <2>2. i \in Int /\ j \in Int
    OBVIOUS
  <2>3. SubSeq(p, i, j) \in Seq(Byte) /\ Len(SubSeq(p, i, j)) = IF i <= j THEN j - i + 1 ELSE 0
    BY <2>1, <2>2, SubSeqProperties, Zenon
  <2>4. Len(SubSeq(p, i, j)) = n
    BY <1>3, <2>3
  <2>5. SubSeq(p, i, j) \in [1 .. Len(SubSeq(p, i, j)) -> Byte]
    BY <2>3, LenProperties, Zenon
  <2> QED
    BY <2>4, <2>5
<1>4. \A n \in 1 .. 6 : First(p, n) \in [1 .. n -> Byte]
  BY <1>3 DEF First
<1> QED
  BY <1>3, <1>4

-----------------------------------------------------------------------------
(* The steps.                                                              *)

USE DEF Memory

LEMMA ModesReset ==
  ASSUME NEW r \in {MR, IMR}
  PROVE  r \in Register /\ r \notin Addresses4 \cup {RMSR, TMSR} /\ ResetValue(r)[1] = {}
<1>1. r \in Register /\ r.width = 1 /\ r \notin Addresses4 \cup {RMSR, TMSR}
  BY InTheMap, PlainWidths, PlainDiffer DEF Plain, SingleBytes
<1>2. r \notin {RTR, RCR}
  BY DEF MR, IMR, RTR, RCR, At
<1>3. ResetValue(r) = Zero(r)
  BY <1>1, <1>2 DEF ResetValue
<1>4. Zero(r)[1] = {}
  BY <1>1 DEF Zero
<1> QED
  BY <1>1, <1>3, <1>4

LEMMA SizesReset == \A r \in {RMSR, TMSR} : ResetMemory[r.address] = Bits(\h55)
<1> TAKE r \in {RMSR, TMSR}
<1>1. r \in Register
  BY InTheMap DEF Plain, SingleBytes
<1>2. r \notin {RTR, RCR}
  BY DEF RMSR, TMSR, RTR, RCR, At
<1>3. ResetValue(r) = <<Bits(\h55)>>
  BY <1>2 DEF ResetValue
<1> QED
  BY <1>1, <1>3, AfterReset

LEMMA Starts == RegistersInit => RegistersInv
<1> SUFFICES ASSUME RegistersInit PROVE RegistersInv
  OBVIOUS
<1>1. chip = ResetMemory /\ chip \in Memory
  BY AfterReset DEF RegistersInit
<1>2. \A r \in Register : In(chip, r) = ResetValue(r) /\ chip[r.address] = ResetValue(r)[1]
  BY <1>1, AfterReset
<1>3. {} \in Byte /\ Zero(SUBR) \in [1 .. 4 -> Byte]
  BY PlainWidths DEF Zero, Byte
<1>4. NetInfo \in NetInfoType /\ Holds4(chip, NetInfo)
  BY <1>1, <1>3, NetInfoTyped DEF RegistersInit
<1>5. Types
  BY <1>1, <1>3, <1>4, SocketsAreNumbers DEF RegistersInit, Types
<1>6. AddressesKept
  BY <1>4 DEF RegistersInit, AddressesKept, Holds4, NetInfo
<1>7. OptionsKept
  BY <1>2, InTheMap DEF RegistersInit, OptionsKept
<1>8. chip[MR.address] = {} /\ chip[IMR.address] = {}
  BY <1>2, ModesReset
<1>9. ModesKept
  BY <1>1, <1>8, SizesReset, ResetFits DEF RegistersInit, ModesKept, GetInterruptMask, Flags
<1>10. FlagsInv
  BY DEF RegistersInit, FlagsInv, Flagged
<1> QED
  BY <1>5, <1>6, <1>7, <1>9, <1>10 DEF RegistersInv

\* Every reset ends with the addresses where they were and everything else reset.
LEMMA Resets ==
  ASSUME RegistersInv, phase = "idle", chip' \in Memory, NEW m \in Memory,
         Keeps(m, chip', {RMSR, TMSR}), m = SoftReset, ForgetsSettings,
         \A r \in {RMSR, TMSR} : chip'[r.address] = m[r.address] \/ Fitting(SizesIn(chip'[r.address]))
  PROVE  RegistersInv'
<1> USE DEF RegistersInv
<1>1. taddr = Zero(SUBR) /\ taddr' = taddr /\ phase' = phase /\ sn' = sn /\ info' = info
  BY DEF Types, ForgetsSettings
<1>2. _DNS_ \in [1 .. 4 -> Byte] /\ _DHCP_ \in {"none", "static"} /\ _DNS_' = _DNS_ /\ _DHCP_' = _DHCP_
  BY DEF Types, AddressesKept, NetInfoType, ForgetsSettings
<1>3. Holds4(m, NetInfo) /\ Keeps(ResetMemory, m, Addresses4) /\ Holds4(chip, NetInfo)
  BY <1>2, AfterSoftReset, NetInfoTyped DEF Types
<1>4. SHAR \in Register /\ GAR \in Register /\ SUBR \in Register /\ SIPR \in Register
      /\ {SHAR, GAR, SUBR, SIPR} \cap {RMSR, TMSR} = {}
  BY InTheMap, PlainDiffer DEF Plain, SingleBytes, Addresses4
<1>5. Types'
  BY <1>1 DEF Types
<1>6. AddressesKept'
  BY <1>1, <1>2, <1>3, <1>4 DEF AddressesKept, Holds4, Keeps
<1>7. \A r \in Register \ (Addresses4 \cup {RMSR, TMSR}) :
        In(chip', r) = ResetValue(r) /\ chip'[r.address] = ResetValue(r)[1]
  BY <1>3, AfterReset DEF Keeps
<1>8. OptionsKept'
  BY <1>7, InTheMap, SettingsDiffer DEF OptionsKept, ForgetsSettings, Plain, SingleBytes
<1>9. chip'[MR.address] = {} /\ chip'[IMR.address] = {}
  BY <1>7, ModesReset
<1>12. \A r \in {RMSR, TMSR} : Fitting(SizesIn(chip'[r.address]))
  <2> TAKE r \in {RMSR, TMSR}
  <2>1. r \in Register \ Addresses4
    BY <1>4, InTheMap DEF Addresses4, Plain, SingleBytes
  <2>2. m[r.address] = Bits(\h55)
    BY <2>1, <1>3, SizesReset DEF Keeps
  <2> QED
    BY <2>2, ResetFits
<1>10. ModesKept'
  BY <1>9, <1>12 DEF ForgetsSettings, ModesKept, GetInterruptMask, Flags
<1>11. FlagsInv'
  BY DEF ForgetsSettings, FlagsInv
<1> QED
  BY <1>5, <1>6, <1>8, <1>10, <1>11

LEMMA ResetStep == RegistersInv /\ Reset => RegistersInv'
<1> SUFFICES ASSUME RegistersInv, Reset PROVE RegistersInv'
  OBVIOUS
<1>1. SoftReset \in Memory
  BY AfterSoftReset DEF RegistersInv, Types, AddressesKept, NetInfoType
<1>2. /\ Keeps(SoftReset, chip', {RMSR, TMSR}) /\ chip' \in Memory /\ phase = "idle" /\ ForgetsSettings
      /\ chip' = SoftReset
  BY <1>1 DEF Reset, Call, Keeps
<1> QED
  BY <1>1, <1>2, Resets

LEMMA WizchipInitStep ==
  ASSUME RegistersInv, NEW tx \in SizeChoices, NEW rx \in SizeChoices, WizchipInit(tx, rx)
  PROVE  RegistersInv'
<1>1. SoftReset \in Memory
  BY AfterSoftReset DEF RegistersInv, Types, AddressesKept, NetInfoType
<1> DEFINE m == SoftReset
<1> DEFINE withTx == IF Fits(tx) THEN WithSizes(m, TMSR, tx) ELSE m
<1> DEFINE withRx == IF Fits(tx) /\ Fits(rx) THEN WithSizes(withTx, RMSR, rx) ELSE withTx
<1>2. chip' = withRx /\ phase = "idle" /\ ForgetsSettings
  BY DEF WizchipInit, Call
<1>3. m \in Memory /\ m = SoftReset
  BY <1>1
<1> HIDE DEF m
<1>4. tx \in [Sock -> Nat \ {0}] /\ rx \in [Sock -> Nat \ {0}]
  BY SocksAssumption, SizesAssumption
<1>5. RMSR \in Register /\ TMSR \in Register /\ RMSR # TMSR
  BY InTheMap, PlainDiffer DEF Plain, SingleBytes
<1>6. /\ withTx \in Memory /\ Keeps(m, withTx, {TMSR})
      /\ withTx[TMSR.address] = m[TMSR.address] \/ Fitting(SizesIn(withTx[TMSR.address]))
  <2>1. CASE Fits(tx)
    BY <2>1, <1>3, <1>4, SizesAreSet
  <2>2. CASE ~Fits(tx)
    BY <2>2, <1>3 DEF Keeps
  <2> QED
    BY <2>1, <2>2
<1> HIDE DEF withTx
<1>7. /\ withRx \in Memory /\ Keeps(withTx, withRx, {RMSR})
      /\ withRx[RMSR.address] = withTx[RMSR.address] \/ Fitting(SizesIn(withRx[RMSR.address]))
  <2>1. CASE Fits(tx) /\ Fits(rx)
    BY <2>1, <1>4, <1>6, SizesAreSet
  <2>2. CASE ~(Fits(tx) /\ Fits(rx))
    BY <2>2, <1>6 DEF Keeps
  <2> QED
    BY <2>1, <2>2
<1> HIDE DEF withRx
<1>8. Keeps(m, withRx, {RMSR, TMSR})
  BY <1>6, <1>7 DEF Keeps
<1>9. \A r \in {RMSR, TMSR} : withRx[r.address] = m[r.address] \/ Fitting(SizesIn(withRx[r.address]))
  BY <1>5, <1>6, <1>7 DEF Keeps
<1> QED
  BY <1>2, <1>3, <1>7, <1>8, <1>9, Resets

LEMMA InfoTyped == \A p, q \in Patterns : InfoOf(p, q) \in NetInfoType
BY Sequences6 DEF InfoOf, NetInfoType

LEMMA SetNetInfoStep ==
  ASSUME RegistersInv, NEW i \in NetInfoType, SetNetInfo(i)
  PROVE  RegistersInv'
<1> USE DEF RegistersInv
<1>1. phase = "idle" /\ chip' = WithNetInfo(chip, i) /\ info' = i /\ i.dns = _DNS_' /\ i.dhcp = _DHCP_'
      /\ UNCHANGED <<phase, sn, taddr, asked, mask, mode, raised>>
  BY DEF SetNetInfo, Call
<1>2. chip' \in Memory /\ Keeps(chip, chip', Addresses4) /\ Holds4(chip', i)
  BY <1>1, NetInfoIsSet DEF Types
<1>3. Types'
  BY <1>1, <1>2 DEF Types
<1>4. AddressesKept'
  BY <1>1, <1>2 DEF Types, AddressesKept, Holds4
<1>5. OptionsKept'
  BY <1>1, <1>2, OptionsStay, SettingsDiffer DEF Plain, SingleBytes
<1>6. ModesKept'
  BY <1>1, <1>2, ModesStay, PlainDiffer DEF SingleBytes
<1>7. FlagsInv'
  BY <1>1, <1>2, FlagsStay, FlaggedAre, PlainDiffer DEF Plain, SingleBytes
<1> QED
  BY <1>3, <1>4, <1>5, <1>6, <1>7

LEMMA OneByte ==
  ASSUME NEW m \in Memory, NEW r \in Register, r.width = 1, NEW b \in Byte
  PROVE  /\ Put(m, r, <<b>>) \in Memory /\ Put(m, r, <<b>>)[r.address] = b
         /\ Keeps(m, Put(m, r, <<b>>), {r})
<1>1. <<b>> \in Bytes(r) /\ <<b>>[1] = b
  BY DEF Bytes
<1> QED
  BY <1>1, WritingKeeps

LEMMA CellIsByte == ASSUME NEW m \in Memory, NEW r \in Register PROVE m[r.address] \in Byte
BY Reading

LEMMA SetOptionStep ==
  ASSUME RegistersInv, NEW r \in Setting, NEW bytes \in Bytes(r), SetOption(r, bytes)
  PROVE  RegistersInv'
<1> USE DEF RegistersInv
<1>1. chip' = Put(chip, r, bytes) /\ asked' = [asked EXCEPT ![r] = bytes]
      /\ UNCHANGED <<_DNS_, _DHCP_, phase, sn, taddr, info, mask, mode, raised>>
  BY DEF SetOption, Sets
<1>2. r \in Register /\ r \notin Plain /\ r \notin Flagged
  BY InTheMap, SettingsDiffer, FlaggedAre
<1>3. chip' \in Memory /\ In(chip', r) = bytes /\ Keeps(chip, chip', {r})
  BY <1>1, <1>2, WritingKeeps DEF Types
<1>4. Types'
  BY <1>1, <1>3 DEF Types
<1>5. AddressesKept'
  BY <1>1, <1>2, <1>3, AddressesStay DEF Plain, SingleBytes
<1>6. OptionsKept'
  BY <1>1, <1>3, InTheMap DEF OptionsKept, Keeps
<1>7. ModesKept'
  BY <1>1, <1>2, <1>3, ModesStay DEF Plain, SingleBytes
<1>8. FlagsInv'
  BY <1>1, <1>2, <1>3, FlagsStay
<1> QED
  BY <1>4, <1>5, <1>6, <1>7, <1>8

LEMMA SetTimeoutStep ==
  ASSUME RegistersInv, NEW n \in [1 .. 1 -> Byte], NEW t \in [1 .. 2 -> Byte], SetTimeout(n, t)
  PROVE  RegistersInv'
<1> USE DEF RegistersInv
<1> DEFINE m == Put(chip, RCR, n)
<1>1. chip' = Put(m, RTR, t) /\ asked' = [asked EXCEPT ![RCR] = n, ![RTR] = t]
      /\ UNCHANGED <<_DNS_, _DHCP_, phase, sn, taddr, info, mask, mode, raised>>
  BY DEF SetTimeout
<1>2. RCR \in Setting /\ RTR \in Setting /\ RCR # RTR /\ RCR.width = 1 /\ RTR.width = 2
  BY DEF Setting, Common, RCR, RTR, At
<1>3. \A r \in {RCR, RTR} : r \in Register /\ r \notin Plain /\ r \notin Flagged
  BY <1>2, InTheMap, SettingsDiffer, FlaggedAre
<1>4. n \in Bytes(RCR) /\ t \in Bytes(RTR)
  BY <1>2 DEF Bytes
<1>5. m \in Memory /\ In(m, RCR) = n /\ Keeps(chip, m, {RCR})
  BY <1>3, <1>4, WritingKeeps DEF Types
<1> HIDE DEF m
<1>6. chip' \in Memory /\ In(chip', RTR) = t /\ Keeps(m, chip', {RTR})
  BY <1>1, <1>3, <1>4, <1>5, WritingKeeps
<1>7. Keeps(chip, chip', {RCR, RTR})
  BY <1>5, <1>6 DEF Keeps
<1>8. Types'
  BY <1>1, <1>6 DEF Types
<1>9. AddressesKept'
  BY <1>1, <1>3, <1>7, AddressesStay DEF Plain, SingleBytes
<1>10. OptionsKept'
  BY <1>1, <1>2, <1>3, <1>5, <1>6, <1>7, InTheMap DEF OptionsKept, Keeps
<1>11. ModesKept'
  BY <1>1, <1>3, <1>7, ModesStay DEF Plain, SingleBytes
<1>12. FlagsInv'
  BY <1>1, <1>3, <1>7, FlagsStay
<1> QED
  BY <1>8, <1>9, <1>10, <1>11, <1>12

\* The bits of the modes are in no other place of the register.
LEMMA SetNetModeStep ==
  ASSUME RegistersInv, NEW n, SetNetMode(n)
  PROVE  RegistersInv'
<1> USE DEF RegistersInv
<1>1. n \subseteq {3, 4, 5} /\ chip' = Put(chip, MR, <<Flags(MR) \cup n>>) /\ mode' = mode \cup n
      /\ UNCHANGED <<_DNS_, _DHCP_, phase, sn, taddr, asked, info, mask, raised>>
  BY DEF SetNetMode
<1>2. MR \in Register /\ MR.width = 1 /\ MR \notin Addresses4 \cup Setting \cup Flagged \cup {IMR, RMSR, TMSR} /\ SingleBytes \subseteq Register
  BY InTheMap, PlainWidths, PlainDiffer, SettingsDiffer, FlaggedAre DEF Plain, SingleBytes
<1>3. Flags(MR) \in Byte /\ Flags(MR) \cup n \in Byte
  <2>1. Flags(MR) \in Byte
    BY <1>2, CellIsByte DEF Types, Flags
  <2>2. n \subseteq 0 .. 7
    BY <1>1
  <2> QED
    BY <2>1, <2>2, Zenon DEF Byte
<1>4. chip' \in Memory /\ chip'[MR.address] = Flags(MR) \cup n /\ Keeps(chip, chip', {MR})
  <2> DEFINE b == Flags(MR) \cup n
  <2>1. MR \in Register /\ MR.width = 1 /\ b \in Byte /\ chip \in Memory /\ chip' = Put(chip, MR, <<b>>)
    BY <1>1, <1>2, <1>3 DEF Types
  <2> HIDE DEF b
  <2>2. chip' \in Memory /\ chip'[MR.address] = b /\ Keeps(chip, chip', {MR})
    BY <2>1, OneByte
  <2> QED
    BY <2>2 DEF b
<1>5. Types'
  BY <1>1, <1>4 DEF Types
<1>6. AddressesKept'
  BY <1>1, <1>2, <1>4, AddressesStay
<1>7. OptionsKept'
  BY <1>1, <1>2, <1>4, OptionsStay
<1>8. ModesKept'
  BY <1>1, <1>2, <1>4 DEF ModesKept, GetInterruptMask, Flags, Keeps, SingleBytes
<1>9. FlagsInv'
  BY <1>1, <1>2, <1>4, FlagsStay
<1> QED
  BY <1>5, <1>6, <1>7, <1>8, <1>9

\* Both halves of intr_kind come back from the byte they share.
LEMMA KindsComeBack ==
  ASSUME NEW k \in SUBSET Kind, NEW f, f = Packed(k) \ {4}
  PROVE  f \in Byte /\ ((f \ {4}) \cup {j + 8 : j \in f \cap 0 .. 3}) \cap Kind = k
<1> DEFINE g == (f \ {4}) \cup {j + 8 : j \in f \cap 0 .. 3}
<1>1. \A x : x \in f <=> (x \in k /\ x \in 5 .. 7) \/ (x \in 0 .. 3 /\ x + 8 \in k)
  BY DEF Packed, Kind
<1>2. \A x \in 5 .. 7 : x \in g <=> x \in k
  BY <1>1
<1>3. \A x \in 8 .. 11 : x \in g <=> x \in k
  <2> TAKE x \in 8 .. 11
  <2>1. x \in g <=> x - 8 \in f \cap 0 .. 3
    BY <1>1
  <2> QED
    BY <1>1, <2>1
<1>4. f \in Byte
  BY <1>1 DEF Byte
<1> QED
  BY <1>2, <1>3, <1>4 DEF Kind

LEMMA SetInterruptMaskStep ==
  ASSUME RegistersInv, NEW k \in SUBSET Kind, SetInterruptMask(k)
  PROVE  RegistersInv'
<1> USE DEF RegistersInv
<1> DEFINE f == Packed(k) \ {4}
<1>1. chip' = Put(chip, IMR, <<f>>) /\ mask' = k
      /\ UNCHANGED <<_DNS_, _DHCP_, phase, sn, taddr, asked, info, mode, raised>>
  BY DEF SetInterruptMask
<1>2. f \in Byte /\ ((f \ {4}) \cup {j + 8 : j \in f \cap 0 .. 3}) \cap Kind = k
  BY KindsComeBack
<1> HIDE DEF f
<1>3. IMR \in Register /\ IMR.width = 1 /\ IMR \notin Addresses4 \cup Setting \cup Flagged \cup {MR, RMSR, TMSR} /\ SingleBytes \subseteq Register
  BY InTheMap, PlainWidths, PlainDiffer, SettingsDiffer, FlaggedAre DEF Plain, SingleBytes
<1>4. chip' \in Memory /\ chip'[IMR.address] = f /\ Keeps(chip, chip', {IMR})
  BY <1>1, <1>2, <1>3, OneByte, SMTT(30) DEF Types
<1>5. Types'
  BY <1>1, <1>4 DEF Types
<1>6. AddressesKept'
  BY <1>1, <1>3, <1>4, AddressesStay
<1>7. OptionsKept'
  BY <1>1, <1>3, <1>4, OptionsStay
<1>8. ModesKept'
  BY <1>1, <1>2, <1>3, <1>4 DEF ModesKept, GetInterruptMask, Flags, Keeps, SingleBytes
<1>9. FlagsInv'
  BY <1>1, <1>3, <1>4, FlagsStay
<1> QED
  BY <1>5, <1>6, <1>7, <1>8, <1>9

LEMMA RegisterIR == IR \in Register /\ IR.width = 1 /\ IR \in Flagged /\ IR \notin Addresses4 \cup Setting \cup SingleBytes
BY InTheMap, PlainWidths, PlainDiffer, SettingsDiffer DEF Plain, SingleBytes, Flagged

LEMMA RegisterSn_IR ==
  ASSUME NEW s \in Sock
  PROVE  /\ Sn_IR(s) \in Register /\ Sn_IR(s).width = 1 /\ Sn_IR(s) \in Flagged
         /\ Sn_IR(s) \notin Addresses4 \cup Setting \cup SingleBytes
BY InTheMap, PlainWidths, StatusDiffers, SettingsDiffer DEF Plain, SingleBytes, Flagged, OfStatus

\* A register of flags that is written, where the flags that must stay do.
LEMMA FlagsStep ==
  ASSUME RegistersInv, NEW r \in Flagged, r \in Register, r.width = 1, r \notin Addresses4 \cup Setting \cup SingleBytes,
         NEW b \in Byte, NEW named, chip' = Put(chip, r, <<b>>), raised' = [raised EXCEPT ![r] = named],
         named \subseteq b, UNCHANGED <<_DNS_, _DHCP_, phase, sn, taddr, asked, info, mask, mode>>
  PROVE  RegistersInv'
<1> USE DEF RegistersInv
<1>1. chip' \in Memory /\ chip'[r.address] = b /\ Keeps(chip, chip', {r})
  BY OneByte DEF Types
<1>2. Types'
  BY <1>1 DEF Types
<1>3. AddressesKept'
  BY <1>1, AddressesStay
<1>4. OptionsKept'
  BY <1>1, OptionsStay
<1>5. ModesKept'
  BY <1>1, ModesStay
<1>6. FlagsInv'
  BY <1>1, FlaggedAre DEF FlagsInv, Keeps
<1> QED
  BY <1>2, <1>3, <1>4, <1>5, <1>6

LEMMA ClearInterruptStep ==
  ASSUME RegistersInv, NEW k, ClearInterrupt(k)
  PROVE  RegistersInv'
<1> DEFINE b == chip[IR.address] \ ((Packed(k) \cup {4}) \cap Bits(\hA0))
<1>1. chip' = Put(chip, IR, <<b>>)
  BY DEF ClearInterrupt, Clear
<1>2. chip[IR.address] \in Byte
  BY RegisterIR, CellIsByte DEF RegistersInv, Types
<1>3. b \in Byte
  BY <1>2 DEF Byte
<1>4. 4 \notin Bits(\hA0)
  BY 2^4 = 16 DEF Bits
<1>5. raised[IR] \ Packed(k) \subseteq b
  BY <1>4, RegisterIR DEF RegistersInv, FlagsInv
<1> HIDE DEF b
<1>6. raised' = [raised EXCEPT ![IR] = raised[IR] \ Packed(k)]
      /\ UNCHANGED <<_DNS_, _DHCP_, phase, sn, taddr, asked, info, mask, mode>>
  BY DEF ClearInterrupt
<1> QED
  BY <1>1, <1>3, <1>5, <1>6, RegisterIR, FlagsStep

LEMMA ClearSnInterruptStep ==
  ASSUME RegistersInv, NEW s \in Sock, NEW flags, ClearSnInterrupt(s, flags)
  PROVE  RegistersInv'
<1> DEFINE b == chip[Sn_IR(s).address] \ flags
<1>1. chip' = Put(chip, Sn_IR(s), <<b>>)
  BY DEF ClearSnInterrupt, Clear
<1>2. chip[Sn_IR(s).address] \in Byte
  BY RegisterSn_IR, CellIsByte DEF RegistersInv, Types
<1>3. b \in Byte
  BY <1>2 DEF Byte
<1>4. raised[Sn_IR(s)] \ flags \subseteq b
  BY RegisterSn_IR DEF RegistersInv, FlagsInv
<1> HIDE DEF b
<1>5. raised' = [raised EXCEPT ![Sn_IR(s)] = raised[Sn_IR(s)] \ flags]
      /\ UNCHANGED <<_DNS_, _DHCP_, phase, sn, taddr, asked, info, mask, mode>>
  BY DEF ClearSnInterrupt
<1> QED
  BY <1>1, <1>3, <1>4, <1>5, RegisterSn_IR, FlagsStep

LEMMA RaiseStep ==
  ASSUME RegistersInv, NEW r \in Flagged, r \in Register, r.width = 1,
         r \notin Addresses4 \cup Setting \cup SingleBytes, NEW named \in 0 .. 7, Raise(r, named)
  PROVE  RegistersInv'
<1> DEFINE b == chip[r.address] \cup {named}
<1>1. chip' = Put(chip, r, <<b>>)
  BY DEF Raise, Flags
<1>2. chip[r.address] \in Byte
  BY CellIsByte DEF RegistersInv, Types
<1>3. b \in Byte
  BY <1>2 DEF Byte
<1>4. raised[r] \cup {named} \subseteq b
  BY DEF RegistersInv, FlagsInv
<1> HIDE DEF b
<1>5. raised' = [raised EXCEPT ![r] = raised[r] \cup {named}]
      /\ UNCHANGED <<_DNS_, _DHCP_, phase, sn, taddr, asked, info, mask, mode>>
  BY DEF Raise
<1> QED
  BY <1>1, <1>3, <1>4, <1>5, FlagsStep

LEMMA ChipStep == RegistersInv /\ (ChipFlags \/ SendOutcome) => RegistersInv'
<1>1. ASSUME RegistersInv, ChipFlags PROVE RegistersInv'
  BY <1>1, RegisterIR, RaiseStep DEF ChipFlags
<1>2. ASSUME RegistersInv, SendOutcome PROVE RegistersInv'
  <2>1. sn \in Sock /\ \E named \in 0 .. 7 : Raise(Sn_IR(sn), named)
    BY <1>2 DEF SendOutcome, Sn_IR_SENDOK, Sn_IR_TIMEOUT, RegistersInv, Types
  <2> QED
    BY <1>2, <2>1, RegisterSn_IR, RaiseStep
<1> QED
  BY <1>1, <1>2

LEMMA OpenDatagramsStep ==
  ASSUME RegistersInv, NEW s \in Sock, NEW protocol \in Protocol, NEW port \in [1 .. 2 -> Byte],
         OpenDatagrams(s, protocol, port)
  PROVE  RegistersInv'
<1> USE DEF RegistersInv
<1> DEFINE a == Put(chip, Sn_IR(s), <<{}>>)
<1> DEFINE b == Put(a, Sn_MR(s), <<Sn_MR_Value(protocol)>>)
<1> DEFINE c == Put(b, Sn_SR(s), <<Sn_SR_Value(protocol)>>)
<1>1. /\ chip' = Put(c, Sn_PORT(s), port)
      /\ asked' = [asked EXCEPT ![Sn_PORT(s)] = port]
      /\ raised' = [raised EXCEPT ![Sn_IR(s)] = {}]
      /\ UNCHANGED <<_DNS_, _DHCP_, phase, sn, taddr, info, mask, mode>>
  BY DEF OpenDatagrams
<1>2. {} \in Byte /\ Sn_MR_Value(protocol) \in Byte /\ Sn_SR_Value(protocol) \in Byte
  BY BitsAreBytes DEF Byte, Sn_MR_Value, Sn_SR_Value, Protocol
<1>3. \A r \in OfStatus(s) : r \in Register /\ r.width = 1 /\ r \notin Setting \cup Plain
  BY InTheMap, PlainWidths, StatusDiffers, SettingsDiffer
<1>4. Sn_IR(s) \in OfStatus(s) /\ Sn_MR(s) \in OfStatus(s) /\ Sn_SR(s) \in OfStatus(s)
  BY DEF OfStatus
<1>5. Sn_PORT(s) \in Setting /\ Sn_PORT(s).width = 2
  BY InTheMap DEF OtherSettings, Sn_PORT, At
<1>6. Sn_PORT(s) \in Register /\ Sn_PORT(s) \notin Plain \cup Flagged
  BY <1>5, InTheMap, SettingsDiffer, FlaggedAre
<1>7. a \in Memory /\ Keeps(chip, a, {Sn_IR(s)})
  BY <1>2, <1>3, <1>4, OneByte DEF Types
<1> HIDE DEF a
<1>8. b \in Memory /\ Keeps(a, b, {Sn_MR(s)})
  BY <1>2, <1>3, <1>4, <1>7, OneByte
<1> HIDE DEF b
<1>9. c \in Memory /\ Keeps(b, c, {Sn_SR(s)})
  BY <1>2, <1>3, <1>4, <1>8, OneByte
<1> HIDE DEF c
<1>10. port \in Bytes(Sn_PORT(s))
  BY <1>5 DEF Bytes
<1>11. chip' \in Memory /\ In(chip', Sn_PORT(s)) = port /\ Keeps(c, chip', {Sn_PORT(s)})
  BY <1>1, <1>6, <1>9, <1>10, WritingKeeps
<1> DEFINE S == OfStatus(s) \cup {Sn_PORT(s)}
<1>12. Keeps(chip, chip', S)
  BY <1>4, <1>7, <1>8, <1>9, <1>11 DEF Keeps
<1>13. S \cap (Addresses4 \cup SingleBytes) = {} /\ S \cap Setting = {Sn_PORT(s)} /\ S \cap Flagged \subseteq {Sn_IR(s)}
  <2>1. S \cap Plain = {} /\ S \cap Setting = {Sn_PORT(s)}
    BY <1>3, <1>5, <1>6
  <2>2. OfStatus(s) \cap Flagged \subseteq {Sn_IR(s)}
    BY <1>3, StatusDiffers DEF Flagged, Plain, SingleBytes
  <2> QED
    BY <2>1, <2>2, <1>6 DEF Plain, SingleBytes
<1> HIDE DEF S
<1>14. Types'
  BY <1>1, <1>11 DEF Types
<1>15. AddressesKept'
  BY <1>1, <1>12, <1>13, AddressesStay
<1>16. OptionsKept'
  BY <1>1, <1>11, <1>12, <1>13, InTheMap DEF OptionsKept, Keeps
<1>17. ModesKept'
  BY <1>1, <1>12, <1>13, ModesStay
<1>18. FlagsInv'
  BY <1>1, <1>12, <1>13, FlaggedAre DEF FlagsInv, Keeps
<1> QED
  BY <1>14, <1>15, <1>16, <1>17, <1>18

\* What sendto() has done when the peer is in the registers of the socket.
LEMMA PeerIsSet ==
  ASSUME RegistersInv, NEW s \in Sock, NEW addr \in [1 .. 4 -> Byte], NEW port \in [1 .. 2 -> Byte]
  PROVE  /\ WithPeer(s, addr, port) \in Memory
         /\ Keeps(chip, WithPeer(s, addr, port), {Sn_DIPR(s), Sn_DPORT(s)})
         /\ Sn_DIPR(s) \in Setting /\ Sn_DPORT(s) \in Setting /\ Sn_DIPR(s) # Sn_DPORT(s)
         /\ In(WithPeer(s, addr, port), Sn_DIPR(s)) = addr /\ In(WithPeer(s, addr, port), Sn_DPORT(s)) = port
         /\ \A r \in {Sn_DIPR(s), Sn_DPORT(s)} : r \notin Plain \cup Flagged
<1> USE DEF RegistersInv
<1> DEFINE m == WithPeer(s, addr, port)
<1> DEFINE a == Put(chip, Sn_DIPR(s), addr)
<1>1. WIZCHIP_SREG_BLOCK(s) \in Nat
  BY SocketsAreNumbers DEF WIZCHIP_SREG_BLOCK
<1>2. Sn_DIPR(s) \in Setting /\ Sn_DPORT(s) \in Setting /\ Sn_DIPR(s) # Sn_DPORT(s)
      /\ Sn_DIPR(s).width = 4 /\ Sn_DPORT(s).width = 2
  BY <1>1, InTheMap DEF Options, Sn_DIPR, Sn_DPORT, At
<1>3. /\ Sn_DIPR(s) \in Register /\ Sn_DPORT(s) \in Register
      /\ \A r \in {Sn_DIPR(s), Sn_DPORT(s)} : r \notin Plain \cup Flagged
  BY <1>2, InTheMap, SettingsDiffer, FlaggedAre
<1>4. addr \in Bytes(Sn_DIPR(s)) /\ port \in Bytes(Sn_DPORT(s))
  BY <1>2 DEF Bytes
<1>5. a \in Memory /\ In(a, Sn_DIPR(s)) = addr /\ Keeps(chip, a, {Sn_DIPR(s)})
  <2>1. chip \in Memory
    BY DEF Types
  <2>2. Sn_DIPR(s) \in Register
    BY <1>3
  <2> QED
    BY <2>1, <2>2, <1>4, WritingKeeps
<1>6. m = Put(a, Sn_DPORT(s), port)
  BY DEF WithPeer
<1> HIDE DEF a, m
<1>7. m \in Memory /\ In(m, Sn_DPORT(s)) = port /\ Keeps(a, m, {Sn_DPORT(s)})
  <2>1. Sn_DPORT(s) \in Register /\ a \in Memory /\ port \in Bytes(Sn_DPORT(s))
    BY <1>3, <1>4, <1>5
  <2> QED
    BY <2>1, <1>6, WritingKeeps
<1>8. Keeps(chip, m, {Sn_DIPR(s), Sn_DPORT(s)})
  BY <1>5, <1>7 DEF Keeps
<1>9. In(m, Sn_DIPR(s)) = addr
  BY <1>2, <1>3, <1>5, <1>7 DEF Keeps
<1> QED
  BY <1>2, <1>3, <1>7, <1>8, <1>9 DEF m

LEMMA SendToGivesUpStep ==
  ASSUME RegistersInv, NEW s \in Sock, NEW addr \in [1 .. 4 -> Byte], NEW port \in [1 .. 2 -> Byte],
         SendToGivesUp(s, addr, port)
  PROVE  RegistersInv'
<1> USE DEF RegistersInv
<1> DEFINE m == WithPeer(s, addr, port)
<1> DEFINE S == {Sn_DIPR(s), Sn_DPORT(s)}
<1>1. /\ asked' = [asked EXCEPT ![Sn_DIPR(s)] = addr, ![Sn_DPORT(s)] = port]
      /\ chip' = m /\ UNCHANGED <<_DNS_, _DHCP_, phase, sn, taddr, info, mask, mode, raised>>
  BY DEF SendToGivesUp, SendToPeer
<1> HIDE DEF m
<1>2. /\ chip' \in Memory /\ Keeps(chip, chip', S) /\ \A r \in S : r \notin Plain \cup Flagged
      /\ OptionsKept'
  <2>1. asked' = [asked EXCEPT ![Sn_DIPR(s)] = addr, ![Sn_DPORT(s)] = port]
    BY <1>1
  <2>2. /\ m \in Memory /\ Keeps(chip, m, S) /\ \A r \in S : r \notin Plain \cup Flagged
        /\ Sn_DIPR(s) \in Setting /\ Sn_DPORT(s) \in Setting /\ Sn_DIPR(s) # Sn_DPORT(s)
        /\ In(m, Sn_DIPR(s)) = addr /\ In(m, Sn_DPORT(s)) = port
    BY PeerIsSet DEF m
  <2>3. DOMAIN asked' = Setting /\ \A r \in Setting : asked'[r] = In(m, r)
    BY <2>1, <2>2, InTheMap DEF OptionsKept, Keeps
  <2> QED
    BY <1>1, <2>2, <2>3 DEF OptionsKept
<1>3. S \cap (Addresses4 \cup SingleBytes \cup Flagged) = {}
  BY <1>2 DEF Plain, SingleBytes
<1> HIDE DEF S
<1>4. Types'
  BY <1>1, <1>2 DEF Types, RegistersInv
<1>5. AddressesKept'
  BY <1>1, <1>2, <1>3, AddressesStay
<1>6. ModesKept'
  BY <1>1, <1>2, <1>3, ModesStay
<1>7. FlagsInv'
  BY <1>1, <1>2, <1>3, FlagsStay
<1> QED
  BY <1>2, <1>4, <1>5, <1>6, <1>7 DEF RegistersInv

\* The mask that is taken away is in taddr; one that is zero stays.
LEMMA SendToStep ==
  ASSUME RegistersInv, NEW s \in Sock, NEW addr \in [1 .. 4 -> Byte], NEW port \in [1 .. 2 -> Byte],
         SendTo(s, addr, port)
  PROVE  RegistersInv'
<1> USE DEF RegistersInv
<1> DEFINE m == WithPeer(s, addr, port)
<1>1. /\ asked' = [asked EXCEPT ![Sn_DIPR(s)] = addr, ![Sn_DPORT(s)] = port]
      /\ phase' = "sending" /\ sn' = s /\ phase = "idle"
      /\ UNCHANGED <<_DNS_, _DHCP_, info, mask, mode, raised>>
  BY DEF SendTo, SendToPeer, Call
<1>2. \/ taddr' = Get(SUBR) /\ chip' = Put(m, SUBR, Zero(SUBR))
      \/ taddr' = Zero(SUBR) /\ chip' = m
  BY DEF SendTo
<1> HIDE DEF m
<1> DEFINE S == {Sn_DIPR(s), Sn_DPORT(s)}
<1>3. /\ m \in Memory /\ Keeps(chip, m, S) /\ \A r \in S : r \notin Plain \cup Flagged
      /\ DOMAIN asked' = Setting /\ \A r \in Setting : asked'[r] = In(m, r)
  <2>1. asked' = [asked EXCEPT ![Sn_DIPR(s)] = addr, ![Sn_DPORT(s)] = port]
    BY <1>1
  <2>2. /\ m \in Memory /\ Keeps(chip, m, S) /\ \A r \in S : r \notin Plain \cup Flagged
        /\ Sn_DIPR(s) \in Setting /\ Sn_DPORT(s) \in Setting /\ Sn_DIPR(s) # Sn_DPORT(s)
        /\ In(m, Sn_DIPR(s)) = addr /\ In(m, Sn_DPORT(s)) = port
    BY PeerIsSet DEF m
  <2>3. DOMAIN asked' = Setting /\ \A r \in Setting : asked'[r] = In(m, r)
    BY <2>1, <2>2, InTheMap DEF OptionsKept, Keeps
  <2> QED
    BY <2>2, <2>3
<1>4. S \cap (Addresses4 \cup SingleBytes \cup Flagged) = {}
  BY <1>3 DEF Plain, SingleBytes
<1> HIDE DEF S
<1>5. /\ SUBR \in Register /\ SUBR.width = 4 /\ SUBR \notin Setting \cup Flagged \cup SingleBytes
      /\ SUBR # SHAR /\ SUBR # GAR /\ SUBR # SIPR /\ Addresses4 \subseteq Register
  BY InTheMap, PlainWidths, PlainDiffer, SettingsDiffer, FlaggedAre DEF Plain, SingleBytes, Addresses4
<1>6. Zero(SUBR) \in Bytes(SUBR) /\ Zero(SUBR) \in [1 .. 4 -> Byte]
  BY <1>5 DEF Zero, Bytes, Byte
<1>7. Get(SUBR) = In(chip, SUBR) /\ Get(SUBR) \in [1 .. 4 -> Byte]
  BY <1>5, Reading DEF Types, Bytes, Get, In
<1>8. taddr = Zero(SUBR) /\ info.sn = In(chip, SUBR)
  BY <1>1 DEF Types, AddressesKept
<1>9. /\ chip' \in Memory /\ Keeps(m, chip', {SUBR})
      /\ info.sn = IF taddr' = Zero(SUBR) THEN In(chip', SUBR) ELSE taddr'
  <2>1. CASE taddr' = Get(SUBR) /\ chip' = Put(m, SUBR, Zero(SUBR))
    <3>1. SUBR \in Register /\ Zero(SUBR) \in Bytes(SUBR) /\ m \in Memory
      BY <1>3, <1>5, <1>6
    <3>2. chip' \in Memory /\ In(chip', SUBR) = Zero(SUBR) /\ Keeps(m, chip', {SUBR})
      BY <2>1, <3>1, WritingKeeps
    <3> QED
      BY <3>2, <2>1, <1>7, <1>8
  <2>2. CASE taddr' = Zero(SUBR) /\ chip' = m
    <3>1. SUBR \notin S
      BY <1>4 DEF Addresses4
    <3> QED
      BY <2>2, <3>1, <1>3, <1>5, <1>8 DEF Keeps
  <2> QED
    BY <1>2, <2>1, <2>2
<1>10. Keeps(chip, chip', S \cup {SUBR})
  BY <1>3, <1>9 DEF Keeps
<1>11. Types'
  BY <1>1, <1>2, <1>6, <1>7, <1>9 DEF Types
<1>12. AddressesKept'
  <2>1. \A r \in {SHAR, GAR, SIPR} : r \in Register \ (S \cup {SUBR})
    BY <1>4, <1>5 DEF Addresses4
  <2> QED
    BY <1>1, <1>9, <1>10, <2>1 DEF AddressesKept, Keeps
<1>13. OptionsKept'
  BY <1>3, <1>5, <1>9, InTheMap DEF OptionsKept, Keeps
<1>14. ModesKept'
  BY <1>1, <1>4, <1>5, <1>10, ModesStay
<1>15. FlagsInv'
  BY <1>1, <1>4, <1>5, <1>10, FlagsStay
<1> QED
  BY <1>11, <1>12, <1>13, <1>14, <1>15

\* After either outcome the mask is back, and only the flag of the outcome is cleared.
LEMMA SendToReturnsStep ==
  ASSUME RegistersInv, NEW named, SendToReturns(named, MaskPutBack)
  PROVE  RegistersInv'
<1> USE DEF RegistersInv
<1> DEFINE m == MaskPutBack
<1> DEFINE r == Sn_IR(sn)
<1> DEFINE b == m[r.address] \ {named}
<1>1. /\ phase' = "idle" /\ chip' = Put(m, r, <<b>>)
      /\ raised' = [raised EXCEPT ![r] = raised[r] \ {named}]
      /\ taddr' = Zero(SUBR) /\ UNCHANGED <<_DNS_, _DHCP_, sn, asked, info, mask, mode>>
  BY DEF SendToReturns, Clear
<1>2. sn \in Sock /\ taddr \in [1 .. 4 -> Byte] /\ chip \in Memory
  BY DEF Types
<1>3. r \in Register /\ r.width = 1 /\ r \in Flagged /\ r \notin Addresses4 \cup Setting \cup SingleBytes
  BY <1>2, RegisterSn_IR
<1>4. /\ SUBR \in Register /\ SUBR.width = 4 /\ SUBR \notin Setting \cup Flagged \cup SingleBytes
      /\ SUBR # SHAR /\ SUBR # GAR /\ SUBR # SIPR /\ Addresses4 \subseteq Register /\ SUBR \in Addresses4
  BY InTheMap, PlainWidths, PlainDiffer, SettingsDiffer, FlaggedAre DEF Plain, SingleBytes, Addresses4
<1>5. m \in Memory /\ Keeps(chip, m, {SUBR}) /\ info.sn = In(m, SUBR)
  <2>1. CASE taddr = Zero(SUBR)
    BY <2>1, <1>2 DEF MaskPutBack, AddressesKept, Keeps
  <2>2. CASE taddr # Zero(SUBR)
    <3>1. m = Put(chip, SUBR, taddr) /\ taddr \in Bytes(SUBR)
      BY <2>2, <1>2, <1>4 DEF MaskPutBack, Bytes
    <3>2. chip \in Memory /\ SUBR \in Register
      BY <1>2, <1>4
    <3> HIDE DEF m, RegistersInv, Memory
    <3>3. m \in Memory /\ In(m, SUBR) = taddr /\ Keeps(chip, m, {SUBR})
      BY <3>1, <3>2, WritingKeeps
    <3> QED
      BY <2>2, <3>3 DEF RegistersInv, AddressesKept
  <2> QED
    BY <2>1, <2>2
<1>6. m[r.address] = chip[r.address]
  BY <1>3, <1>4, <1>5 DEF Keeps
<1> HIDE DEF m
<1>7. b \in Byte
  BY <1>3, <1>5, CellIsByte DEF Byte
<1>8. raised[r] \ {named} \subseteq b
  BY <1>3, <1>6 DEF FlagsInv
<1> HIDE DEF b, r
<1>9. chip' \in Memory /\ chip'[r.address] = b /\ Keeps(m, chip', {r})
  BY <1>1, <1>3, <1>5, <1>7, OneByte
<1>10. Keeps(chip, chip', {SUBR, r})
  BY <1>5, <1>9 DEF Keeps
<1>11. Types'
  <2>1. Zero(SUBR) \in [1 .. 4 -> Byte]
    BY <1>4 DEF Zero, Byte
  <2> QED
    BY <2>1, <1>1, <1>9 DEF Types
<1>12. AddressesKept'
  <2>1. \A q \in {SHAR, GAR, SIPR} : q \in Register \ {SUBR, r}
    BY <1>3, <1>4 DEF Addresses4
  <2>2. In(chip', SUBR) = info.sn
    BY <1>3, <1>4, <1>5, <1>9 DEF Keeps
  <2> QED
    BY <1>1, <1>10, <2>1, <2>2 DEF AddressesKept, Keeps
<1>13. OptionsKept'
  BY <1>1, <1>3, <1>4, <1>10, OptionsStay
<1>14. ModesKept'
  BY <1>1, <1>3, <1>4, <1>10, ModesStay
<1>15. FlagsInv'
  BY <1>1, <1>3, <1>4, <1>8, <1>9, <1>10, FlaggedAre DEF FlagsInv, Keeps
<1> QED
  BY <1>11, <1>12, <1>13, <1>14, <1>15

LEMMA NextKeeps == RegistersInv /\ [RegistersNext]_registerVars => RegistersInv'
<1> SUFFICES ASSUME RegistersInv, [RegistersNext]_registerVars PROVE RegistersInv'
  OBVIOUS
<1>1. Contents \subseteq Patterns
  BY PatternsAssumption
<1>2. \A p \in Patterns : First(p, 1) \in [1 .. 1 -> Byte] /\ First(p, 2) \in [1 .. 2 -> Byte] /\ First(p, 4) \in [1 .. 4 -> Byte]
  BY Sequences6
<1>3. CASE Reset
  BY <1>3, ResetStep
<1>4. ASSUME NEW tx \in SizeChoices, NEW rx \in SizeChoices, WizchipInit(tx, rx) PROVE RegistersInv'
  BY <1>4, WizchipInitStep
<1>5. ASSUME NEW p \in Patterns, NEW q \in Patterns, SetNetInfo(InfoOf(p, q)) PROVE RegistersInv'
  BY <1>5, InfoTyped, SetNetInfoStep
<1>6. ASSUME NEW p \in Contents, NEW q \in Contents, SetTimeout(First(p, 1), First(q, 2)) PROVE RegistersInv'
  BY <1>1, <1>2, <1>6, SetTimeoutStep
<1>7. ASSUME NEW m, SetNetMode(m) PROVE RegistersInv'
  BY <1>7, SetNetModeStep
<1>8. ASSUME NEW k \in {{5}, {7, 8}, {10}}, SetInterruptMask(k) \/ ClearInterrupt(k) PROVE RegistersInv'
  <2>1. k \in SUBSET Kind
    BY DEF Kind
  <2> QED
    BY <1>8, <2>1, SetInterruptMaskStep, ClearInterruptStep
<1>9. ASSUME NEW r \in Setting, NEW p \in Contents, SetOption(r, First(p, r.width)) PROVE RegistersInv'
  <2>1. r.width \in 1 .. 6
    BY InTheMap, Widths
  <2>2. First(p, r.width) \in Bytes(r)
    BY <1>1, <2>1, Sequences6 DEF Bytes
  <2> QED
    BY <1>9, <2>2, SetOptionStep
<1>10. ASSUME NEW s \in Sock, NEW p \in Patterns, NEW q \in Patterns,
              \/ \E protocol \in Protocol : OpenDatagrams(s, protocol, First(p, 2))
              \/ SendToGivesUp(s, First(p, 4), First(q, 2))
              \/ SendTo(s, First(p, 4), First(q, 2))
       PROVE  RegistersInv'
  BY <1>2, <1>10, OpenDatagramsStep, SendToGivesUpStep, SendToStep
<1>11. ASSUME NEW s \in Sock, ClearSnInterrupt(s, {Sn_IR_TIMEOUT}) PROVE RegistersInv'
  BY <1>11, ClearSnInterruptStep
<1>12. CASE SendToSent \/ SendToTimesOut
  BY <1>12, SendToReturnsStep DEF SendToSent, SendToTimesOut
<1>13. CASE ChipFlags \/ SendOutcome
  BY <1>13, ChipStep
<1>14. CASE UNCHANGED registerVars
  BY <1>14 DEF registerVars, history, RegistersInv, Types, AddressesKept, OptionsKept, ModesKept, FlagsInv, Flags, GetInterruptMask
<1> QED
  BY <1>3, <1>4, <1>5, <1>6, <1>7, <1>8, <1>9, <1>10, <1>11, <1>12, <1>13, <1>14 DEF RegistersNext

LEMMA AlwaysRegisters == RegistersSpec => []RegistersInv
BY Starts, NextKeeps, PTL DEF RegistersSpec

-----------------------------------------------------------------------------
(* The theorems.                                                           *)

\* A call counts once; what is not a call leaves the count alone.
LEMMA CallsBounded ==
  calls \in 0 .. MaxCalls /\ [RegistersNext]_registerVars => (calls \in 0 .. MaxCalls)'
<1> SUFFICES ASSUME calls \in 0 .. MaxCalls, [RegistersNext]_registerVars
             PROVE  calls' = calls \/ Call
  BY CallsAssumption DEF Call
<1>1. CASE \/ Reset \/ \E tx, rx \in SizeChoices : WizchipInit(tx, rx)
           \/ \E p, q \in Patterns : SetNetInfo(InfoOf(p, q))
  BY <1>1 DEF Reset, WizchipInit, SetNetInfo
<1>2. CASE \/ \E p, q \in Contents : SetTimeout(First(p, 1), First(q, 2))
           \/ \E m \in {{3}, {4, 5}} : SetNetMode(m)
           \/ \E k \in {{5}, {7, 8}, {10}} : SetInterruptMask(k) \/ ClearInterrupt(k)
  BY <1>2 DEF SetTimeout, SetNetMode, SetInterruptMask, ClearInterrupt
<1>3. CASE \/ \E r \in Setting : \E p \in Contents : SetOption(r, First(p, r.width))
           \/ \E s \in Sock : ClearSnInterrupt(s, {Sn_IR_TIMEOUT})
  BY <1>3 DEF SetOption, ClearSnInterrupt
<1>4. ASSUME NEW s \in Sock, NEW p \in Patterns, NEW q \in Patterns,
             \/ \E protocol \in Protocol : OpenDatagrams(s, protocol, First(p, 2))
             \/ SendToGivesUp(s, First(p, 4), First(q, 2))
             \/ SendTo(s, First(p, 4), First(q, 2))
      PROVE  Call
  BY <1>4 DEF OpenDatagrams, SendToGivesUp, SendTo, SendToPeer
<1>5. CASE SendToSent \/ SendToTimesOut
  BY <1>5 DEF SendToSent, SendToTimesOut, SendToReturns
<1>6. CASE ChipFlags \/ SendOutcome
  BY <1>6 DEF ChipFlags, SendOutcome, Raise
<1>7. CASE UNCHANGED registerVars
  BY <1>7 DEF registerVars, history
<1> QED
  BY <1>1, <1>2, <1>3, <1>4, <1>5, <1>6, <1>7 DEF RegistersNext

\* The bytes of the map, the settings, the masks and sendto() in progress keep
\* their types, and no call is made beyond the bound.
THEOREM RegistersTypeCorrect == RegistersSpec => []RegistersTypeOK
<1>1. RegistersInit => calls \in 0 .. MaxCalls
  BY CallsAssumption DEF RegistersInit
<1>2. RegistersInv /\ calls \in 0 .. MaxCalls => RegistersTypeOK
  <2> SUFFICES ASSUME RegistersInv, calls \in 0 .. MaxCalls PROVE RegistersTypeOK
    OBVIOUS
  <2>1. chip \in [Address -> Byte]
    BY DEF RegistersInv, Types
  <2>2. /\ _DNS_ \in [1 .. 4 -> Byte] /\ _DHCP_ \in {"none", "static"}
        /\ phase \in {"idle", "sending"} /\ sn \in Sock /\ taddr \in [1 .. 4 -> Byte]
    BY DEF RegistersInv, Types, AddressesKept, NetInfoType
  <2>3. ASSUME NEW r \in Setting PROVE asked[r] \in [1 .. r.width -> Byte]
    <3>1. r \in Register /\ asked[r] = In(chip, r)
      BY DEF RegistersInv, OptionsKept, Register
    <3> QED
      BY <2>1, <3>1, Reading DEF Bytes
  <2>4. mask \subseteq Kind
    BY DEF RegistersInv, ModesKept
  <2>5. mode \in Byte
    <3>1. MR \in Register
      BY DEF Register
    <3> QED
      BY <2>1, <3>1, CellIsByte DEF RegistersInv, ModesKept, Flags
  <2> QED
    BY <2>1, <2>2, <2>3, <2>4, <2>5 DEF RegistersTypeOK
<1> QED
  BY <1>1, <1>2, CallsBounded, AlwaysRegisters, PTL DEF RegistersSpec

\* Between calls every setting reads back as it was set, through resets
\* (wizchip_sw_reset puts the addresses back) and sendto() (both ways out put
\* the subnet mask back), and the interrupt kinds come back from one byte.
THEOREM SettingsAreKept == RegistersSpec => []SettingsHold
<1>1. RegistersInv => SettingsHold
  <2> SUFFICES ASSUME RegistersInv, phase = "idle"
               PROVE  /\ NetInfo = info
                      /\ \A r \in Setting : Get(r) = asked[r]
                      /\ Flags(MR) = mode
                      /\ GetInterruptMask \cap Kind = mask
    BY DEF SettingsHold
  <2>1. \A r : Get(r) = In(chip, r)
    BY DEF Get, In
  <2>2. NetInfo = info
    <3>1. info = [mac |-> info.mac, gw |-> info.gw, sn |-> info.sn, ip |-> info.ip, dns |-> info.dns, dhcp |-> info.dhcp]
      BY DEF RegistersInv, Types, NetInfoType
    <3> QED
      BY <2>1, <3>1 DEF RegistersInv, Types, AddressesKept, NetInfo
  <2> QED
    BY <2>1, <2>2 DEF RegistersInv, OptionsKept, ModesKept
<1> QED
  BY <1>1, AlwaysRegisters, PTL

\* setIR and setSn_IR clear only the flags that their callers name.
THEOREM FlagsAreKept == RegistersSpec => []FlagsKept
<1>1. RegistersInv => FlagsKept
  BY DEF RegistersInv, FlagsInv, FlagsKept, Flags
<1> QED
  BY <1>1, AlwaysRegisters, PTL

\* The rings fit into the memory of the chip, whatever wizchip_init was given
\* and wherever it stopped, and 2 KB for each socket after any reset.
THEOREM RingsFitAlways == RegistersSpec => []RingsFit
<1>1. RegistersInv => RingsFit
  <2> SUFFICES ASSUME RegistersInv, NEW r \in {TMSR, RMSR}
               PROVE  MapThenSumSet(LAMBDA s : RingSize(r, s), Sock) <= BufferMemory
    BY DEF RingsFit
  <2>1. Fitting(SizesIn(Flags(r)))
    BY DEF RegistersInv, ModesKept, Flags
  <2> QED
    BY <2>1, RingsAre
<1> QED
  BY <1>1, AlwaysRegisters, PTL

=============================================================================
