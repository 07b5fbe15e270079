----------------------------- MODULE WizRegisters -----------------------------
(***************************************************************************)
(* The register map of the W5100 (w5100.h) and the calls that configure    *)
(* the chip through it: wizchip_conf.c, the options of socket.c, and       *)
(* sendto(), which takes the subnet mask away while it sends.  A byte is   *)
(* the set of its bits, a register a run of bytes, high byte first.        *)
(***************************************************************************)
EXTENDS Integers, Sequences, FiniteSetsExt

CONSTANTS
  Socks,         \* number of sockets
  BufferMemory,  \* KB of transmit memory, and of receive memory: 8
  Patterns,      \* what addresses and ports are made of: sequences of six bytes
  Contents,      \* the patterns given to the other registers
  SizeChoices,   \* the buffer sizes given to wizchip_init, a KB count for each socket
  MaxCalls       \* bound: calls that configure the chip

Sock == 0 .. Socks - 1
Byte == SUBSET (0 .. 7)

ASSUME SocksAssumption == Socks \in Nat \ {0} /\ BufferMemory \in Nat /\ 2 * Socks <= BufferMemory
ASSUME PatternsAssumption == Patterns \subseteq [1 .. 6 -> Byte] /\ Contents \subseteq Patterns
ASSUME CallsAssumption == MaxCalls \in Nat
\* Left out are a size 0, of which wizchip_init takes the bits of 1 KB, or for
\* receiving only never returns, and sizes above 127, which turn its int8_t sum
\* negative (wizchip_conf.c:447) and would pass.
ASSUME SizesAssumption == SizeChoices \subseteq [Sock -> 1 .. BufferMemory]

Bits(n) == {k \in 0 .. 7 : (n \div 2^k) % 2 = 1}

-----------------------------------------------------------------------------
(* The register map.                                                       *)

At(address, width) == [address |-> address, width |-> width]

MR == At(\h0, 1)
GAR == At(\h1, 4)
SUBR == At(\h5, 4)
SHAR == At(\h9, 6)
SIPR == At(\hF, 4)
IR == At(\h15, 1)
IMR == At(\h16, 1)
RTR == At(\h17, 2)
RCR == At(\h19, 1)
RMSR == At(\h1A, 1)
TMSR == At(\h1B, 1)
PTIMER == At(\h28, 1)
PMAGIC == At(\h29, 1)

WIZCHIP_SREG_BLOCK(sn) == \h400 + \h100 * sn

Sn_MR(sn) == At(WIZCHIP_SREG_BLOCK(sn) + \h0, 1)
Sn_IR(sn) == At(WIZCHIP_SREG_BLOCK(sn) + \h2, 1)
Sn_SR(sn) == At(WIZCHIP_SREG_BLOCK(sn) + \h3, 1)
Sn_PORT(sn) == At(WIZCHIP_SREG_BLOCK(sn) + \h4, 2)
Sn_DHAR(sn) == At(WIZCHIP_SREG_BLOCK(sn) + \h6, 6)
Sn_DIPR(sn) == At(WIZCHIP_SREG_BLOCK(sn) + \hC, 4)
Sn_DPORT(sn) == At(WIZCHIP_SREG_BLOCK(sn) + \h10, 2)
Sn_MSSR(sn) == At(WIZCHIP_SREG_BLOCK(sn) + \h12, 2)
Sn_TOS(sn) == At(WIZCHIP_SREG_BLOCK(sn) + \h15, 1)
Sn_TTL(sn) == At(WIZCHIP_SREG_BLOCK(sn) + \h16, 1)
Sn_TX_WR(sn) == At(WIZCHIP_SREG_BLOCK(sn) + \h24, 2)
Sn_RX_RD(sn) == At(WIZCHIP_SREG_BLOCK(sn) + \h28, 2)

\* The registers in which the program's settings stay.
Common == {RTR, RCR, PTIMER, PMAGIC}
Options(sn) == {Sn_TTL(sn), Sn_TOS(sn), Sn_MSSR(sn), Sn_DIPR(sn), Sn_DPORT(sn)}
OtherSettings(sn) == {Sn_PORT(sn), Sn_DHAR(sn), Sn_TX_WR(sn), Sn_RX_RD(sn)}
Setting == Common \cup UNION {Options(sn) \cup OtherSettings(sn) : sn \in Sock}

Register ==
  Setting \cup {MR, GAR, SUBR, SHAR, SIPR, IR, IMR, RMSR, TMSR}
          \cup UNION {{Sn_MR(sn), Sn_IR(sn), Sn_SR(sn)} : sn \in Sock}

Cells(r) == r.address .. r.address + r.width - 1

Address == UNION {Cells(r) : r \in Register}

VARIABLES
  chip,    \* the bytes of the registers
  _DNS_, _DHCP_,
  phase, sn, taddr,  \* sendto() in progress: its socket, the mask it has taken away
  asked,   \* history: what each register was last set to
  info, mask, mode,  \* history: what was given to ctlnetwork and ctlwizchip
  raised,  \* history: the flags raised and not cleared by name
  calls    \* calls so far

history == <<asked, info, mask, mode, raised, calls>>
registerVars == <<chip, _DNS_, _DHCP_, phase, sn, taddr, history>>

-----------------------------------------------------------------------------
(* Reading and writing registers.                                          *)

Get(r) == [i \in 1 .. r.width |-> chip[r.address + i - 1]]

Put(memory, r, bytes) ==
  [a \in DOMAIN memory |->
     IF a \in Cells(r) THEN bytes[a - r.address + 1] ELSE memory[a]]

\* The bits of a register of one byte.
Flags(r) == chip[r.address]

Zero(r) == [i \in 1 .. r.width |-> {}]

First(p, n) == SubSeq(p, 1, n)

\* IR and Sn_IR: a one that is written clears the flag.
Clear(memory, r, flags) == Put(memory, r, <<memory[r.address] \ flags>>)

\* The contents after a reset.
ResetValue(r) ==
  CASE r = RTR -> <<Bits(\h07), Bits(\hD0)>>
    [] r = RCR -> <<Bits(8)>>
    [] r \in {RMSR, TMSR} -> <<Bits(\h55)>>
    [] OTHER -> Zero(r)

ResetMemory ==
  [a \in Address |->
     LET r == CHOOSE r \in Register : a \in Cells(r)
     IN  ResetValue(r)[a - r.address + 1]]

-----------------------------------------------------------------------------
(* Buffer sizes: two bits for each socket in RMSR and TMSR.                *)

Field(r, s) == {k \in 0 .. 1 : 2 * s + k \in Flags(r)}

\* getSn_RxMAX, getSn_TxMAX in KB.
RingSize(r, s) == 2 ^ ((IF 0 \in Field(r, s) THEN 1 ELSE 0) + (IF 1 \in Field(r, s) THEN 2 ELSE 0))

HighestBit(size) == CHOOSE j \in 0 .. 7 : size \div 2^j = 1

\* setSn_TXBUF_SIZE or setSn_RXBUF_SIZE for every socket.
WithSizes(memory, r, sizes) ==
  Put(memory, r,
      <<{b \in 0 .. 7 : IF b \div 2 \in Sock
                        THEN b % 2 \in Bits(HighestBit(sizes[b \div 2]))
                        ELSE b \in memory[r.address]}>>)

\* Mutant: only the size of each ring is looked at.
FitsEach(sizes) == \A s \in Sock : sizes[s] <= BufferMemory

Fits(sizes) == MapThenSumSet(LAMBDA s : sizes[s], Sock) <= BufferMemory

-----------------------------------------------------------------------------
(* wizchip_conf.c                                                          *)

NetInfo ==
  [mac |-> Get(SHAR), gw |-> Get(GAR), sn |-> Get(SUBR), ip |-> Get(SIPR),
   dns |-> _DNS_, dhcp |-> _DHCP_]

WithNetInfo(memory, i) ==
  Put(Put(Put(Put(memory, SHAR, i.mac), GAR, i.gw), SUBR, i.sn), SIPR, i.ip)

\* wizchip_sw_reset: the addresses are saved and set again.
SoftReset == WithNetInfo(ResetMemory, NetInfo)

Call ==
  /\ phase = "idle" /\ calls < MaxCalls
  /\ calls' = calls + 1

Sets(r, bytes) ==
  /\ chip' = Put(chip, r, bytes)
  /\ asked' = [asked EXCEPT ![r] = bytes]

ForgetsSettings ==
  /\ asked' = [r \in Setting |-> ResetValue(r)]
  /\ mask' = {} /\ mode' = {}
  /\ raised' = [r \in DOMAIN raised |-> {}]
  /\ UNCHANGED <<_DNS_, _DHCP_, phase, sn, taddr, info>>

\* CW_RESET_WIZCHIP, or CW_INIT_WIZCHIP without sizes.
Reset == Call /\ chip' = SoftReset /\ ForgetsSettings

WizchipInit(txsize, rxsize) ==
  LET withTx == IF Fits(txsize) THEN WithSizes(SoftReset, TMSR, txsize) ELSE SoftReset
  IN  /\ Call
      /\ chip' = IF Fits(txsize) /\ Fits(rxsize) THEN WithSizes(withTx, RMSR, rxsize) ELSE withTx
      /\ ForgetsSettings

SetNetInfo(i) ==
  /\ Call
  /\ chip' = WithNetInfo(chip, i)
  /\ _DNS_' = i.dns /\ _DHCP_' = i.dhcp
  /\ info' = i
  /\ UNCHANGED <<phase, sn, taddr, asked, mask, mode, raised>>

SetTimeout(retry_cnt, time_100us) ==
  /\ Call
  /\ chip' = Put(Put(chip, RCR, retry_cnt), RTR, time_100us)
  /\ asked' = [asked EXCEPT ![RCR] = retry_cnt, ![RTR] = time_100us]
  /\ UNCHANGED <<_DNS_, _DHCP_, phase, sn, taddr, info, mask, mode, raised>>

\* The bits of NM_PPPOE, NM_PINGBLOCK and NM_WAKEONLAN; other bits are refused.
SetNetMode(netmode) ==
  /\ netmode \subseteq {3, 4, 5}
  /\ Call
  /\ chip' = Put(chip, MR, <<Flags(MR) \cup netmode>>)
  /\ mode' = mode \cup netmode
  /\ UNCHANGED <<_DNS_, _DHCP_, phase, sn, taddr, asked, info, mask, raised>>

\* intr_kind: the low byte for the chip, the high byte for the sockets.
Kind == (5 .. 7) \cup (8 .. 11)

Packed(kinds) == (kinds \cap 0 .. 7) \cup {k - 8 : k \in kinds \cap 8 .. 11}

SetInterruptMask(kinds) ==
  /\ Call
  /\ chip' = Put(chip, IMR, <<Packed(kinds) \ {4}>>)
  /\ mask' = kinds
  /\ UNCHANGED <<_DNS_, _DHCP_, phase, sn, taddr, asked, info, mode, raised>>

\* The low four bits appear in both halves.
GetInterruptMask == (Flags(IMR) \ {4}) \cup {k + 8 : k \in Flags(IMR) \cap 0 .. 3}

\* wizchip_clrinterrupt; setIR lets two bits through.
ClearInterrupt(kinds) ==
  /\ Call
  /\ chip' = Clear(chip, IR, (Packed(kinds) \cup {4}) \cap Bits(\hA0))
  /\ raised' = [raised EXCEPT ![IR] = @ \ Packed(kinds)]
  /\ UNCHANGED <<_DNS_, _DHCP_, phase, sn, taddr, asked, info, mask, mode>>

-----------------------------------------------------------------------------
(* Sockets: ports and options, CS_CLR_INTERRUPT, sendto().                 *)

Protocol == {"UDP", "IPRAW", "MACRAW"}

Sn_MR_Value(protocol) ==
  CASE protocol = "UDP" -> Bits(\h02) [] protocol = "IPRAW" -> Bits(\h03) [] protocol = "MACRAW" -> Bits(\h04)

Sn_SR_Value(protocol) ==
  CASE protocol = "UDP" -> Bits(\h22) [] protocol = "IPRAW" -> Bits(\h32) [] protocol = "MACRAW" -> Bits(\h42)

\* socket() for datagrams; the close() in it clears every flag of the socket.
OpenDatagrams(s, protocol, port) ==
  /\ Call
  /\ port # Zero(Sn_PORT(s))
  /\ chip' = Put(Put(Put(Put(chip, Sn_IR(s), <<{}>>), Sn_MR(s), <<Sn_MR_Value(protocol)>>),
                     Sn_SR(s), <<Sn_SR_Value(protocol)>>), Sn_PORT(s), port)
  /\ asked' = [asked EXCEPT ![Sn_PORT(s)] = port]
  /\ raised' = [raised EXCEPT ![Sn_IR(s)] = {}]
  /\ UNCHANGED <<_DNS_, _DHCP_, phase, sn, taddr, info, mask, mode>>

\* setsockopt(), and the accessors of registers that no call sets.
SetOption(r, bytes) ==
  /\ Call
  /\ Sets(r, bytes)
  /\ UNCHANGED <<_DNS_, _DHCP_, phase, sn, taddr, info, mask, mode, raised>>

ClearSnInterrupt(s, flags) ==
  /\ Call
  /\ chip' = Clear(chip, Sn_IR(s), flags)
  /\ raised' = [raised EXCEPT ![Sn_IR(s)] = @ \ flags]
  /\ UNCHANGED <<_DNS_, _DHCP_, phase, sn, taddr, asked, info, mask, mode>>

IsMacraw(s) == Bits(\h04) \subseteq Flags(Sn_MR(s))

\* The checks of sendto(), and the peer's address in the registers.
SendToPeer(s, addr, port) ==
  /\ Call
  /\ Flags(Sn_SR(s)) \in {Sn_SR_Value(p) : p \in Protocol}
  /\ addr # Zero(Sn_DIPR(s)) \/ IsMacraw(s)
  /\ port # Zero(Sn_DPORT(s)) \/ IsMacraw(s)
  /\ asked' = [asked EXCEPT ![Sn_DIPR(s)] = addr, ![Sn_DPORT(s)] = port]
  /\ UNCHANGED <<_DNS_, _DHCP_, info, mask, mode, raised>>

WithPeer(s, addr, port) == Put(Put(chip, Sn_DIPR(s), addr), Sn_DPORT(s), port)

\* No room, or closed: SOCK_BUSY, SOCKERR_SOCKCLOSED.
SendToGivesUp(s, addr, port) ==
  /\ SendToPeer(s, addr, port)
  /\ chip' = WithPeer(s, addr, port)
  /\ UNCHANGED <<phase, sn, taddr>>

\* Without an address of its own the chip sends with a subnet mask of zero.
SendTo(s, addr, port) ==
  /\ SendToPeer(s, addr, port)
  /\ phase' = "sending" /\ sn' = s
  /\ IF Get(SIPR) = Zero(SIPR)
     THEN taddr' = Get(SUBR) /\ chip' = Put(WithPeer(s, addr, port), SUBR, Zero(SUBR))
     ELSE taddr' = Zero(SUBR) /\ chip' = WithPeer(s, addr, port)

Sn_IR_SENDOK == 4
Sn_IR_TIMEOUT == 3

\* Mutant: every flag of the socket is cleared.
SendToReturnsAll(flag, memory) ==
  /\ phase = "sending" /\ phase' = "idle"
  /\ flag \in Flags(Sn_IR(sn))
  /\ chip' = Clear(memory, Sn_IR(sn), 0 .. 7)
  /\ raised' = [raised EXCEPT ![Sn_IR(sn)] = @ \ {flag}]
  /\ taddr' = Zero(SUBR)
  /\ UNCHANGED <<_DNS_, _DHCP_, sn, asked, info, mask, mode, calls>>

SendToReturns(flag, memory) ==
  /\ phase = "sending" /\ phase' = "idle"
  /\ flag \in Flags(Sn_IR(sn))
  /\ chip' = Clear(memory, Sn_IR(sn), {flag})
  /\ raised' = [raised EXCEPT ![Sn_IR(sn)] = @ \ {flag}]
  /\ taddr' = Zero(SUBR)
  /\ UNCHANGED <<_DNS_, _DHCP_, sn, asked, info, mask, mode, calls>>

MaskPutBack == IF taddr # Zero(SUBR) THEN Put(chip, SUBR, taddr) ELSE chip

SendToSent == SendToReturns(Sn_IR_SENDOK, MaskPutBack)

\* Mutant: the mask comes back after a success only.
SendToTimesOutBare ==
  /\ Sn_IR_SENDOK \notin Flags(Sn_IR(sn))
  /\ SendToReturns(Sn_IR_TIMEOUT, chip)

SendToTimesOut ==
  /\ Sn_IR_SENDOK \notin Flags(Sn_IR(sn))
  /\ SendToReturns(Sn_IR_TIMEOUT, MaskPutBack)

-----------------------------------------------------------------------------
(* The chip raises flags.                                                  *)

Raise(r, flag) ==
  /\ flag \notin Flags(r)
  /\ chip' = Put(chip, r, <<Flags(r) \cup {flag}>>)
  /\ raised' = [raised EXCEPT ![r] = @ \cup {flag}]
  /\ UNCHANGED <<_DNS_, _DHCP_, phase, sn, taddr, asked, info, mask, mode, calls>>

\* An address conflict; the end of a PPPoE connection, in PPPoE mode.
ChipFlags == Raise(IR, 7) \/ (3 \in Flags(MR) /\ Raise(IR, 5))

SendOutcome == phase = "sending" /\ \E flag \in {Sn_IR_SENDOK, Sn_IR_TIMEOUT} : Raise(Sn_IR(sn), flag)

-----------------------------------------------------------------------------

InfoOf(p, q) ==
  [mac |-> First(p, 6), gw |-> SubSeq(p, 3, 6), sn |-> First(p, 4), ip |-> First(q, 4),
   dns |-> SubSeq(p, 2, 5), dhcp |-> "static"]

RegistersTypeOK ==
  /\ chip \in [Address -> Byte]
  /\ _DNS_ \in [1 .. 4 -> Byte] /\ _DHCP_ \in {"none", "static"}
  /\ phase \in {"idle", "sending"} /\ sn \in Sock /\ taddr \in [1 .. 4 -> Byte]
  /\ \A r \in Setting : asked[r] \in [1 .. r.width -> Byte]
  /\ mask \subseteq Kind /\ mode \in Byte /\ calls \in 0 .. MaxCalls

\* Power has come on.
RegistersInit ==
  /\ chip = ResetMemory
  /\ _DNS_ = [i \in 1 .. 4 |-> {}] /\ _DHCP_ = "none"
  /\ phase = "idle" /\ sn = 0 /\ taddr = Zero(SUBR)
  /\ asked = [r \in Setting |-> ResetValue(r)]
  /\ info = NetInfo
  /\ mask = {} /\ mode = {}
  /\ raised = [r \in {IR} \cup {Sn_IR(s) : s \in Sock} |-> {}]
  /\ calls = 0

RegistersNext ==
  \/ Reset
  \/ \E tx, rx \in SizeChoices : WizchipInit(tx, rx)
  \/ \E p, q \in Patterns : SetNetInfo(InfoOf(p, q))
  \/ \E p, q \in Contents : SetTimeout(First(p, 1), First(q, 2))
  \/ \E m \in {{3}, {4, 5}} : SetNetMode(m)
  \/ \E k \in {{5}, {7, 8}, {10}} : SetInterruptMask(k) \/ ClearInterrupt(k)
  \/ \E r \in Setting : \E p \in Contents : SetOption(r, First(p, r.width))
  \/ \E s \in Sock : \E p, q \in Patterns :
       \/ \E protocol \in Protocol : OpenDatagrams(s, protocol, First(p, 2))
       \/ SendToGivesUp(s, First(p, 4), First(q, 2)) \/ SendTo(s, First(p, 4), First(q, 2))
  \/ \E s \in Sock : ClearSnInterrupt(s, {Sn_IR_TIMEOUT})
  \/ SendToSent \/ SendToTimesOut \/ ChipFlags \/ SendOutcome

RegistersSpec == RegistersInit /\ [][RegistersNext]_registerVars

-----------------------------------------------------------------------------
(* Properties.                                                             *)

\* Every setting reads back as it was set, whatever was set, reset, refused or
\* sent in between; the four addresses survive resets (wizchip_conf.c:394) and
\* sendto() (socket.c:551-587), and so do the interrupt kinds, although both
\* halves of intr_kind share one byte (wizchip_conf.c:564-615).
SettingsHold ==
  phase = "idle" =>
    /\ NetInfo = info
    /\ \A r \in Setting : Get(r) = asked[r]
    /\ Flags(MR) = mode
    /\ GetInterruptMask \cap Kind = mask

\* The rings of all sockets fit in the transmit and in the receive memory, also
\* when wizchip_init refused one of the arrays (wizchip_conf.c:445-498).
RingsFit ==
  \A r \in {TMSR, RMSR} : MapThenSumSet(LAMBDA s : RingSize(r, s), Sock) <= BufferMemory

\* A flag of the chip or of a socket is there until it is cleared by its name.
FlagsKept == \A r \in DOMAIN raised : raised[r] \subseteq Flags(r)

=============================================================================
