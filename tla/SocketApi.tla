------------------------------ MODULE SocketApi ------------------------------
(***************************************************************************)
(* The W5100 sockets as the application sees them: the calls of            *)
(* ioLibrary_Driver/Ethernet/socket.c, one operator per outcome of a call, *)
(* and the steps the chip and the remote peers take on their own.  A call  *)
(* is atomic here; the register traffic inside one is not modelled.        *)
(***************************************************************************)
EXTENDS Integers

CONSTANT NoSockets  \* sockets of the chip, 0 included (no_sockets, socket_queue.c:8)

ASSUME NoSocketsAssumption == NoSockets \in Nat \ {0}

VARIABLES
  sr,       \* Sn_SR of each socket
  sending,  \* the sockets whose bit of sock_is_sending is set
  sendok    \* the sockets whose Sn_IR shows SENDOK

apiVars == <<sr, sending, sendok>>

Socket == 0 .. NoSockets - 1

\* The states after a close of the server's own never show: CLOSE is immediate.
SocketStatus ==
  {"CLOSED", "INIT", "LISTEN", "SYNRECV", "ESTABLISHED", "CLOSE_WAIT"}

ApiTypeOK ==
  /\ sr \in [Socket -> SocketStatus]
  /\ sending \subseteq Socket
  /\ sendok \subseteq Socket

\* wizchip_init resets the chip; sock_is_sending starts at 0.
ApiInit ==
  /\ sr = [s \in Socket |-> "CLOSED"]
  /\ sending = {}
  /\ sendok = {}

-----------------------------------------------------------------------------
(* The calls.                                                              *)

Reopened(s, status) ==
  /\ sr' = [sr EXCEPT ![s] = status]
  /\ sending' = sending \ {s}
  /\ sendok' = sendok \ {s}

\* socket() closes the socket whatever it was doing, then opens it for TCP.
OpenTcp(s) == Reopened(s, "INIT")

CloseSocket(s) == Reopened(s, "CLOSED")

\* listen() succeeds: the chip answers LISTEN when the driver looks.
ListenOk(s) ==
  /\ sr[s] = "INIT"
  /\ sr' = [sr EXCEPT ![s] = "LISTEN"]
  /\ UNCHANGED <<sending, sendok>>

\* A SYN arrived before listen() read Sn_SR back: the socket is no longer in
\* LISTEN, so listen() closes it and reports SOCKERR_SOCKCLOSED.
ListenMissed(s) == sr[s] = "INIT" /\ CloseSocket(s)

\* listen() on a socket that is not in INIT: SOCKERR_SOCKINIT, nothing done.
ListenRefused(s) == sr[s] # "INIT" /\ UNCHANGED apiVars

Connected(s) == sr[s] \in {"ESTABLISHED", "CLOSE_WAIT"}

\* send() finds an earlier transmission unacknowledged: SOCK_BUSY.
SendBusy(s) == Connected(s) /\ s \in sending \ sendok

\* send() hands the message to the chip.
Transmit(s) ==
  /\ Connected(s) /\ ~SendBusy(s)
  /\ sending' = sending \cup {s}
  /\ sendok' = sendok \ {s}
  /\ UNCHANGED sr

\* send() on a socket without a connection: SOCKERR_SOCKSTATUS, nothing done.
SendFails(s) == ~Connected(s) /\ UNCHANGED apiVars

-----------------------------------------------------------------------------
(* What the chip and the peers do between the calls.                       *)

Moves(s, from, to) ==
  /\ sr[s] \in from
  /\ sr' = [sr EXCEPT ![s] = to]
  /\ UNCHANGED <<sending, sendok>>

SynArrives(s)    == Moves(s, {"LISTEN"}, "SYNRECV")
HandshakeDone(s) == Moves(s, {"SYNRECV"}, "ESTABLISHED")
FinArrives(s)    == Moves(s, {"ESTABLISHED"}, "CLOSE_WAIT")

\* A reset of the peer, or a SYN/ACK nobody answers.
ConnectionLost(s) == Moves(s, {"SYNRECV", "ESTABLISHED", "CLOSE_WAIT"}, "CLOSED")

\* The peer acknowledges everything sent: Sn_IR shows SENDOK.
Acknowledged(s) ==
  /\ SendBusy(s)
  /\ sendok' = sendok \cup {s}
  /\ UNCHANGED <<sr, sending>>

\* The retransmissions are exhausted: the chip closes the socket.
RetransmissionTimeout(s) == SendBusy(s) /\ Moves(s, SocketStatus, "CLOSED")

=============================================================================
