------------------------------ MODULE WizSocket ------------------------------
(***************************************************************************)
(* socket.c command by command: one task and its socket sn in TCP mode.    *)
(* All tasks share two words without a lock, sock_is_sending and           *)
(* sock_io_mode, with one bit per socket; an update is a load and a store. *)
(* The other tasks, however many, appear by what they can do to the bits   *)
(* of sn: hold an old copy of a word and store it back.  Not while the     *)
(* task has the interrupts off, as in sendCurrentDate.  A command register *)
(* is written by the driver and cleared by the chip, which carries the     *)
(* command out later (w5100.h:366).                                        *)
(***************************************************************************)
EXTENDS Integers

CONSTANT Room  \* messages that fit in the transmit buffer of the socket

ASSUME RoomAssumption == Room \in Nat \ {0}

VARIABLES
  sr,               \* Sn_SR
  cr,               \* Sn_CR: the command the chip has not taken yet, or "none"
  doing,            \* the command the chip has taken and not yet carried out, or "none"
  ir,               \* Sn_IR, the flags SENDOK and TIMEOUT
  unacked,          \* messages in the transmit buffer: Room - unacked is Sn_TX_FSR
  sock_is_sending,  \* bit sn of the word
  sock_io_mode,     \* bit sn of the word: the socket does not block
  heldSending,      \* the values of bit sn in the copies of sock_is_sending
                    \* that other tasks have loaded and will store
  heldMode,         \* likewise for sock_io_mode
  pc,               \* where the task is in its call, "idle" between two calls
  after,            \* the place to which close() returns
  flag,             \* SF_IO_NONBLOCK in the flags of the call of socket()
  greeted,          \* send() has returned a length on this connection
  masked            \* the task has the interrupts off

chipVars == <<sr, cr, doing, ir, unacked>>
wordVars == <<sock_is_sending, sock_io_mode, heldSending, heldMode>>
callVars == <<after, flag, greeted, masked>>
vars == <<chipVars, wordVars, pc, callVars>>

\* "SYN" stands for SYNSENT and SYNRECV, "CLOSING" for the states after a
\* DISCON: the driver never tells these apart.
Status == {"CLOSED", "INIT", "LISTEN", "SYN", "ESTABLISHED", "CLOSE_WAIT", "CLOSING"}

Command == {"OPEN", "LISTEN", "CONNECT", "DISCON", "CLOSE", "SEND", "RECV"}

\* The places of the calls the server makes: socket, close, listen, send.
ServerCall ==
  {"close", "close_ir", "close_mode", "close_sending", "close_sr", "open", "open_mode",
   "open_sending", "open_sr", "listen_sr", "send", "send_ir", "send_room", "send_set"}

Place ==
  {"idle", "connect_mode", "connect_sr", "disc_bit", "disc_mode", "disc_sr",
   "recv", "recv_done"} \cup ServerCall

TypeOK ==
  /\ sr \in Status
  /\ cr \in Command \cup {"none"} /\ doing \in Command \cup {"none"}
  /\ ir \subseteq {"SENDOK", "TIMEOUT"}
  /\ unacked \in 0 .. Room
  /\ sock_is_sending \in BOOLEAN /\ sock_io_mode \in BOOLEAN
  /\ heldSending \subseteq BOOLEAN /\ heldMode \subseteq BOOLEAN
  /\ pc \in Place
  /\ after \in {"idle", "open"}
  /\ flag \in BOOLEAN /\ greeted \in BOOLEAN /\ masked \in BOOLEAN

\* wizchip_init has reset the chip; the words are zero.
Init ==
  /\ sr = "CLOSED" /\ cr = "none" /\ doing = "none" /\ ir = {} /\ unacked = 0
  /\ sock_is_sending = FALSE /\ sock_io_mode = FALSE
  /\ heldSending = {} /\ heldMode = {}
  /\ pc = "idle" /\ after = "idle"
  /\ flag = FALSE /\ greeted = FALSE /\ masked = FALSE

-----------------------------------------------------------------------------
(* Helpers.                                                                *)

Connected == sr \in {"ESTABLISHED", "CLOSE_WAIT"}

\* The task goes on from p to q.  The driver waits after each command until
\* the chip has cleared Sn_CR.
Go(p, q) == pc = p /\ cr = "none" /\ pc' = q

\* close(sn) inside another call, which returns an error after it.
GoClose(p) == Go(p, "close") /\ after' = "idle"

-----------------------------------------------------------------------------
(* The other tasks update their bits of the shared words.                  *)

OtherLoads ==
  /\ ~masked
  /\ \/ heldSending' = heldSending \cup {sock_is_sending} /\ UNCHANGED heldMode
     \/ heldMode' = heldMode \cup {sock_io_mode} /\ UNCHANGED heldSending
  /\ UNCHANGED <<chipVars, sock_is_sending, sock_io_mode, pc, callVars>>

\* A second task may hold the same copy.
OtherStoresSending(b) ==
  /\ ~masked
  /\ b \in heldSending
  /\ sock_is_sending' = b
  /\ heldSending' \in {heldSending, heldSending \ {b}}
  /\ UNCHANGED <<chipVars, sock_io_mode, heldMode, pc, callVars>>

OtherStoresMode(b) ==
  /\ ~masked
  /\ b \in heldMode
  /\ sock_io_mode' = b
  /\ heldMode' \in {heldMode, heldMode \ {b}}
  /\ UNCHANGED <<chipVars, sock_is_sending, heldSending, pc, callVars>>

-----------------------------------------------------------------------------
(* close() and socket().                                                   *)

Close ==
  /\ GoClose("idle")
  /\ UNCHANGED <<chipVars, wordVars, flag, greeted, masked>>

\* socket() closes first, whatever the socket was doing.  Its arguments pass its
\* checks: the chip has an address, Sn_MR_TCP is a mode, and the flag is 0 in the
\* server (server.c:142) and at most SF_IO_NONBLOCK here.
Socket(nonblock) ==
  /\ Go("idle", "close")
  /\ after' = "open" /\ flag' = nonblock
  /\ UNCHANGED <<chipVars, wordVars, greeted, masked>>

CloseCommand ==
  /\ Go("close", "close_ir")
  /\ cr' = "CLOSE" /\ greeted' = FALSE
  /\ UNCHANGED <<sr, doing, ir, unacked, wordVars, after, flag, masked>>

CloseFlags ==
  /\ Go("close_ir", "close_mode")
  /\ ir' = {}
  /\ UNCHANGED <<sr, doing, cr, unacked, wordVars, callVars>>

\* An update of a word is one step here: between its load and its store the
\* others can change the bit of sn, and the store decides.
CloseMode ==
  /\ Go("close_mode", "close_sending")
  /\ sock_io_mode' = FALSE
  /\ UNCHANGED <<chipVars, sock_is_sending, heldSending, heldMode, callVars>>

CloseSending ==
  /\ Go("close_sending", "close_sr")
  /\ sock_is_sending' = FALSE
  /\ UNCHANGED <<chipVars, sock_io_mode, heldSending, heldMode, callVars>>

\* while(getSn_SR(sn) != SOCK_CLOSED): the call, or sendCurrentDate around a
\* failed send(), returns, or socket() goes on.
CloseDone ==
  /\ Go("close_sr", after)
  /\ sr = "CLOSED"
  /\ after' = "idle" /\ masked' = FALSE
  /\ UNCHANGED <<chipVars, wordVars, flag, greeted>>

OpenCommand ==
  /\ Go("open", "open_mode")
  /\ cr' = "OPEN"
  /\ UNCHANGED <<sr, doing, ir, unacked, wordVars, callVars>>

OpenMode ==
  /\ Go("open_mode", "open_sending")
  /\ sock_io_mode' = flag /\ flag' = FALSE
  /\ UNCHANGED <<chipVars, sock_is_sending, heldSending, heldMode, after, greeted, masked>>

OpenSending ==
  /\ Go("open_sending", "open_sr")
  /\ sock_is_sending' = FALSE
  /\ UNCHANGED <<chipVars, sock_io_mode, heldSending, heldMode, callVars>>

OpenDone ==
  /\ Go("open_sr", "idle")
  /\ sr # "CLOSED"
  /\ UNCHANGED <<chipVars, wordVars, callVars>>

\* CS_SET_IOMODE of ctlsocket().
SetIoMode(nonblock) ==
  /\ Go("idle", "idle")
  /\ sock_io_mode' = nonblock
  /\ UNCHANGED <<chipVars, sock_is_sending, heldSending, heldMode, callVars>>

-----------------------------------------------------------------------------
(* listen(), connect() and disconnect().                                   *)

Listen ==
  /\ sr = "INIT"
  /\ Go("idle", "listen_sr")
  /\ cr' = "LISTEN"
  /\ UNCHANGED <<sr, doing, ir, unacked, wordVars, callVars>>

\* A SYN that was faster makes listen() close the socket.
ListenDone ==
  /\ IF sr = "LISTEN" THEN Go("listen_sr", "idle") /\ UNCHANGED after
                      ELSE GoClose("listen_sr")
  /\ UNCHANGED <<chipVars, wordVars, flag, greeted, masked>>

Connect ==
  /\ sr = "INIT"
  /\ Go("idle", "connect_mode")
  /\ cr' = "CONNECT"
  /\ UNCHANGED <<sr, doing, ir, unacked, wordVars, callVars>>

ConnectMode ==
  /\ Go("connect_mode", IF sock_io_mode THEN "idle" ELSE "connect_sr")
  /\ UNCHANGED <<chipVars, wordVars, callVars>>

\* No turn of the loop ends it in CLOSE_WAIT: a peer that has already said
\* FIN when Sn_SR is read keeps connect() waiting.
ConnectDone ==
  /\ Go("connect_sr", "idle")
  /\ sr \in {"ESTABLISHED", "CLOSED"} \/ "TIMEOUT" \in ir
  /\ ir' = IF sr = "ESTABLISHED" THEN ir ELSE ir \ {"TIMEOUT"}
  /\ UNCHANGED <<sr, doing, cr, unacked, wordVars, callVars>>

Disconnect ==
  /\ Connected
  /\ Go("idle", "disc_bit")
  /\ cr' = "DISCON"
  /\ UNCHANGED <<sr, doing, ir, unacked, wordVars, callVars>>

DisconnectSending ==
  /\ Go("disc_bit", "disc_mode")
  /\ sock_is_sending' = FALSE
  /\ UNCHANGED <<chipVars, sock_io_mode, heldSending, heldMode, callVars>>

DisconnectMode ==
  /\ Go("disc_mode", IF sock_io_mode THEN "idle" ELSE "disc_sr")
  /\ UNCHANGED <<chipVars, wordVars, callVars>>

DisconnectDone ==
  /\ \/ sr = "CLOSED" /\ Go("disc_sr", "idle") /\ UNCHANGED after
     \/ sr # "CLOSED" /\ "TIMEOUT" \in ir /\ GoClose("disc_sr")
  /\ UNCHANGED <<chipVars, wordVars, flag, greeted, masked>>

-----------------------------------------------------------------------------
(* send() and recv().                                                      *)

\* Mutant of Send: a date before the greeting.
SendUngreeted(interruptsOff) ==
  /\ Go("idle", "send")
  /\ masked' = interruptsOff
  /\ UNCHANGED <<chipVars, wordVars, after, flag, greeted>>

\* The task calls send(), in sendCurrentDate with the interrupts off, which
\* comes after the greeting: sendCompleteMessage has returned once.
Send(interruptsOff) ==
  /\ interruptsOff => greeted
  /\ Go("idle", "send")
  /\ masked' = interruptsOff
  /\ UNCHANGED <<chipVars, wordVars, after, flag, greeted>>

\* send() returns.  SOCK_BUSY counts as zero bytes sent: sendCompleteMessage
\* calls it again, in sendCurrentDate with the interrupts still off.
SendReturns(p, busy) ==
  /\ Go(p, IF busy /\ masked THEN "send" ELSE "idle")
  /\ masked' = (busy /\ masked)
  /\ UNCHANGED after

\* The first look at Sn_SR, and the test of the bit.
SendStatus ==
  /\ \/ ~Connected /\ SendReturns("send", FALSE)
     \/ /\ Connected
        /\ Go("send", IF sock_is_sending THEN "send_ir" ELSE "send_room")
        /\ UNCHANGED <<after, masked>>
  /\ UNCHANGED <<chipVars, wordVars, flag, greeted>>

\* Mutant of SendFlags: the flag is cleared, the bit is not, and send() is busy.
SendFlagsBusy ==
  /\ \/ /\ ir # {"TIMEOUT"}
        /\ SendReturns("send_ir", TRUE)
        /\ ir' = ir \ {"SENDOK"}
     \/ ir = {"TIMEOUT"} /\ GoClose("send_ir") /\ UNCHANGED <<ir, masked>>
  /\ UNCHANGED <<sr, doing, cr, unacked, wordVars, flag, greeted>>

SendFlags ==
  /\ \/ /\ "SENDOK" \in ir
        /\ Go("send_ir", "send_room")
        /\ ir' = ir \ {"SENDOK"}
        /\ sock_is_sending' = FALSE
        /\ UNCHANGED <<after, masked>>
     \/ /\ "SENDOK" \notin ir /\ "TIMEOUT" \in ir
        /\ GoClose("send_ir")
        /\ UNCHANGED <<ir, sock_is_sending, masked>>
     \/ /\ ir = {}
        /\ SendReturns("send_ir", TRUE)
        /\ UNCHANGED <<ir, sock_is_sending>>
  /\ UNCHANGED <<sr, doing, cr, unacked, sock_io_mode, heldSending, heldMode, flag, greeted>>

\* Mutants of SendRoom: no look at the free size; no look at Sn_SR.
SendRoomUnlooked ==
  /\ Go("send_room", "send_set")
  /\ cr' = "SEND"
  /\ UNCHANGED <<sr, doing, ir, unacked, wordVars, after, flag, greeted, masked>>

SendRoomDeaf ==
  /\ \/ /\ sock_io_mode /\ unacked = Room
        /\ SendReturns("send_room", TRUE)
        /\ UNCHANGED cr
     \/ /\ unacked < Room
        /\ Go("send_room", "send_set")
        /\ cr' = "SEND"
        /\ UNCHANGED <<after, masked>>
  /\ UNCHANGED <<sr, doing, ir, unacked, wordVars, flag, greeted>>

\* The loop on Sn_TX_FSR, for a message of one place; wiz_send_data.
SendRoom ==
  /\ \/ ~Connected /\ GoClose("send_room") /\ UNCHANGED <<cr, masked>>
     \/ /\ Connected /\ sock_io_mode /\ unacked = Room
        /\ SendReturns("send_room", TRUE)
        /\ UNCHANGED cr
     \/ /\ Connected /\ unacked < Room
        /\ Go("send_room", "send_set")
        /\ cr' = "SEND"
        /\ UNCHANGED <<after, masked>>
  /\ UNCHANGED <<sr, doing, ir, unacked, wordVars, flag, greeted>>

SendSet ==
  /\ SendReturns("send_set", FALSE)
  /\ sock_is_sending' = TRUE
  /\ greeted' = TRUE
  /\ UNCHANGED <<chipVars, sock_io_mode, heldSending, heldMode, flag>>

Receive ==
  /\ Go("idle", "recv")
  /\ UNCHANGED <<chipVars, wordVars, callVars>>

\* A turn of recv()'s loop, with or without received bytes.
ReceiveTurn(received) ==
  /\ \/ /\ ~Connected \/ (sr = "CLOSE_WAIT" /\ ~received /\ unacked = 0)
        /\ GoClose("recv")
        /\ UNCHANGED cr
     \/ /\ Connected /\ ~received /\ sock_io_mode
        /\ sr = "CLOSE_WAIT" => unacked > 0
        /\ Go("recv", "idle")
        /\ UNCHANGED <<cr, after>>
     \/ /\ Connected /\ received
        /\ Go("recv", "recv_done")
        /\ cr' = "RECV"
        /\ UNCHANGED after
  /\ UNCHANGED <<sr, doing, ir, unacked, wordVars, flag, greeted, masked>>

ReceiveDone ==
  /\ Go("recv_done", "idle")
  /\ UNCHANGED <<chipVars, wordVars, callVars>>

-----------------------------------------------------------------------------
(* The chip and the peer.                                                  *)

\* The chip takes a command: the register reads zero again, and what SEND
\* hands over counts.  SEND and RECV have no effect on the status to wait for.
Take ==
  /\ cr # "none" /\ doing = "none"
  /\ cr' = "none" /\ doing' = IF cr \in {"SEND", "RECV"} THEN "none" ELSE cr
  /\ unacked' = IF cr = "SEND" /\ Connected THEN unacked + 1 ELSE unacked
  /\ UNCHANGED <<sr, ir, wordVars, pc, callVars>>

\* What a command does to a socket in status s.
Obeyed(command, s) ==
  CASE command = "OPEN"                    -> "INIT"
    [] command = "CLOSE"                   -> "CLOSED"
    [] command = "LISTEN" /\ s = "INIT"    -> "LISTEN"
    [] command = "CONNECT" /\ s = "INIT"   -> "SYN"
    [] command = "DISCON" /\ Connected     -> "CLOSING"
    [] OTHER                               -> s

\* ... and carries it out.
Perform ==
  /\ doing # "none"
  /\ doing' = "none"
  /\ sr' = Obeyed(doing, sr)
  /\ unacked' = IF doing = "OPEN" THEN 0 ELSE unacked
  /\ UNCHANGED <<cr, ir, wordVars, pc, callVars>>

\* A SYN, the end of a handshake, a FIN; a connection that ends.
Peer ==
  /\ \/ sr = "LISTEN" /\ sr' = "SYN"
     \/ sr = "SYN" /\ sr' = "ESTABLISHED"
     \/ sr = "ESTABLISHED" /\ sr' = "CLOSE_WAIT"
     \/ Connected /\ sr' = "CLOSED"
  /\ UNCHANGED <<cr, doing, ir, unacked, wordVars, pc, callVars>>

\* The last message in the buffer was acknowledged, or one of several.
Acknowledged ==
  /\ Connected \/ sr = "CLOSING"
  /\ unacked > 0
  /\ unacked' = unacked - 1
  /\ ir' = ir \cup {"SENDOK"}
  /\ UNCHANGED <<sr, cr, doing, wordVars, pc, callVars>>

\* The retransmissions of data, SYN or FIN are exhausted.
GivesUp ==
  /\ (Connected /\ unacked > 0) \/ sr \in {"SYN", "CLOSING"}
  /\ sr' = "CLOSED"
  /\ ir' = ir \cup {"TIMEOUT"}
  /\ UNCHANGED <<cr, doing, unacked, wordVars, pc, callVars>>

\* The peer answers the FIN.
Closes ==
  /\ sr = "CLOSING"
  /\ sr' = "CLOSED"
  /\ UNCHANGED <<cr, doing, ir, unacked, wordVars, pc, callVars>>

-----------------------------------------------------------------------------

Calls ==
  \/ Close \/ Listen \/ Connect \/ Disconnect \/ Receive
  \/ \E b \in BOOLEAN : Socket(b) \/ SetIoMode(b) \/ Send(b)

\* The task goes on in its call.
Continues ==
  \/ CloseCommand \/ CloseFlags \/ CloseMode \/ CloseSending \/ CloseDone
  \/ OpenCommand \/ OpenMode \/ OpenSending \/ OpenDone
  \/ ListenDone \/ ConnectMode \/ ConnectDone
  \/ DisconnectSending \/ DisconnectMode \/ DisconnectDone
  \/ SendStatus \/ SendFlags \/ SendRoom \/ SendSet
  \/ (\E received \in BOOLEAN : ReceiveTurn(received)) \/ ReceiveDone

Others ==
  \/ OtherLoads
  \/ \E b \in BOOLEAN : OtherStoresSending(b) \/ OtherStoresMode(b)

Chip == Take \/ Perform \/ Peer \/ Acknowledged \/ GivesUp \/ Closes

Next == Calls \/ Continues \/ Others \/ Chip

\* The scheduler runs the task, the chip obeys, and it retransmits until the
\* peer acknowledges or the retries are used up.  Peers owe nothing.
Fairness ==
  /\ WF_vars(Continues)
  /\ WF_vars(Take)
  /\ WF_vars(Perform)
  /\ WF_vars(Acknowledged \/ GivesUp)

Spec == Init /\ [][Next]_vars /\ Fairness

-----------------------------------------------------------------------------
(* Properties.                                                             *)

\* With the interrupts off, a bit that says a message is on its way is right,
\* or the register says how it ended: no stale copy of another task makes
\* send() busy in sendCurrentDate, where the retry would stop every task.
BusyIsReal ==
  masked /\ sock_is_sending /\ Connected /\ pc \in {"send", "send_ir"}
    => unacked > 0 \/ ir # {}

\* The interrupts are never off for good.
InterruptsReturn == masked ~> ~masked

\* Every call the server makes returns, whatever peer and other tasks do.
CallsReturn == pc \in ServerCall ~> pc = "idle"

=============================================================================
