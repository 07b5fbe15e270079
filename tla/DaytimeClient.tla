----------------------------- MODULE DaytimeClient -----------------------------
(***************************************************************************)
(* The client (src/custom_client/datetime_client.c): it learns a port on   *)
(* the first connection, reads until that connection ends because the port *)
(* comes without a newline, and prints the lines that it reads from a      *)
(* second connection, to that port.  Both are read through one buffer,     *)
(* static in my_read.  Of the server there is what it sends                *)
(* (server.c:83, 234, 269, 276) and how its connections end.               *)
(***************************************************************************)
EXTENDS Integers, Sequences, SequencesExt, FiniteSetsExt

CONSTANTS
  MAXLINE,  \* bytes that a read takes, and room for a line
  Port,     \* ports of the workers
  Garbage,  \* what may lie on the stack behind the line, ended by 0
  Lines     \* bound: what the worker sends, one message after the other

Newline == 10
Minus == 45
Digit == 48 .. 57

PortNumber == {n \in Nat : 0 < n /\ n < 65536}

\* MAXLINE is 1024.
ASSUME PortAssumption == Port \subseteq PortNumber /\ MAXLINE \in Nat /\ MAXLINE > 6

\* Every message of the worker ends with its only newline.
ASSUME LineAssumption ==
  /\ Lines \in Seq(Seq(0 .. 255))
  /\ \A i \in DOMAIN Lines :
       /\ 0 < Len(Lines[i]) /\ Len(Lines[i]) < MAXLINE
       /\ \A k \in 1 .. Len(Lines[i]) : Lines[i][k] = Newline <=> k = Len(Lines[i])

\* The connection on which the port comes, and the one to the worker.
Connection == {1, 2}

VARIABLES
  flight,   \* for each connection the messages that the chip has not yet got through
  arrived,  \* the bytes that the client has not yet read
  end,      \* how it stands: none, open, eof or reset
  offered,  \* the number the listener has sent, 0 if none
  worker,   \* what the worker does that the client meets: closed, listening, serving
  sent,     \* how many of the Lines it has sent
  pc,       \* where the client is
  new_port_number,
  unread,   \* read_buf from read_ptr on, read_cnt bytes
  line,     \* the bytes that readline has stored
  printed,  \* what get_date_time has printed
  failed    \* history: a read on the first connection failed

network == <<flight, arrived, end>>
server == <<offered, worker, sent>>
client == <<pc, new_port_number, unread, line, printed, failed>>
clientVars == <<flight, arrived, end, offered, worker, sent, pc, new_port_number, unread, line, printed, failed>>

ClientInit ==
  /\ flight = [c \in Connection |-> <<>>] /\ arrived = [c \in Connection |-> <<>>]
  /\ end = [c \in Connection |-> "none"]
  /\ offered = 0 /\ worker = "closed" /\ sent = 0
  /\ pc = "connect" /\ new_port_number = -1
  /\ unread = <<>> /\ line = <<>> /\ printed = <<>> /\ failed = FALSE

-----------------------------------------------------------------------------
(* Numbers in decimals.                                                    *)

\* The loop takes the last digit until nothing is left; the digits are then turned
\* round.  A port has five at most.
numberToString(n) ==
  LET digits == Min({k \in 1 .. 5 : n \div 10^k = 0})
  IN  [i \in 1 .. digits |-> 48 + ((n \div 10^(digits - i)) % 10)]

Value(s) ==
  LET digits == Max({n \in 0 .. Len(s) : \A i \in 1 .. n : s[i] \in Digit})
      value[n \in 0 .. digits] == IF n = 0 THEN 0 ELSE 10 * value[n - 1] + (s[n] - 48)
  IN  value[digits]

\* What is no number is 0.
strtol(s) == IF s # <<>> /\ Head(s) = Minus THEN -Value(Tail(s)) ELSE Value(s)

-----------------------------------------------------------------------------
(* The server.                                                             *)

Sends(c, message) == flight' = [flight EXCEPT ![c] = Append(@, message)]

\* The listener sends the port of a worker.
SendPort ==
  /\ end[1] = "open" /\ offered = 0
  /\ \E p \in Port : offered' = p /\ Sends(1, numberToString(p))
  /\ UNCHANGED <<arrived, end, worker, sent>> /\ UNCHANGED client

\* No worker came back in time.
SendRefusal ==
  /\ end[1] = "open" /\ offered = 0
  /\ offered' = -1 /\ Sends(1, <<Minus, 49>>)
  /\ UNCHANGED <<arrived, end, worker, sent>> /\ UNCHANGED client

\* The child opens its socket, also when the client is already there.
WorkerListens ==
  /\ offered \in Port /\ worker = "closed"
  /\ worker' = "listening"
  /\ UNCHANGED <<offered, sent>> /\ UNCHANGED network /\ UNCHANGED client

\* The greeting and the dates.
SendLine ==
  /\ worker = "serving" /\ end[2] = "open" /\ sent < Len(Lines)
  /\ sent' = sent + 1 /\ Sends(2, Lines[sent + 1])
  /\ UNCHANGED <<arrived, end, offered, worker>> /\ UNCHANGED client

\* A message is a segment of its own.
Deliver(c) ==
  /\ end[c] = "open" /\ flight[c] # <<>>
  /\ arrived' = [arrived EXCEPT ![c] = @ \o Head(flight[c])]
  /\ flight' = [flight EXCEPT ![c] = Tail(@)]
  /\ UNCHANGED end /\ UNCHANGED server /\ UNCHANGED client

\* The chip closes without waiting for what is under way; a reset may take away
\* what has arrived.  A client that hears of neither waits.
Ends(c) ==
  /\ end[c] = "open"
  /\ \/ end' = [end EXCEPT ![c] = "eof"] /\ UNCHANGED arrived
     \/ end' = [end EXCEPT ![c] = "reset"] /\ UNCHANGED arrived
     \/ end' = [end EXCEPT ![c] = "reset"] /\ arrived' = [arrived EXCEPT ![c] = <<>>]
  /\ flight' = [flight EXCEPT ![c] = <<>>]
  /\ UNCHANGED server /\ UNCHANGED client

-----------------------------------------------------------------------------
(* The client: main.                                                       *)

Opened(c) == end' = [end EXCEPT ![c] = "open"] /\ UNCHANGED <<flight, arrived>>

Goes(to) == pc' = to /\ UNCHANGED <<unread, printed>>

FirstConnect ==
  /\ pc = "connect"
  /\ Opened(1) /\ Goes("port")
  /\ UNCHANGED <<new_port_number, line, failed>> /\ UNCHANGED server

\* The listener has closed its socket for another client, or no port was given:
\* the client then tries port 27, the server is at 13.
FirstConnectFails ==
  /\ pc = "connect" /\ Goes("done")
  /\ UNCHANGED <<new_port_number, line, failed>> /\ UNCHANGED network /\ UNCHANGED server

\* The worker of another client may accept too.
SecondConnect ==
  /\ pc = "redirect"
  /\ new_port_number \in Port
  /\ new_port_number = offered => worker = "listening"
  /\ worker' = "serving"
  /\ Opened(2) /\ Goes("dates")
  /\ UNCHANGED <<new_port_number, line, failed>> /\ UNCHANGED <<offered, sent>>

\* The child has not opened the port yet, nobody ever will, or the network fails.
SecondConnectRefused ==
  /\ pc = "redirect" /\ Goes("done")
  /\ UNCHANGED <<new_port_number, line, failed>> /\ UNCHANGED network /\ UNCHANGED server

-----------------------------------------------------------------------------
(* The client: my_read and readline.                                       *)

Reads(c) == pc = IF c = 1 THEN "port" ELSE "dates"

\* Mutant: readline reads as much as it can store.
LineFull(l) == Len(l) = MAXLINE - 1

\* readline returns the line as it is.
LineDone(l) == Len(l) = MAXLINE - 1 \/ (l # <<>> /\ Last(l) = Newline)

\* A read that a signal interrupts is done again.
Refill(c) ==
  /\ Reads(c) /\ unread = <<>> /\ arrived[c] # <<>> /\ ~LineDone(line)
  /\ \E n \in 1 .. Min({MAXLINE, Len(arrived[c])}) :
       /\ unread' = SubSeq(arrived[c], 1, n)
       /\ arrived' = [arrived EXCEPT ![c] = SubSeq(@, n + 1, Len(@))]
  /\ UNCHANGED <<flight, end, pc, new_port_number, line, printed, failed>> /\ UNCHANGED server

TakeByte(c) ==
  /\ Reads(c) /\ unread # <<>> /\ ~LineDone(line)
  /\ line' = Append(line, Head(unread)) /\ unread' = Tail(unread)
  /\ UNCHANGED <<pc, new_port_number, printed, failed>> /\ UNCHANGED network /\ UNCHANGED server

Drained(c) == Reads(c) /\ unread = <<>> /\ arrived[c] = <<>> /\ ~LineDone(line)

AtEof(c) == Drained(c) /\ end[c] = "eof"
AtError(c) == Drained(c) /\ end[c] = "reset"

LineRead(c) == line # <<>> /\ (AtEof(c) \/ (Reads(c) /\ LineDone(line)))

\* A connection that has reported its error is at its end.
Reported(c) == end' = [end EXCEPT ![c] = "eof"] /\ UNCHANGED <<flight, arrived>>

-----------------------------------------------------------------------------
(* The client: get_new_port and get_date_time.                             *)

\* Mutant: only what is too large is not taken.
IsPortUnsigned(n) == n <= 65535

\* get_new_port compares the long with 0 and (int) of it with 65535: the same for
\* what fits in an int, as every number here does.
IsPort(n) == 0 <= n /\ n <= 65535

\* Back in the loop, or out of it.
Takes(number) ==
  /\ new_port_number' = number /\ line' = <<>>
  /\ Goes(IF IsPort(number) THEN "redirect" ELSE "port")
  /\ UNCHANGED server

PortRead ==
  /\ LineRead(1)
  /\ Takes(strtol(line))
  /\ UNCHANGED failed /\ UNCHANGED network

\* The error is reported, and the line taken although nothing ends it.
PortReadFails ==
  /\ AtError(1)
  /\ \E g \in Garbage : Takes(strtol(line \o g))
  /\ failed' = TRUE /\ Reported(1)

\* server terminated prematurely
PortMissing ==
  /\ AtEof(1) /\ line = <<>> /\ Goes("done")
  /\ UNCHANGED <<new_port_number, line, failed>> /\ UNCHANGED network /\ UNCHANGED server

Prints ==
  /\ printed' = (IF line = <<>> THEN printed ELSE Append(printed, line)) /\ line' = <<>>
  /\ UNCHANGED <<pc, new_port_number, unread, failed>> /\ UNCHANGED server

DateRead ==
  /\ LineRead(2)
  /\ Prints /\ UNCHANGED network

\* Only 0 ends the loop: after an error the line, zeros behind it, is printed too.
DateReadFails == AtError(2) /\ Prints /\ Reported(2)

\* Mutant: the loop ends at an error, and goes on at the end.
DatesEndAtError ==
  \/ AtError(2) /\ Goes("done")
     /\ UNCHANGED <<new_port_number, line, failed>> /\ UNCHANGED network /\ UNCHANGED server
  \/ AtEof(2) /\ line = <<>> /\ Prints /\ UNCHANGED network

DatesEnd ==
  /\ AtEof(2) /\ line = <<>> /\ Goes("done")
  /\ UNCHANGED <<new_port_number, line, failed>> /\ UNCHANGED network /\ UNCHANGED server

-----------------------------------------------------------------------------

ClientNext ==
  \/ FirstConnect \/ FirstConnectFails
  \/ SecondConnect \/ SecondConnectRefused
  \/ \E c \in Connection : Refill(c) \/ TakeByte(c)
  \/ PortRead \/ PortReadFails \/ PortMissing
  \/ DateRead \/ DateReadFails \/ DatesEnd

SystemNext ==
  \/ ClientNext
  \/ SendPort \/ SendRefusal \/ WorkerListens \/ SendLine
  \/ \E c \in Connection : Deliver(c) \/ Ends(c)

ClientSpec == ClientInit /\ [][SystemNext]_clientVars

\* The client is a process of its own: it goes on while it can.  Nothing is
\* asked of the server and of the network.
FairClientSpec == ClientSpec /\ WF_clientVars(ClientNext)

-----------------------------------------------------------------------------
(* Properties.                                                             *)

\* The client goes to the port that the listener has sent, whole, never to a part
\* of it and never when there is no worker for it (datetime_client.c:186-201),
\* unless a read failed, when it goes on with what is on its stack (line 193).
PortAgreed ==
  pc \in {"redirect", "dates"} /\ ~failed => new_port_number = offered /\ offered \in Port

\* The lines are printed as the worker sent them, one at a time and in order, each
\* whole but for the last; nothing of the first connection is left in the static
\* buffer to come before them (datetime_client.c:16-59).
LinesWhole ==
  /\ IsPrefix(FlattenSeq(printed), FlattenSeq(SubSeq(Lines, 1, sent)))
  /\ \A i \in 1 .. Len(printed) - 1 : printed[i] = Lines[i]

\* When a connection has ended the client does not read from it for ever
\* (datetime_client.c:192, 213, 278).
ClientEnds == \A c \in Connection : (Reads(c) /\ end[c] \in {"eof", "reset"}) ~> ~Reads(c)

=============================================================================
