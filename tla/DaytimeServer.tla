---------------------------- MODULE DaytimeServer ----------------------------
(***************************************************************************)
(* The daytime server of server/server.c and the pool of worker sockets of *)
(* server/socket_queue.c under the FreeRTOS scheduler.                     *)
(*                                                                         *)
(* The listener task accepts a client on socket 0, takes a worker socket   *)
(* from the queue into its one stack variable childSocket, tells the       *)
(* client the worker's port, and creates a child task whose parameter is   *)
(* the address of that variable.  The child copies it when it first runs,  *)
(* serves the client, closes the socket, and puts it back in the queue.    *)
(*                                                                         *)
(* Scheduling: the listener has priority 4 and the children 3 (main.c:51,  *)
(* server.c:87), so a child runs only while the listener is blocked, and   *)
(* two children interleave freely (time slicing).  A child that waits for  *)
(* an acknowledgement inside sendCurrentDate holds the interrupts off and  *)
(* nothing else runs.                                                      *)
(***************************************************************************)
EXTENDS SocketApi, Sequences, FiniteSets, Functions

CONSTANTS
  Child,       \* what the FreeRTOS heap has room for besides the fixed tasks
  EagerClient  \* may a SYN reach socket 0 before the listener's first poll?

ASSUME ChildAssumption == IsFiniteSet(Child)
ASSUME EagerClientAssumption == EagerClient \in BOOLEAN

VARIABLES
  lpc,         \* where the listener task is
  childSocket, \* the listener's stack variable
  socketQueue, \* the pool: the FreeRTOS queue of worker sockets
  cpc,         \* where each child task is; "free" is heap not in use
  workerSocket \* each child's own copy of its parameter

serverVars == <<lpc, childSocket, socketQueue, cpc, workerSocket>>
vars == <<apiVars, serverVars>>

Listener == 0                       \* serverSocketNumber
Worker == 1 .. NoSockets - 1
NoWorker == -1                      \* a variable never assigned

ListenerPc == {"open", "listen", "poll", "delay", "accept", "receive",
               "sendPort", "create", "refuse", "save", "close"}
RunningPc == {"created", "open", "listen", "accept", "greet", "send", "spin",
              "close", "return", "delete"}
SleepingPc == {"wait", "pause"}
NoTaskPc == {"free", "deleted"}
ChildPc == RunningPc \cup SleepingPc \cup NoTaskPc

TypeOK ==
  /\ ApiTypeOK
  /\ lpc \in ListenerPc
  /\ childSocket \in Worker \cup {NoWorker}
  /\ socketQueue \in Seq(Worker)
  /\ cpc \in [Child -> ChildPc]
  /\ workerSocket \in [Child -> Worker \cup {NoWorker}]

\* Mutant: the pool is filled from socket 0.
PoolFromZero == [i \in Worker |-> i - 1]

\* createSocketQueue: the workers in order; socket 0 is the listener's.
InitialPool == [i \in Worker |-> i]

\* xQueueCreate(no_sockets): one place more than there are workers.
QueueLength == NoSockets

\* createSocketQueue has filled the pool; the listener is about to run.
Init ==
  /\ ApiInit
  /\ lpc = "open"
  /\ childSocket = NoWorker
  /\ socketQueue = InitialPool
  /\ cpc = [c \in Child |-> "free"]
  /\ workerSocket = [c \in Child |-> NoWorker]

-----------------------------------------------------------------------------
(* The scheduler.                                                          *)

InterruptsOff == \E c \in Child : cpc[c] = "spin"

\* vTaskDelay; xQueueReceive on the empty pool; the last is logsSave, whose
\* xQueueSend may have to wait for room in the log queue.
ListenerBlocked ==
  \/ lpc = "delay"
  \/ lpc = "receive" /\ socketQueue = <<>>
  \/ lpc = "save"

ChildMayRun == ListenerBlocked /\ ~InterruptsOff

\* The idle task, which frees the memory of deleted tasks, has priority 0.
IdleMayRun ==
  /\ ListenerBlocked
  /\ \A c \in Child : cpc[c] \notin RunningPc

-----------------------------------------------------------------------------
(* listeningForConnectionTask.                                             *)

ListenerGoes(from, to) ==
  /\ ~InterruptsOff
  /\ lpc = from
  /\ lpc' = to
  /\ UNCHANGED <<cpc, workerSocket>>

PoolUnchanged == UNCHANGED <<childSocket, socketQueue>>

LOpen == ListenerGoes("open", "listen") /\ OpenTcp(Listener) /\ PoolUnchanged

LListen ==
  /\ PoolUnchanged
  /\ \/ ListenerGoes("listen", "poll") /\ ListenOk(Listener)
     \/ EagerClient /\ ListenerGoes("listen", "open") /\ ListenMissed(Listener)

\* The first look at the status: a client may already be there.
LPoll ==
  /\ ListenerGoes("poll", IF sr[Listener] = "LISTEN" THEN "delay" ELSE "accept")
  /\ UNCHANGED apiVars /\ PoolUnchanged

\* A later look, after vTaskDelay(100).  Within 100 ticks time slicing runs
\* every ready task of priority 3, so no child is still waiting for its first
\* slice.  Polls that still see LISTEN change nothing and are left out.
LWake ==
  /\ sr[Listener] # "LISTEN"
  /\ \A c \in Child : cpc[c] # "created"
  /\ ListenerGoes("delay", "accept")
  /\ UNCHANGED apiVars /\ PoolUnchanged

LAccept ==
  /\ ListenerGoes("accept",
       IF sr[Listener] = "ESTABLISHED" THEN "receive" ELSE "open")
  /\ UNCHANGED apiVars /\ PoolUnchanged

\* Mutant: xQueuePeek for xQueueReceive.
LPeek ==
  /\ ListenerGoes("receive", "sendPort")
  /\ socketQueue # <<>>
  /\ childSocket' = Head(socketQueue)
  /\ UNCHANGED <<apiVars, socketQueue>>

LReceive ==
  /\ ListenerGoes("receive", "sendPort")
  /\ socketQueue # <<>>
  /\ childSocket' = Head(socketQueue)
  /\ socketQueue' = Tail(socketQueue)
  /\ UNCHANGED apiVars

\* Mutant: the result of xQueueReceive is not looked at.
LReceiveUnchecked ==
  /\ ListenerGoes("receive", "sendPort")
  /\ socketQueue = <<>> /\ childSocket # NoWorker
  /\ UNCHANGED apiVars /\ PoolUnchanged

\* Mutant: portMAX_DELAY for 10000.
LReceiveForever == lpc = "receive" /\ socketQueue = <<>> /\ UNCHANGED vars

\* No worker came back within 10000 ticks.
LReceiveTimeout ==
  /\ ListenerGoes("receive", "refuse")
  /\ socketQueue = <<>>
  /\ UNCHANGED apiVars /\ PoolUnchanged

\* sendCompleteMessage; the listener does not look at its result.
SendCompleteMessage(s) == Transmit(s) \/ SendFails(s)

LSendPort ==
  ListenerGoes("sendPort", "create") /\ SendCompleteMessage(Listener) /\ PoolUnchanged

LRefuse ==
  ListenerGoes("refuse", "save") /\ SendCompleteMessage(Listener) /\ PoolUnchanged

\* xTaskCreate: the new task has the lower priority and does not run yet.
LCreate ==
  /\ ~InterruptsOff
  /\ lpc = "create"
  /\ lpc' = "save"
  /\ \E c \in Child : cpc[c] = "free" /\ cpc' = [cpc EXCEPT ![c] = "created"]
  /\ UNCHANGED <<apiVars, childSocket, socketQueue, workerSocket>>

\* xTaskCreate finds no memory; the failure is logged, the socket stays out.
LCreateFails ==
  /\ ListenerGoes("create", "save")
  /\ \A c \in Child : cpc[c] # "free"
  /\ UNCHANGED apiVars /\ PoolUnchanged

LSave == ListenerGoes("save", "close") /\ UNCHANGED apiVars /\ PoolUnchanged

LClose == ListenerGoes("close", "open") /\ CloseSocket(Listener) /\ PoolUnchanged

ListenerStep ==
  \/ LOpen \/ LListen \/ LPoll \/ LWake \/ LAccept \/ LReceive
  \/ LReceiveTimeout \/ LSendPort \/ LRefuse \/ LCreate \/ LCreateFails
  \/ LSave \/ LClose

-----------------------------------------------------------------------------
(* redirectConnectionToChildSocket.                                        *)

ChildGoes(c, from, to) ==
  /\ ChildMayRun
  /\ cpc[c] = from
  /\ cpc' = [cpc EXCEPT ![c] = to]
  /\ UNCHANGED <<lpc, childSocket>>

OnlyChild == UNCHANGED <<socketQueue, workerSocket>>

\* The first slice: the parameter is read where the listener keeps it.
CCopy(c) ==
  /\ ChildGoes(c, "created", "open")
  /\ workerSocket' = [workerSocket EXCEPT ![c] = childSocket]
  /\ UNCHANGED <<apiVars, socketQueue>>

COpen(c) ==
  ChildGoes(c, "open", "listen") /\ OpenTcp(workerSocket[c]) /\ OnlyChild

CListen(c) ==
  ChildGoes(c, "listen", "wait") /\ ListenOk(workerSocket[c]) /\ OnlyChild

\* Mutant: a failed listen() ends the task.
CGivesUp(c) ==
  /\ ChildGoes(c, "listen", "delete") /\ OnlyChild
  /\ ListenMissed(workerSocket[c]) \/ ListenRefused(workerSocket[c])

CListenFails(c) ==
  /\ ChildGoes(c, "listen", "open") /\ OnlyChild
  /\ ListenMissed(workerSocket[c]) \/ ListenRefused(workerSocket[c])

\* The status loop with its vTaskDelay(100): nothing bounds the wait.
CWait(c) ==
  /\ ChildGoes(c, "wait", "accept")
  /\ sr[workerSocket[c]] # "LISTEN"
  /\ UNCHANGED apiVars /\ OnlyChild

\* acceptTCPServerSocket: seen ESTABLISHED in time, or listen again.
CAccept(c) ==
  /\ ChildGoes(c, "accept",
       IF sr[workerSocket[c]] = "ESTABLISHED" THEN "greet" ELSE "open")
  /\ UNCHANGED apiVars /\ OnlyChild

CGreet(c) ==
  /\ ChildGoes(c, "greet", "send")
  /\ SendCompleteMessage(workerSocket[c]) /\ OnlyChild

\* Mutant: one date is enough, and the socket is not closed.
CSendOnce(c) ==
  /\ ChildGoes(c, "send", "return") /\ Transmit(workerSocket[c]) /\ OnlyChild

\* sendCurrentDate; SOCK_BUSY keeps the child in its loop, interrupts off.
CSend(c) ==
  /\ ChildGoes(c, "send", "pause") /\ Transmit(workerSocket[c]) /\ OnlyChild

\* Mutant: SOCK_BUSY is taken for a failure.
CSendBusyFails(c) ==
  /\ ChildGoes(c, "send", "close")
  /\ SendBusy(workerSocket[c])
  /\ UNCHANGED apiVars /\ OnlyChild

CSendBusy(c) ==
  /\ ChildGoes(c, "send", "spin")
  /\ SendBusy(workerSocket[c])
  /\ UNCHANGED apiVars /\ OnlyChild

\* Mutant: the result of sendCurrentDate is not looked at.
CSendUnchecked(c) ==
  ChildGoes(c, "send", "pause") /\ SendFails(workerSocket[c]) /\ OnlyChild

CSendFails(c) ==
  ChildGoes(c, "send", "close") /\ SendFails(workerSocket[c]) /\ OnlyChild

SpinEnds(c, to) ==
  /\ cpc[c] = "spin"
  /\ cpc' = [cpc EXCEPT ![c] = to]
  /\ UNCHANGED <<lpc, childSocket>> /\ OnlyChild

CSpinEnds(c) ==
  \/ SpinEnds(c, "pause") /\ Transmit(workerSocket[c])
  \/ SpinEnds(c, "close") /\ SendFails(workerSocket[c])

CWake(c) == ChildGoes(c, "pause", "send") /\ UNCHANGED apiVars /\ OnlyChild

CClose(c) ==
  ChildGoes(c, "close", "return") /\ CloseSocket(workerSocket[c]) /\ OnlyChild

\* Mutant: no vTaskDelete after the socket went back.
CReturnStays(c) ==
  /\ ChildGoes(c, "return", "pause")
  /\ Len(socketQueue) < QueueLength
  /\ socketQueue' = Append(socketQueue, workerSocket[c])
  /\ UNCHANGED <<apiVars, workerSocket>>

\* xQueueSend, which gives up after 100 ticks on a full queue.
CReturn(c) ==
  /\ UNCHANGED <<apiVars, workerSocket>>
  /\ IF Len(socketQueue) < QueueLength
       THEN /\ ChildGoes(c, "return", "delete")
            /\ socketQueue' = Append(socketQueue, workerSocket[c])
       ELSE ChildGoes(c, "return", "pause") /\ UNCHANGED socketQueue

\* vTaskDelete: the task is gone, its copy of the parameter with it.
CDelete(c) ==
  /\ ChildGoes(c, "delete", "deleted")
  /\ workerSocket' = [workerSocket EXCEPT ![c] = NoWorker]
  /\ UNCHANGED <<apiVars, socketQueue>>

ChildStep(c) ==
  \/ CCopy(c) \/ COpen(c) \/ CListen(c) \/ CListenFails(c) \/ CWait(c)
  \/ CAccept(c) \/ CGreet(c) \/ CSend(c) \/ CSendBusy(c) \/ CSendFails(c)
  \/ CSpinEnds(c) \/ CWake(c) \/ CClose(c) \/ CReturn(c) \/ CDelete(c)

\* The idle task frees the stack and control block of a deleted task.
Reclaim(c) ==
  /\ IdleMayRun
  /\ cpc[c] = "deleted"
  /\ cpc' = [cpc EXCEPT ![c] = "free"]
  /\ UNCHANGED <<apiVars, lpc, childSocket, socketQueue, workerSocket>>

-----------------------------------------------------------------------------
(* The network.                                                            *)

SynMayArrive(s) == s = Listener /\ lpc = "poll" => EagerClient

Delivery(s) == Acknowledged(s) \/ RetransmissionTimeout(s)

NetworkStep(s) ==
  /\ \/ SynMayArrive(s) /\ SynArrives(s)
     \/ HandshakeDone(s)
     \/ FinArrives(s)
     \/ ConnectionLost(s)
     \/ Delivery(s)
  /\ UNCHANGED serverVars

Next ==
  \/ ListenerStep
  \/ \E c \in Child : ChildStep(c) \/ Reclaim(c)
  \/ \E s \in Socket : NetworkStep(s)

Spec == Init /\ [][Next]_vars

(***************************************************************************)
(* Fairness.  The listener has the highest priority of the server's tasks: *)
(* it runs whenever it is ready and the interrupts are on.  While it is    *)
(* blocked every ready child gets its time slices, and the idle task runs  *)
(* whenever nothing else does.  A child that keeps opening its socket      *)
(* does not lose the race against an arriving SYN for ever.  What is in    *)
(* flight is acknowledged, or the chip gives the connection up.  Clients   *)
(* owe nothing: they need not connect, and need not leave.                 *)
(***************************************************************************)
Fairness ==
  /\ SF_vars(ListenerStep)
  /\ \A c \in Child :
       /\ SF_vars(ChildStep(c)) /\ SF_vars(CListen(c)) /\ SF_vars(Reclaim(c))
  /\ \A s \in Socket : WF_vars(Delivery(s) /\ UNCHANGED serverVars)

FairSpec == Spec /\ Fairness

-----------------------------------------------------------------------------
(* Safety.                                                                 *)

Serving(c) == cpc[c] \notin NoTaskPc \cup {"delete"}

\* The worker a task will use: until it has copied its parameter, the one the
\* listener's variable holds.
WorkerOf(c) == IF cpc[c] = "created" THEN childSocket ELSE workerSocket[c]

Available == Range(socketQueue)
Taken == IF lpc \in {"sendPort", "create"} THEN {childSocket} ELSE {}
ServedBy(c) == IF Serving(c) THEN {WorkerOf(c)} ELSE {}

\* The server implements the pool (server.c:80-115, 207-246).
Pool == INSTANCE WorkerPool WITH
  Task <- Child,
  available <- Available,
  taken <- Taken,
  serving <- [c \in Child |-> ServedBy(c)]

PoolSpec == Pool!Spec

\* server.c:239-246: the xQueueSend that returns a worker never finds the queue
\* full, so the child always gets past it to vTaskDelete; otherwise it would go
\* on sending on a socket it has closed.
ReturnNeverBlocks ==
  \A c \in Child : cpc[c] = "return" => Len(socketQueue) < QueueLength

\* README.md:5, "the queue of available worker sockets": a worker is in the
\* queue at most once, and never while the listener or a task still holds it;
\* no two tasks hold the same one.
ExclusiveWorkers ==
  /\ IsInjective(socketQueue)
  /\ Pool!Exclusive

\* A worker socket is open on the chip only while a task is there to close it:
\* a client never reaches a port behind which nobody works (server.c:207-246).
NoOrphanSocket ==
  \A w \in Worker :
    sr[w] # "CLOSED" => \E c \in Child : Serving(c) /\ WorkerOf(c) = w

\* No task closes a worker under its established client, with one exception:
\* the child whose 5 s in acceptTCPServerSocket ran out while the handshake was
\* still going on reopens it, however the handshake ended since (server.c:148-162,
\* 215, 239).
ReopensAfterTimeout(w) == \E c \in Child : cpc[c] = "open" /\ workerSocket[c] = w

OnlyNetworkCutsOff ==
  [][\A w \in Worker :
       sr[w] = "ESTABLISHED" /\ sr'[w] # "ESTABLISHED" =>
         UNCHANGED serverVars \/ ReopensAfterTimeout(w)]_vars

-----------------------------------------------------------------------------
(* Liveness, under FairSpec.                                               *)

\* The server never stays deaf: socket 0 listens again and again, whatever the
\* clients and the children do (server.c:62-133).
ListensAgain == []<>(sr[Listener] = "LISTEN")

\* A task created for a client gets its socket to listen (server.c:207-216).
ChildListens == \A c \in Child : cpc[c] = "created" ~> cpc[c] = "wait"

\* Once a served client's connection is gone, its worker goes back to the pool
\* (server.c:237-244).
GoneClientReleases ==
  \A c \in Child :
    cpc[c] \in {"greet", "send", "spin", "pause"} /\ sr[workerSocket[c]] = "CLOSED"
      ~> cpc[c] = "delete"

=============================================================================
