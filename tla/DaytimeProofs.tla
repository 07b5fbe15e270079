--------------------------- MODULE DaytimeProofs ---------------------------
(* Theorems about DaytimeServer, for every number of sockets and tasks, and *)
(* about the client that talks to it, for every port and every message.     *)
EXTENDS DaytimeServer, DaytimeClient, FiniteSetTheorems, SequenceTheorems,
        WellFoundedInduction, TLAPS

(***************************************************************************)
(* Type correctness.  TypeOK is not inductive: a child returns the worker  *)
(* in its workerSocket, so the variables must hold one when they are used. *)
(***************************************************************************)
Assigned ==
  /\ lpc \in {"sendPort", "create"} => childSocket \in Worker
  /\ \A c \in Child : Serving(c) => WorkerOf(c) \in Worker

TypeInv == TypeOK /\ Assigned

LEMMA ApiSteps ==
  ASSUME ApiTypeOK, NEW s \in Socket
  PROVE  /\ OpenTcp(s) => ApiTypeOK'
         /\ CloseSocket(s) => ApiTypeOK'
         /\ ListenOk(s) => ApiTypeOK'
         /\ ListenMissed(s) => ApiTypeOK'
         /\ SendCompleteMessage(s) => ApiTypeOK'
         /\ Transmit(s) => ApiTypeOK'
         /\ (\E from \in SUBSET SocketStatus, to \in SocketStatus : Moves(s, from, to)) => ApiTypeOK'
         /\ Acknowledged(s) => ApiTypeOK'
         /\ UNCHANGED apiVars => ApiTypeOK'
BY DEF ApiTypeOK, SocketStatus, OpenTcp, CloseSocket, Reopened, ListenOk, ListenMissed,
       SendCompleteMessage, Transmit, SendFails, Moves, Acknowledged, apiVars

LEMMA TypeInvInit == Init => TypeInv
<1> SUFFICES ASSUME Init PROVE TypeInv
  OBVIOUS
<1>1. ApiTypeOK
  BY DEF Init, ApiInit, ApiTypeOK, SocketStatus
<1>2. socketQueue \in Seq(Worker)
  BY NoSocketsAssumption, IsASeq DEF Init, InitialPool, Worker
<1>3. QED
  BY <1>1, <1>2 DEF Init, TypeInv, TypeOK, Assigned, Serving, ListenerPc, ChildPc, NoTaskPc

LEMMA ListenerInSocket == Listener \in Socket /\ Worker \subseteq Socket
BY NoSocketsAssumption DEF Listener, Socket, Worker

LEMMA TypeInvListener == TypeInv /\ ListenerStep => TypeInv'
<1> SUFFICES ASSUME TypeInv, ListenerStep PROVE TypeInv'
  OBVIOUS
<1>1. ApiTypeOK'
  BY ApiSteps, ListenerInSocket
  DEF TypeInv, TypeOK, ListenerStep, LOpen, LListen, LPoll, LWake, LAccept, LReceive,
      LReceiveTimeout, LSendPort, LRefuse, LCreate, LCreateFails, LSave, LClose
<1> USE <1>1 DEF TypeInv, TypeOK, Assigned, ListenerGoes, PoolUnchanged, ListenerPc,
                 ChildPc, RunningPc, SleepingPc, NoTaskPc, Serving, WorkerOf
<1>2. CASE LOpen \/ LListen \/ LPoll \/ LWake \/ LAccept
  BY <1>2 DEF LOpen, LListen, LPoll, LWake, LAccept
<1>3. CASE LReceive
  BY <1>3 DEF LReceive
<1>4. CASE LReceiveTimeout \/ LSendPort \/ LRefuse
  BY <1>4 DEF LReceiveTimeout, LSendPort, LRefuse
<1>5. CASE LCreate
  BY <1>5 DEF LCreate
<1>6. CASE LCreateFails \/ LSave \/ LClose
  BY <1>6 DEF LCreateFails, LSave, LClose
<1>7. QED
  BY <1>2, <1>3, <1>4, <1>5, <1>6 DEF ListenerStep

LEMMA TypeInvChild == ASSUME TypeInv, NEW c \in Child, ChildStep(c) \/ Reclaim(c)
                      PROVE  TypeInv'
<1> USE DEF TypeInv, TypeOK, Assigned, ChildGoes, OnlyChild, SpinEnds,
            ChildPc, RunningPc, SleepingPc, NoTaskPc, Serving, WorkerOf
<1>1. CASE CCopy(c)
  BY <1>1, ApiSteps, ListenerInSocket DEF CCopy
<1>2. CASE COpen(c) \/ CListen(c) \/ CWait(c) \/ CAccept(c) \/ CGreet(c)
  BY <1>2, ApiSteps, ListenerInSocket DEF COpen, CListen, CWait, CAccept, CGreet
<1>3. CASE CListenFails(c)
  BY <1>3, ApiSteps, ListenerInSocket DEF CListenFails, ListenRefused
<1>4. CASE CSend(c) \/ CSendBusy(c) \/ CSendFails(c) \/ CSpinEnds(c) \/ CWake(c)
  BY <1>4, ApiSteps, ListenerInSocket
  DEF CSend, CSendBusy, CSendFails, CSpinEnds, CWake, SendCompleteMessage
<1>5. CASE CClose(c) \/ CDelete(c) \/ Reclaim(c)
  BY <1>5, ApiSteps, ListenerInSocket DEF CClose, CDelete, Reclaim
<1>6. CASE CReturn(c)
  <2>1. ApiTypeOK'
    BY <1>6, ApiSteps, ListenerInSocket DEF CReturn
  <2>2. workerSocket[c] \in Worker
    BY <1>6 DEF CReturn
  <2>3. socketQueue' \in Seq(Worker)
    BY <1>6, <2>2 DEF CReturn
  <2>4. QED
    BY <1>6, <2>1, <2>3 DEF CReturn
<1>7. QED
  BY <1>1, <1>2, <1>3, <1>4, <1>5, <1>6 DEF ChildStep

LEMMA NetworkApi ==
  ASSUME ApiTypeOK, NEW s \in Socket, NetworkStep(s)
  PROVE  ApiTypeOK' /\ UNCHANGED serverVars
BY ApiSteps
DEF NetworkStep, SynArrives, HandshakeDone, FinArrives, ConnectionLost, Delivery,
    RetransmissionTimeout, SocketStatus

LEMMA TypeInvNext == TypeInv /\ [Next]_vars => TypeInv'
<1> SUFFICES ASSUME TypeInv, [Next]_vars PROVE TypeInv'
  OBVIOUS
<1>1. CASE ListenerStep
  BY <1>1, TypeInvListener
<1>2. CASE \E c \in Child : ChildStep(c) \/ Reclaim(c)
  BY <1>2, TypeInvChild
<1>3. CASE \E s \in Socket : NetworkStep(s)
  BY <1>3, NetworkApi DEF TypeInv, TypeOK, Assigned, serverVars, Serving, WorkerOf
<1>4. CASE UNCHANGED vars
  BY <1>4, ApiSteps, ListenerInSocket
  DEF TypeInv, TypeOK, Assigned, vars, serverVars, Serving, WorkerOf
<1>5. QED
  BY <1>1, <1>2, <1>3, <1>4 DEF Next

LEMMA TypeInvCorrect == Spec => []TypeInv
BY TypeInvInit, TypeInvNext, PTL DEF Spec

\* The variables keep their types, whatever the number of sockets and tasks.
THEOREM TypeCorrect == Spec => []TypeOK
BY TypeInvCorrect, PTL DEF TypeInv

-----------------------------------------------------------------------------
(***************************************************************************)
(* The pool never overflows.  Every worker is counted once: in the queue,  *)
(* in the listener's hands, or by the task that serves it.  No step adds   *)
(* to the count; two tasks that share a worker count it twice, but then    *)
(* another worker has gone uncounted.                                      *)
(***************************************************************************)
InWork == {c \in Child : Serving(c)}
InHand == IF lpc \in {"sendPort", "create"} THEN 1 ELSE 0

CountInv == Len(socketQueue) + InHand + Cardinality(InWork) <= NoSockets - 1

LEMMA InWorkFinite == /\ IsFiniteSet(InWork) /\ Cardinality(InWork) \in Nat
                      /\ IsFiniteSet(InWork') /\ Cardinality(InWork') \in Nat
BY ChildAssumption, FS_Subset, FS_CardinalityType DEF InWork

LEMMA CountInit == Init => CountInv
<1> SUFFICES ASSUME Init PROVE CountInv
  OBVIOUS
<1>1. InWork = {}
  BY DEF Init, InWork, Serving, NoTaskPc
<1>2. Len(socketQueue) = NoSockets - 1
  BY NoSocketsAssumption DEF Init, InitialPool, Worker
<1>3. QED
  BY <1>1, <1>2, FS_EmptySet, NoSocketsAssumption DEF Init, CountInv, InHand

LEMMA CountListener == TypeInv /\ CountInv /\ ListenerStep => CountInv'
<1> SUFFICES ASSUME TypeInv, CountInv, ListenerStep PROVE CountInv'
  OBVIOUS
<1> USE InWorkFinite, NoSocketsAssumption
    DEF CountInv, InHand, ListenerGoes, PoolUnchanged, TypeInv, TypeOK
<1>1. CASE LReceive
  <2>1. InWork' = InWork
    BY <1>1 DEF LReceive, InWork, Serving
  <2>2. Len(socketQueue') = Len(socketQueue) - 1
    BY <1>1 DEF LReceive
  <2>3. QED
    BY <1>1, <2>1, <2>2 DEF LReceive
<1>2. CASE LCreate
  <2>1. PICK c \in Child : cpc[c] = "free" /\ cpc' = [cpc EXCEPT ![c] = "created"]
    BY <1>2 DEF LCreate
  <2>2. InWork' = InWork \cup {c} /\ c \notin InWork
    BY <1>2, <2>1 DEF LCreate, InWork, Serving, NoTaskPc
  <2>3. Cardinality(InWork') = Cardinality(InWork) + 1
    BY <2>2, FS_AddElement
  <2>4. QED
    BY <1>2, <2>3 DEF LCreate
<1>3. CASE LOpen \/ LListen \/ LPoll \/ LWake \/ LAccept
  <2>1. InWork' = InWork /\ UNCHANGED socketQueue
    BY <1>3 DEF LOpen, LListen, LPoll, LWake, LAccept, InWork, Serving
  <2>2. InHand' = InHand
    BY <1>3 DEF LOpen, LListen, LPoll, LWake, LAccept
  <2>3. QED
    BY <2>1, <2>2
<1>4. CASE LReceiveTimeout \/ LSendPort \/ LRefuse \/ LCreateFails \/ LSave \/ LClose
  <2>1. InWork' = InWork /\ UNCHANGED socketQueue
    BY <1>4 DEF LReceiveTimeout, LSendPort, LRefuse, LCreateFails, LSave, LClose, InWork, Serving
  <2>2. InHand' \in Nat /\ InHand' <= InHand
    BY <1>4 DEF LReceiveTimeout, LSendPort, LRefuse, LCreateFails, LSave, LClose
  <2>3. QED
    BY <2>1, <2>2
<1>5. QED
  BY <1>1, <1>2, <1>3, <1>4 DEF ListenerStep

LEMMA CountChild ==
  ASSUME TypeInv, CountInv, NEW c \in Child, ChildStep(c) \/ Reclaim(c)
  PROVE  CountInv'
<1> USE InWorkFinite, NoSocketsAssumption DEF CountInv, InHand, TypeInv, TypeOK
<1>1. CASE CReturn(c) /\ Len(socketQueue) < QueueLength
  <2>1. cpc[c] = "return" /\ cpc' = [cpc EXCEPT ![c] = "delete"] /\ UNCHANGED lpc
    BY <1>1 DEF CReturn, ChildGoes
  <2>2. InWork' = InWork \ {c} /\ c \in InWork
    BY <2>1 DEF InWork, Serving, NoTaskPc
  <2>3. Cardinality(InWork') = Cardinality(InWork) - 1
    BY <2>2, FS_RemoveElement
  <2>4. workerSocket[c] \in Worker
    BY <2>1 DEF Assigned, Serving, WorkerOf, NoTaskPc
  <2>5. Len(socketQueue') = Len(socketQueue) + 1
    BY <1>1, <2>4 DEF CReturn
  <2>6. QED
    BY <2>1, <2>3, <2>5
<1>2. CASE Reclaim(c) \/ (ChildStep(c) /\ ~(CReturn(c) /\ Len(socketQueue) < QueueLength))
  <2> USE DEF ChildGoes, OnlyChild, SpinEnds
  <2>1. UNCHANGED <<lpc, socketQueue>>
    BY <1>2
    DEF ChildStep, CCopy, COpen, CListen, CListenFails, CWait, CAccept, CGreet, CSend,
        CSendBusy, CSendFails, CSpinEnds, CWake, CClose, CReturn, CDelete, Reclaim
  <2>2. InWork' = InWork
    BY <1>2
    DEF ChildStep, CCopy, COpen, CListen, CListenFails, CWait, CAccept, CGreet, CSend,
        CSendBusy, CSendFails, CSpinEnds, CWake, CClose, CReturn, CDelete, Reclaim,
        InWork, Serving, NoTaskPc
  <2>3. QED
    BY <2>1, <2>2
<1>3. QED
  BY <1>1, <1>2

LEMMA CountNext == TypeInv /\ CountInv /\ [Next]_vars => CountInv'
<1> SUFFICES ASSUME TypeInv, CountInv, [Next]_vars PROVE CountInv'
  OBVIOUS
<1>1. CASE ListenerStep
  BY <1>1, CountListener
<1>2. CASE \E c \in Child : ChildStep(c) \/ Reclaim(c)
  BY <1>2, CountChild
<1>3. CASE UNCHANGED serverVars
  BY <1>3 DEF serverVars, CountInv, InHand, InWork, Serving
<1>4. QED
  BY <1>1, <1>2, <1>3, NetworkApi DEF Next, vars, TypeInv, TypeOK, NetworkStep

LEMMA CountCorrect == Spec => []CountInv
BY TypeInvCorrect, CountInit, CountNext, PTL DEF Spec

\* The xQueueSend of server.c:240 never finds the pool full, even when eager
\* clients make tasks share workers: the retry of lines 240-246 is dead code.
THEOREM NeverBlocks == Spec => []ReturnNeverBlocks
<1>1. TypeInv /\ CountInv => ReturnNeverBlocks
  BY InWorkFinite, NoSocketsAssumption
  DEF TypeInv, TypeOK, CountInv, InHand, ReturnNeverBlocks, QueueLength
<1>2. QED
  BY <1>1, TypeInvCorrect, CountCorrect, PTL

-----------------------------------------------------------------------------
(***************************************************************************)
(* Exclusive workers.  What keeps the hand-over through childSocket sound  *)
(* is HandOver: while a new task has not copied its parameter, the         *)
(* listener is on its way from xTaskCreate to its next vTaskDelay and does *)
(* not touch the variable.  The way is only that long if no client reaches *)
(* socket 0 before the first poll.                                         *)
(***************************************************************************)
HandOver ==
  \A c \in Child : cpc[c] = "created" =>
    /\ lpc \in {"save", "close", "open", "listen", "poll", "delay"}
    /\ lpc = "poll" => sr[Listener] = "LISTEN"
    /\ \A d \in Child : cpc[d] = "created" => d = c

\* ExclusiveWorkers, spelled out.
Apart ==
  /\ IsInjective(socketQueue)
  /\ lpc \in {"sendPort", "create"} => childSocket \notin Available
  /\ \A c \in Child : Serving(c) =>
       /\ WorkerOf(c) \notin Available
       /\ lpc \in {"sendPort", "create"} => WorkerOf(c) # childSocket
  /\ \A c, d \in Child :
       Serving(c) /\ Serving(d) /\ WorkerOf(c) = WorkerOf(d) => c = d

LEMMA ApartIsExclusive == Apart => ExclusiveWorkers
BY DEF Apart, ExclusiveWorkers, Pool!Exclusive, Taken, ServedBy

ExclusiveInv == HandOver /\ Apart

LEMMA ExclusiveInit == Init => ExclusiveInv
BY DEF Init, InitialPool, ExclusiveInv, HandOver, Apart, Serving, NoTaskPc, IsInjective

\* What leaves the head of the pool is no longer in it.
LEMMA TailOfPool ==
  ASSUME NEW S, NEW q \in Seq(S), q # <<>>, IsInjective(q)
  PROVE  /\ IsInjective(Tail(q))
         /\ Head(q) \in Range(q)
         /\ Range(Tail(q)) = Range(q) \ {Head(q)}
<1> DEFINE n == Len(q)
<1>1. n \in Nat \ {0} /\ DOMAIN q = 1 .. n /\ Head(q) = q[1]
  OBVIOUS
<1>2. DOMAIN Tail(q) = 1 .. n - 1 /\ \A i \in 1 .. n - 1 : Tail(q)[i] = q[i + 1]
  OBVIOUS
<1> HIDE DEF n
<1>3. IsInjective(Tail(q))
  BY <1>1, <1>2 DEF IsInjective
<1>4. Range(Tail(q)) \subseteq Range(q) \ {Head(q)}
  BY <1>1, <1>2 DEF IsInjective, Range
<1>5. ASSUME NEW x \in Range(q), x # Head(q)
      PROVE  x \in Range(Tail(q))
  <2>1. PICK j \in 2 .. n : q[j] = x
    BY <1>1, <1>5 DEF Range
  <2>2. j - 1 \in 1 .. n - 1 /\ Tail(q)[j - 1] = x
    BY <1>1, <1>2, <2>1
  <2>3. QED
    BY <1>2, <2>2 DEF Range
<1>6. QED
  BY <1>1, <1>3, <1>4, <1>5 DEF Range

LEMMA AppendToPool ==
  ASSUME NEW S, NEW q \in Seq(S), NEW x \in S
  PROVE  /\ Range(Append(q, x)) = Range(q) \cup {x}
         /\ IsInjective(q) /\ x \notin Range(q) => IsInjective(Append(q, x))
BY DEF IsInjective, Range

LEMMA ExclusiveListener ==
  ASSUME EagerClient = FALSE, TypeInv, ExclusiveInv, ListenerStep
  PROVE  ExclusiveInv'
<1> USE DEF ExclusiveInv, ListenerGoes, PoolUnchanged
<1>1. CASE LReceive
  <2>1. \A c \in Child : cpc[c] # "created"
    BY <1>1 DEF LReceive, HandOver
  <2>2. /\ IsInjective(socketQueue')
        /\ childSocket' \in Available
        /\ Available' = Available \ {childSocket'}
    BY <1>1, TailOfPool DEF LReceive, TypeInv, TypeOK, Available, Apart
  <2>3. \A c \in Child :
          (Serving(c)' <=> Serving(c)) /\ (Serving(c) => WorkerOf(c)' = WorkerOf(c))
    BY <1>1, <2>1 DEF LReceive, Serving, WorkerOf
  <2>4. Apart'
    BY <2>2, <2>3 DEF Apart
  <2>5. HandOver'
    BY <1>1, <2>1 DEF LReceive, HandOver
  <2>6. QED
    BY <2>4, <2>5
<1>2. CASE LCreate
  <2>1. PICK c \in Child : cpc[c] = "free" /\ cpc' = [cpc EXCEPT ![c] = "created"]
    BY <1>2 DEF LCreate
  <2>2. HandOver'
    BY <1>2, <2>1 DEF LCreate, HandOver, TypeInv, TypeOK
  <2>3. /\ WorkerOf(c)' = childSocket
        /\ \A d \in Child \ {c} :
             (Serving(d)' <=> Serving(d)) /\ (Serving(d) => WorkerOf(d)' = WorkerOf(d))
    BY <1>2, <2>1 DEF LCreate, Serving, WorkerOf, TypeInv, TypeOK
  <2>4. Available' = Available
    BY <1>2 DEF LCreate, Available
  <2>5. Apart'
    BY <1>2, <2>3, <2>4 DEF LCreate, Apart
  <2>6. QED
    BY <2>2, <2>5
<1>3. CASE LOpen \/ LListen \/ LPoll \/ LWake \/ LAccept
  <2>1. Apart'
    BY <1>3 DEF LOpen, LListen, LPoll, LWake, LAccept, Apart, Available, Serving, WorkerOf
  <2>2. HandOver'
    BY <1>3, ListenerInSocket
    DEF LOpen, LListen, LPoll, LWake, LAccept, HandOver, ListenOk, TypeInv, TypeOK, ApiTypeOK
  <2>3. QED
    BY <2>1, <2>2
<1>4. CASE LReceiveTimeout \/ LSendPort \/ LRefuse \/ LCreateFails \/ LSave \/ LClose
  <2>1. Apart'
    BY <1>4
    DEF LReceiveTimeout, LSendPort, LRefuse, LCreateFails, LSave, LClose, Apart, Available,
        Serving, WorkerOf
  <2>2. HandOver'
    BY <1>4 DEF LReceiveTimeout, LSendPort, LRefuse, LCreateFails, LSave, LClose, HandOver
  <2>3. QED
    BY <2>1, <2>2
<1>5. QED
  BY <1>1, <1>2, <1>3, <1>4 DEF ListenerStep

\* A step of a child leaves the listener's socket as it is.
LEMMA ChildLeavesListener ==
  ASSUME TypeInv, NEW c \in Child, ChildStep(c) \/ Reclaim(c)
  PROVE  sr'[Listener] = sr[Listener] /\ UNCHANGED <<lpc, childSocket>>
<1> USE DEF ChildGoes, OnlyChild, SpinEnds
<1>1. UNCHANGED <<lpc, childSocket>>
  BY DEF ChildStep, CCopy, COpen, CListen, CListenFails, CWait, CAccept, CGreet, CSend,
         CSendBusy, CSendFails, CSpinEnds, CWake, CClose, CReturn, CDelete, Reclaim
<1>2. ASSUME NEW w \in Worker
      PROVE  /\ Reopened(w, "INIT") \/ Reopened(w, "CLOSED") => sr'[Listener] = sr[Listener]
             /\ ListenOk(w) => sr'[Listener] = sr[Listener]
  BY ListenerInSocket DEF Reopened, ListenOk, Worker, Listener, TypeInv, TypeOK, ApiTypeOK
<1>3. CASE COpen(c) \/ CListen(c) \/ CListenFails(c) \/ CClose(c)
  <2>1. workerSocket[c] \in Worker
    BY <1>3
    DEF COpen, CListen, CListenFails, CClose, TypeInv, Assigned, Serving, WorkerOf, NoTaskPc
  <2>2. QED
    BY <1>2, <1>3, <2>1
    DEF COpen, CListen, CListenFails, CClose, OpenTcp, CloseSocket, ListenMissed,
        ListenRefused, apiVars
<1>4. CASE CCopy(c) \/ CWait(c) \/ CAccept(c) \/ CGreet(c) \/ CReturn(c) \/ CDelete(c) \/ Reclaim(c)
  BY <1>4
  DEF CCopy, CWait, CAccept, CGreet, CReturn, CDelete, Reclaim, apiVars, SendCompleteMessage,
      Transmit, SendFails
<1>5. CASE CSend(c) \/ CSendBusy(c) \/ CSendFails(c) \/ CSpinEnds(c) \/ CWake(c)
  BY <1>5 DEF CSend, CSendBusy, CSendFails, CSpinEnds, CWake, Transmit, SendFails, apiVars
<1>6. QED
  BY <1>1, <1>3, <1>4, <1>5 DEF ChildStep

LEMMA ExclusiveChild ==
  ASSUME TypeInv, ExclusiveInv, NEW c \in Child, ChildStep(c) \/ Reclaim(c)
  PROVE  ExclusiveInv'
<1> USE DEF ChildGoes, OnlyChild, SpinEnds
<1>1. HandOver'
  BY ChildLeavesListener
  DEF ExclusiveInv, HandOver, TypeInv, TypeOK, ChildStep, CCopy, COpen, CListen, CListenFails,
      CWait, CAccept, CGreet, CSend, CSendBusy, CSendFails, CSpinEnds, CWake, CClose, CReturn,
      CDelete, Reclaim
<1>2. CASE CReturn(c) /\ Len(socketQueue) < QueueLength
  <2>1. cpc[c] = "return" /\ cpc' = [cpc EXCEPT ![c] = "delete"]
    BY <1>2 DEF CReturn
  <2>2. /\ Serving(c) /\ WorkerOf(c) = workerSocket[c] /\ workerSocket[c] \in Worker
        /\ ~Serving(c)'
    BY <2>1 DEF Serving, WorkerOf, NoTaskPc, TypeInv, TypeOK, Assigned
  <2>3. \A d \in Child \ {c} : (Serving(d)' <=> Serving(d)) /\ WorkerOf(d)' = WorkerOf(d)
    BY <1>2, <2>1 DEF CReturn, Serving, WorkerOf, TypeInv, TypeOK
  <2>4. /\ Available' = Available \cup {WorkerOf(c)}
        /\ IsInjective(socketQueue')
    <3>1. socketQueue' = Append(socketQueue, workerSocket[c])
      BY <1>2 DEF CReturn
    <3>2. socketQueue \in Seq(Worker) /\ IsInjective(socketQueue)
      BY DEF TypeInv, TypeOK, ExclusiveInv, Apart
    <3>3. workerSocket[c] \notin Range(socketQueue)
      BY <2>2 DEF ExclusiveInv, Apart, Available
    <3>4. QED
      BY <2>2, <3>1, <3>2, <3>3, AppendToPool DEF Available
  <2>5. UNCHANGED <<lpc, childSocket>>
    BY ChildLeavesListener
  <2>6. Apart'
    BY <2>2, <2>3, <2>4, <2>5 DEF ExclusiveInv, Apart
  <2>7. QED
    BY <1>1, <2>6 DEF ExclusiveInv
<1>3. CASE Reclaim(c) \/ (ChildStep(c) /\ ~(CReturn(c) /\ Len(socketQueue) < QueueLength))
  <2>1. UNCHANGED socketQueue
    BY <1>3
    DEF ChildStep, CCopy, COpen, CListen, CListenFails, CWait, CAccept, CGreet, CSend,
        CSendBusy, CSendFails, CSpinEnds, CWake, CClose, CReturn, CDelete, Reclaim
  <2>2. \A d \in Child :
          (Serving(d)' <=> Serving(d)) /\ (Serving(d) => WorkerOf(d)' = WorkerOf(d))
    BY <1>3
    DEF ChildStep, CCopy, COpen, CListen, CListenFails, CWait, CAccept, CGreet, CSend,
        CSendBusy, CSendFails, CSpinEnds, CWake, CClose, CReturn, CDelete, Reclaim,
        Serving, WorkerOf, NoTaskPc, TypeInv, TypeOK
  <2>3. Apart'
    BY <2>1, <2>2, ChildLeavesListener DEF ExclusiveInv, Apart, Available
  <2>4. QED
    BY <1>1, <2>3 DEF ExclusiveInv
<1>4. QED
  BY <1>2, <1>3

LEMMA ExclusiveNetwork ==
  ASSUME EagerClient = FALSE, TypeInv, ExclusiveInv, NEW s \in Socket, NetworkStep(s)
  PROVE  ExclusiveInv'
<1>1. Apart'
  BY DEF NetworkStep, serverVars, ExclusiveInv, Apart, Available, Serving, WorkerOf
<1>2. lpc = "poll" /\ sr[Listener] = "LISTEN" => sr'[Listener] = "LISTEN"
  <2> SUFFICES ASSUME lpc = "poll", sr[Listener] = "LISTEN" PROVE sr'[Listener] = "LISTEN"
    OBVIOUS
  <2>1. CASE s = Listener
    <3>1. ~SynMayArrive(s)
      BY <2>1 DEF SynMayArrive
    <3>2. QED
      BY <2>1, <3>1
      DEF NetworkStep, HandshakeDone, FinArrives, ConnectionLost, Delivery, Acknowledged,
          RetransmissionTimeout, SendBusy, Connected, Moves
  <2>2. CASE s # Listener
    BY <2>2, ListenerInSocket
    DEF NetworkStep, SynArrives, HandshakeDone, FinArrives, ConnectionLost, Delivery,
        Acknowledged, RetransmissionTimeout, Moves, TypeInv, TypeOK, ApiTypeOK
  <2>3. QED
    BY <2>1, <2>2
<1>3. HandOver'
  BY <1>2 DEF NetworkStep, serverVars, ExclusiveInv, HandOver
<1>4. QED
  BY <1>1, <1>3 DEF ExclusiveInv

LEMMA ExclusiveNext ==
  ASSUME EagerClient = FALSE
  PROVE  TypeInv /\ ExclusiveInv /\ [Next]_vars => ExclusiveInv'
<1> SUFFICES ASSUME TypeInv, ExclusiveInv, [Next]_vars PROVE ExclusiveInv'
  OBVIOUS
<1>1. CASE UNCHANGED vars
  BY <1>1
  DEF vars, apiVars, serverVars, ExclusiveInv, HandOver, Apart, Available, Serving, WorkerOf
<1>2. QED
  BY <1>1, ExclusiveListener, ExclusiveChild, ExclusiveNetwork DEF Next

LEMMA ExclusiveCorrect == ASSUME EagerClient = FALSE PROVE Spec => []ExclusiveInv
BY TypeInvCorrect, ExclusiveInit, ExclusiveNext, PTL DEF Spec

\* Unless a client is faster than the listener's first poll, no worker is ever
\* in two hands: not twice in the pool, not with two tasks (server.c:80-89, 209).
THEOREM WorkersExclusive == ASSUME EagerClient = FALSE PROVE Spec => []ExclusiveWorkers
<1>1. ExclusiveInv => ExclusiveWorkers
  BY ApartIsExclusive DEF ExclusiveInv
<1>2. QED
  BY <1>1, ExclusiveCorrect, PTL

-----------------------------------------------------------------------------
(***************************************************************************)
(* Tasks and the chip.  Where a task is bounds what the chip may show for  *)
(* its worker, and a worker without a task is closed.                      *)
(***************************************************************************)
Agrees(c) ==
  /\ cpc[c] \in {"created", "close", "return"} => sr[WorkerOf(c)] = "CLOSED"
  /\ cpc[c] \in {"open", "accept"} => sr[WorkerOf(c)] \notin {"INIT", "LISTEN"}
  /\ cpc[c] = "listen" => sr[WorkerOf(c)] = "INIT"
  /\ cpc[c] = "wait" => sr[WorkerOf(c)] # "INIT"
  /\ cpc[c] \in {"greet", "send", "spin", "pause"} =>
       sr[WorkerOf(c)] \in {"CLOSED", "ESTABLISHED", "CLOSE_WAIT"}

StatusInv == NoOrphanSocket /\ \A c \in Child : Agrees(c)

LEMMA StatusInit == Init => StatusInv
BY ListenerInSocket DEF Init, ApiInit, StatusInv, NoOrphanSocket, Agrees

LEMMA ListenerLeavesWorkers ==
  ASSUME TypeInv, ListenerStep, NEW w \in Worker
  PROVE  sr'[w] = sr[w]
<1>1. w # Listener /\ w \in Socket /\ Listener \in Socket /\ sr \in [Socket -> SocketStatus]
  BY ListenerInSocket DEF Worker, Listener, TypeInv, TypeOK, ApiTypeOK
<1>2. QED
  BY <1>1
  DEF ListenerStep, LOpen, LListen, LPoll, LWake, LAccept, LReceive, LReceiveTimeout,
      LSendPort, LRefuse, LCreate, LCreateFails, LSave, LClose, ListenerGoes, OpenTcp,
      CloseSocket, Reopened, ListenOk, ListenMissed, SendCompleteMessage, Transmit,
      SendFails, apiVars

LEMMA StatusListener ==
  ASSUME TypeInv, ExclusiveInv, StatusInv, ListenerStep
  PROVE  StatusInv'
<1>1. \A w \in Worker : sr'[w] = sr[w]
  BY ListenerLeavesWorkers
<1>2. CASE LCreate
  <2>1. PICK c \in Child : cpc[c] = "free" /\ cpc' = [cpc EXCEPT ![c] = "created"]
    BY <1>2 DEF LCreate
  <2>2. childSocket \in Worker /\ UNCHANGED <<childSocket, workerSocket>> /\ lpc = "create"
    BY <1>2 DEF LCreate, TypeInv, Assigned
  <2>3. sr[childSocket] = "CLOSED"
    BY <2>2 DEF StatusInv, NoOrphanSocket, ExclusiveInv, Apart
  <2>4. Agrees(c)'
    BY <1>1, <2>1, <2>2, <2>3 DEF Agrees, WorkerOf, TypeInv, TypeOK
  <2>5. ASSUME NEW d \in Child, d # c
        PROVE  Agrees(d)' /\ Serving(d)' = Serving(d) /\ WorkerOf(d)' = WorkerOf(d)
    <3>1. cpc'[d] = cpc[d]
      BY <2>1, <2>5 DEF TypeInv, TypeOK
    <3>2. Serving(d)' = Serving(d) /\ WorkerOf(d)' = WorkerOf(d)
      BY <2>2, <3>1 DEF Serving, WorkerOf
    <3>3. Serving(d) => sr'[WorkerOf(d)] = sr[WorkerOf(d)]
      BY <1>1 DEF TypeInv, Assigned
    <3>4. Agrees(d)'
      BY <3>1, <3>2, <3>3 DEF StatusInv, Agrees, Serving, NoTaskPc
    <3>5. QED
      BY <3>2, <3>4
  <2>6. ~Serving(c)
    BY <2>1 DEF Serving, NoTaskPc
  <2>7. NoOrphanSocket'
    BY <1>1, <2>5, <2>6 DEF StatusInv, NoOrphanSocket
  <2>8. QED
    BY <2>4, <2>5, <2>7 DEF StatusInv
<1>3. CASE ~LCreate
  <2>1. UNCHANGED <<cpc, workerSocket>>
    BY <1>3
    DEF ListenerStep, LOpen, LListen, LPoll, LWake, LAccept, LReceive, LReceiveTimeout,
        LSendPort, LRefuse, LCreateFails, LSave, LClose, ListenerGoes
  <2>2. childSocket' # childSocket => \A c \in Child : cpc[c] # "created"
    BY <1>3
    DEF ExclusiveInv, HandOver, ListenerStep, LOpen, LListen, LPoll, LWake, LAccept, LReceive,
        LReceiveTimeout, LSendPort, LRefuse, LCreateFails, LSave, LClose, ListenerGoes,
        PoolUnchanged
  <2>3. ASSUME NEW c \in Child
        PROVE  WorkerOf(c)' = WorkerOf(c) /\ Serving(c)' = Serving(c)
    BY <2>1, <2>2 DEF WorkerOf, Serving
  <2>4. \A c \in Child : Serving(c) => sr'[WorkerOf(c)] = sr[WorkerOf(c)]
    BY <1>1 DEF TypeInv, Assigned
  <2>5. QED
    BY <1>1, <2>1, <2>3, <2>4 DEF StatusInv, NoOrphanSocket, Agrees, Serving, NoTaskPc
<1>4. QED
  BY <1>2, <1>3

\* What one step of a child may change: its own place and its own socket.
LEMMA ChildFrame ==
  ASSUME TypeInv, NEW c \in Child, ChildStep(c) \/ Reclaim(c)
  PROVE  /\ \A d \in Child \ {c} : cpc'[d] = cpc[d] /\ workerSocket'[d] = workerSocket[d]
         /\ UNCHANGED childSocket
         /\ \A w \in Worker : w # workerSocket[c] => sr'[w] = sr[w]
<1> USE DEF ChildGoes, OnlyChild, SpinEnds, TypeInv, TypeOK
<1>1. /\ \A d \in Child \ {c} : cpc'[d] = cpc[d] /\ workerSocket'[d] = workerSocket[d]
      /\ UNCHANGED childSocket
  BY DEF ChildStep, CCopy, COpen, CListen, CListenFails, CWait, CAccept, CGreet, CSend,
         CSendBusy, CSendFails, CSpinEnds, CWake, CClose, CReturn, CDelete, Reclaim
<1>2. ASSUME NEW w \in Worker, w # workerSocket[c]
      PROVE  sr'[w] = sr[w]
  BY <1>2, ListenerInSocket
  DEF ChildStep, CCopy, COpen, CListen, CListenFails, CWait, CAccept, CGreet, CSend,
      CSendBusy, CSendFails, CSpinEnds, CWake, CClose, CReturn, CDelete, Reclaim, ApiTypeOK,
      OpenTcp, CloseSocket, Reopened, ListenOk, ListenMissed, ListenRefused,
      SendCompleteMessage, Transmit, SendFails, apiVars
<1>3. QED
  BY <1>1, <1>2

\* The step keeps the task in line with its socket.
LEMMA ChildAgrees ==
  ASSUME TypeInv, NEW c \in Child, ChildStep(c) \/ Reclaim(c), Agrees(c)
  PROVE  /\ Agrees(c)'
         /\ Serving(c) /\ ~Serving(c)' => sr'[WorkerOf(c)] = "CLOSED"
         /\ Serving(c)' => Serving(c) /\ WorkerOf(c)' = WorkerOf(c)
         /\ ~Serving(c) => sr' = sr
<1> USE DEF ChildGoes, OnlyChild, SpinEnds, TypeInv, TypeOK, Agrees, Serving, WorkerOf, NoTaskPc
<1>1. CASE CCopy(c)
  BY <1>1 DEF CCopy, apiVars
<1>2. CASE COpen(c) \/ CListen(c) \/ CListenFails(c) \/ CClose(c)
  <2>1. workerSocket[c] \in Socket
    BY <1>2, ListenerInSocket DEF COpen, CListen, CListenFails, CClose, Assigned
  <2>2. QED
    BY <1>2, <2>1
    DEF COpen, CListen, CListenFails, CClose, OpenTcp, CloseSocket, Reopened, ListenOk,
        ListenMissed, ListenRefused, ApiTypeOK, apiVars
<1>3. CASE CWait(c) \/ CAccept(c) \/ CGreet(c)
  <2>1. sr' = sr /\ UNCHANGED workerSocket
    BY <1>3 DEF CWait, CAccept, CGreet, SendCompleteMessage, Transmit, SendFails, apiVars
  <2>2. workerSocket[c] \in Socket
    BY <1>3, ListenerInSocket DEF CWait, CAccept, CGreet, Assigned
  <2>3. sr[workerSocket[c]] \in SocketStatus
    BY <2>2 DEF ApiTypeOK
  <2>4. QED
    BY <1>3, <2>1, <2>3 DEF CWait, CAccept, CGreet, SocketStatus
<1>4. CASE CSend(c) \/ CSendBusy(c) \/ CWake(c)
  BY <1>4 DEF CSend, CSendBusy, CWake, Transmit, apiVars
<1>5. CASE CSendFails(c) \/ CSpinEnds(c)
  BY <1>5 DEF CSendFails, CSpinEnds, SendFails, Connected, Transmit, apiVars
<1>6. CASE CReturn(c) \/ CDelete(c) \/ Reclaim(c)
  BY <1>6 DEF CReturn, CDelete, Reclaim, apiVars
<1>7. QED
  BY <1>1, <1>2, <1>3, <1>4, <1>5, <1>6 DEF ChildStep

LEMMA StatusChild ==
  ASSUME TypeInv, ExclusiveInv, StatusInv, NEW c \in Child, ChildStep(c) \/ Reclaim(c)
  PROVE  StatusInv'
<1>1. Agrees(c)
  BY DEF StatusInv
<1>2. ASSUME NEW d \in Child, d # c
      PROVE  /\ Agrees(d)'
             /\ Serving(d) => Serving(d)' /\ WorkerOf(d)' = WorkerOf(d)
  <2>1. /\ cpc'[d] = cpc[d] /\ WorkerOf(d)' = WorkerOf(d) /\ Serving(d)' = Serving(d)
    BY <1>2, ChildFrame DEF WorkerOf, Serving
  <2>2. Serving(d) => sr'[WorkerOf(d)] = sr[WorkerOf(d)]
    <3>1. CASE ~Serving(c)
      BY <1>1, <3>1, ChildAgrees
    <3>2. CASE Serving(c) /\ cpc[c] = "created"
      <4>1. sr' = sr
        BY <3>2
        DEF ChildStep, CCopy, COpen, CListen, CListenFails, CWait, CAccept, CGreet, CSend,
            CSendBusy, CSendFails, CSpinEnds, CWake, CClose, CReturn, CDelete, Reclaim,
            ChildGoes, SpinEnds, apiVars
      <4>2. QED
        BY <4>1
    <3>3. CASE Serving(c) /\ cpc[c] # "created"
      <4>1. SUFFICES ASSUME Serving(d) PROVE sr'[WorkerOf(d)] = sr[WorkerOf(d)]
        OBVIOUS
      <4>2. WorkerOf(d) # workerSocket[c]
        BY <1>2, <3>3, <4>1 DEF ExclusiveInv, Apart, WorkerOf
      <4>3. WorkerOf(d) \in Worker
        BY <4>1 DEF TypeInv, Assigned
      <4>4. QED
        BY <4>2, <4>3, ChildFrame
    <3>4. QED
      BY <3>1, <3>2, <3>3
  <2>3. Agrees(d)'
    BY <2>1, <2>2 DEF StatusInv, Agrees, Serving, NoTaskPc
  <2>4. QED
    BY <2>1, <2>3
<1>3. NoOrphanSocket'
  <2> SUFFICES ASSUME NEW w \in Worker, sr'[w] # "CLOSED"
               PROVE  \E d \in Child : Serving(d)' /\ WorkerOf(d)' = w
    BY DEF NoOrphanSocket
  <2>1. CASE Serving(c) /\ WorkerOf(c) = w
    <3>1. Serving(c)'
      BY <1>1, <2>1, ChildAgrees
    <3>2. QED
      BY <1>1, <2>1, <3>1, ChildAgrees
  <2>2. CASE ~(Serving(c) /\ WorkerOf(c) = w)
    <3>1. sr'[w] = sr[w]
      <4>1. CASE ~Serving(c)
        BY <1>1, <4>1, ChildAgrees
      <4>2. CASE Serving(c) /\ cpc[c] = "created"
        BY <4>2
        DEF ChildStep, CCopy, COpen, CListen, CListenFails, CWait, CAccept, CGreet, CSend,
            CSendBusy, CSendFails, CSpinEnds, CWake, CClose, CReturn, CDelete, Reclaim,
            ChildGoes, SpinEnds, apiVars
      <4>3. CASE Serving(c) /\ cpc[c] # "created"
        BY <2>2, <4>3, ChildFrame DEF WorkerOf
      <4>4. QED
        BY <4>1, <4>2, <4>3
    <3>2. PICK d \in Child : Serving(d) /\ WorkerOf(d) = w
      BY <3>1 DEF StatusInv, NoOrphanSocket
    <3>3. QED
      BY <1>2, <2>2, <3>2
  <2>3. QED
    BY <2>1, <2>2
<1>4. QED
  BY <1>1, <1>2, <1>3, ChildAgrees DEF StatusInv

\* The network moves a socket along its states and never opens a closed one.
LEMMA StatusNetwork ==
  ASSUME TypeInv, StatusInv, NEW s \in Socket, NetworkStep(s)
  PROVE  StatusInv'
<1>1. UNCHANGED serverVars
  BY DEF NetworkStep
<1>2. ASSUME NEW w \in Worker
      PROVE  \/ sr'[w] = sr[w]
             \/ sr[w] = "LISTEN" /\ sr'[w] = "SYNRECV"
             \/ sr[w] = "SYNRECV" /\ sr'[w] \in {"ESTABLISHED", "CLOSED"}
             \/ sr[w] = "ESTABLISHED" /\ sr'[w] \in {"CLOSE_WAIT", "CLOSED"}
             \/ sr[w] = "CLOSE_WAIT" /\ sr'[w] = "CLOSED"
  BY ListenerInSocket
  DEF NetworkStep, SynArrives, HandshakeDone, FinArrives, ConnectionLost, Delivery,
      Acknowledged, RetransmissionTimeout, SendBusy, Connected, Moves, TypeInv, TypeOK, ApiTypeOK
<1>3. ASSUME NEW c \in Child PROVE Agrees(c)'
  <2>1. WorkerOf(c)' = WorkerOf(c) /\ cpc'[c] = cpc[c]
    BY <1>1 DEF serverVars, WorkerOf
  <2>2. Serving(c) => WorkerOf(c) \in Worker
    BY DEF TypeInv, Assigned
  <2>3. Agrees(c)
    BY DEF StatusInv
  <2>4. CASE Serving(c)
    BY <1>2, <2>1, <2>2, <2>3, <2>4 DEF Agrees
  <2>5. CASE ~Serving(c)
    BY <2>1, <2>5 DEF Agrees, Serving, NoTaskPc
  <2>6. QED
    BY <2>4, <2>5
<1>4. NoOrphanSocket'
  BY <1>1, <1>2 DEF StatusInv, NoOrphanSocket, serverVars, Serving, WorkerOf
<1>5. QED
  BY <1>3, <1>4 DEF StatusInv

LEMMA StatusNext == TypeInv /\ ExclusiveInv /\ StatusInv /\ [Next]_vars => StatusInv'
<1>1. ASSUME StatusInv, UNCHANGED vars PROVE StatusInv'
  BY <1>1
  DEF vars, apiVars, serverVars, StatusInv, NoOrphanSocket, Agrees, Serving, WorkerOf
<1>2. QED
  BY <1>1, StatusListener, StatusChild, StatusNetwork DEF Next

LEMMA StatusCorrect == ASSUME EagerClient = FALSE PROVE Spec => []StatusInv
BY TypeInvCorrect, ExclusiveCorrect, StatusInit, StatusNext, PTL DEF Spec

\* Unless a client is faster than the first poll, a worker that is open on the
\* chip has a task that will close it (server.c:207-246).
THEOREM NoOrphan == ASSUME EagerClient = FALSE PROVE Spec => []NoOrphanSocket
BY StatusCorrect, PTL DEF StatusInv

-----------------------------------------------------------------------------
(* An established client is not cut off by the server.                      *)

CutOff(w) == sr[w] = "ESTABLISHED" /\ sr'[w] # "ESTABLISHED"

LEMMA ChildNeverCutsOff ==
  ASSUME TypeInv, StatusInv, NEW c \in Child, ChildStep(c) \/ Reclaim(c)
  PROVE  \A w \in Worker : CutOff(w) => ReopensAfterTimeout(w)
<1> SUFFICES ASSUME NEW w \in Worker, sr[w] = "ESTABLISHED", ~ReopensAfterTimeout(w)
             PROVE  sr'[w] = "ESTABLISHED"
  BY DEF CutOff
<1> USE DEF ChildGoes, OnlyChild, SpinEnds
<1>1. Agrees(c)
  BY DEF StatusInv
<1>2. CASE COpen(c) \/ CListen(c) \/ CListenFails(c) \/ CClose(c)
  <2>1. workerSocket[c] # w
    BY <1>1, <1>2
    DEF COpen, CListen, CListenFails, CClose, Agrees, WorkerOf, ReopensAfterTimeout
  <2>2. QED
    BY <2>1, ChildFrame
<1>3. CASE CCopy(c) \/ CWait(c) \/ CAccept(c) \/ CGreet(c) \/ CReturn(c) \/ CDelete(c) \/ Reclaim(c)
  BY <1>3
  DEF CCopy, CWait, CAccept, CGreet, CReturn, CDelete, Reclaim, apiVars, SendCompleteMessage,
      Transmit, SendFails
<1>4. CASE CSend(c) \/ CSendBusy(c) \/ CSendFails(c) \/ CSpinEnds(c) \/ CWake(c)
  BY <1>4 DEF CSend, CSendBusy, CSendFails, CSpinEnds, CWake, Transmit, SendFails, apiVars
<1>5. QED
  BY <1>2, <1>3, <1>4 DEF ChildStep

\* Unless a client is faster than the first poll, no task reopens or closes a
\* worker socket under an established client, except the child that gave up
\* waiting for the end of the handshake (server.c:148-162, 215, 239).
THEOREM NeverCutsOff == ASSUME EagerClient = FALSE PROVE Spec => OnlyNetworkCutsOff
<1> DEFINE Allowed == \A w \in Worker :
                        CutOff(w) => UNCHANGED serverVars \/ ReopensAfterTimeout(w)
<1>1. TypeInv /\ StatusInv /\ Next => Allowed
  <2>1. ASSUME TypeInv, ListenerStep PROVE Allowed
    BY <2>1, ListenerLeavesWorkers DEF CutOff
  <2>2. ASSUME TypeInv, StatusInv, NEW c \in Child, ChildStep(c) \/ Reclaim(c) PROVE Allowed
    BY <2>2, ChildNeverCutsOff
  <2>3. ASSUME NEW s \in Socket, NetworkStep(s) PROVE Allowed
    BY <2>3 DEF NetworkStep
  <2>4. QED
    BY <2>1, <2>2, <2>3 DEF Next
<1>2. TypeInv /\ StatusInv /\ [Next]_vars => [Allowed]_vars
  BY <1>1
<1>3. TypeInv /\ StatusInv /\ [Next]_vars =>
        [\A w \in Worker :
           sr[w] = "ESTABLISHED" /\ sr'[w] # "ESTABLISHED" =>
             UNCHANGED serverVars \/ ReopensAfterTimeout(w)]_vars
  BY <1>2 DEF CutOff
<1>4. QED
  BY <1>3, TypeInvCorrect, StatusCorrect, PTL DEF Spec, OnlyNetworkCutsOff

-----------------------------------------------------------------------------
(***************************************************************************)
(* The server implements the worker pool: receiving from the queue takes a *)
(* worker, creating the task assigns it, failing to create it abandons it, *)
(* the child's xQueueSend gives it back; every other step, the copying of  *)
(* the parameter among them, leaves the pool as it is.                     *)
(***************************************************************************)
Served == [c \in Child |-> ServedBy(c)]

LEMMA PoolInit == Init => Pool!Init
<1> SUFFICES ASSUME Init PROVE Pool!Init
  OBVIOUS
<1>1. Available = Worker
  BY DEF Init, InitialPool, Available, Range
<1>2. Taken = {} /\ Served = [c \in Child |-> {}]
  BY DEF Init, Taken, Served, ServedBy, Serving, NoTaskPc
<1>3. QED
  BY <1>1, <1>2 DEF Pool!Init, Served

LEMMA PoolListener ==
  ASSUME TypeInv, ExclusiveInv, ListenerStep
  PROVE  Pool!Next \/ UNCHANGED <<Available, Taken, Served>>
<1> USE DEF ListenerGoes, PoolUnchanged
<1>1. CASE LReceive
  <2>1. /\ childSocket' \in Available
        /\ Available' = Available \ {childSocket'}
    BY <1>1, TailOfPool
    DEF LReceive, TypeInv, TypeOK, Available, ExclusiveInv, Apart
  <2>2. childSocket' \in Worker
    BY <1>1 DEF LReceive, TypeInv, TypeOK
  <2>3. Taken = {} /\ Taken' = {childSocket'}
    BY <1>1 DEF LReceive, Taken
  <2>4. Served' = Served
    BY <1>1 DEF LReceive, Served, ServedBy, Serving, WorkerOf, ExclusiveInv, HandOver
  <2>5. Pool!Take(childSocket')
    BY <2>1, <2>3, <2>4 DEF Pool!Take, Served
  <2>6. QED
    BY <2>2, <2>5 DEF Pool!Next
<1>2. CASE LCreate
  <2>1. PICK c \in Child : cpc[c] = "free" /\ cpc' = [cpc EXCEPT ![c] = "created"]
    BY <1>2 DEF LCreate
  <2>2. Taken = {childSocket} /\ Taken' = {} /\ Available' = Available
    BY <1>2 DEF LCreate, Taken, Available
  <2>3. ServedBy(c) = {} /\ ServedBy(c)' = {childSocket}
    BY <1>2, <2>1 DEF LCreate, ServedBy, Serving, WorkerOf, NoTaskPc, TypeInv, TypeOK
  <2>4. \A d \in Child \ {c} : ServedBy(d)' = ServedBy(d)
    BY <1>2, <2>1 DEF LCreate, ServedBy, Serving, WorkerOf, TypeInv, TypeOK
  <2>5. Served' = [Served EXCEPT ![c] = Taken] /\ Served[c] = {}
    BY <2>2, <2>3, <2>4 DEF Served
  <2>6. Pool!Assign(c)
    BY <2>2, <2>5 DEF Pool!Assign, Served
  <2>7. QED
    BY <2>6 DEF Pool!Next
<1>3. CASE LCreateFails
  <2>1. Taken = {childSocket} /\ Taken' = {} /\ Available' = Available /\ Served' = Served
    BY <1>3 DEF LCreateFails, Taken, Available, Served, ServedBy, Serving, WorkerOf
  <2>2. Pool!Abandon
    BY <2>1 DEF Pool!Abandon, Served
  <2>3. QED
    BY <2>2 DEF Pool!Next
<1>4. CASE LOpen \/ LListen \/ LPoll \/ LWake \/ LAccept
  BY <1>4
  DEF LOpen, LListen, LPoll, LWake, LAccept, Taken, Available, Served, ServedBy, Serving, WorkerOf
<1>5. CASE LReceiveTimeout \/ LSendPort \/ LRefuse \/ LSave \/ LClose
  BY <1>5
  DEF LReceiveTimeout, LSendPort, LRefuse, LSave, LClose, Taken, Available, Served, ServedBy,
      Serving, WorkerOf
<1>6. QED
  BY <1>1, <1>2, <1>3, <1>4, <1>5 DEF ListenerStep

LEMMA PoolChild ==
  ASSUME TypeInv, StatusInv, NEW c \in Child, ChildStep(c) \/ Reclaim(c)
  PROVE  Pool!Next \/ UNCHANGED <<Available, Taken, Served>>
<1> USE DEF ChildGoes, OnlyChild, SpinEnds
<1>1. Taken' = Taken
  BY ChildLeavesListener DEF Taken
<1>2. \A d \in Child \ {c} : ServedBy(d)' = ServedBy(d)
  BY ChildFrame DEF ServedBy, Serving, WorkerOf
<1>3. CASE CReturn(c) /\ Len(socketQueue) < QueueLength
  <2>1. cpc[c] = "return" /\ cpc' = [cpc EXCEPT ![c] = "delete"]
    BY <1>3 DEF CReturn
  <2>2. ServedBy(c) = {workerSocket[c]} /\ ServedBy(c)' = {} /\ workerSocket[c] \in Worker
    BY <2>1 DEF ServedBy, Serving, WorkerOf, NoTaskPc, TypeInv, TypeOK, Assigned
  <2>3. Available' = Available \cup ServedBy(c)
    <3>1. socketQueue' = Append(socketQueue, workerSocket[c]) /\ socketQueue \in Seq(Worker)
      BY <1>3 DEF CReturn, TypeInv, TypeOK
    <3>2. QED
      BY <2>2, <3>1, AppendToPool DEF Available
  <2>4. Served' = [Served EXCEPT ![c] = {}] /\ Served[c] = ServedBy(c)
    BY <1>2, <2>2 DEF Served
  <2>5. Pool!GiveBack(c)
    BY <1>1, <2>2, <2>3, <2>4 DEF Pool!GiveBack, Served
  <2>6. QED
    BY <2>5 DEF Pool!Next
<1>4. CASE Reclaim(c) \/ (ChildStep(c) /\ ~(CReturn(c) /\ Len(socketQueue) < QueueLength))
  <2>1. UNCHANGED socketQueue
    BY <1>4
    DEF ChildStep, CCopy, COpen, CListen, CListenFails, CWait, CAccept, CGreet, CSend,
        CSendBusy, CSendFails, CSpinEnds, CWake, CClose, CReturn, CDelete, Reclaim
  <2>2. ServedBy(c)' = ServedBy(c)
    BY <1>4
    DEF ChildStep, CCopy, COpen, CListen, CListenFails, CWait, CAccept, CGreet, CSend,
        CSendBusy, CSendFails, CSpinEnds, CWake, CClose, CReturn, CDelete, Reclaim,
        ServedBy, Serving, WorkerOf, NoTaskPc, TypeInv, TypeOK
  <2>3. Served' = Served
    BY <1>2, <2>2 DEF Served
  <2>4. QED
    BY <1>1, <2>1, <2>3 DEF Available
<1>5. QED
  BY <1>3, <1>4

\* Unless a client is faster than the first poll, every behaviour of the server
\* is one of the worker pool: the queue, the hand-over through childSocket and
\* the scheduler are not visible in it (README.md:5).
THEOREM ServerImplementsPool == ASSUME EagerClient = FALSE PROVE Spec => PoolSpec
<1>1. TypeInv /\ ExclusiveInv /\ StatusInv /\ [Next]_vars => [Pool!Next]_(Pool!poolVars)
  <2> SUFFICES ASSUME TypeInv, ExclusiveInv, StatusInv, [Next]_vars
               PROVE  Pool!Next \/ UNCHANGED <<Available, Taken, Served>>
    BY DEF Pool!poolVars, Served
  <2>1. CASE UNCHANGED serverVars
    BY <2>1 DEF serverVars, Available, Taken, Served, ServedBy, Serving, WorkerOf
  <2>2. QED
    BY <2>1, PoolListener, PoolChild DEF Next, NetworkStep, vars
<1>2. QED
  BY <1>1, PoolInit, TypeInvCorrect, ExclusiveCorrect, StatusCorrect, PTL
  DEF Spec, PoolSpec, Pool!Spec

-----------------------------------------------------------------------------
(* The client: parts of a text.                                            *)

Octet == 0 .. 255

\* The part of a text from behind place a to place b.
Part(T, a, b) == SubSeq(T, a + 1, b)

LEMMA PartIs ==
  ASSUME NEW S, NEW T \in Seq(S), NEW a \in Nat, NEW b \in Nat, a <= b, b <= Len(T)
  PROVE  /\ Part(T, a, b) \in Seq(S) /\ Len(Part(T, a, b)) = b - a
         /\ \A i \in 1 .. b - a : Part(T, a, b)[i] = T[a + i]
<1>1. ASSUME NEW i \in a + 1 .. b PROVE T[i] \in S
  <2>1. Len(T) \in Nat
    BY LenProperties
  <2>2. i \in 1 .. Len(T)
    BY <2>1
  <2> QED
    BY <2>2, ElementOfSeq
<1> DEFINE m == a + 1
<1>2. m \in Int /\ b \in Int
  OBVIOUS
<1>3. \A i \in m .. b : T[i] \in S
  BY <1>1
<1>4. (IF m <= b THEN b - m + 1 ELSE 0) = b - a /\ b - m + 1 = b - a /\ \A i \in 1 .. b - a : m + i - 1 = a + i
  OBVIOUS
<1> HIDE DEF m
<1>5. /\ SubSeq(T, m, b) \in Seq(S) /\ Len(SubSeq(T, m, b)) = (IF m <= b THEN b - m + 1 ELSE 0)
      /\ \A i \in 1 .. b - m + 1 : SubSeq(T, m, b)[i] = T[m + i - 1]
  BY <1>2, <1>3, SubSeqProperties
<1>6. Part(T, a, b) = SubSeq(T, m, b)
  BY DEF Part, m
<1> QED
  BY <1>4, <1>5, <1>6

LEMMA FirstPart ==
  ASSUME NEW S, NEW T \in Seq(S), NEW b \in Nat, b <= Len(T)
  PROVE  Len(Part(T, 0, b)) = b /\ \A i \in 1 .. b : Part(T, 0, b)[i] = T[i]
<1> DEFINE a == 0
<1>1. a \in Nat /\ a <= b /\ b - a = b /\ \A i \in 1 .. b : a + i = i
  OBVIOUS
<1> HIDE DEF a
<1>2. Len(Part(T, a, b)) = b - a /\ \A i \in 1 .. b - a : Part(T, a, b)[i] = T[a + i]
  BY <1>1, PartIs
<1> QED
  BY <1>1, <1>2 DEF a

\* Parts that follow each other, a part without its first element, one with
\* the next, none and the whole.
LEMMA PartsJoin ==
  ASSUME NEW S, NEW T \in Seq(S), NEW a \in Nat, NEW b \in Nat, NEW c \in Nat,
         a <= b, b <= c, c <= Len(T)
  PROVE  Part(T, a, b) \o Part(T, b, c) = Part(T, a, c)
<1>1. Len(T) \in Nat
  BY LenProperties
<1>2. a + 1 \in 1 .. Len(T) + 1 /\ b \in (a + 1) - 1 .. Len(T) /\ c \in b .. Len(T)
  BY <1>1
<1> QED
  BY <1>2, ConcatAdjacentSubSeq DEF Part

LEMMA PartHead ==
  ASSUME NEW S, NEW T \in Seq(S), NEW a \in Nat, NEW b \in Nat, a < b, b <= Len(T)
  PROVE  Head(Part(T, a, b)) = T[a + 1] /\ Tail(Part(T, a, b)) = Part(T, a + 1, b)
<1>1. Len(T) \in Nat
  BY LenProperties
<1>2. a + 1 \in 1 .. Len(T) /\ b \in a + 1 .. Len(T)
  BY <1>1
<1> QED
  BY <1>2, HeadTailOfSubSeq DEF Part

LEMMA NoPart ==
  ASSUME NEW T, NEW a \in Nat
  PROVE  Part(T, a, a) = <<>>
<1>1. a + 1 \in Int /\ a \in Int /\ a < a + 1
  OBVIOUS
<1> QED
  BY <1>1, SubSeqEmpty DEF Part

LEMMA WholePart ==
  ASSUME NEW S, NEW T \in Seq(S)
  PROVE  Part(T, 0, Len(T)) = T
BY SubSeqFull DEF Part

LEMMA PartAppends ==
  ASSUME NEW S, NEW T \in Seq(S), NEW a \in Nat, NEW b \in Nat, a <= b, b < Len(T)
  PROVE  Append(Part(T, a, b), T[b + 1]) = Part(T, a, b + 1)
<1> DEFINE p == Part(T, a, b)  r == Part(T, a, b + 1)  q == Append(p, T[b + 1])
<1>1. Len(T) \in Nat
  BY LenProperties
<1>2. b + 1 \in Nat /\ a <= b + 1 /\ b + 1 <= Len(T) /\ b <= Len(T) /\ b + 1 \in 1 .. Len(T)
  BY <1>1
<1>3. T[b + 1] \in S
  BY <1>2, ElementOfSeq
<1>4. p \in Seq(S) /\ Len(p) = b - a /\ \A i \in 1 .. b - a : p[i] = T[a + i]
  BY <1>2, PartIs
<1>5. r \in Seq(S) /\ Len(r) = b + 1 - a /\ \A i \in 1 .. b + 1 - a : r[i] = T[a + i]
  <2> DEFINE c == b + 1
  <2>1. c \in Nat /\ a <= c /\ c <= Len(T)
    BY <1>2
  <2> HIDE DEF c
  <2>2. /\ Part(T, a, c) \in Seq(S) /\ Len(Part(T, a, c)) = c - a
        /\ \A i \in 1 .. c - a : Part(T, a, c)[i] = T[a + i]
    BY <2>1, PartIs
  <2> QED
    BY <2>2 DEF c
<1> HIDE DEF p, r
<1>6. /\ q \in Seq(S) /\ Len(q) = Len(p) + 1
      /\ \A i \in 1 .. Len(p) : q[i] = p[i]
      /\ q[Len(p) + 1] = T[b + 1]
  BY <1>3, <1>4, AppendProperties
<1> HIDE DEF q
<1>7. Len(q) = b + 1 - a /\ b + 1 - a \in Nat
  BY <1>4, <1>6
<1>8. ASSUME NEW i \in 1 .. b + 1 - a PROVE q[i] = r[i]
  <2>1. CASE i = b + 1 - a
    <3>1. i = Len(p) + 1 /\ a + i = b + 1
      BY <1>4, <2>1
    <3> QED
      BY <1>5, <1>6, <3>1
  <2>2. CASE i # b + 1 - a
    <3>1. i \in 1 .. b - a
      BY <2>2
    <3> QED
      BY <1>4, <1>5, <1>6, <3>1
  <2> QED
    BY <2>1, <2>2
<1>9. q = r
  BY <1>5, <1>6, <1>7, <1>8, SeqEqual
<1> QED
  BY <1>9 DEF p, q, r

\* Of two texts one after the other a part of the first.
LEMMA PartOfFirst ==
  ASSUME NEW S, NEW s \in Seq(S), NEW t \in Seq(S), NEW n \in 0 .. Len(s)
  PROVE  Part(s \o t, 0, n) = Part(s, 0, n)
<1>1. Len(s) \in Nat
  BY LenProperties
<1>2. CASE n = 0
  BY <1>2, NoPart
<1>3. CASE n # 0
  <2>1. 1 \in 1 .. Len(s) /\ n \in 1 .. Len(s) /\ 0 + 1 = 1
    BY <1>1, <1>3
  <2> QED
    BY <2>1, SubSeqOfConcat1 DEF Part
<1> QED
  BY <1>2, <1>3

\* and the second.
LEMMA PartSecond ==
  ASSUME NEW S, NEW s \in Seq(S), NEW t \in Seq(S)
  PROVE  Part(s \o t, Len(s), Len(s) + Len(t)) = t
<1> DEFINE a == Len(s)  n == Len(t)  all == s \o t
<1>1. a \in Nat /\ n \in Nat
  BY LenProperties
<1>2. all \in Seq(S) /\ Len(all) = a + n /\ \A i \in 1 .. a + n : all[i] = IF i <= a THEN s[i] ELSE t[i - a]
  BY ConcatProperties
<1> HIDE DEF all, a, n
<1> DEFINE p == Part(all, a, a + n)
<1>3. p \in Seq(S) /\ Len(p) = (a + n) - a /\ \A i \in 1 .. (a + n) - a : p[i] = all[a + i]
  <2> DEFINE c == a + n
  <2>1. a \in Nat /\ c \in Nat /\ a <= c /\ c <= Len(all) /\ all \in Seq(S)
    BY <1>1, <1>2
  <2> HIDE DEF c
  <2>2. /\ Part(all, a, c) \in Seq(S) /\ Len(Part(all, a, c)) = c - a
        /\ \A i \in 1 .. c - a : Part(all, a, c)[i] = all[a + i]
    BY <2>1, PartIs
  <2> QED
    BY <2>2 DEF c
<1> HIDE DEF p
<1>4. Len(p) = n /\ \A i \in 1 .. n : p[i] = t[i]
  <2>1. (a + n) - a = n /\ \A i \in 1 .. n : a + i \in 1 .. a + n /\ ~(a + i <= a) /\ (a + i) - a = i
    BY <1>1
  <2> QED
    BY <1>2, <1>3, <2>1
<1>5. p = t
  BY <1>3, <1>4, SeqEqual DEF n
<1> QED
  BY <1>5 DEF p, all, a, n

-----------------------------------------------------------------------------
(* The client: what is defined step by step.                               *)

\* A set of numbers that is not empty has a smallest one.
LEMMA SmallestNumber ==
  ASSUME NEW S \in SUBSET Nat, S # {}
  PROVE  \E n \in S : \A k \in S : n <= k
<1> DEFINE Below == {r \in Nat \X Nat : r[1] < r[2]}
<1>1. IsWellFoundedOn(Below, Nat)
  BY NatLessThanWellFounded DEF OpToRel
<1>2. PICK n \in S : \A k \in S : ~(<<k, n>> \in Below)
  <2> HIDE DEF Below
  <2> QED
    BY <1>1, WFMin
<1>3. \A k \in S : k \in Nat /\ n \in Nat /\ ~(k < n)
  BY <1>2
<1> QED
  BY <1>3

\* So a set of numbers that has 0, and with each the next, has all of them.
LEMMA Countdown ==
  ASSUME NEW N \in Nat, NEW S, 0 \in S, \A n \in 0 .. N - 1 : n \in S => n + 1 \in S
  PROVE  \A n \in 0 .. N : n \in S
<1> SUFFICES ASSUME ~(\A n \in 0 .. N : n \in S)
             PROVE  FALSE
  OBVIOUS
<1> DEFINE T == {n \in 0 .. N : n \notin S}
<1>1. T \in SUBSET Nat /\ T # {}
  OBVIOUS
<1>2. PICK n \in T : \A k \in T : n <= k
  <2> HIDE DEF T
  <2> QED
    BY <1>1, SmallestNumber
<1>3. n \in 1 .. N /\ n \notin S /\ n - 1 \in 0 .. N - 1 /\ (n - 1) + 1 = n
  BY <1>2
<1>4. n - 1 \notin T
  BY <1>2, <1>3
<1> QED
  BY <1>3, <1>4

\* Functions that give the next entry of a table, and the table that they make.
StepFunctions(N, X) == [(1 .. N) \X X -> X]

Made(f, N, X, x, step) ==
  f \in [0 .. N -> X] /\ f[0] = x /\ \A n \in 1 .. N : f[n] = step[<<n, f[n - 1]>>]

LEMMA Table ==
  ASSUME NEW N \in Nat, NEW X, NEW x \in X, NEW step \in StepFunctions(N, X)
  PROVE  \E f : Made(f, N, X, x, step)
<1> DEFINE Is(m, f) == f[0] = x /\ \A n \in 1 .. m : f[n] = step[<<n, f[n - 1]>>]
<1> DEFINE S == {m \in 0 .. N : \E f \in [0 .. m -> X] : Is(m, f)}
<1>1. 0 \in S
  <2> DEFINE g == [i \in 0 .. 0 |-> x]
  <2>1. g \in [0 .. 0 -> X] /\ g[0] = x
    OBVIOUS
  <2> HIDE DEF g
  <2>2. Is(0, g)
    BY <2>1
  <2>3. 0 \in 0 .. N
    OBVIOUS
  <2> HIDE DEF Is
  <2> QED
    BY <2>1, <2>2, <2>3
<1>2. ASSUME NEW m \in 0 .. N - 1, m \in S PROVE m + 1 \in S
  <2>1. PICK f \in [0 .. m -> X] : Is(m, f)
    BY <1>2
  <2> DEFINE g == [i \in 0 .. m + 1 |-> IF i = m + 1 THEN step[<<m + 1, f[m]>>] ELSE f[i]]
  <2>2. step[<<m + 1, f[m]>>] \in X
    <3>1. <<m + 1, f[m]>> \in (1 .. N) \X X
      OBVIOUS
    <3> QED
      BY <3>1 DEF StepFunctions
  <2>3. g \in [0 .. m + 1 -> X]
    BY <2>2
  <2>4. g[m + 1] = step[<<m + 1, f[m]>>] /\ \A i \in 0 .. m : g[i] = f[i]
    OBVIOUS
  <2> HIDE DEF g
  <2>5. ASSUME NEW n \in 1 .. m + 1 PROVE g[n] = step[<<n, g[n - 1]>>]
    <3>1. CASE n = m + 1
      <4>1. n - 1 = m /\ m \in 0 .. m
        BY <3>1
      <4> QED
        BY <2>4, <3>1, <4>1
    <3>2. CASE n # m + 1
      <4>1. n \in 1 .. m /\ n \in 0 .. m /\ n - 1 \in 0 .. m
        BY <3>2
      <4> QED
        BY <2>1, <2>4, <4>1
    <3> QED
      BY <3>1, <3>2
  <2>6. Is(m + 1, g)
    BY <2>1, <2>4, <2>5
  <2>7. m + 1 \in 0 .. N
    OBVIOUS
  <2> QED
    BY <2>3, <2>6, <2>7
<1>3. N \in S
  <2> HIDE DEF S
  <2>1. \A n \in 0 .. N : n \in S
    BY <1>1, <1>2, Countdown
  <2> QED
    BY <2>1
<1> QED
  BY <1>3 DEF Made

\* The texts of the first messages of q, of none to all.
Texts(q) ==
  {f \in [0 .. Len(q) -> Seq(Octet)] : f[0] = <<>> /\ \A n \in 1 .. Len(q) : f[n] = f[n - 1] \o q[n]}

LEMMA TextsExist ==
  ASSUME NEW q \in Seq(Seq(Octet))
  PROVE  \E f : f \in Texts(q)
<1> DEFINE X == Seq(Octet)
<1> DEFINE N == Len(q)
<1> DEFINE x == <<>>
<1>1. N \in Nat /\ x \in X
  BY LenProperties, EmptySeq
<1> DEFINE step == [p \in (1 .. N) \X X |-> p[2] \o q[p[1]]]
<1>2. step \in StepFunctions(N, X)
  <2>1. ASSUME NEW p \in (1 .. N) \X X PROVE p[2] \o q[p[1]] \in X
    <3>1. p[2] \in X /\ q[p[1]] \in X
      BY ElementOfSeq
    <3> QED
      BY <3>1, ConcatProperties
  <2> QED
    BY <2>1 DEF StepFunctions
<1>3. \A n \in 1 .. N, s \in X : step[<<n, s>>] = s \o q[n]
  OBVIOUS
<1> HIDE DEF step, x, X, N
<1>4. PICK f : Made(f, N, X, x, step)
  BY <1>1, <1>2, Table
<1>5. ASSUME NEW n \in 1 .. N PROVE f[n] = f[n - 1] \o q[n]
  <2>1. n - 1 \in 0 .. N
    BY <1>1
  <2> QED
    BY <1>3, <1>4, <2>1 DEF Made
<1> QED
  BY <1>4, <1>5 DEF Made, Texts, x, X, N

LEMMA FlattenIs ==
  ASSUME NEW q \in Seq(Seq(Octet)), NEW f \in Texts(q)
  PROVE  FlattenSeq(q) = f[Len(q)]
<1> DEFINE N == Len(q)
<1> DEFINE Is(g) == g = [i \in 1 .. N |-> IF i = 1 THEN q[i] ELSE g[i - 1] \o q[i]]
<1>1. N \in Nat /\ f \in [0 .. N -> Seq(Octet)] /\ f[0] = <<>> /\ \A n \in 1 .. N : f[n] = f[n - 1] \o q[n]
  BY LenProperties DEF Texts
<1>2. CASE N = 0
  <2>1. q = <<>>
    BY <1>2, EmptySeq
  <2> QED
    BY <1>1, <1>2, <2>1 DEF FlattenSeq
<1>3. CASE N # 0
  <2> DEFINE g == [i \in 1 .. N |-> f[i]]
  <2>1. Is(g)
    <3>1. ASSUME NEW i \in 1 .. N PROVE f[i] = IF i = 1 THEN q[i] ELSE g[i - 1] \o q[i]
      <4>1. CASE i = 1
        <5>1. q[1] \in Seq(Octet)
          BY <1>3, <4>1, ElementOfSeq
        <5>2. <<>> \o q[1] = q[1]
          BY <5>1, ConcatEmptySeq
        <5>3. f[1] = <<>> \o q[1]
          <6>1. f[i] = f[i - 1] \o q[i]
            BY <1>1
          <6>2. i - 1 = 0
            BY <4>1
          <6> QED
            BY <1>1, <4>1, <6>1, <6>2
        <5> QED
          BY <4>1, <5>2, <5>3
      <4>2. CASE i # 1
        <5>1. i - 1 \in 1 .. N
          BY <1>1, <4>2
        <5> QED
          BY <1>1, <4>2, <5>1
      <4> QED
        BY <4>1, <4>2
    <3> QED
      BY <3>1
  <2> DEFINE h == CHOOSE h : Is(h)
  <2>2. Is(h)
    <3> HIDE DEF Is, g
    <3> QED
      BY <2>1
  <2>3. FlattenSeq(q) = h[N]
    BY <1>3 DEF FlattenSeq
  <2> HIDE DEF h
  <2> DEFINE S == {n \in 0 .. N : n = 0 \/ h[n] = f[n]}
  <2>4. 0 \in S
    BY <1>1
  <2>5. ASSUME NEW n \in 0 .. N - 1, n \in S PROVE n + 1 \in S
    <3> DEFINE k == n + 1
    <3>1. k \in 1 .. N /\ k \in 0 .. N /\ k - 1 = n
      BY <1>1
    <3> HIDE DEF k
    <3>2. h[k] = (IF k = 1 THEN q[k] ELSE h[k - 1] \o q[k]) /\ g[k] = (IF k = 1 THEN q[k] ELSE g[k - 1] \o q[k])
      <4> HIDE DEF g
      <4> QED
        BY <2>1, <2>2, <3>1
    <3>3. g[k] = f[k] /\ f[k] = f[k - 1] \o q[k]
      BY <1>1, <3>1
    <3>4. CASE n = 0
      <4>1. k = 1
        BY <3>1, <3>4
      <4> QED
        BY <3>1, <3>2, <3>3, <4>1 DEF k
    <3>5. CASE n # 0
      <4>1. k # 1 /\ h[k - 1] = f[k - 1]
        BY <2>5, <3>1, <3>5
      <4> QED
        BY <3>1, <3>2, <3>3, <4>1 DEF k
    <3> QED
      BY <3>4, <3>5
  <2>6. N \in S
    <3> HIDE DEF S
    <3>1. \A n \in 0 .. N : n \in S
      BY <1>1, <2>4, <2>5, Countdown
    <3> QED
      BY <1>1, <3>1
  <2> QED
    BY <1>3, <2>3, <2>6
<1> QED
  BY <1>2, <1>3

\* A message more.
LEMMA FlattenAppends ==
  ASSUME NEW q \in Seq(Seq(Octet)), NEW s \in Seq(Octet)
  PROVE  FlattenSeq(q) \in Seq(Octet) /\ FlattenSeq(Append(q, s)) = FlattenSeq(q) \o s
<1> DEFINE N == Len(q)
<1> DEFINE r == Append(q, s)
<1>1. N \in Nat /\ r \in Seq(Seq(Octet)) /\ Len(r) = N + 1 /\ r[N + 1] = s /\ \A i \in 1 .. N : r[i] = q[i]
  BY LenProperties, AppendProperties
<1> HIDE DEF r
<1>2. PICK f : f \in Texts(r)
  BY <1>1, TextsExist
<1>3. /\ f \in [0 .. N + 1 -> Seq(Octet)] /\ f[0] = <<>>
      /\ \A n \in 1 .. N + 1 : f[n] = f[n - 1] \o r[n]
  BY <1>1, <1>2 DEF Texts
<1> DEFINE g == [n \in 0 .. N |-> f[n]]
<1>4. g \in [0 .. N -> Seq(Octet)] /\ g[0] = <<>> /\ g[N] = f[N]
  BY <1>1, <1>3
<1>5. ASSUME NEW n \in 1 .. N PROVE g[n] = g[n - 1] \o q[n]
  <2>1. n \in 1 .. N + 1 /\ n - 1 \in 0 .. N /\ n \in 0 .. N
    BY <1>1
  <2> QED
    BY <1>1, <1>3, <2>1
<1>6. g \in Texts(q)
  BY <1>4, <1>5 DEF Texts
<1>7. FlattenSeq(q) = f[N] /\ f[N] \in Seq(Octet)
  <2> HIDE DEF g
  <2> QED
    BY <1>1, <1>3, <1>4, <1>6, FlattenIs
<1>8. FlattenSeq(r) = f[N + 1]
  BY <1>1, <1>2, FlattenIs
<1>9. f[N + 1] = f[N] \o s
  <2> DEFINE k == N + 1
  <2>1. k \in 1 .. k /\ k - 1 = N /\ r[k] = s
    BY <1>1
  <2>2. \A n \in 1 .. k : f[n] = f[n - 1] \o r[n]
    BY <1>3
  <2> HIDE DEF k
  <2>3. f[k] = f[k - 1] \o r[k]
    BY <2>1, <2>2
  <2> QED
    BY <2>1, <2>3 DEF k
<1> QED
  BY <1>7, <1>8, <1>9 DEF r

LEMMA FlattenNothing == FlattenSeq(<<>>) = <<>>
BY EmptySeq DEF FlattenSeq

-----------------------------------------------------------------------------
(* The client: the port comes back from its decimals.                      *)

\* strtol of digits alone goes from one to the next.
LEMMA ValueMade ==
  ASSUME NEW s \in Seq(Digit)
  PROVE  \E h : /\ Value(s) = h[Len(s)] /\ h[0] = 0
                /\ \A n \in 1 .. Len(s) : h[n] = 10 * h[n - 1] + (s[n] - 48)
<1> DEFINE N == Len(s)
<1> DEFINE D == {n \in 0 .. N : \A i \in 1 .. n : s[i] \in Digit}
<1> DEFINE Is(g) == g = [n \in 0 .. N |-> IF n = 0 THEN 0 ELSE 10 * g[n - 1] + (s[n] - 48)]
<1>1. N \in Nat /\ \A i \in 1 .. N : s[i] \in Digit /\ s[i] \in Int
  <2>1. N \in Nat
    BY LenProperties
  <2>2. ASSUME NEW i \in 1 .. N PROVE s[i] \in Digit
    BY ElementOfSeq
  <2> QED
    BY <2>1, <2>2 DEF Digit
<1>2. Max(D) = N
  <2>1. N \in D /\ \A n \in D : N >= n
    BY <1>1
  <2>2. \A x \in D : x >= N => x = N
    BY <1>1
  <2> HIDE DEF D
  <2>3. Max(D) \in D /\ \A y \in D : Max(D) >= y
    BY <2>1 DEF Max
  <2> QED
    BY <2>1, <2>2, <2>3
<1>3. \E g : Is(g)
  <2> DEFINE step == [a \in (1 .. N) \X Int |-> 10 * a[2] + (s[a[1]] - 48)]
  <2> DEFINE x == 0
  <2>1. x \in Int
    OBVIOUS
  <2>2. step \in StepFunctions(N, Int)
    <3>1. ASSUME NEW a \in (1 .. N) \X Int PROVE 10 * a[2] + (s[a[1]] - 48) \in Int
      <4>1. a[1] \in 1 .. N /\ a[2] \in Int
        OBVIOUS
      <4> QED
        BY <1>1, <4>1
    <3> QED
      BY <3>1 DEF StepFunctions
  <2>3. \A n \in 1 .. N, v \in Int : step[<<n, v>>] = 10 * v + (s[n] - 48)
    OBVIOUS
  <2> HIDE DEF step, x, N
  <2>4. PICK f : Made(f, N, Int, x, step)
    BY <1>1, <2>1, <2>2, Table
  <2>5. f \in [0 .. N -> Int] /\ f[0] = 0 /\ \A n \in 1 .. N : f[n] = step[<<n, f[n - 1]>>]
    BY <2>4 DEF Made, x
  <2>6. ASSUME NEW n \in 0 .. N PROVE f[n] = IF n = 0 THEN 0 ELSE 10 * f[n - 1] + (s[n] - 48)
    <3>1. CASE n = 0
      BY <2>5, <3>1
    <3>2. CASE n # 0
      <4>1. n \in 1 .. N /\ n - 1 \in 0 .. N
        BY <1>1, <3>2
      <4> QED
        BY <2>3, <2>5, <3>2, <4>1
    <3> QED
      BY <3>1, <3>2
  <2>7. Is(f)
    BY <2>5, <2>6
  <2> HIDE DEF Is
  <2> QED
    BY <2>7
<1> DEFINE h == CHOOSE g : Is(g)
<1>4. Is(h)
  <2> HIDE DEF Is
  <2> QED
    BY <1>3
<1>5. Value(s) = h[N]
  BY <1>2 DEF Value
<1> HIDE DEF h
<1>6. h[0] = 0
  BY <1>1, <1>4
<1>7. ASSUME NEW n \in 1 .. N PROVE h[n] = 10 * h[n - 1] + (s[n] - 48)
  BY <1>1, <1>4
<1> QED
  BY <1>5, <1>6, <1>7

LEMMA Tens ==
  /\ 10^0 = 1 /\ 10^1 = 10 /\ 10^2 = 100 /\ 10^3 = 1000 /\ 10^4 = 10000 /\ 10^5 = 100000
OBVIOUS

\* How many digits a port has.
DigitsOf(n) ==
  IF n < 10 THEN 1 ELSE IF n < 100 THEN 2 ELSE IF n < 1000 THEN 3 ELSE IF n < 10000 THEN 4 ELSE 5

\* n without its last digits.
Quotients(n) == [j \in 0 .. 5 |-> n \div 10^j]

LEMMA NumberIs == \A n \in PortNumber : n \in Int /\ 0 < n /\ n < 100000
BY SMT DEF PortNumber

LEMMA QuotientsAre ==
  ASSUME NEW n \in PortNumber, NEW j \in 0 .. 5
  PROVE  /\ Quotients(n)[j] = n \div 10^j /\ Quotients(n)[j] \in Nat
         /\ Quotients(n)[j] = 0 <=> j >= DigitsOf(n)
<1>1. Quotients(n)[j] = n \div 10^j
  BY DEF Quotients
<1>2. n \in Int /\ 0 < n /\ n < 100000
  BY NumberIs
<1>3. CASE j = 0
  <2>1. Quotients(n)[j] = n \div 1
    BY <1>1, <1>3, Tens, SMT
  <2>2. n \div 1 \in Nat /\ (n \div 1 = 0 <=> n < 1)
    BY <1>2, SMT
  <2>3. j >= DigitsOf(n) <=> n < 1
    BY <1>2, <1>3, SMT DEF DigitsOf
  <2> QED
    BY <1>1, <2>1, <2>2, <2>3
<1>4. CASE j = 1
  <2>1. Quotients(n)[j] = n \div 10
    BY <1>1, <1>4, Tens, SMT
  <2>2. n \div 10 \in Nat /\ (n \div 10 = 0 <=> n < 10)
    BY <1>2, SMT
  <2>3. j >= DigitsOf(n) <=> n < 10
    BY <1>2, <1>4, SMT DEF DigitsOf
  <2> QED
    BY <1>1, <2>1, <2>2, <2>3
<1>5. CASE j = 2
  <2>1. Quotients(n)[j] = n \div 100
    BY <1>1, <1>5, Tens, SMT
  <2>2. n \div 100 \in Nat /\ (n \div 100 = 0 <=> n < 100)
    BY <1>2, SMT
  <2>3. j >= DigitsOf(n) <=> n < 100
    BY <1>2, <1>5, SMT DEF DigitsOf
  <2> QED
    BY <1>1, <2>1, <2>2, <2>3
<1>6. CASE j = 3
  <2>1. Quotients(n)[j] = n \div 1000
    BY <1>1, <1>6, Tens, SMT
  <2>2. n \div 1000 \in Nat /\ (n \div 1000 = 0 <=> n < 1000)
    BY <1>2, SMT
  <2>3. j >= DigitsOf(n) <=> n < 1000
    BY <1>2, <1>6, SMT DEF DigitsOf
  <2> QED
    BY <1>1, <2>1, <2>2, <2>3
<1>7. CASE j = 4
  <2>1. Quotients(n)[j] = n \div 10000
    BY <1>1, <1>7, Tens, SMT
  <2>2. n \div 10000 \in Nat /\ (n \div 10000 = 0 <=> n < 10000)
    BY <1>2, SMT
  <2>3. j >= DigitsOf(n) <=> n < 10000
    BY <1>2, <1>7, SMT DEF DigitsOf
  <2> QED
    BY <1>1, <2>1, <2>2, <2>3
<1>8. CASE j = 5
  <2>1. Quotients(n)[j] = n \div 100000
    BY <1>1, <1>8, Tens, SMT
  <2>2. n \div 100000 \in Nat /\ (n \div 100000 = 0 <=> n < 100000)
    BY <1>2, SMT
  <2>3. j >= DigitsOf(n) <=> n < 100000
    BY <1>2, <1>8, SMT DEF DigitsOf
  <2> QED
    BY <1>1, <2>1, <2>2, <2>3
<1> QED
  BY <1>3, <1>4, <1>5, <1>6, <1>7, <1>8

LEMMA QuotientsFollow ==
  ASSUME NEW n \in PortNumber, NEW j \in 0 .. 4
  PROVE  Quotients(n)[j] = 10 * Quotients(n)[j + 1] + (Quotients(n)[j] % 10)
<1>1. Quotients(n)[j] = n \div 10^j /\ Quotients(n)[j + 1] = n \div 10^(j + 1)
  BY DEF Quotients
<1>2. n \in Int /\ 0 < n
  BY NumberIs
<1>3. CASE j = 0
  <2>1. n \div 1 = 10 * (n \div 10) + ((n \div 1) % 10)
    BY <1>2, SMT
  <2> QED
    BY <1>1, <1>3, <2>1, Tens, SMT
<1>4. CASE j = 1
  <2>1. n \div 10 = 10 * (n \div 100) + ((n \div 10) % 10)
    BY <1>2, SMT
  <2> QED
    BY <1>1, <1>4, <2>1, Tens, SMT
<1>5. CASE j = 2
  <2>1. n \div 100 = 10 * (n \div 1000) + ((n \div 100) % 10)
    BY <1>2, SMT
  <2> QED
    BY <1>1, <1>5, <2>1, Tens, SMT
<1>6. CASE j = 3
  <2>1. n \div 1000 = 10 * (n \div 10000) + ((n \div 1000) % 10)
    BY <1>2, SMT
  <2> QED
    BY <1>1, <1>6, <2>1, Tens, SMT
<1>7. CASE j = 4
  <2>1. n \div 10000 = 10 * (n \div 100000) + ((n \div 10000) % 10)
    BY <1>2, SMT
  <2> QED
    BY <1>1, <1>7, <2>1, Tens, SMT
<1> QED
  BY <1>3, <1>4, <1>5, <1>6, <1>7

LEMMA DigitsAre ==
  ASSUME NEW n \in PortNumber
  PROVE  DigitsOf(n) \in 1 .. 5 /\ Min({k \in 1 .. 5 : n \div 10^k = 0}) = DigitsOf(n)
<1> DEFINE D == {k \in 1 .. 5 : n \div 10^k = 0}
<1> DEFINE d == DigitsOf(n)
<1>1. d \in 1 .. 5
  BY SMT DEF DigitsOf
<1> HIDE DEF d
<1>2. ASSUME NEW k \in 1 .. 5 PROVE k \in D <=> k >= d
  <2>1. k \in 0 .. 5
    OBVIOUS
  <2>2. n \div 10^k = 0 <=> k >= d
    BY <2>1, QuotientsAre DEF d
  <2> QED
    BY <2>2
<1>3. D \subseteq 1 .. 5
  OBVIOUS
<1> HIDE DEF D
<1>4. d \in D /\ \A k \in D : d <= k
  BY <1>1, <1>2, <1>3
<1>5. \A x \in D : (\A k \in D : x <= k) => x = d
  BY <1>1, <1>3, <1>4
<1>6. Min(D) = d
  BY <1>4, <1>5 DEF Min
<1> QED
  BY <1>1, <1>6 DEF D, d

LEMMA PortIsRead ==
  ASSUME NEW n \in PortNumber
  PROVE  /\ numberToString(n) \in Seq(Digit) /\ Len(numberToString(n)) \in 1 .. 5
         /\ strtol(numberToString(n)) = n
<1> DEFINE d == DigitsOf(n)
<1> DEFINE q == Quotients(n)
<1> DEFINE s == [i \in 1 .. d |-> 48 + ((n \div 10^(d - i)) % 10)]
<1>1. d \in 1 .. 5
  BY DigitsAre
<1>2. numberToString(n) = s
  BY DigitsAre DEF numberToString
<1> HIDE DEF d, q
<1>3. ASSUME NEW i \in 1 .. d
      PROVE  /\ d - i \in 0 .. 4 /\ (n \div 10^(d - i)) = q[d - i] /\ q[d - i] \in Nat
  <2> DEFINE j == d - i
  <2>1. j \in 0 .. 4 /\ j \in 0 .. 5
    BY <1>1
  <2> HIDE DEF j
  <2>2. q[j] = n \div 10^j /\ q[j] \in Nat
    BY <2>1, QuotientsAre DEF q
  <2> QED
    BY <2>1, <2>2 DEF j
<1>4. \A i \in 1 .. d : s[i] = 48 + (q[d - i] % 10)
  BY <1>3
<1>5. s \in Seq(Digit) /\ Len(s) = d
  <2>1. ASSUME NEW i \in 1 .. d PROVE 48 + ((n \div 10^(d - i)) % 10) \in Digit
    <3> DEFINE m == n \div 10^(d - i)
    <3>1. m \in Nat
      BY <1>3
    <3> HIDE DEF m
    <3>2. 48 + (m % 10) \in Digit
      BY <3>1 DEF Digit
    <3> QED
      BY <3>2 DEF m
  <2>2. s \in [1 .. d -> Digit]
    BY <2>1
  <2> HIDE DEF s
  <2>3. d \in Nat
    BY <1>1
  <2> QED
    BY <2>2, <2>3
<1> HIDE DEF s
<1>6. Value(s) = n
  <2>1. PICK h : Value(s) = h[d] /\ h[0] = 0 /\ \A k \in 1 .. d : h[k] = 10 * h[k - 1] + (s[k] - 48)
    BY <1>5, ValueMade
  <2>2. q[0] = n /\ q[d] = 0
    <3>1. q[0] = n
      <4>1. q[0] = n \div 10^0
        BY QuotientsAre DEF q
      <4>2. n \div 1 = n
        BY NumberIs, SMT
      <4> QED
        BY <4>1, <4>2, Tens, SMT
    <3>2. d \in 0 .. 5 /\ d >= d
      BY <1>1
    <3> QED
      BY <3>1, <3>2, QuotientsAre DEF q, d
  <2> DEFINE S == {k \in 0 .. d : h[k] = q[d - k]}
  <2>3. 0 \in S
    BY <1>1, <2>1, <2>2
  <2>4. ASSUME NEW k \in 0 .. d - 1, k \in S PROVE k + 1 \in S
    <3> DEFINE c == k + 1
    <3> DEFINE j == d - c
    <3>1. c \in 1 .. d /\ c \in 0 .. d /\ c - 1 = k /\ j \in 0 .. 4 /\ j \in 0 .. 5 /\ d - k = j + 1
      BY <1>1
    <3>2. h[k] = q[d - k]
      BY <2>4
    <3> HIDE DEF j, c
    <3>3. q[j] = 10 * q[j + 1] + (q[j] % 10) /\ q[j] \in Nat
      BY <3>1, QuotientsFollow, QuotientsAre DEF q
    <3>4. h[c] = 10 * h[c - 1] + (s[c] - 48)
      BY <2>1, <3>1
    <3>5. s[c] = 48 + (q[j] % 10)
      BY <1>4, <3>1 DEF j
    <3>6. q[j] % 10 \in 0 .. 9
      BY <3>3
    <3> DEFINE r == q[j] % 10
    <3>7. h[c] = 10 * q[j + 1] + (s[c] - 48) /\ s[c] = 48 + r /\ r \in 0 .. 9
      BY <3>1, <3>2, <3>4, <3>5, <3>6
    <3> HIDE DEF r
    <3>8. s[c] - 48 = r
      BY <3>7
    <3>9. h[c] = q[j]
      BY <3>3, <3>7, <3>8 DEF r
    <3> QED
      BY <3>1, <3>9 DEF c, j
  <2>5. d \in S
    <3> HIDE DEF S
    <3>1. \A k \in 0 .. d : k \in S
      BY <1>1, <2>3, <2>4, Countdown
    <3> QED
      BY <1>1, <3>1
  <2>6. h[d] = q[d - d] /\ d - d = 0
    BY <1>1, <2>5
  <2> QED
    BY <2>1, <2>2, <2>6
<1>7. Head(s) # Minus
  <2>1. s # <<>>
    BY <1>1, <1>5
  <2>2. Head(s) \in Digit
    BY <1>5, <2>1, HeadTailProperties
  <2> QED
    BY <2>2 DEF Digit, Minus
<1> QED
  BY <1>1, <1>2, <1>5, <1>6, <1>7 DEF strtol

LEMMA RefusalIsRead == strtol(<<Minus, 49>>) = -1
<1> DEFINE s == <<49>>
<1>1. s \in Seq(Digit) /\ Len(s) = 1 /\ s[1] = 49
  BY DEF Digit
<1>2. <<Minus, 49>> # <<>> /\ Head(<<Minus, 49>>) = Minus /\ Tail(<<Minus, 49>>) = s
  OBVIOUS
<1> HIDE DEF s
<1>3. PICK h : Value(s) = h[1] /\ h[0] = 0 /\ \A k \in 1 .. 1 : h[k] = 10 * h[k - 1] + (s[k] - 48)
  BY <1>1, ValueMade
<1>4. h[1] = 1
  <2>1. h[1] = 10 * h[1 - 1] + (s[1] - 48) /\ 1 - 1 = 0
    BY <1>3
  <2> QED
    BY <1>1, <1>3, <2>1
<1> QED
  BY <1>2, <1>3, <1>4 DEF strtol

-----------------------------------------------------------------------------
(* The client: a text that has arrived in part and is read byte by byte.   *)

\* Of T from p to q, l is in the line, u in the buffer, and a has arrived.
Cut(T, p, q, l, u, a) ==
  \E i, j \in Nat :
    /\ p <= i /\ i <= j /\ j <= q
    /\ l = Part(T, p, i) /\ u = Part(T, i, j) /\ a = Part(T, j, q)

LEMMA CutNew ==
  ASSUME NEW T, NEW p \in Nat
  PROVE  Cut(T, p, p, <<>>, <<>>, <<>>)
BY NoPart DEF Cut

\* How long the parts are.
LEMMA CutLengths ==
  ASSUME NEW T \in Seq(Octet), NEW p \in Nat, NEW q \in Nat, q <= Len(T), NEW l, NEW u, NEW a,
         Cut(T, p, q, l, u, a)
  PROVE  /\ l \in Seq(Octet) /\ u \in Seq(Octet) /\ a \in Seq(Octet)
         /\ Len(l) \in Nat /\ Len(u) \in Nat /\ Len(a) \in Nat
         /\ p + Len(l) + Len(u) + Len(a) = q /\ l = Part(T, p, p + Len(l))
<1>1. Len(T) \in Nat
  BY LenProperties
<1>2. PICK i, j \in Nat :
        /\ p <= i /\ i <= j /\ j <= q
        /\ l = Part(T, p, i) /\ u = Part(T, i, j) /\ a = Part(T, j, q)
  BY DEF Cut
<1>3. i <= Len(T) /\ j <= Len(T)
  BY <1>1, <1>2
<1>4. l \in Seq(Octet) /\ Len(l) = i - p
  BY <1>2, <1>3, PartIs
<1>5. u \in Seq(Octet) /\ Len(u) = j - i
  BY <1>2, <1>3, PartIs
<1>6. a \in Seq(Octet) /\ Len(a) = q - j
  BY <1>2, <1>3, PartIs
<1>7. p + Len(l) = i
  BY <1>2, <1>4
<1> QED
  BY <1>2, <1>4, <1>5, <1>6, <1>7

LEMMA CutFromStart ==
  ASSUME NEW T \in Seq(Octet), NEW q \in Nat, q <= Len(T), NEW l, NEW u, NEW a, Cut(T, 0, q, l, u, a)
  PROVE  /\ l \in Seq(Octet) /\ Len(l) \in Nat /\ Len(u) \in Nat /\ Len(a) \in Nat
         /\ Len(l) + Len(u) + Len(a) = q /\ Len(l) <= Len(T) /\ l = Part(T, 0, Len(l))
<1> DEFINE p == 0
<1>1. p \in Nat /\ Cut(T, p, q, l, u, a)
  OBVIOUS
<1> HIDE DEF p
<1>2. /\ l \in Seq(Octet) /\ Len(l) \in Nat /\ Len(u) \in Nat /\ Len(a) \in Nat
      /\ p + Len(l) + Len(u) + Len(a) = q /\ l = Part(T, p, p + Len(l))
  BY <1>1, CutLengths
<1>3. p + Len(l) = Len(l) /\ p + Len(l) + Len(u) + Len(a) = Len(l) + Len(u) + Len(a)
  BY <1>2 DEF p
<1>4. Len(l) <= Len(T)
  <2> DEFINE i == Len(l)  j == Len(u)  k == Len(a)  t == Len(T)
  <2>1. i \in Nat /\ j \in Nat /\ k \in Nat /\ t \in Nat /\ i + j + k = q /\ q <= t
    BY <1>2, <1>3, LenProperties
  <2> HIDE DEF i, j, k, t
  <2>2. i <= t
    BY <2>1
  <2> QED
    BY <2>2 DEF i, t
<1> QED
  BY <1>2, <1>3, <1>4 DEF p

LEMMA CutOfNothing ==
  ASSUME NEW T, NEW l, NEW u, NEW a, Cut(T, 0, 0, l, u, a)
  PROVE  l = <<>> /\ u = <<>> /\ a = <<>>
<1>1. PICK i, j \in Nat :
        /\ 0 <= i /\ i <= j /\ j <= 0
        /\ l = Part(T, 0, i) /\ u = Part(T, i, j) /\ a = Part(T, j, 0)
  BY DEF Cut
<1>2. i = 0 /\ j = 0
  BY <1>1
<1> QED
  BY <1>1, <1>2, NoPart

\* A byte goes from the buffer to the line.
LEMMA CutTake ==
  ASSUME NEW T \in Seq(Octet), NEW p \in Nat, NEW q \in Nat, q <= Len(T), NEW l, NEW u, NEW a,
         Cut(T, p, q, l, u, a), u # <<>>
  PROVE  Cut(T, p, q, Append(l, Head(u)), Tail(u), a)
<1>1. Len(T) \in Nat
  BY LenProperties
<1>2. PICK i, j \in Nat :
        /\ p <= i /\ i <= j /\ j <= q
        /\ l = Part(T, p, i) /\ u = Part(T, i, j) /\ a = Part(T, j, q)
  BY DEF Cut
<1>3. i # j
  BY <1>2, NoPart
<1>4. i < j /\ j <= Len(T) /\ i < Len(T)
  BY <1>1, <1>2, <1>3
<1>5. Head(u) = T[i + 1] /\ Tail(u) = Part(T, i + 1, j)
  BY <1>2, <1>4, PartHead
<1>6. Append(l, T[i + 1]) = Part(T, p, i + 1)
  BY <1>2, <1>4, PartAppends
<1> DEFINE k == i + 1
<1>7. k \in Nat /\ p <= k /\ k <= j
  BY <1>2, <1>4
<1> HIDE DEF k
<1>8. Append(l, Head(u)) = Part(T, p, k) /\ Tail(u) = Part(T, k, j)
  BY <1>5, <1>6 DEF k
<1> QED
  BY <1>2, <1>7, <1>8 DEF Cut

\* A read fills the empty buffer with some of what has arrived.
LEMMA CutRefill ==
  ASSUME NEW T \in Seq(Octet), NEW p \in Nat, NEW q \in Nat, q <= Len(T), NEW l, NEW a,
         Cut(T, p, q, l, <<>>, a), NEW n \in 1 .. Len(a)
  PROVE  Cut(T, p, q, l, SubSeq(a, 1, n), SubSeq(a, n + 1, Len(a)))
<1>1. Len(T) \in Nat
  BY LenProperties
<1>2. PICK i, j \in Nat :
        /\ p <= i /\ i <= j /\ j <= q
        /\ l = Part(T, p, i) /\ <<>> = Part(T, i, j) /\ a = Part(T, j, q)
  BY DEF Cut
<1>3. i <= Len(T) /\ j <= Len(T)
  BY <1>1, <1>2
<1>4. i = j
  <2>1. Len(Part(T, i, j)) = j - i
    BY <1>2, <1>3, PartIs
  <2>2. Len(<<>>) = 0
    BY EmptySeq
  <2> QED
    BY <1>2, <2>1, <2>2
<1>5. Len(a) = q - j
  BY <1>2, <1>3, PartIs
<1> DEFINE k == j + n
<1>6. k \in Nat /\ i <= k /\ k <= q /\ j < q
  BY <1>2, <1>4, <1>5
<1>7. SubSeq(a, 1, n) = Part(T, j, k) /\ SubSeq(a, n + 1, Len(a)) = Part(T, k, q)
  <2>1. j + 1 \in 1 .. Len(T) /\ q \in 1 .. Len(T)
    BY <1>1, <1>2, <1>6
  <2> DEFINE b == j + 1
  <2>2. a = SubSeq(T, b, q)
    BY <1>2 DEF Part
  <2>3. 1 \in 1 .. q - b + 1 /\ n \in 1 .. q - b + 1 /\ b + 1 - 1 = j + 1 /\ b + n - 1 = k
    BY <1>2, <1>5, <1>6
  <2> HIDE DEF b
  <2>4. SubSeq(SubSeq(T, b, q), 1, n) = SubSeq(T, b + 1 - 1, b + n - 1)
    BY <2>1, <2>3, SubSeqOfSubSeq DEF b
  <2>5. SubSeq(a, 1, n) = Part(T, j, k)
    BY <2>2, <2>3, <2>4 DEF Part
  <2>6. CASE k = q
    <3>1. Len(a) < n + 1 /\ n + 1 \in Int /\ Len(a) \in Int
      BY <1>2, <1>5, <2>6
    <3>2. SubSeq(a, n + 1, Len(a)) = <<>>
      BY <3>1, SubSeqEmpty
    <3>3. Part(T, k, q) = <<>>
      BY <2>6, NoPart
    <3> QED
      BY <2>5, <3>2, <3>3
  <2>7. CASE k # q
    <3> DEFINE m == n + 1
    <3>1. m \in 1 .. q - b + 1 /\ Len(a) \in 1 .. q - b + 1 /\ b + m - 1 = k + 1 /\ b + Len(a) - 1 = q
      BY <1>2, <1>5, <1>6, <2>7 DEF b
    <3> HIDE DEF m
    <3>2. SubSeq(SubSeq(T, b, q), m, Len(a)) = SubSeq(T, b + m - 1, b + Len(a) - 1)
      BY <2>1, <3>1, SubSeqOfSubSeq DEF b
    <3>3. SubSeq(a, m, Len(a)) = SubSeq(T, k + 1, q)
      BY <2>2, <3>1, <3>2
    <3> QED
      BY <2>5, <3>3 DEF m, Part
  <2> QED
    BY <2>6, <2>7
<1> HIDE DEF k
<1>8. i \in Nat /\ l = Part(T, p, i) /\ p <= i
  BY <1>2
<1> QED
  BY <1>4, <1>6, <1>7, <1>8 DEF Cut

\* More arrives, or what has arrived is lost.
LEMMA CutArrives ==
  ASSUME NEW T \in Seq(Octet), NEW p \in Nat, NEW q \in Nat, NEW r \in Nat, q <= r, r <= Len(T),
         NEW l, NEW u, NEW a, Cut(T, p, q, l, u, a)
  PROVE  Cut(T, p, r, l, u, a \o Part(T, q, r))
<1>1. PICK i, j \in Nat :
        /\ p <= i /\ i <= j /\ j <= q
        /\ l = Part(T, p, i) /\ u = Part(T, i, j) /\ a = Part(T, j, q)
  BY DEF Cut
<1>2. Part(T, j, q) \o Part(T, q, r) = Part(T, j, r)
  <2>1. j <= q
    BY <1>1
  <2> QED
    BY <2>1, PartsJoin
<1>3. j <= r
  BY <1>1
<1> QED
  BY <1>1, <1>2, <1>3 DEF Cut

CutUpTo(T, p, q, l, u) == \E r \in Nat : r <= q /\ Cut(T, p, r, l, u, <<>>)

LEMMA CutLoses ==
  ASSUME NEW T, NEW p \in Nat, NEW q \in Nat, NEW l, NEW u, NEW a,
         Cut(T, p, q, l, u, a)
  PROVE  CutUpTo(T, p, q, l, u)
<1>1. PICK i, j \in Nat :
        /\ p <= i /\ i <= j /\ j <= q
        /\ l = Part(T, p, i) /\ u = Part(T, i, j) /\ a = Part(T, j, q)
  BY DEF Cut
<1>2. Part(T, j, j) = <<>> /\ p <= j
  BY <1>1, NoPart
<1>3. Cut(T, p, j, l, u, <<>>)
  BY <1>1, <1>2 DEF Cut
<1> QED
  BY <1>1, <1>2, <1>3 DEF CutUpTo

\* The line is used; when all is read the line is all.
LEMMA CutUsed ==
  ASSUME NEW T \in Seq(Octet), NEW p \in Nat, NEW q \in Nat, q <= Len(T), NEW l, NEW u, NEW a,
         Cut(T, p, q, l, u, a)
  PROVE  Cut(T, p + Len(l), q, <<>>, u, a)
<1>1. PICK i, j \in Nat :
        /\ p <= i /\ i <= j /\ j <= q
        /\ l = Part(T, p, i) /\ u = Part(T, i, j) /\ a = Part(T, j, q)
  BY DEF Cut
<1>2. i <= Len(T)
  <2>1. Len(T) \in Nat
    BY LenProperties
  <2> QED
    BY <1>1, <2>1
<1>3. Len(l) = i - p
  BY <1>1, <1>2, PartIs
<1>4. p + Len(l) = i /\ i <= i
  BY <1>1, <1>3
<1>5. Part(T, i, i) = <<>>
  BY NoPart
<1>6. Cut(T, i, q, <<>>, u, a)
  BY <1>1, <1>4, <1>5 DEF Cut
<1> QED
  BY <1>4, <1>6

-----------------------------------------------------------------------------
(* The client: the text of the worker's messages.                          *)

\* What the first n messages say, where the message after them begins, and all.
Begun(n) == FlattenSeq(Part(Lines, 0, n))

Off(n) == Len(Begun(n))

Text == Begun(Len(Lines))

LEMMA LinesAre ==
  /\ Lines \in Seq(Seq(Octet)) /\ Len(Lines) \in Nat
  /\ \A n \in 1 .. Len(Lines) :
       /\ Lines[n] \in Seq(Octet) /\ Len(Lines[n]) \in 1 .. MAXLINE - 1
       /\ \A k \in 1 .. Len(Lines[n]) : Lines[n][k] = Newline <=> k = Len(Lines[n])
<1>1. Lines \in Seq(Seq(Octet))
  BY LineAssumption DEF Octet
<1>2. Len(Lines) \in Nat /\ DOMAIN Lines = 1 .. Len(Lines)
  BY <1>1, LenProperties
<1>3. ASSUME NEW n \in 1 .. Len(Lines)
      PROVE  /\ Lines[n] \in Seq(Octet) /\ Len(Lines[n]) \in 1 .. MAXLINE - 1
             /\ \A k \in 1 .. Len(Lines[n]) : Lines[n][k] = Newline <=> k = Len(Lines[n])
  <2>1. Lines[n] \in Seq(Octet)
    BY <1>1, ElementOfSeq
  <2>2. Len(Lines[n]) \in Nat
    BY <2>1, LenProperties
  <2>3. 0 < Len(Lines[n]) /\ Len(Lines[n]) < MAXLINE
    BY <1>2, LineAssumption
  <2>4. Len(Lines[n]) \in 1 .. MAXLINE - 1
    <3>1. MAXLINE \in Int
      BY PortAssumption, SMT
    <3> QED
      BY <2>2, <2>3, <3>1
  <2>5. \A k \in 1 .. Len(Lines[n]) : Lines[n][k] = Newline <=> k = Len(Lines[n])
    BY <1>2, LineAssumption
  <2> QED
    BY <2>1, <2>4, <2>5
<1> QED
  BY <1>1, <1>2, <1>3

LEMMA BegunIs ==
  ASSUME NEW n \in 0 .. Len(Lines)
  PROVE  /\ Part(Lines, 0, n) \in Seq(Seq(Octet))
         /\ Begun(n) \in Seq(Octet) /\ Off(n) \in Nat
         /\ n < Len(Lines) => /\ Begun(n + 1) = Begun(n) \o Lines[n + 1]
                              /\ Off(n + 1) = Off(n) + Len(Lines[n + 1])
<1>1. Lines \in Seq(Seq(Octet)) /\ Len(Lines) \in Nat
  BY LinesAre
<1>2. 0 \in Nat /\ n \in Nat /\ 0 <= n /\ n <= Len(Lines)
  BY <1>1
<1>3. Part(Lines, 0, n) \in Seq(Seq(Octet))
  BY <1>1, <1>2, PartIs
<1>4. <<>> \in Seq(Octet)
  BY EmptySeq
<1>5. Begun(n) \in Seq(Octet)
  BY <1>3, <1>4, FlattenAppends DEF Begun
<1>6. Off(n) \in Nat
  BY <1>5, LenProperties DEF Off
<1>7. ASSUME n < Len(Lines)
      PROVE  /\ Begun(n + 1) = Begun(n) \o Lines[n + 1]
             /\ Off(n + 1) = Off(n) + Len(Lines[n + 1])
  <2>1. n + 1 \in 1 .. Len(Lines)
    BY <1>1, <1>7
  <2>2. Lines[n + 1] \in Seq(Octet)
    BY <2>1, LinesAre
  <2>3. Append(Part(Lines, 0, n), Lines[n + 1]) = Part(Lines, 0, n + 1)
    BY <1>1, <1>2, <1>7, PartAppends
  <2>4. Begun(n + 1) = Begun(n) \o Lines[n + 1]
    BY <1>3, <2>2, <2>3, FlattenAppends DEF Begun
  <2>5. Len(Begun(n) \o Lines[n + 1]) = Len(Begun(n)) + Len(Lines[n + 1])
    BY <1>5, <2>2, ConcatProperties
  <2> QED
    BY <2>4, <2>5 DEF Off
<1> QED
  BY <1>3, <1>5, <1>6, <1>7

\* Each beginning is a part of every longer one.
LEMMA BegunGrows ==
  ASSUME NEW n \in 0 .. Len(Lines), NEW m \in 0 .. n
  PROVE  Off(m) <= Off(n) /\ Begun(m) = Part(Begun(n), 0, Off(m))
<1> DEFINE N == Len(Lines)
<1> DEFINE Holds(k, i) == Off(i) <= Off(k) /\ Begun(i) = Part(Begun(k), 0, Off(i))
<1> DEFINE S == {k \in 0 .. N : \A i \in 0 .. k : Holds(k, i)}
<1>1. N \in Nat
  BY LinesAre
<1>2. ASSUME NEW k \in 0 .. N PROVE Holds(k, k)
  <2>1. Begun(k) \in Seq(Octet) /\ Off(k) \in Nat
    BY BegunIs
  <2>2. Part(Begun(k), 0, Len(Begun(k))) = Begun(k)
    BY <2>1, WholePart
  <2> QED
    BY <2>1, <2>2 DEF Off
<1>3. 0 \in S
  <2>1. Holds(0, 0)
    BY <1>1, <1>2
  <2>2. \A i \in 0 .. 0 : i = 0
    OBVIOUS
  <2> HIDE DEF Holds
  <2> QED
    BY <1>1, <2>1, <2>2
<1>4. ASSUME NEW k \in 0 .. N - 1, k \in S PROVE k + 1 \in S
  <2>1. k \in 0 .. N /\ k < N /\ k + 1 \in 0 .. N /\ k + 1 \in 1 .. N
    BY <1>1
  <2>2. /\ Begun(k) \in Seq(Octet) /\ Off(k) \in Nat
        /\ Begun(k + 1) = Begun(k) \o Lines[k + 1] /\ Off(k + 1) = Off(k) + Len(Lines[k + 1])
    BY <2>1, BegunIs
  <2>3. Lines[k + 1] \in Seq(Octet) /\ Len(Lines[k + 1]) \in Nat
    <3>1. Lines[k + 1] \in Seq(Octet)
      BY <2>1, LinesAre
    <3> QED
      BY <3>1, LenProperties
  <2>4. ASSUME NEW i \in 0 .. k PROVE Holds(k + 1, i)
    <3>1. Off(i) <= Off(k) /\ Begun(i) = Part(Begun(k), 0, Off(i))
      BY <1>4
    <3>2. i \in 0 .. N
      BY <1>1, <2>1
    <3>3. Off(i) \in Nat
      BY <3>2, BegunIs
    <3>4. Off(i) \in 0 .. Len(Begun(k))
      BY <2>2, <3>1, <3>3 DEF Off
    <3>5. Part(Begun(k) \o Lines[k + 1], 0, Off(i)) = Part(Begun(k), 0, Off(i))
      BY <2>2, <2>3, <3>4, PartOfFirst
    <3>6. Off(i) <= Off(k + 1)
      BY <2>2, <2>3, <3>1, <3>3
    <3>7. Begun(i) = Part(Begun(k + 1), 0, Off(i))
      BY <2>2, <3>1, <3>5
    <3> QED
      BY <3>6, <3>7
  <2>5. Holds(k + 1, k + 1)
    BY <1>2, <2>1
  <2>6. \A i \in 0 .. k + 1 : i \in 0 .. k \/ i = k + 1
    OBVIOUS
  <2> HIDE DEF Holds
  <2> QED
    BY <2>1, <2>4, <2>5, <2>6
<1>5. n \in S
  <2> HIDE DEF S
  <2>1. \A k \in 0 .. N : k \in S
    BY <1>1, <1>3, <1>4, Countdown
  <2> QED
    BY <2>1
<1> QED
  BY <1>5

LEMMA TextIs ==
  /\ Text \in Seq(Octet) /\ Len(Text) \in Nat /\ Off(0) = 0 /\ Begun(0) = <<>>
  /\ \A n \in 0 .. Len(Lines) :
       /\ Off(n) \in Nat /\ Off(n) <= Len(Text)
       /\ \A m \in 0 .. n : Off(m) <= Off(n)
<1>1. Len(Lines) \in Nat
  BY LinesAre
<1>2. 0 \in 0 .. Len(Lines) /\ Len(Lines) \in 0 .. Len(Lines)
  BY <1>1
<1>3. Text \in Seq(Octet) /\ Len(Text) \in Nat
  BY <1>2, BegunIs DEF Text, Off
<1>4. Begun(0) = <<>>
  <2>1. Part(Lines, 0, 0) = <<>>
    BY NoPart
  <2> QED
    BY <2>1, FlattenNothing DEF Begun
<1>5. Off(0) = 0
  BY <1>4, EmptySeq DEF Off
<1>6. ASSUME NEW n \in 0 .. Len(Lines)
      PROVE  Off(n) \in Nat /\ Off(n) <= Len(Text) /\ \A m \in 0 .. n : Off(m) <= Off(n)
  <2>1. Off(n) \in Nat
    BY BegunIs
  <2>2. Off(n) <= Off(Len(Lines))
    BY <1>2, BegunGrows
  <2>3. \A m \in 0 .. n : Off(m) <= Off(n)
    BY BegunGrows
  <2> QED
    BY <2>1, <2>2, <2>3 DEF Text, Off
<1> QED
  BY <1>3, <1>4, <1>5, <1>6

\* A message in the text.
LEMMA LineInText ==
  ASSUME NEW n \in 0 .. Len(Lines) - 1
  PROVE  /\ n + 1 \in 1 .. Len(Lines) /\ n + 1 \in 0 .. Len(Lines)
         /\ Off(n + 1) = Off(n) + Len(Lines[n + 1]) /\ Off(n) < Off(n + 1)
         /\ Part(Text, Off(n), Off(n + 1)) = Lines[n + 1]
<1> DEFINE a == Off(n)  c == Off(n + 1)  s == Lines[n + 1]
<1>1. n \in 0 .. Len(Lines) /\ n < Len(Lines) /\ n + 1 \in 1 .. Len(Lines) /\ n + 1 \in 0 .. Len(Lines)
  BY LinesAre
<1>2. s \in Seq(Octet) /\ Len(s) \in Nat \ {0}
  <2>1. Len(s) \in 1 .. MAXLINE - 1 /\ s \in Seq(Octet)
    BY <1>1, LinesAre
  <2> QED
    BY <2>1, LenProperties
<1>3. /\ Begun(n) \in Seq(Octet) /\ a \in Nat /\ a = Len(Begun(n))
      /\ Begun(n + 1) = Begun(n) \o s /\ c = a + Len(s)
  BY <1>1, BegunIs DEF Off
<1>4. Text \in Seq(Octet) /\ Len(Text) \in Nat /\ c \in Nat /\ c <= Len(Text)
  BY <1>1, TextIs
<1>5. Begun(n + 1) = Part(Text, 0, c)
  <2>1. Len(Lines) \in 0 .. Len(Lines) /\ n + 1 \in 0 .. Len(Lines)
    BY <1>1
  <2> QED
    BY <2>1, BegunGrows DEF Text
<1>6. Part(Begun(n + 1), a, c) = s
  <2> DEFINE r == Begun(n)
  <2>1. r \in Seq(Octet) /\ s \in Seq(Octet)
    BY <1>2, <1>3
  <2> HIDE DEF r, s
  <2>2. Part(r \o s, Len(r), Len(r) + Len(s)) = s
    BY <2>1, PartSecond
  <2> QED
    BY <1>3, <2>2 DEF r
<1> HIDE DEF a, c, s
<1>7. Part(Part(Text, 0, c), a, c) = Part(Text, a, c)
  <2> DEFINE b == a + 1
  <2>1. 1 \in 1 .. Len(Text) /\ c \in 1 .. Len(Text) /\ b \in 1 .. c - 1 + 1 /\ c \in 1 .. c - 1 + 1
    BY <1>2, <1>3, <1>4
  <2>2. 1 + b - 1 = b /\ 1 + c - 1 = c /\ 0 + 1 = 1
    BY <1>3, <1>4
  <2> HIDE DEF b
  <2>3. SubSeq(SubSeq(Text, 1, c), b, c) = SubSeq(Text, 1 + b - 1, 1 + c - 1)
    BY <1>4, <2>1, SubSeqOfSubSeq
  <2> QED
    BY <2>2, <2>3 DEF Part, b
<1>8. Part(Text, a, c) = s /\ c = a + Len(s) /\ a < c
  BY <1>2, <1>3, <1>5, <1>6, <1>7
<1> QED
  BY <1>1, <1>8 DEF a, c, s

\* A part of a part.
LEMMA PartOfPart ==
  ASSUME NEW T \in Seq(Octet), NEW a \in Nat, NEW c \in Nat, a <= c, c <= Len(T), NEW k \in 0 .. c - a
  PROVE  Part(Part(T, a, c), 0, k) = Part(T, a, a + k)
<1>1. CASE k = 0
  <2>1. a + k = a
    BY <1>1
  <2>2. Part(T, a, a) = <<>> /\ Part(Part(T, a, c), 0, 0) = <<>>
    BY NoPart
  <2> QED
    BY <1>1, <2>1, <2>2
<1>2. CASE k # 0
  <2> DEFINE b == a + 1
  <2>1. Len(T) \in Nat
    BY LenProperties
  <2>2. /\ b \in 1 .. Len(T) /\ c \in 1 .. Len(T) /\ 1 \in 1 .. c - b + 1 /\ k \in 1 .. c - b + 1
        /\ b + 1 - 1 = b /\ b + k - 1 = a + k /\ 0 + 1 = 1
    BY <1>2, <2>1
  <2> HIDE DEF b
  <2>3. SubSeq(SubSeq(T, b, c), 1, k) = SubSeq(T, b + 1 - 1, b + k - 1)
    BY <2>2, SubSeqOfSubSeq
  <2> QED
    BY <2>2, <2>3 DEF Part, b
<1> QED
  BY <1>1, <1>2

\* A line that is read is a part of the message, and readline is done with it when
\* it is all of it.
LEMMA LineInLine ==
  ASSUME NEW n \in 0 .. Len(Lines) - 1, NEW q \in Nat, q <= Len(Text), NEW l, NEW u, NEW a,
         Cut(Text, Off(n), q, l, u, a), Len(l) <= Len(Lines[n + 1]), l # <<>>
  PROVE  /\ l = Part(Lines[n + 1], 0, Len(l)) /\ Len(l) \in 1 .. Len(Lines[n + 1])
         /\ LineDone(l) <=> Len(l) = Len(Lines[n + 1])
<1> DEFINE s == Lines[n + 1]
<1> DEFINE k == Len(l)
<1>1. /\ n + 1 \in 1 .. Len(Lines) /\ n \in 0 .. Len(Lines) /\ n + 1 \in 0 .. Len(Lines)
      /\ Off(n + 1) = Off(n) + Len(s) /\ Part(Text, Off(n), Off(n + 1)) = s
  BY LineInText, LinesAre
<1>2. /\ Text \in Seq(Octet) /\ Len(Text) \in Nat
      /\ Off(n) \in Nat /\ Off(n + 1) \in Nat /\ Off(n + 1) <= Len(Text) /\ Off(n) <= Off(n + 1)
  <2>1. n \in 0 .. n + 1
    OBVIOUS
  <2> QED
    BY <1>1, <2>1, TextIs
<1>3. /\ s \in Seq(Octet) /\ Len(s) \in 1 .. MAXLINE - 1
      /\ \A i \in 1 .. Len(s) : s[i] = Newline <=> i = Len(s)
  BY <1>1, LinesAre
<1>4. l \in Seq(Octet) /\ k \in Nat /\ l = Part(Text, Off(n), Off(n) + k)
  BY <1>2, CutLengths
<1>5. k # 0
  BY <1>4, EmptySeq
<1>6. k \in 1 .. Len(s) /\ k \in 0 .. Off(n + 1) - Off(n)
  BY <1>1, <1>2, <1>3, <1>4, <1>5
<1>7. Part(Part(Text, Off(n), Off(n + 1)), 0, k) = Part(Text, Off(n), Off(n) + k)
  BY <1>2, <1>6, PartOfPart
<1>8. l = Part(s, 0, k)
  BY <1>1, <1>4, <1>7
<1>9. l[k] = s[k]
  <2>1. k \in Nat /\ k <= Len(s) /\ k \in 1 .. k
    BY <1>3, <1>6
  <2>2. \A i \in 1 .. k : Part(s, 0, k)[i] = s[i]
    BY <1>3, <2>1, FirstPart
  <2> QED
    BY <1>8, <2>1, <2>2
<1>10. Last(l) = Newline <=> k = Len(s)
  BY <1>3, <1>6, <1>9 DEF Last
<1>11. k = MAXLINE - 1 => k = Len(s)
  <2>1. MAXLINE \in Int
    BY PortAssumption
  <2> QED
    BY <1>3, <1>6, <2>1
<1> QED
  BY <1>6, <1>8, <1>10, <1>11 DEF LineDone

-----------------------------------------------------------------------------
(* The client: the invariant.                                              *)

\* What the listener has sent.
Answer ==
  IF offered = 0 THEN <<>> ELSE IF offered = -1 THEN <<Minus, 49>> ELSE numberToString(offered)

Idle == unread = <<>> /\ line = <<>>

Nothing(c) == flight[c] = <<>> /\ arrived[c] = <<>>

Ended == {"eof", "reset"}

ClientTypes ==
  /\ DOMAIN flight = Connection /\ DOMAIN arrived = Connection
  /\ end \in [Connection -> {"none", "open"} \cup Ended]
  /\ offered \in {0, -1} \cup Port /\ sent \in 0 .. Len(Lines)
  /\ pc \in {"connect", "port", "redirect", "dates", "done"}

\* The port is under way; it is there, with nothing missing unless the
\* connection was reset; or it is used or lost.
Announced == flight[1] = <<Answer>> /\ arrived[1] = <<>> /\ Idle /\ end[1] = "open" /\ offered # 0

Received ==
  /\ flight[1] = <<>> /\ end[1] # "none"
  /\ \E q \in 0 .. Len(Answer) :
       /\ Cut(Answer, 0, q, line, unread, arrived[1])
       /\ end[1] # "reset" => q = Len(Answer)

Lost == Nothing(1) /\ Idle /\ end[1] \in Ended

FirstInv ==
  /\ end[1] = "none" => offered = 0 /\ pc \in {"connect", "done"} /\ Nothing(1)
  /\ pc = "connect" => end[1] = "none"
  /\ pc \in {"connect", "redirect"} => Idle
  /\ pc = "port" => Announced \/ Received \/ Lost
  /\ pc \in {"redirect", "dates"} => end[1] = "eof" /\ (~failed => new_port_number = offered /\ offered \in Port)

\* The messages that are printed, the part of the next that is in the line, what
\* has arrived, and what is under way follow each other in the text.
StreamsAt(q) ==
  LET n == Len(printed)
  IN  /\ n <= sent /\ printed = Part(Lines, 0, n)
      /\ Cut(Text, Off(n), q, line, unread, arrived[2])
      /\ line # <<>> => n < Len(Lines) /\ Len(line) <= Len(Lines[n + 1])
      /\ end[2] = "open" => \E d \in 0 .. sent : q = Off(d) /\ flight[2] = Part(Lines, d, sent)
      /\ end[2] # "open" => flight[2] = <<>>

Streaming == \E q \in 0 .. Off(sent) : StreamsAt(q)

Over == Nothing(2) /\ Idle /\ end[2] = "eof"

\* Only the last message that is printed may be a part of one.
PrintedInv ==
  LET n == Len(printed)
  IN  /\ n \in 0 .. sent
      /\ n = 0 => printed = <<>>
      /\ n # 0 => \E k \in 0 .. Len(Lines[n]) :
                    printed = Append(Part(Lines, 0, n - 1), Part(Lines[n], 0, k))

SecondInv ==
  /\ end[2] = "none" => sent = 0 /\ Nothing(2)
  /\ pc \in {"connect", "port", "redirect"} => end[2] = "none" /\ printed = <<>>
  /\ pc = "dates" => end[2] # "none" /\ (Streaming \/ Over)

ClientInv == ClientTypes /\ FirstInv /\ SecondInv /\ PrintedInv

-----------------------------------------------------------------------------
(* The client: the steps.                                                  *)

LEMMA DigitsAreOctets == Seq(Digit) \subseteq Seq(Octet)
<1>1. Digit \subseteq Octet
  BY DEF Digit, Octet
<1> QED
  BY <1>1, SeqMonotonic

LEMMA PortsAreNumbers == \A p \in Port : p \in PortNumber /\ p # 0 /\ p # -1
<1>1. \A n \in PortNumber : n # 0 /\ n # -1
  BY NumberIs, SMT
<1>2. \A p \in Port : p \in PortNumber
  BY PortAssumption
<1> QED
  BY <1>1, <1>2

\* What the listener sends is short, has no newline, and is read as what it is.
LEMMA AnswerIs ==
  ASSUME offered \in {0, -1} \cup Port
  PROVE  /\ Answer \in Seq(Octet) /\ Len(Answer) \in 0 .. 5
         /\ \A i \in 1 .. Len(Answer) : Answer[i] # Newline
         /\ offered = 0 => Answer = <<>> /\ Len(Answer) = 0
         /\ Answer # <<>> => offered # 0 /\ strtol(Answer) = offered
<1>1. CASE offered = 0
  BY <1>1, EmptySeq DEF Answer
<1>2. CASE offered = -1
  <2> DEFINE s == <<Minus, 49>>
  <2>1. Answer = s
    BY <1>2 DEF Answer
  <2>2. s \in Seq(Octet) /\ Len(s) = 2 /\ s[1] # Newline /\ s[2] # Newline
    BY DEF Octet, Minus, Newline
  <2>3. strtol(s) = -1
    BY RefusalIsRead
  <2> HIDE DEF s
  <2>4. \A i \in 1 .. 2 : i = 1 \/ i = 2
    OBVIOUS
  <2> QED
    BY <1>2, <2>1, <2>2, <2>3, <2>4
<1>3. CASE offered \in Port
  <2>1. offered \in PortNumber
    BY <1>3, PortsAreNumbers
  <2>2. offered # 0 /\ offered # -1
    BY <1>3, PortsAreNumbers
  <2>3. Answer = numberToString(offered)
    BY <2>2 DEF Answer
  <2> DEFINE s == numberToString(offered)
  <2>4. s \in Seq(Digit) /\ Len(s) \in 1 .. 5 /\ strtol(s) = offered
    BY <2>1, PortIsRead
  <2> HIDE DEF s
  <2>5. s \in Seq(Octet)
    BY <2>4, DigitsAreOctets
  <2>6. \A i \in 1 .. Len(s) : s[i] # Newline
    <3>1. \A i \in 1 .. Len(s) : s[i] \in Digit
      BY <2>4, ElementOfSeq
    <3>2. Newline \notin Digit
      BY DEF Digit, Newline
    <3> QED
      BY <3>1, <3>2
  <2>7. Len(s) \in 0 .. 5
    BY <2>4
  <2> QED
    BY <2>2, <2>3, <2>4, <2>5, <2>6, <2>7 DEF s
<1> QED
  BY <1>1, <1>2, <1>3

LEMMA EmptyLength ==
  ASSUME NEW s \in Seq(Octet)
  PROVE  s = <<>> <=> Len(s) = 0
BY EmptySeq

\* What no step on the other connection disturbs.
LEMMA FirstStays ==
  ASSUME FirstInv, UNCHANGED <<offered, pc, unread, line, new_port_number, failed>>,
         flight'[1] = flight[1], arrived'[1] = arrived[1], end'[1] = end[1]
  PROVE  FirstInv'
<1>1. Answer' = Answer
  BY DEF Answer
<1>2. Announced => Announced'
  BY <1>1 DEF Announced, Idle
<1>3. Received => Received'
  BY <1>1 DEF Received
<1>4. Lost => Lost'
  BY DEF Lost, Nothing, Idle
<1> QED
  BY <1>2, <1>3, <1>4 DEF FirstInv, Idle, Nothing

LEMMA SecondStays ==
  ASSUME SecondInv, PrintedInv, UNCHANGED <<sent, pc, unread, line, printed>>,
         flight'[2] = flight[2], arrived'[2] = arrived[2], end'[2] = end[2]
  PROVE  SecondInv' /\ PrintedInv'
<1>1. Streaming => Streaming'
  BY DEF Streaming, StreamsAt
<1>2. Over => Over'
  BY DEF Over, Nothing, Idle
<1>3. PrintedInv'
  BY DEF PrintedInv
<1> QED
  BY <1>1, <1>2, <1>3 DEF SecondInv, Nothing

\* Before the dates nothing depends on the line or the buffer.
LEMMA SecondWaits ==
  ASSUME ClientTypes, SecondInv, PrintedInv, UNCHANGED <<sent, printed>>, pc # "dates", pc' # "dates",
         pc = "done" => pc' = "done",
         flight'[2] = flight[2], arrived'[2] = arrived[2], end'[2] = end[2]
  PROVE  SecondInv' /\ PrintedInv'
<1>1. PrintedInv'
  BY DEF PrintedInv
<1> QED
  BY <1>1 DEF ClientTypes, SecondInv, Nothing

\* No step disturbs what is said of the first connection when the dates are read.
LEMMA FirstIsOver ==
  ASSUME FirstInv, UNCHANGED <<offered, new_port_number, failed>>,
         pc = "dates", pc' = "dates", end'[1] = end[1]
  PROVE  FirstInv'
BY DEF FirstInv

\* The client gives up, or is through.
LEMMA DoneStays ==
  ASSUME ClientInv, pc' = "done", UNCHANGED <<flight, arrived, end, offered, sent, printed>>
  PROVE  ClientInv'
<1>1. ClientTypes'
  BY DEF ClientInv, ClientTypes
<1>2. FirstInv'
  BY DEF ClientInv, FirstInv, Nothing
<1>3. SecondInv'
  BY DEF ClientInv, SecondInv, Nothing
<1>4. PrintedInv'
  BY DEF ClientInv, PrintedInv
<1> QED
  BY <1>1, <1>2, <1>3, <1>4 DEF ClientInv

LEMMA ClientIsDone ==
  ASSUME ClientInv, FirstConnectFails \/ SecondConnectRefused \/ PortMissing \/ DatesEnd
  PROVE  ClientInv'
<1>1. pc' = "done" /\ UNCHANGED <<flight, arrived, end, offered, sent, printed>>
  BY DEF FirstConnectFails, SecondConnectRefused, PortMissing, DatesEnd, Goes, network, server
<1> QED
  BY <1>1, DoneStays

LEMMA FirstConnectKeeps ==
  ASSUME ClientInv, FirstConnect
  PROVE  ClientInv'
<1>1. /\ pc = "connect" /\ pc' = "port" /\ DOMAIN end = Connection
      /\ end' = [end EXCEPT ![1] = "open"]
      /\ UNCHANGED <<flight, arrived, offered, sent, unread, line, printed>>
  BY DEF FirstConnect, Opened, Goes, server, ClientInv, ClientTypes
<1>2. offered = 0 /\ flight[1] = <<>> /\ arrived[1] = <<>> /\ unread = <<>> /\ line = <<>>
  BY <1>1 DEF ClientInv, FirstInv, Nothing, Idle
<1>3. end'[1] = "open" /\ end'[2] = end[2] /\ end' \in [Connection -> {"none", "open"} \cup Ended]
  BY <1>1 DEF Connection, ClientInv, ClientTypes
<1>4. ClientTypes'
  BY <1>1, <1>3 DEF ClientInv, ClientTypes
<1>5. Received'
  <2>1. Answer' = <<>>
    BY <1>1, <1>2 DEF Answer
  <2>2. Len(<<>>) = 0 /\ 0 \in 0 .. 0
    BY EmptySeq
  <2>3. Cut(<<>>, 0, 0, <<>>, <<>>, <<>>)
    BY CutNew
  <2> QED
    BY <1>1, <1>2, <1>3, <2>1, <2>2, <2>3 DEF Received
<1>6. FirstInv'
  BY <1>1, <1>3, <1>5 DEF FirstInv
<1>7. SecondInv' /\ PrintedInv'
  BY <1>1, <1>3, SecondWaits DEF ClientInv
<1> QED
  BY <1>4, <1>6, <1>7 DEF ClientInv

LEMMA SecondConnectKeeps ==
  ASSUME ClientInv, SecondConnect
  PROVE  ClientInv'
<1>1. /\ pc = "redirect" /\ pc' = "dates" /\ DOMAIN end = Connection
      /\ end' = [end EXCEPT ![2] = "open"]
      /\ UNCHANGED <<flight, arrived, offered, sent, unread, line, printed, new_port_number, failed>>
  BY DEF SecondConnect, Opened, Goes, ClientInv, ClientTypes
<1>2. unread = <<>> /\ line = <<>> /\ printed = <<>> /\ sent = 0 /\ flight[2] = <<>> /\ arrived[2] = <<>>
  BY <1>1 DEF ClientInv, FirstInv, SecondInv, Nothing, Idle
<1>3. end'[2] = "open" /\ end'[1] = end[1] /\ end' \in [Connection -> {"none", "open"} \cup Ended]
  BY <1>1 DEF Connection, ClientInv, ClientTypes
<1>4. ClientTypes'
  BY <1>1, <1>3 DEF ClientInv, ClientTypes
<1>5. FirstInv'
  BY <1>1, <1>3 DEF ClientInv, FirstInv
<1>6. PrintedInv'
  BY <1>1 DEF ClientInv, PrintedInv
<1>7. Streaming'
  <2>1. Off(0) = 0
    BY TextIs
  <2>2. Len(printed') = 0
    BY <1>1, <1>2, EmptySeq
  <2>3. Part(Lines, 0, 0) = <<>> /\ Cut(Text, 0, 0, <<>>, <<>>, <<>>)
    BY NoPart, CutNew
  <2>4. 0 \in 0 .. 0
    OBVIOUS
  <2>5. end'[2] = "open" => \E d \in 0 .. sent' : 0 = Off(d) /\ flight'[2] = Part(Lines, d, sent')
    BY <1>1, <1>2, <2>1, <2>3, <2>4
  <2> HIDE DEF Text
  <2> QED
    BY <1>1, <1>2, <1>3, <2>1, <2>2, <2>3, <2>4, <2>5 DEF Streaming, StreamsAt
<1>8. SecondInv'
  BY <1>1, <1>3, <1>7 DEF SecondInv
<1> QED
  BY <1>4, <1>5, <1>6, <1>8 DEF ClientInv

\* Places in the text: what is read is at most what was sent.
LEMMA StreamPlaces ==
  ASSUME ClientTypes, PrintedInv, NEW q \in 0 .. Off(sent)
  PROVE  /\ Text \in Seq(Octet) /\ Len(Text) \in Nat /\ Off(sent) \in Nat /\ Off(sent) <= Len(Text)
         /\ q \in Nat /\ q <= Len(Text)
         /\ sent \in 0 .. Len(Lines) /\ Len(printed) \in 0 .. sent /\ Len(printed) \in 0 .. Len(Lines)
         /\ Off(Len(printed)) \in Nat
<1>1. sent \in 0 .. Len(Lines) /\ Len(printed) \in 0 .. sent /\ Len(Lines) \in Nat
  BY LinesAre DEF ClientTypes, PrintedInv
<1>2. Len(printed) \in 0 .. Len(Lines)
  BY <1>1
<1>3. /\ Text \in Seq(Octet) /\ Len(Text) \in Nat /\ Off(sent) \in Nat /\ Off(sent) <= Len(Text)
      /\ Off(Len(printed)) \in Nat
  BY <1>1, <1>2, TextIs
<1> HIDE DEF Text
<1>4. q \in Nat /\ q <= Len(Text)
  BY <1>3
<1> QED
  BY <1>1, <1>2, <1>3, <1>4

\* A read takes no more than there is.
LEMMA ReadAtMost ==
  ASSUME NEW k \in Nat, NEW n \in 1 .. Min({MAXLINE, k})
  PROVE  n \in 1 .. k
<1> DEFINE S == {MAXLINE, k}
<1> DEFINE m == IF MAXLINE <= k THEN MAXLINE ELSE k
<1>1. MAXLINE \in Int
  BY PortAssumption
<1>2. m \in S /\ m <= k /\ m \in Int /\ \A y \in S : m <= y
  BY <1>1
<1> HIDE DEF m
<1>3. \A x \in S : (\A y \in S : x <= y) => x = m
  BY <1>1, <1>2
<1> HIDE DEF S
<1>4. Min(S) = m
  BY <1>2, <1>3 DEF Min
<1> QED
  BY <1>2, <1>4 DEF S

\* A read on the first connection, and on the second.
LEMMA RefillFirst ==
  ASSUME ClientInv, Refill(1)
  PROVE  ClientInv'
<1>1. PICK n \in 1 .. Min({MAXLINE, Len(arrived[1])}) :
        /\ unread' = SubSeq(arrived[1], 1, n)
        /\ arrived' = [arrived EXCEPT ![1] = SubSeq(@, n + 1, Len(@))]
  BY DEF Refill
<1>2. /\ pc = "port" /\ unread = <<>> /\ arrived[1] # <<>> /\ DOMAIN arrived = Connection
      /\ UNCHANGED <<flight, end, pc, new_port_number, line, printed, failed, offered, sent>>
  BY DEF Refill, Reads, server, ClientInv, ClientTypes
<1>3. arrived'[1] = SubSeq(arrived[1], n + 1, Len(arrived[1])) /\ arrived'[2] = arrived[2] /\ DOMAIN arrived' = Connection
  BY <1>1, <1>2 DEF Connection
<1>4. Received
  BY <1>2 DEF ClientInv, FirstInv, Announced, Lost, Nothing
<1>5. PICK q \in 0 .. Len(Answer) :
        Cut(Answer, 0, q, line, <<>>, arrived[1]) /\ (end[1] # "reset" => q = Len(Answer))
  BY <1>2, <1>4 DEF Received
<1>6. Answer \in Seq(Octet) /\ Len(Answer) \in Nat /\ q \in Nat /\ q <= Len(Answer)
  <2>1. Answer \in Seq(Octet)
    BY AnswerIs DEF ClientInv, ClientTypes
  <2>2. Len(Answer) \in Nat
    BY <2>1, LenProperties
  <2> QED
    BY <2>1, <2>2
<1>7. n \in 1 .. Len(arrived[1])
  <2>1. Len(arrived[1]) \in Nat
    BY <1>5, <1>6, CutLengths
  <2> QED
    BY <1>1, <2>1, ReadAtMost
<1>8. Cut(Answer, 0, q, line, unread', arrived'[1])
  BY <1>1, <1>3, <1>5, <1>6, <1>7, CutRefill
<1>9. Answer' = Answer
  BY <1>2 DEF Answer
<1>10. Received'
  BY <1>2, <1>4, <1>5, <1>8, <1>9 DEF Received
<1>11. FirstInv'
  BY <1>2, <1>4, <1>10 DEF ClientInv, FirstInv, Received
<1>12. SecondInv' /\ PrintedInv'
  BY <1>2, <1>3, SecondWaits DEF ClientInv
<1>13. ClientTypes'
  BY <1>2, <1>3 DEF ClientInv, ClientTypes
<1> QED
  BY <1>11, <1>12, <1>13 DEF ClientInv

LEMMA RefillSecond ==
  ASSUME ClientInv, Refill(2)
  PROVE  ClientInv'
<1>1. PICK n \in 1 .. Min({MAXLINE, Len(arrived[2])}) :
        /\ unread' = SubSeq(arrived[2], 1, n)
        /\ arrived' = [arrived EXCEPT ![2] = SubSeq(@, n + 1, Len(@))]
  BY DEF Refill
<1>2. /\ pc = "dates" /\ unread = <<>> /\ arrived[2] # <<>> /\ DOMAIN arrived = Connection
      /\ UNCHANGED <<flight, end, pc, new_port_number, line, printed, failed, offered, sent>>
  BY DEF Refill, Reads, server, ClientInv, ClientTypes
<1>3. arrived'[2] = SubSeq(arrived[2], n + 1, Len(arrived[2])) /\ arrived'[1] = arrived[1] /\ DOMAIN arrived' = Connection
  BY <1>1, <1>2 DEF Connection
<1>4. Streaming
  BY <1>2 DEF ClientInv, SecondInv, Over, Nothing
<1> DEFINE m == Len(printed)
<1>5. PICK q \in 0 .. Off(sent) : StreamsAt(q)
  BY <1>4 DEF Streaming
<1>6. /\ m <= sent /\ printed = Part(Lines, 0, m) /\ Cut(Text, Off(m), q, line, <<>>, arrived[2])
  BY <1>2, <1>5 DEF StreamsAt
<1>7. Text \in Seq(Octet) /\ Off(m) \in Nat /\ q \in Nat /\ q <= Len(Text)
  BY StreamPlaces DEF ClientInv
<1> HIDE DEF m
<1>8. n \in 1 .. Len(arrived[2])
  <2>1. Len(arrived[2]) \in Nat
    BY <1>6, <1>7, CutLengths
  <2> QED
    BY <1>1, <2>1, ReadAtMost
<1>9. Cut(Text, Off(m), q, line, unread', arrived'[2])
  BY <1>1, <1>3, <1>6, <1>7, <1>8, CutRefill
<1>10. Streaming'
  BY <1>2, <1>5, <1>9 DEF Streaming, StreamsAt, m
<1>11. SecondInv' /\ PrintedInv'
  BY <1>2, <1>10 DEF ClientInv, SecondInv, PrintedInv, Nothing
<1>12. FirstInv'
  BY <1>2, FirstIsOver DEF ClientInv
<1>13. ClientTypes'
  BY <1>2, <1>3 DEF ClientInv, ClientTypes
<1> QED
  BY <1>11, <1>12, <1>13 DEF ClientInv

LEMMA TakeByteFirst ==
  ASSUME ClientInv, TakeByte(1)
  PROVE  ClientInv'
<1>1. /\ pc = "port" /\ unread # <<>> /\ line' = Append(line, Head(unread)) /\ unread' = Tail(unread)
      /\ UNCHANGED <<flight, arrived, end, pc, new_port_number, printed, failed, offered, sent>>
  BY DEF TakeByte, Reads, server, network
<1>2. Received
  BY <1>1 DEF ClientInv, FirstInv, Announced, Lost, Idle
<1>3. PICK q \in 0 .. Len(Answer) :
        Cut(Answer, 0, q, line, unread, arrived[1]) /\ (end[1] # "reset" => q = Len(Answer))
  BY <1>2 DEF Received
<1>4. Answer \in Seq(Octet) /\ q \in Nat /\ q <= Len(Answer)
  <2>1. Answer \in Seq(Octet)
    BY AnswerIs DEF ClientInv, ClientTypes
  <2>2. Len(Answer) \in Nat
    BY <2>1, LenProperties
  <2> QED
    BY <2>1, <2>2
<1>5. Cut(Answer, 0, q, line', unread', arrived'[1])
  BY <1>1, <1>3, <1>4, CutTake
<1>6. Answer' = Answer
  BY <1>1 DEF Answer
<1>7. Received'
  BY <1>1, <1>2, <1>3, <1>5, <1>6 DEF Received
<1>8. FirstInv'
  BY <1>1, <1>2, <1>7 DEF ClientInv, FirstInv, Received
<1>9. SecondInv' /\ PrintedInv'
  BY <1>1, SecondWaits DEF ClientInv
<1>10. ClientTypes'
  BY <1>1 DEF ClientInv, ClientTypes
<1> QED
  BY <1>8, <1>9, <1>10 DEF ClientInv

\* While there is something read that is not printed, a message is not printed yet.
LEMMA NextLine ==
  ASSUME ClientTypes, PrintedInv, NEW q \in 0 .. Off(sent), StreamsAt(q), line # <<>> \/ unread # <<>>
  PROVE  /\ Len(printed) \in 0 .. Len(Lines) - 1 /\ Len(printed) + 1 \in 0 .. sent
         /\ line \in Seq(Octet) /\ Len(line) \in Nat
<1> DEFINE n == Len(printed)
<1>1. /\ Text \in Seq(Octet) /\ Off(sent) \in Nat /\ q \in Nat /\ q <= Len(Text)
      /\ sent \in 0 .. Len(Lines) /\ n \in 0 .. sent /\ Off(n) \in Nat
  BY StreamPlaces
<1>2. Cut(Text, Off(n), q, line, unread, arrived[2])
  BY DEF StreamsAt
<1> HIDE DEF n
<1>3. /\ line \in Seq(Octet) /\ unread \in Seq(Octet)
      /\ Len(line) \in Nat /\ Len(unread) \in Nat /\ Len(arrived[2]) \in Nat
      /\ Off(n) + Len(line) + Len(unread) + Len(arrived[2]) = q
  BY <1>1, <1>2, CutLengths
<1>4. Len(line) # 0 \/ Len(unread) # 0
  BY <1>3, EmptySeq
<1>5. Off(n) < Off(sent)
  <2> DEFINE a == Off(n)  b == Off(sent)  i == Len(line)  j == Len(unread)  k == Len(arrived[2])
  <2>1. a \in Nat /\ b \in Nat /\ q \in 0 .. b /\ i \in Nat /\ j \in Nat /\ k \in Nat /\ a + i + j + k = q
        /\ (i # 0 \/ j # 0)
    BY <1>1, <1>3, <1>4
  <2> HIDE DEF a, b, i, j, k
  <2>2. a < b
    BY <2>1
  <2> QED
    BY <2>2 DEF a, b
<1>6. n # sent
  BY <1>1, <1>5
<1>7. n \in 0 .. Len(Lines) - 1 /\ n + 1 \in 0 .. sent
  BY <1>1, <1>6, LinesAre
<1> QED
  BY <1>3, <1>7 DEF n

LEMMA TakeByteSecond ==
  ASSUME ClientInv, TakeByte(2)
  PROVE  ClientInv'
<1>1. /\ pc = "dates" /\ unread # <<>> /\ ~LineDone(line)
      /\ line' = Append(line, Head(unread)) /\ unread' = Tail(unread)
      /\ UNCHANGED <<flight, arrived, end, pc, new_port_number, printed, failed, offered, sent>>
  BY DEF TakeByte, Reads, server, network
<1>2. Streaming
  BY <1>1 DEF ClientInv, SecondInv, Over, Idle
<1> DEFINE n == Len(printed)
<1>3. PICK q \in 0 .. Off(sent) : StreamsAt(q)
  BY <1>2 DEF Streaming
<1>4. /\ n <= sent /\ printed = Part(Lines, 0, n) /\ Cut(Text, Off(n), q, line, unread, arrived[2])
      /\ line # <<>> => Len(line) <= Len(Lines[n + 1])
  BY <1>3 DEF StreamsAt
<1>5. Text \in Seq(Octet) /\ Off(n) \in Nat /\ q \in Nat /\ q <= Len(Text)
  BY StreamPlaces DEF ClientInv
<1>6. n \in 0 .. Len(Lines) - 1 /\ line \in Seq(Octet) /\ Len(line) \in Nat
  BY <1>1, <1>3, NextLine DEF ClientInv
<1> HIDE DEF n
<1>7. Cut(Text, Off(n), q, line', unread', arrived'[2])
  BY <1>1, <1>4, <1>5, CutTake
<1>8. Len(line') = Len(line) + 1
  <2>1. Head(unread) \in Octet
    <3>1. unread \in Seq(Octet)
      BY <1>4, <1>5, CutLengths
    <3> QED
      BY <1>1, <3>1, HeadTailProperties
  <2> QED
    BY <1>1, <1>6, <2>1, AppendProperties
<1>9. Len(Lines[n + 1]) \in Nat \ {0} /\ n < Len(Lines)
  BY <1>6, LineInText, LinesAre
<1>10. Len(line') <= Len(Lines[n + 1])
  <2>1. CASE line = <<>>
    <3>1. Len(line) = 0
      BY <2>1, EmptySeq
    <3> QED
      BY <1>8, <1>9, <3>1
  <2>2. CASE line # <<>>
    <3>1. Len(line) <= Len(Lines[n + 1])
      BY <1>4, <2>2
    <3>2. Len(line) # Len(Lines[n + 1])
      BY <1>1, <1>4, <1>5, <1>6, <2>2, <3>1, LineInLine
    <3> QED
      BY <1>6, <1>8, <1>9, <3>1, <3>2
  <2> QED
    BY <2>1, <2>2
<1>11. Streaming'
  BY <1>1, <1>3, <1>7, <1>9, <1>10 DEF Streaming, StreamsAt, n
<1>12. SecondInv' /\ PrintedInv'
  BY <1>1, <1>11 DEF ClientInv, SecondInv, PrintedInv, Nothing
<1>13. FirstInv'
  BY <1>1, FirstIsOver DEF ClientInv
<1>14. ClientTypes'
  BY <1>1 DEF ClientInv, ClientTypes
<1> QED
  BY <1>12, <1>13, <1>14 DEF ClientInv

\* A line on the first connection has the port whole.
LEMMA PortReadKeeps ==
  ASSUME ClientInv, PortRead
  PROVE  ClientInv'
<1>1. /\ pc = "port" /\ line # <<>> /\ (AtEof(1) \/ LineDone(line))
      /\ new_port_number' = strtol(line) /\ line' = <<>>
      /\ pc' = (IF IsPort(strtol(line)) THEN "redirect" ELSE "port")
      /\ UNCHANGED <<flight, arrived, end, unread, printed, failed, offered, sent>>
  BY DEF PortRead, LineRead, AtEof, Drained, Reads, Takes, Goes, server, network
<1>2. Received
  BY <1>1 DEF ClientInv, FirstInv, Announced, Lost, Idle
<1>3. PICK q \in 0 .. Len(Answer) :
        Cut(Answer, 0, q, line, unread, arrived[1]) /\ (end[1] # "reset" => q = Len(Answer))
  BY <1>2 DEF Received
<1>4. /\ Answer \in Seq(Octet) /\ Len(Answer) \in 0 .. 5 /\ \A i \in 1 .. Len(Answer) : Answer[i] # Newline
      /\ Answer # <<>> => offered # 0 /\ strtol(Answer) = offered
  BY AnswerIs DEF ClientInv, ClientTypes
<1>5. q \in Nat /\ q <= Len(Answer) /\ Len(Answer) \in Nat
  BY <1>4
<1> DEFINE k == Len(line)
<1>6. /\ line \in Seq(Octet) /\ k \in Nat /\ Len(unread) \in Nat /\ Len(arrived[1]) \in Nat
      /\ k + Len(unread) + Len(arrived[1]) = q /\ k <= Len(Answer) /\ line = Part(Answer, 0, k)
  BY <1>3, <1>4, <1>5, CutFromStart
<1>7. ~LineDone(line)
  <2>1. k # 0
    BY <1>1, <1>6, EmptySeq
  <2>2. k # MAXLINE - 1
    <3>1. k <= 5
      BY <1>4, <1>6
    <3>2. MAXLINE \in Nat /\ MAXLINE > 6
      BY PortAssumption
    <3> QED
      BY <1>6, <3>1, <3>2
  <2>3. k \in 1 .. k /\ k \in 1 .. Len(Answer)
    BY <1>5, <1>6, <2>1
  <2>4. \A i \in 1 .. k : Part(Answer, 0, k)[i] = Answer[i]
    BY <1>4, <1>6, FirstPart
  <2>5. line[k] # Newline
    BY <1>4, <1>6, <2>3, <2>4
  <2> QED
    BY <2>2, <2>5 DEF LineDone, Last
<1>8. unread = <<>> /\ arrived[1] = <<>> /\ end[1] = "eof"
  BY <1>1, <1>7 DEF AtEof, Drained
<1>9. line = Answer
  <2>1. Len(<<>>) = 0
    BY EmptySeq
  <2>2. k = Len(Answer)
    BY <1>3, <1>5, <1>6, <1>8, <2>1
  <2>3. Part(Answer, 0, Len(Answer)) = Answer
    BY <1>4, WholePart
  <2> QED
    BY <1>6, <2>2, <2>3
<1>10. new_port_number' = offered /\ offered # 0 /\ flight[1] = <<>>
  BY <1>1, <1>2, <1>4, <1>9 DEF Received
<1>11. FirstInv'
  <2>1. CASE IsPort(offered)
    <3>1. offered # -1
      BY <2>1 DEF IsPort
    <3>2. offered \in Port
      BY <1>10, <3>1 DEF ClientInv, ClientTypes
    <3> QED
      BY <1>1, <1>8, <1>9, <1>10, <2>1, <3>2 DEF FirstInv, Idle
  <2>2. CASE ~IsPort(offered)
    <3>1. pc' = "port"
      BY <1>1, <1>4, <1>9, <2>2
    <3>2. Lost'
      BY <1>1, <1>8, <1>10 DEF Lost, Nothing, Idle, Ended
    <3> QED
      BY <1>1, <1>8, <3>1, <3>2 DEF FirstInv
  <2> QED
    BY <2>1, <2>2
<1>12. SecondInv' /\ PrintedInv'
  BY <1>1, SecondWaits DEF ClientInv
<1>13. ClientTypes'
  BY <1>1 DEF ClientInv, ClientTypes
<1> QED
  BY <1>11, <1>12, <1>13 DEF ClientInv

LEMMA PortReadFailsKeeps ==
  ASSUME ClientInv, PortReadFails
  PROVE  ClientInv'
<1>1. /\ pc = "port" /\ pc' \in {"port", "redirect"} /\ line' = <<>> /\ unread = <<>>
      /\ arrived[1] = <<>> /\ end[1] = "reset" /\ failed' = TRUE
      /\ end' = [end EXCEPT ![1] = "eof"] /\ DOMAIN end = Connection
      /\ UNCHANGED <<flight, arrived, unread, printed, offered, sent>>
  BY DEF PortReadFails, AtError, Drained, Reads, Takes, Goes, Reported, server, ClientInv, ClientTypes
<1>2. end'[1] = "eof" /\ end'[2] = end[2] /\ end' \in [Connection -> {"none", "open"} \cup Ended]
  BY <1>1 DEF Connection, Ended, ClientInv, ClientTypes
<1>3. flight[1] = <<>>
  BY <1>1 DEF ClientInv, FirstInv, Announced, Received, Lost, Nothing
<1>4. Lost'
  BY <1>1, <1>2, <1>3 DEF Lost, Nothing, Idle, Ended
<1>5. FirstInv'
  BY <1>1, <1>2, <1>4 DEF FirstInv, Idle
<1>6. SecondInv' /\ PrintedInv'
  BY <1>1, <1>2, SecondWaits DEF ClientInv
<1>7. ClientTypes'
  BY <1>1, <1>2 DEF ClientInv, ClientTypes
<1> QED
  BY <1>5, <1>6, <1>7 DEF ClientInv

\* The line that is read is a part of the next message; readline was done with it,
\* or nothing is left.
LEMMA NextIs ==
  ASSUME ClientTypes, PrintedInv, NEW q \in 0 .. Off(sent), StreamsAt(q), line # <<>>
  PROVE  LET n == Len(printed)
         IN  /\ n \in 0 .. Len(Lines) - 1 /\ n + 1 \in 0 .. sent
             /\ line = Part(Lines[n + 1], 0, Len(line)) /\ Len(line) \in 1 .. Len(Lines[n + 1])
             /\ LineDone(line) <=> Len(line) = Len(Lines[n + 1])
<1> DEFINE n == Len(printed)
<1>1. q \in Nat /\ q <= Len(Text)
  BY StreamPlaces
<1>2. n \in 0 .. Len(Lines) - 1 /\ n + 1 \in 0 .. sent
  BY NextLine
<1>3. Cut(Text, Off(n), q, line, unread, arrived[2]) /\ Len(line) <= Len(Lines[n + 1])
  BY DEF StreamsAt
<1> HIDE DEF n
<1>4. /\ line = Part(Lines[n + 1], 0, Len(line)) /\ Len(line) \in 1 .. Len(Lines[n + 1])
      /\ LineDone(line) <=> Len(line) = Len(Lines[n + 1])
  BY <1>1, <1>2, <1>3, LineInLine
<1> QED
  BY <1>2, <1>4 DEF n

\* Printing it.
LEMMA PrintedNext ==
  ASSUME ClientTypes, PrintedInv, NEW q \in 0 .. Off(sent), StreamsAt(q), line # <<>>,
         printed' = Append(printed, line), sent' = sent
  PROVE  PrintedInv' /\ Len(printed') = Len(printed) + 1
<1> DEFINE n == Len(printed)
<1>1. /\ n \in 0 .. Len(Lines) - 1 /\ n + 1 \in 0 .. sent
      /\ line = Part(Lines[n + 1], 0, Len(line)) /\ Len(line) \in 1 .. Len(Lines[n + 1])
  BY NextIs
<1>2. printed = Part(Lines, 0, n)
  BY DEF StreamsAt
<1>3. Len(printed') = n + 1
  <2>1. n \in 0 .. Len(Lines)
    BY StreamPlaces
  <2>2. printed \in Seq(Seq(Octet))
    BY <1>2, <2>1, BegunIs
  <2>3. line \in Seq(Octet)
    BY NextLine
  <2> QED
    BY <2>2, <2>3, AppendProperties
<1> DEFINE m == n + 1
<1>4. m - 1 = n /\ m # 0 /\ m \in 0 .. sent
  BY <1>1
<1>5. Len(line) \in 0 .. Len(Lines[m])
  BY <1>1
<1>6. printed' = Append(Part(Lines, 0, m - 1), Part(Lines[m], 0, Len(line)))
  BY <1>1, <1>2, <1>4
<1>7. Len(printed') = m
  BY <1>3
<1> HIDE DEF m, n
<1>8. PrintedInv'
  BY <1>4, <1>5, <1>6, <1>7 DEF PrintedInv
<1> QED
  BY <1>3, <1>8 DEF n

LEMMA DateReadKeeps ==
  ASSUME ClientInv, DateRead
  PROVE  ClientInv'
<1>1. /\ pc = "dates" /\ line # <<>> /\ (AtEof(2) \/ LineDone(line))
      /\ printed' = Append(printed, line) /\ line' = <<>>
      /\ UNCHANGED <<flight, arrived, end, pc, new_port_number, unread, failed, offered, sent>>
  BY DEF DateRead, LineRead, AtEof, Drained, Reads, Prints, server, network
<1>2. Streaming
  BY <1>1 DEF ClientInv, SecondInv, Over, Idle
<1>3. PICK q \in 0 .. Off(sent) : StreamsAt(q)
  BY <1>2 DEF Streaming
<1> DEFINE n == Len(printed)
<1>4. /\ n \in 0 .. Len(Lines) - 1 /\ n + 1 \in 0 .. sent
      /\ line = Part(Lines[n + 1], 0, Len(line)) /\ Len(line) \in 1 .. Len(Lines[n + 1])
      /\ LineDone(line) <=> Len(line) = Len(Lines[n + 1])
  BY <1>1, <1>3, NextIs DEF ClientInv
<1>5. PrintedInv' /\ Len(printed') = n + 1
  BY <1>1, <1>3, PrintedNext DEF ClientInv
<1>6. /\ printed = Part(Lines, 0, n) /\ Cut(Text, Off(n), q, line, unread, arrived[2])
      /\ end[2] = "open" => \E d \in 0 .. sent : q = Off(d) /\ flight[2] = Part(Lines, d, sent)
      /\ end[2] # "open" => flight[2] = <<>>
  BY <1>3 DEF StreamsAt
<1>7. Text \in Seq(Octet) /\ q \in Nat /\ q <= Len(Text) /\ Off(n) \in Nat
  BY StreamPlaces DEF ClientInv
<1> HIDE DEF n
<1>8. ASSUME Len(line) = Len(Lines[n + 1]) PROVE SecondInv'
  <2>1. n + 1 \in 1 .. Len(Lines) /\ Off(n + 1) = Off(n) + Len(Lines[n + 1])
    BY <1>4, LineInText
  <2>2. Lines[n + 1] \in Seq(Octet)
    BY <2>1, LinesAre
  <2>3. line = Lines[n + 1]
    BY <1>4, <1>8, <2>2, WholePart
  <2>4. printed' = Part(Lines, 0, n + 1)
    <3>1. n \in Nat /\ 0 <= n /\ n < Len(Lines) /\ 0 \in Nat
      BY <1>4, LinesAre
    <3>2. Append(Part(Lines, 0, n), Lines[n + 1]) = Part(Lines, 0, n + 1)
      BY <3>1, LinesAre, PartAppends
    <3> QED
      BY <1>1, <1>6, <2>3, <3>2
  <2>5. Cut(Text, Off(n) + Len(line), q, <<>>, unread, arrived[2])
    BY <1>6, <1>7, CutUsed
  <2>6. n + 1 <= sent
    BY <1>4 DEF ClientInv, ClientTypes
  <2>7. Streaming'
    BY <1>1, <1>5, <1>6, <1>8, <2>1, <2>4, <2>5, <2>6 DEF Streaming, StreamsAt
  <2> QED
    BY <1>1, <2>7 DEF ClientInv, SecondInv, Nothing
<1>9. ASSUME Len(line) # Len(Lines[n + 1]) PROVE SecondInv'
  <2>1. unread = <<>> /\ arrived[2] = <<>> /\ end[2] = "eof"
    BY <1>1, <1>4, <1>9 DEF AtEof, Drained
  <2>2. Over'
    BY <1>1, <1>6, <2>1 DEF Over, Nothing, Idle
  <2> QED
    BY <1>1, <2>1, <2>2 DEF SecondInv
<1>10. SecondInv'
  BY <1>8, <1>9
<1>11. FirstInv'
  BY <1>1, FirstIsOver DEF ClientInv
<1>12. ClientTypes'
  BY <1>1 DEF ClientInv, ClientTypes
<1> QED
  BY <1>5, <1>10, <1>11, <1>12 DEF ClientInv

LEMMA DateReadFailsKeeps ==
  ASSUME ClientInv, DateReadFails
  PROVE  ClientInv'
<1>1. /\ pc = "dates" /\ unread = <<>> /\ arrived[2] = <<>> /\ end[2] = "reset"
      /\ printed' = (IF line = <<>> THEN printed ELSE Append(printed, line)) /\ line' = <<>>
      /\ end' = [end EXCEPT ![2] = "eof"] /\ DOMAIN end = Connection
      /\ UNCHANGED <<flight, arrived, pc, new_port_number, unread, failed, offered, sent>>
  BY DEF DateReadFails, AtError, Drained, Reads, Prints, Reported, server, ClientInv, ClientTypes
<1>2. end'[2] = "eof" /\ end'[1] = end[1] /\ end' \in [Connection -> {"none", "open"} \cup Ended]
  BY <1>1 DEF Connection, Ended, ClientInv, ClientTypes
<1>3. Streaming
  BY <1>1 DEF ClientInv, SecondInv, Over
<1>4. PICK q \in 0 .. Off(sent) : StreamsAt(q)
  BY <1>3 DEF Streaming
<1>5. flight[2] = <<>>
  BY <1>1, <1>4 DEF StreamsAt
<1>6. PrintedInv'
  <2>1. CASE line = <<>>
    BY <1>1, <2>1 DEF ClientInv, PrintedInv
  <2>2. CASE line # <<>>
    BY <1>1, <1>4, <2>2, PrintedNext DEF ClientInv
  <2> QED
    BY <2>1, <2>2
<1>7. Over'
  BY <1>1, <1>2, <1>5 DEF Over, Nothing, Idle
<1>8. SecondInv'
  BY <1>1, <1>2, <1>7 DEF SecondInv
<1>9. FirstInv'
  BY <1>1, <1>2, FirstIsOver DEF ClientInv
<1>10. ClientTypes'
  BY <1>1, <1>2 DEF ClientInv, ClientTypes
<1> QED
  BY <1>6, <1>8, <1>9, <1>10 DEF ClientInv

\* The listener sends its answer.
LEMMA AnswerKeeps ==
  ASSUME ClientInv, SendPort \/ SendRefusal
  PROVE  ClientInv'
<1>1. /\ end[1] = "open" /\ offered = 0 /\ DOMAIN flight = Connection
      /\ UNCHANGED <<arrived, end, sent, pc, new_port_number, unread, line, printed, failed>>
  BY DEF SendPort, SendRefusal, client, ClientInv, ClientTypes
<1>2. /\ offered' \in {0, -1} \cup Port /\ offered' # 0
      /\ flight' = [flight EXCEPT ![1] = Append(@, Answer')]
  <2>1. CASE SendPort
    <3>1. PICK p \in Port : offered' = p /\ flight' = [flight EXCEPT ![1] = Append(@, numberToString(p))]
      BY <2>1 DEF SendPort, Sends
    <3>2. p # 0 /\ p # -1
      BY PortsAreNumbers
    <3>3. Answer' = numberToString(p)
      BY <3>1, <3>2 DEF Answer
    <3> QED
      BY <3>1, <3>2, <3>3
  <2>2. CASE SendRefusal
    <3>1. offered' = -1 /\ flight' = [flight EXCEPT ![1] = Append(@, <<Minus, 49>>)]
      BY <2>2 DEF SendRefusal, Sends
    <3>2. -1 # 0
      OBVIOUS
    <3>3. Answer' = <<Minus, 49>>
      BY <3>1, <3>2 DEF Answer
    <3> QED
      BY <3>1, <3>2, <3>3
  <2> QED
    BY <2>1, <2>2
<1>3. flight'[1] = Append(flight[1], Answer') /\ flight'[2] = flight[2] /\ DOMAIN flight' = Connection
  BY <1>1, <1>2 DEF Connection
<1>4. ASSUME pc = "port" PROVE Announced'
  <2>1. Received
    BY <1>1, <1>4 DEF ClientInv, FirstInv, Announced, Lost, Ended
  <2>2. PICK q \in 0 .. Len(Answer) : Cut(Answer, 0, q, line, unread, arrived[1])
    BY <2>1 DEF Received
  <2>3. q = 0
    <3>1. Len(Answer) = 0
      BY <1>1, AnswerIs DEF ClientInv, ClientTypes
    <3> QED
      BY <3>1
  <2>4. line = <<>> /\ unread = <<>> /\ arrived[1] = <<>>
    BY <2>2, <2>3, CutOfNothing
  <2>5. flight[1] = <<>>
    BY <2>1 DEF Received
  <2>6. flight'[1] = <<Answer'>>
    BY <1>3, <2>5
  <2> QED
    BY <1>1, <1>2, <2>4, <2>6 DEF Announced, Idle
<1>5. FirstInv'
  BY <1>1, <1>4 DEF ClientInv, FirstInv, Idle
<1>6. SecondInv' /\ PrintedInv'
  BY <1>1, <1>3, SecondStays DEF ClientInv
<1>7. ClientTypes'
  BY <1>1, <1>2, <1>3 DEF ClientInv, ClientTypes
<1> QED
  BY <1>5, <1>6, <1>7 DEF ClientInv

LEMMA WorkerListensKeeps ==
  ASSUME ClientInv, WorkerListens
  PROVE  ClientInv'
<1>1. UNCHANGED <<flight, arrived, end, offered, sent, pc, new_port_number, unread, line, printed, failed>>
  BY DEF WorkerListens, network, client
<1>2. FirstInv' /\ SecondInv' /\ PrintedInv'
  BY <1>1, FirstStays, SecondStays DEF ClientInv
<1>3. ClientTypes'
  BY <1>1 DEF ClientInv, ClientTypes
<1> QED
  BY <1>2, <1>3 DEF ClientInv

\* The worker sends its next message.
LEMMA SendLineKeeps ==
  ASSUME ClientInv, SendLine
  PROVE  ClientInv'
<1>1. /\ end[2] = "open" /\ sent < Len(Lines) /\ sent' = sent + 1 /\ DOMAIN flight = Connection
      /\ flight' = [flight EXCEPT ![2] = Append(@, Lines[sent + 1])]
      /\ UNCHANGED <<arrived, end, offered, pc, new_port_number, unread, line, printed, failed>>
  BY DEF SendLine, Sends, client, ClientInv, ClientTypes
<1>2. flight'[2] = Append(flight[2], Lines[sent + 1]) /\ flight'[1] = flight[1] /\ DOMAIN flight' = Connection
  BY <1>1 DEF Connection
<1>3. sent \in 0 .. Len(Lines) - 1 /\ sent \in Nat /\ sent \in 0 .. sent' /\ sent' \in 0 .. Len(Lines)
  BY <1>1, LinesAre DEF ClientInv, ClientTypes
<1>4. Off(sent) \in Nat /\ Off(sent') \in Nat /\ Off(sent) <= Off(sent')
  <2>1. sent \in 0 .. Len(Lines)
    BY <1>3
  <2> QED
    BY <1>3, <2>1, TextIs
<1>5. ASSUME pc = "dates" PROVE Streaming'
  <2>1. Streaming
    BY <1>1, <1>5 DEF ClientInv, SecondInv, Over
  <2>2. PICK q \in 0 .. Off(sent) : StreamsAt(q)
    BY <2>1 DEF Streaming
  <2>3. PICK d \in 0 .. sent : q = Off(d) /\ flight[2] = Part(Lines, d, sent)
    BY <1>1, <2>2 DEF StreamsAt
  <2>4. flight'[2] = Part(Lines, d, sent + 1)
    <3>1. d \in Nat /\ d <= sent
      BY <1>3
    <3>2. Append(Part(Lines, d, sent), Lines[sent + 1]) = Part(Lines, d, sent + 1)
      BY <1>1, <1>3, <3>1, LinesAre, PartAppends
    <3> QED
      BY <1>2, <2>3, <3>2
  <2>5. d \in 0 .. sent' /\ q \in 0 .. Off(sent')
    BY <1>1, <1>3, <1>4
  <2>6. Len(printed) <= sent'
    BY <1>1, <1>3 DEF ClientInv, PrintedInv
  <2>7. end'[2] = "open" => \E e \in 0 .. sent' : q = Off(e) /\ flight'[2] = Part(Lines, e, sent')
    BY <1>1, <2>3, <2>4, <2>5
  <2>8. StreamsAt(q)'
    BY <1>1, <2>2, <2>6, <2>7 DEF StreamsAt
  <2> QED
    BY <2>5, <2>8 DEF Streaming
<1>6. SecondInv'
  BY <1>1, <1>5 DEF ClientInv, SecondInv
<1>7. PrintedInv'
  <2>1. Len(printed) \in 0 .. sent'
    BY <1>1, <1>3 DEF ClientInv, PrintedInv
  <2> QED
    BY <1>1, <2>1 DEF ClientInv, PrintedInv
<1>8. FirstInv'
  BY <1>1, <1>2, FirstStays DEF ClientInv
<1>9. ClientTypes'
  BY <1>1, <1>2, <1>3 DEF ClientInv, ClientTypes
<1> QED
  BY <1>6, <1>7, <1>8, <1>9 DEF ClientInv

\* A message gets through.
LEMMA DeliverFirst ==
  ASSUME ClientInv, Deliver(1)
  PROVE  ClientInv'
<1>1. /\ end[1] = "open" /\ flight[1] # <<>> /\ DOMAIN flight = Connection /\ DOMAIN arrived = Connection
      /\ arrived' = [arrived EXCEPT ![1] = @ \o Head(flight[1])]
      /\ flight' = [flight EXCEPT ![1] = Tail(@)]
      /\ UNCHANGED <<end, offered, sent, pc, new_port_number, unread, line, printed, failed>>
  BY DEF Deliver, server, client, ClientInv, ClientTypes
<1>2. /\ arrived'[1] = arrived[1] \o Head(flight[1]) /\ flight'[1] = Tail(flight[1])
      /\ arrived'[2] = arrived[2] /\ flight'[2] = flight[2]
      /\ DOMAIN flight' = Connection /\ DOMAIN arrived' = Connection
  BY <1>1 DEF Connection
<1>3. ASSUME pc = "port" PROVE Received'
  <2>1. flight[1] = <<Answer>> /\ arrived[1] = <<>> /\ unread = <<>> /\ line = <<>>
    BY <1>1, <1>3 DEF ClientInv, FirstInv, Announced, Received, Lost, Nothing, Idle
  <2>2. Answer \in Seq(Octet)
    BY AnswerIs DEF ClientInv, ClientTypes
  <2>3. arrived'[1] = Answer /\ flight'[1] = <<>>
    <3>1. Head(<<Answer>>) = Answer /\ Tail(<<Answer>>) = <<>>
      OBVIOUS
    <3>2. <<>> \o Answer = Answer
      BY <2>2, ConcatEmptySeq
    <3> QED
      BY <1>2, <2>1, <3>1, <3>2
  <2>4. Cut(Answer, 0, Len(Answer), <<>>, <<>>, Answer)
    <3>1. Len(Answer) \in Nat /\ 0 <= Len(Answer)
      BY <2>2, LenProperties
    <3>2. Part(Answer, 0, 0) = <<>> /\ Part(Answer, 0, Len(Answer)) = Answer
      BY <2>2, NoPart, WholePart
    <3> QED
      BY <3>1, <3>2 DEF Cut
  <2>5. Len(Answer) \in 0 .. Len(Answer)
    BY <2>2, LenProperties
  <2>6. Answer' = Answer
    BY <1>1 DEF Answer
  <2> QED
    BY <1>1, <2>1, <2>3, <2>4, <2>5, <2>6 DEF Received
<1>4. FirstInv'
  BY <1>1, <1>3 DEF ClientInv, FirstInv, Idle
<1>5. SecondInv' /\ PrintedInv'
  BY <1>1, <1>2, SecondStays DEF ClientInv
<1>6. ClientTypes'
  BY <1>1, <1>2 DEF ClientInv, ClientTypes
<1> QED
  BY <1>4, <1>5, <1>6 DEF ClientInv

LEMMA DeliverSecond ==
  ASSUME ClientInv, Deliver(2)
  PROVE  ClientInv'
<1>1. /\ end[2] = "open" /\ flight[2] # <<>> /\ DOMAIN flight = Connection /\ DOMAIN arrived = Connection
      /\ arrived' = [arrived EXCEPT ![2] = @ \o Head(flight[2])]
      /\ flight' = [flight EXCEPT ![2] = Tail(@)]
      /\ UNCHANGED <<end, offered, sent, pc, new_port_number, unread, line, printed, failed>>
  BY DEF Deliver, server, client, ClientInv, ClientTypes
<1>2. /\ arrived'[2] = arrived[2] \o Head(flight[2]) /\ flight'[2] = Tail(flight[2])
      /\ arrived'[1] = arrived[1] /\ flight'[1] = flight[1]
      /\ DOMAIN flight' = Connection /\ DOMAIN arrived' = Connection
  BY <1>1 DEF Connection
<1>3. ASSUME pc = "dates" PROVE Streaming'
  <2>1. Streaming
    BY <1>1, <1>3 DEF ClientInv, SecondInv, Over
  <2>2. PICK q \in 0 .. Off(sent) : StreamsAt(q)
    BY <2>1 DEF Streaming
  <2>3. PICK d \in 0 .. sent : q = Off(d) /\ flight[2] = Part(Lines, d, sent)
    BY <1>1, <2>2 DEF StreamsAt
  <2> DEFINE n == Len(printed)
  <2>4. /\ Text \in Seq(Octet) /\ Len(Text) \in Nat /\ sent \in 0 .. Len(Lines)
        /\ q \in Nat /\ n \in 0 .. sent /\ Off(n) \in Nat
    BY StreamPlaces DEF ClientInv
  <2>5. /\ n <= sent /\ printed = Part(Lines, 0, n) /\ Cut(Text, Off(n), q, line, unread, arrived[2])
        /\ line # <<>> => n < Len(Lines) /\ Len(line) <= Len(Lines[n + 1])
    BY <2>2 DEF StreamsAt
  <2> HIDE DEF n
  <2>6. d # sent
    BY <1>1, <2>3, <2>4, NoPart
  <2>7. d \in 0 .. Len(Lines) - 1 /\ d + 1 \in 0 .. sent /\ d < sent /\ sent <= Len(Lines) /\ d \in Nat /\ sent \in Nat
    BY <2>4, <2>6, LinesAre
  <2>8. Head(flight[2]) = Lines[d + 1] /\ Tail(flight[2]) = Part(Lines, d + 1, sent)
    <3>1. Lines \in Seq(Seq(Octet))
      BY LinesAre
    <3>2. /\ Head(Part(Lines, d, sent)) = Lines[d + 1]
          /\ Tail(Part(Lines, d, sent)) = Part(Lines, d + 1, sent)
      BY <2>7, <3>1, PartHead
    <3> QED
      BY <2>3, <3>2
  <2>9. Lines[d + 1] = Part(Text, Off(d), Off(d + 1)) /\ Off(d) <= Off(d + 1) /\ d + 1 \in 0 .. Len(Lines)
    <3>1. Lines[d + 1] = Part(Text, Off(d), Off(d + 1)) /\ d + 1 \in 0 .. Len(Lines)
      BY <2>7, LineInText
    <3>2. d \in 0 .. d + 1
      BY <2>7
    <3> QED
      BY <3>1, <3>2, TextIs
  <2> DEFINE r == Off(d + 1)
  <2>10. r \in Nat /\ q <= r /\ r <= Len(Text) /\ r <= Off(sent) /\ Off(sent) \in Nat
    BY <2>3, <2>4, <2>7, <2>9, TextIs
  <2> HIDE DEF r
  <2>11. Cut(Text, Off(n), r, line, unread, arrived[2] \o Part(Text, q, r))
    BY <2>4, <2>5, <2>10, CutArrives
  <2>12. Cut(Text, Off(n), r, line, unread, arrived'[2])
    BY <1>2, <2>3, <2>8, <2>9, <2>11 DEF r
  <2>13. r \in 0 .. Off(sent)
    BY <2>10
  <2>14. r = Off(d + 1) /\ flight'[2] = Part(Lines, d + 1, sent) /\ d + 1 \in 0 .. sent
    BY <1>2, <2>7, <2>8 DEF r
  <2>15. StreamsAt(r)'
    BY <1>1, <2>5, <2>12, <2>14 DEF StreamsAt, n
  <2> QED
    BY <1>1, <2>13, <2>15 DEF Streaming
<1>4. SecondInv' /\ PrintedInv'
  BY <1>1, <1>3 DEF ClientInv, SecondInv, PrintedInv
<1>5. FirstInv'
  BY <1>1, <1>2, FirstStays DEF ClientInv
<1>6. ClientTypes'
  BY <1>1, <1>2 DEF ClientInv, ClientTypes
<1> QED
  BY <1>4, <1>5, <1>6 DEF ClientInv

\* What an end does to a connection.
LEMMA EndIs ==
  ASSUME ClientTypes, NEW c \in Connection, Ends(c)
  PROVE  /\ end[c] = "open" /\ end'[c] \in Ended /\ flight'[c] = <<>>
         /\ arrived'[c] = arrived[c] \/ (arrived'[c] = <<>> /\ end'[c] = "reset")
         /\ \A d \in Connection : d # c => flight'[d] = flight[d] /\ arrived'[d] = arrived[d] /\ end'[d] = end[d]
         /\ ClientTypes'
         /\ UNCHANGED <<offered, sent, pc, new_port_number, unread, line, printed, failed>>
<1>1. UNCHANGED <<offered, sent, pc, new_port_number, unread, line, printed, failed>>
  BY DEF Ends, server, client
<1>2. /\ DOMAIN flight = Connection /\ DOMAIN arrived = Connection /\ DOMAIN end = Connection
      /\ end \in [Connection -> {"none", "open"} \cup Ended]
      /\ end[c] = "open" /\ flight' = [flight EXCEPT ![c] = <<>>]
  BY DEF Ends, ClientTypes
<1>3. flight'[c] = <<>> /\ DOMAIN flight' = Connection /\ \A d \in Connection : d # c => flight'[d] = flight[d]
  BY <1>2
<1>4. PICK e \in Ended : end' = [end EXCEPT ![c] = e]
                         /\ (arrived' = arrived \/ (e = "reset" /\ arrived' = [arrived EXCEPT ![c] = <<>>]))
  BY DEF Ends, Ended
<1>5. /\ end'[c] = e /\ end' \in [Connection -> {"none", "open"} \cup Ended]
      /\ \A d \in Connection : d # c => end'[d] = end[d]
  BY <1>2, <1>4
<1>6. /\ arrived'[c] = arrived[c] \/ (arrived'[c] = <<>> /\ e = "reset")
      /\ DOMAIN arrived' = Connection /\ \A d \in Connection : d # c => arrived'[d] = arrived[d]
  BY <1>2, <1>4
<1>7. ClientTypes'
  BY <1>1, <1>3, <1>5, <1>6 DEF ClientTypes
<1> QED
  BY <1>1, <1>2, <1>3, <1>4, <1>5, <1>6, <1>7

LEMMA EndsFirst ==
  ASSUME ClientInv, Ends(1)
  PROVE  ClientInv'
<1>1. 1 \in Connection /\ 2 \in Connection /\ 2 # 1
  BY DEF Connection
<1>2. /\ end[1] = "open" /\ end'[1] \in Ended /\ flight'[1] = <<>>
      /\ arrived'[1] = arrived[1] \/ (arrived'[1] = <<>> /\ end'[1] = "reset")
      /\ flight'[2] = flight[2] /\ arrived'[2] = arrived[2] /\ end'[2] = end[2]
      /\ ClientTypes'
      /\ UNCHANGED <<offered, sent, pc, new_port_number, unread, line, printed, failed>>
  BY <1>1, EndIs DEF ClientInv
<1>3. ASSUME pc = "port" PROVE Received' \/ Lost'
  <2>1. Answer' = Answer
    BY <1>2 DEF Answer
  <2>2. CASE Announced
    BY <1>2, <2>2 DEF Announced, Lost, Nothing, Idle
  <2>3. CASE Received
    <3>1. PICK q \in 0 .. Len(Answer) :
            Cut(Answer, 0, q, line, unread, arrived[1]) /\ (end[1] # "reset" => q = Len(Answer))
      BY <2>3 DEF Received
    <3>2. CASE arrived'[1] = arrived[1]
      BY <1>2, <2>1, <3>1, <3>2 DEF Received, Ended
    <3>3. CASE arrived'[1] = <<>> /\ end'[1] = "reset"
      <4>1. q \in Nat /\ Len(Answer) \in Nat
        <5>1. Len(Answer) \in 0 .. 5
          BY AnswerIs DEF ClientInv, ClientTypes
        <5> QED
          BY <5>1
      <4>2. CutUpTo(Answer, 0, q, line, unread)
        BY <3>1, <4>1, CutLoses
      <4>3. PICK r \in Nat : r <= q /\ Cut(Answer, 0, r, line, unread, <<>>)
        BY <4>2 DEF CutUpTo
      <4>4. r \in 0 .. Len(Answer)
        BY <4>1, <4>3
      <4> QED
        BY <1>2, <2>1, <3>3, <4>3, <4>4 DEF Received
    <3> QED
      BY <1>2, <3>2, <3>3
  <2>4. ~Lost
    BY <1>2 DEF Lost, Ended
  <2> QED
    BY <1>3, <2>2, <2>3, <2>4 DEF ClientInv, FirstInv
<1>4. FirstInv'
  BY <1>2, <1>3 DEF ClientInv, FirstInv, Idle, Ended
<1>5. SecondInv' /\ PrintedInv'
  BY <1>2, SecondStays DEF ClientInv
<1> QED
  BY <1>2, <1>4, <1>5 DEF ClientInv

LEMMA EndsSecond ==
  ASSUME ClientInv, Ends(2)
  PROVE  ClientInv'
<1>1. 1 \in Connection /\ 2 \in Connection /\ 1 # 2
  BY DEF Connection
<1>2. /\ end[2] = "open" /\ end'[2] \in Ended /\ flight'[2] = <<>>
      /\ arrived'[2] = arrived[2] \/ (arrived'[2] = <<>> /\ end'[2] = "reset")
      /\ flight'[1] = flight[1] /\ arrived'[1] = arrived[1] /\ end'[1] = end[1]
      /\ ClientTypes'
      /\ UNCHANGED <<offered, sent, pc, new_port_number, unread, line, printed, failed>>
  BY <1>1, EndIs DEF ClientInv
<1>3. ASSUME pc = "dates" PROVE Streaming'
  <2>1. Streaming
    BY <1>2, <1>3 DEF ClientInv, SecondInv, Over
  <2>2. PICK q \in 0 .. Off(sent) : StreamsAt(q)
    BY <2>1 DEF Streaming
  <2> DEFINE n == Len(printed)
  <2>3. Off(sent) \in Nat /\ q \in Nat /\ Off(n) \in Nat
    BY StreamPlaces DEF ClientInv
  <2>4. Cut(Text, Off(n), q, line, unread, arrived[2])
    BY <2>2 DEF StreamsAt
  <2>5. PICK r \in Nat : r <= q /\ Cut(Text, Off(n), r, line, unread, arrived'[2])
    <3>1. CASE arrived'[2] = arrived[2]
      <4>1. q <= q
        BY <2>3
      <4> QED
        BY <2>3, <2>4, <3>1, <4>1
    <3>2. CASE arrived'[2] = <<>>
      <4>1. CutUpTo(Text, Off(n), q, line, unread)
        BY <2>3, <2>4, CutLoses
      <4> QED
        BY <3>2, <4>1 DEF CutUpTo
    <3> QED
      BY <1>2, <3>1, <3>2
  <2>6. r \in 0 .. Off(sent)
    BY <2>3, <2>5
  <2>7. end'[2] # "open"
    BY <1>2 DEF Ended
  <2>8. StreamsAt(r)'
    BY <1>2, <2>2, <2>5, <2>7 DEF StreamsAt
  <2> QED
    BY <1>2, <2>6, <2>8 DEF Streaming
<1>4. SecondInv' /\ PrintedInv'
  BY <1>2, <1>3 DEF ClientInv, SecondInv, PrintedInv, Ended
<1>5. FirstInv'
  BY <1>2, FirstStays DEF ClientInv
<1> QED
  BY <1>2, <1>4, <1>5 DEF ClientInv

-----------------------------------------------------------------------------
(* The client: the theorems.                                               *)

LEMMA ClientStarts ==
  ASSUME ClientInit
  PROVE  ClientInv
<1>1. /\ \A c \in Connection : flight[c] = <<>> /\ arrived[c] = <<>> /\ end[c] = "none"
      /\ offered = 0 /\ sent = 0 /\ pc = "connect" /\ unread = <<>> /\ line = <<>> /\ printed = <<>>
  BY DEF ClientInit
<1>2. ClientTypes
  <2>1. sent \in 0 .. Len(Lines)
    BY <1>1, LinesAre
  <2>2. DOMAIN flight = Connection /\ DOMAIN arrived = Connection /\ end \in [Connection -> {"none", "open"} \cup Ended]
    BY DEF ClientInit
  <2> QED
    BY <1>1, <2>1, <2>2 DEF ClientTypes
<1>3. FirstInv
  BY <1>1 DEF FirstInv, Nothing, Idle, Connection
<1>4. SecondInv
  BY <1>1 DEF SecondInv, Nothing, Connection
<1>5. PrintedInv
  <2>1. Len(printed) = 0
    BY <1>1, EmptySeq
  <2> QED
    BY <1>1, <2>1 DEF PrintedInv
<1> QED
  BY <1>2, <1>3, <1>4, <1>5 DEF ClientInv

LEMMA ClientSteps ==
  ASSUME ClientInv, [SystemNext]_clientVars
  PROVE  ClientInv'
<1>1. \A c \in Connection : c = 1 \/ c = 2
  BY DEF Connection
<1>2. CASE FirstConnect
  BY <1>2, FirstConnectKeeps
<1>3. CASE FirstConnectFails \/ SecondConnectRefused \/ PortMissing \/ DatesEnd
  BY <1>3, ClientIsDone
<1>4. CASE SecondConnect
  BY <1>4, SecondConnectKeeps
<1>5. CASE \E c \in Connection : Refill(c)
  BY <1>1, <1>5, RefillFirst, RefillSecond
<1>6. CASE \E c \in Connection : TakeByte(c)
  BY <1>1, <1>6, TakeByteFirst, TakeByteSecond
<1>7. CASE PortRead
  BY <1>7, PortReadKeeps
<1>8. CASE PortReadFails
  BY <1>8, PortReadFailsKeeps
<1>9. CASE DateRead
  BY <1>9, DateReadKeeps
<1>10. CASE DateReadFails
  BY <1>10, DateReadFailsKeeps
<1>11. CASE SendPort \/ SendRefusal
  BY <1>11, AnswerKeeps
<1>12. CASE WorkerListens
  BY <1>12, WorkerListensKeeps
<1>13. CASE SendLine
  BY <1>13, SendLineKeeps
<1>14. CASE \E c \in Connection : Deliver(c)
  BY <1>1, <1>14, DeliverFirst, DeliverSecond
<1>15. CASE \E c \in Connection : Ends(c)
  BY <1>1, <1>15, EndsFirst, EndsSecond
<1>16. CASE UNCHANGED clientVars
  <2>1. UNCHANGED <<flight, arrived, end, offered, sent, pc, new_port_number, unread, line, printed, failed>>
    BY <1>16 DEF clientVars
  <2>2. FirstInv' /\ SecondInv' /\ PrintedInv'
    BY <2>1, FirstStays, SecondStays DEF ClientInv
  <2>3. ClientTypes'
    BY <2>1 DEF ClientInv, ClientTypes
  <2> QED
    BY <2>2, <2>3 DEF ClientInv
<1> QED
  BY <1>2, <1>3, <1>4, <1>5, <1>6, <1>7, <1>8, <1>9, <1>10, <1>11, <1>12, <1>13, <1>14, <1>15, <1>16
  DEF SystemNext, ClientNext

\* Whatever the network does, the client goes on only to the port that the listener
\* has sent, whole, unless a read has failed (datetime_client.c:186-201).
THEOREM PortIsAgreed == ClientSpec => []PortAgreed
<1>1. ClientInit => ClientInv
  BY ClientStarts
<1>2. ClientInv /\ [SystemNext]_clientVars => ClientInv'
  BY ClientSteps
<1>3. ClientInv => PortAgreed
  BY DEF ClientInv, FirstInv, PortAgreed
<1> QED
  BY <1>1, <1>2, <1>3, PTL DEF ClientSpec

\* What is printed is in the text of the messages.
LEMMA PrintedIsPrefix ==
  ASSUME ClientTypes, PrintedInv
  PROVE  LinesWhole
<1> DEFINE n == Len(printed)
<1>1. /\ sent \in 0 .. Len(Lines) /\ n \in 0 .. sent /\ Len(Lines) \in Nat
      /\ n = 0 => printed = <<>>
      /\ n # 0 => \E k \in 0 .. Len(Lines[n]) :
                    printed = Append(Part(Lines, 0, n - 1), Part(Lines[n], 0, k))
  BY LinesAre DEF ClientTypes, PrintedInv
<1>2. /\ FlattenSeq(SubSeq(Lines, 1, sent)) = Begun(sent)
      /\ Begun(sent) \in Seq(Octet) /\ Off(sent) \in Nat /\ Off(sent) = Len(Begun(sent))
  <2>1. SubSeq(Lines, 1, sent) = Part(Lines, 0, sent)
    BY DEF Part
  <2> QED
    BY <1>1, <2>1, BegunIs DEF Begun, Off
<1>3. CASE n = 0
  <2>1. printed = <<>> /\ FlattenSeq(printed) = <<>>
    BY <1>1, <1>3, FlattenNothing
  <2>2. Len(<<>>) = 0 /\ SubSeq(Begun(sent), 1, 0) = <<>>
    BY EmptySeq, SubSeqEmpty
  <2>3. IsPrefix(FlattenSeq(printed), FlattenSeq(SubSeq(Lines, 1, sent)))
    BY <1>2, <2>1, <2>2 DEF IsPrefix
  <2>4. \A i \in 1 .. n - 1 : printed[i] = Lines[i]
    BY <1>3
  <2> QED
    BY <2>3, <2>4 DEF LinesWhole
<1>4. CASE n # 0
  <2> DEFINE m == n - 1
  <2>1. m \in 0 .. Len(Lines) - 1 /\ m + 1 = n /\ m \in 0 .. Len(Lines) /\ n \in 0 .. Len(Lines) /\ m \in Nat /\ m <= Len(Lines)
    BY <1>1, <1>4
  <2>2. PICK k \in 0 .. Len(Lines[n]) : printed = Append(Part(Lines, 0, m), Part(Lines[n], 0, k))
    BY <1>1, <1>4
  <2> HIDE DEF m, n
  <2> DEFINE p == Part(Lines, 0, m)
  <2> DEFINE s == Part(Lines[n], 0, k)
  <2>3. p \in Seq(Seq(Octet)) /\ Begun(m) \in Seq(Octet) /\ Off(m) \in Nat /\ Off(m) = Len(Begun(m))
    BY <2>1, BegunIs DEF Off
  <2>4. Lines[n] \in Seq(Octet) /\ Len(Lines[n]) \in Nat /\ Off(n) = Off(m) + Len(Lines[n])
    <3>1. Lines[n] \in Seq(Octet) /\ Off(n) = Off(m) + Len(Lines[n])
      BY <2>1, LineInText, LinesAre
    <3> QED
      BY <3>1, LenProperties
  <2>5. s \in Seq(Octet) /\ Len(s) = k
    <3>1. 0 \in Nat /\ k \in Nat /\ 0 <= k /\ k <= Len(Lines[n]) /\ k - 0 = k
      BY <2>2, <2>4
    <3> QED
      BY <2>4, <3>1, PartIs
  <2> DEFINE a == Off(m)
  <2> DEFINE c == Off(n)
  <2> DEFINE b == a + k
  <2>6. /\ a \in Nat /\ c \in Nat /\ b \in Nat /\ a <= b /\ b <= c /\ k \in 0 .. c - a
        /\ c <= Off(sent) /\ c <= Len(Text) /\ a <= c
    <3>1. Off(n) \in Nat /\ Off(n) <= Len(Text) /\ Off(n) <= Off(sent)
      BY <1>1, <2>1, TextIs DEF n
    <3> DEFINE e == Len(Lines[n])
    <3>2. a \in Nat /\ c \in Nat /\ e \in Nat /\ k \in 0 .. e /\ c = a + e
      BY <2>2, <2>3, <2>4, <3>1
    <3> HIDE DEF a, c, e
    <3>3. b \in Nat /\ a <= b /\ b <= c /\ k \in 0 .. c - a /\ a <= c
      BY <3>2
    <3> QED
      BY <3>1, <3>2, <3>3 DEF c
  <2>7. FlattenSeq(printed) = Begun(m) \o s
    <3> HIDE DEF s, p
    <3>1. FlattenSeq(Append(p, s)) = FlattenSeq(p) \o s
      BY <2>3, <2>5, FlattenAppends
    <3> QED
      BY <2>2, <3>1 DEF p, s, Begun
  <2>8. Text \in Seq(Octet) /\ Len(Text) \in Nat
    BY TextIs
  <2>9. Begun(m) = Part(Text, 0, a) /\ Begun(sent) = Part(Text, 0, Off(sent))
    <3>1. Len(Lines) \in 0 .. Len(Lines) /\ m \in 0 .. Len(Lines) /\ sent \in 0 .. Len(Lines)
      BY <1>1, <2>1
    <3> QED
      BY <3>1, BegunGrows DEF Text
  <2>10. s = Part(Text, a, b)
    <3>1. Part(Text, a, c) = Lines[n]
      BY <2>1, LineInText
    <3> HIDE DEF a, c
    <3>2. Part(Part(Text, a, c), 0, k) = Part(Text, a, a + k)
      BY <2>6, <2>8, PartOfPart
    <3> QED
      BY <3>1, <3>2
  <2> HIDE DEF a, b, c, s, p
  <2>11. FlattenSeq(printed) = Part(Text, 0, b)
    <3>1. Part(Text, 0, a) \o Part(Text, a, b) = Part(Text, 0, b)
      <4>1. 0 \in Nat /\ 0 <= a /\ b <= Len(Text)
        BY <2>6, <2>8
      <4> QED
        BY <2>6, <2>8, <4>1, PartsJoin
    <3> QED
      BY <2>7, <2>9, <2>10, <3>1
  <2>12. b <= Off(sent) /\ Off(sent) <= Len(Text)
    BY <1>1, <1>2, <2>6, TextIs
  <2>13. Len(Part(Text, 0, b)) = b
    <3>1. 0 \in Nat /\ 0 <= b /\ b <= Len(Text) /\ b - 0 = b
      BY <1>2, <2>6, <2>8, <2>12
    <3> QED
      BY <2>6, <2>8, <3>1, PartIs
  <2>14. Part(Part(Text, 0, Off(sent)), 0, b) = Part(Text, 0, b)
    <3>1. 0 \in Nat /\ 0 <= Off(sent) /\ b \in 0 .. Off(sent) - 0 /\ 0 + b = b
      BY <1>2, <2>6, <2>12
    <3> QED
      BY <1>2, <2>8, <2>12, <3>1, PartOfPart
  <2>15. IsPrefix(FlattenSeq(printed), Begun(sent))
    <3>1. SubSeq(Begun(sent), 1, b) = Part(Begun(sent), 0, b)
      BY DEF Part
    <3>2. Len(Part(Text, 0, b)) <= Len(Begun(sent))
      BY <1>2, <2>12, <2>13
    <3>3. Part(Text, 0, b) = SubSeq(Begun(sent), 1, Len(Part(Text, 0, b)))
      BY <2>9, <2>13, <2>14, <3>1
    <3> HIDE DEF Text
    <3> QED
      BY <2>11, <3>2, <3>3 DEF IsPrefix
  <2>16. ASSUME NEW i \in 1 .. n - 1 PROVE printed[i] = Lines[i]
    <3>1. Len(p) = m /\ \A j \in 1 .. m : p[j] = Lines[j]
      BY <2>1, LinesAre, FirstPart DEF p
    <3>2. \A j \in 1 .. m : Append(p, s)[j] = p[j]
      BY <2>3, <2>5, <3>1, AppendProperties
    <3>3. i \in 1 .. m
      BY DEF m
    <3> QED
      BY <2>2, <3>1, <3>2, <3>3 DEF p, s
  <2> QED
    BY <1>2, <2>15, <2>16 DEF LinesWhole, n
<1> QED
  BY <1>3, <1>4

\* Whatever the network does, what the client prints begins what the worker has
\* sent, each line but the last a message whole (datetime_client.c:16-59).
THEOREM LinesAreWhole == ClientSpec => []LinesWhole
<1>1. ClientInit => ClientInv
  BY ClientStarts
<1>2. ClientInv /\ [SystemNext]_clientVars => ClientInv'
  BY ClientSteps
<1>3. ClientInv => LinesWhole
  BY PrintedIsPrefix DEF ClientInv
<1> QED
  BY <1>1, <1>2, <1>3, PTL DEF ClientSpec

=============================================================================
