--------------------------- MODULE ServerLogProofs ---------------------------
(* Theorems about ServerLog, for every set of children and every length of   *)
(* the log queue.                                                            *)
EXTENDS ServerLog, TLAPS

(***************************************************************************)
(* The inductive invariant: what the word and the copies of it hold at     *)
(* each place of the tasks.  TypeOK needs it as well: a task that is about *)
(* to set a bit must have one to set.                                      *)
(***************************************************************************)

\* What the listener adds, and what it has logged of its client before.
Adds(code) ==
  \/ code = ServerConnected /\ outcome = "none"
  \/ code = NoAvailableSockets /\ outcome = "refused" /\ ServerConnected \in word
  \/ code = ChildNotCreated /\ outcome = "notCreated" /\ ServerConnected \in word
  \/ code = DateNotSent /\ Reported \subseteq word

\* From its first log to logsSave the listener finds its own bits in the word:
\* where children run meanwhile, their copies have the bit ServerConnected.
ListenerInv ==
  /\ lpc \in {"find", "set"} => Adds(adding[Listener])
  /\ lpc = "set" => copy[Listener] = word
  /\ lpc \in {"receive", "create"} => outcome = "none" /\ ServerConnected \in word
  /\ lpc = "save" => Reported \cup {DateNotSent} \subseteq word
  /\ lpc = "send" => Reported \cup {DateNotSent} \subseteq copy[Listener]

\* The listener is about to add DateNotSent for the child it has just created.
Announcing ==
  lpc \in {"find", "set"} /\ adding[Listener] = DateNotSent /\ outcome = "served"

\* The shared codes are in the word, and in the copy a child will write back,
\* from the moment a task counts on them.
ChildInv ==
  \A c \in Child :
    /\ cpc[c] # "none" => ServerConnected \in word
    /\ cpc[c] # "none" => DateNotSent \in word \/ Announcing
    /\ cpc[c] \in {"find", "set"} => adding[c] \in {ChildConnected, DateNotSent}
    /\ cpc[c] = "find" => ChildConnected \in word \cup {adding[c]}
    /\ cpc[c] = "set" => ChildConnected \in copy[c] \cup {adding[c]}
    /\ cpc[c] = "set" => {ServerConnected, DateNotSent} \subseteq copy[c]
    /\ cpc[c] \in {"greet", "serve"} => ChildConnected \in word

\* No code is in the word, in a copy of it, or about to be added that no client
\* has caused.
HistoryInv ==
  /\ outcome # "none" => outcome \in past
  /\ \A c \in Child : cpc[c] # "none" => "served" \in past
  /\ word \subseteq EverReported
  /\ \A t \in Task : copy[t] \subseteq EverReported
  /\ \A t \in Task : adding[t] \in EverReported \cup {NoCode}

LogInv == TypeOK /\ ListenerInv /\ ChildInv /\ HistoryInv

LEMMA ListenerIsNoChild == Listener \notin Child
BY ChildAssumption DEF Listener

LEMMA LogInvInit == Init => LogInv
<1> SUFFICES ASSUME Init PROVE LogInv
  OBVIOUS
<1>1. TypeOK
  <2>1. logsQueue \in Seq(SUBSET Code) /\ Len(logsQueue) <= QueueLength
    BY QueueLengthAssumption DEF Init
  <2>2. /\ word \subseteq Code /\ outcome \in Outcome \cup {"none"}
        /\ past \subseteq Outcome
    BY DEF Init
  <2>3. copy \in [Task -> SUBSET Code] /\ adding \in [Task -> Code \cup {NoCode}]
    BY DEF Init
  <2>4. lpc \in ListenerPc /\ cpc \in [Child -> ChildPc]
    BY DEF Init, ListenerPc, ChildPc
  <2>5. QED
    BY <2>1, <2>2, <2>3, <2>4 DEF TypeOK
<1>2. ListenerInv /\ ChildInv /\ HistoryInv
  BY DEF Init, ListenerInv, ChildInv, HistoryInv
<1>3. QED
  BY <1>1, <1>2 DEF LogInv

-----------------------------------------------------------------------------
(* The steps of the listener.                                              *)

LEMMA TypeListener == LogInv /\ ListenerStep => TypeOK'
<1> SUFFICES ASSUME LogInv, ListenerStep PROVE TypeOK'
  OBVIOUS
<1> USE DEF LogInv, TypeOK, ListenerGoes, LogUnchanged, AddLog, Code, ListenerPc, ChildPc, Task,
           Becomes, Outcome, history
<1> USE DEF ServerConnected, ChildConnected, ChildNotCreated, DateNotSent, NoAvailableSockets
<1>1. CASE LFind \/ LSave
  BY <1>1 DEF LFind, LSave, Find
<1>2. CASE LSet
  <2>1. adding[Listener] \in Code
    BY <1>2 DEF LSet, ListenerInv, Adds
  <2>2. AfterLog \in ListenerPc
    BY DEF AfterLog
  <2>3. QED
    BY <1>2, <2>1, <2>2 DEF LSet, Set
<1>3. CASE LAccept \/ LReceive \/ LReceiveTimeout \/ LCreateFails
  BY <1>3 DEF LAccept, LReceive, LReceiveTimeout, LCreateFails
<1>4. CASE LCreate
  BY <1>4 DEF LCreate
<1>5. CASE LEnqueue
  <2>1. logsQueue' \in Seq(SUBSET Code) /\ Len(logsQueue') = Len(logsQueue) + 1
    BY <1>5 DEF LEnqueue
  <2>2. Len(logsQueue') <= QueueLength
    BY <1>5, <2>1, QueueLengthAssumption DEF LEnqueue
  <2>3. QED
    BY <1>5, <2>1, <2>2 DEF LEnqueue
<1>6. CASE LEnqueueTimeout
  BY <1>6 DEF LEnqueueTimeout
<1>7. QED
  BY <1>1, <1>2, <1>3, <1>4, <1>5, <1>6 DEF ListenerStep

LEMMA ListenerListener == LogInv /\ ListenerStep => ListenerInv'
<1> SUFFICES ASSUME LogInv, ListenerStep PROVE ListenerInv'
  OBVIOUS
<1> USE ListenerIsNoChild
    DEF LogInv, TypeOK, ListenerInv, ListenerGoes, LogUnchanged, AddLog, Adds, Reported, Task,
        Becomes, history
<1> USE DEF ServerConnected, ChildConnected, ChildNotCreated, DateNotSent, NoAvailableSockets
<1>1. CASE LFind \/ LSave
  BY <1>1 DEF LFind, LSave, Find
<1>2. CASE LSet
  <2>1. word' = word \cup {adding[Listener]} /\ lpc' = AfterLog /\ lpc = "set"
    BY <1>2 DEF LSet, Set
  <2>2. adding[Listener]' = IF AfterLog = "find" THEN DateNotSent ELSE NoCode
    BY <1>2 DEF LSet, Set
  <2>3. QED
    BY <1>2, <2>1, <2>2 DEF LSet, AfterLog
<1>3. CASE LAccept \/ LReceive \/ LReceiveTimeout \/ LCreateFails
  BY <1>3 DEF LAccept, LReceive, LReceiveTimeout, LCreateFails
<1>4. CASE LCreate
  BY <1>4 DEF LCreate
<1>5. CASE LEnqueue \/ LEnqueueTimeout
  BY <1>5 DEF LEnqueue, LEnqueueTimeout
<1>6. QED
  BY <1>1, <1>2, <1>3, <1>4, <1>5 DEF ListenerStep

LEMMA ChildListener == LogInv /\ ListenerStep => ChildInv'
<1> SUFFICES ASSUME LogInv, ListenerStep PROVE ChildInv'
  OBVIOUS
<1> USE ListenerIsNoChild
    DEF LogInv, TypeOK, ChildInv, Announcing, ListenerGoes, LogUnchanged, AddLog, Task,
        Becomes, history
<1> USE DEF ServerConnected, ChildConnected, ChildNotCreated, DateNotSent, NoAvailableSockets
<1>1. CASE LFind \/ LSave
  BY <1>1 DEF LFind, LSave, Find
<1>2. CASE LSet
  <2>1. word' = word \cup {adding[Listener]} /\ lpc = "set"
    BY <1>2 DEF LSet, Set, ListenerInv
  <2>2. \A c \in Child : cpc'[c] = cpc[c] /\ copy'[c] = copy[c] /\ adding'[c] = adding[c]
    BY <1>2 DEF LSet, Set
  <2>3. Announcing => DateNotSent \in word'
    BY <2>1
  <2>4. QED
    BY <2>1, <2>2, <2>3
<1>3. CASE LAccept \/ LReceive \/ LReceiveTimeout \/ LCreateFails
  BY <1>3 DEF LAccept, LReceive, LReceiveTimeout, LCreateFails
<1>4. CASE LCreate
  BY <1>4 DEF LCreate, ListenerInv
<1>5. CASE LEnqueue \/ LEnqueueTimeout
  BY <1>5 DEF LEnqueue, LEnqueueTimeout
<1>6. QED
  BY <1>1, <1>2, <1>3, <1>4, <1>5 DEF ListenerStep

LEMMA HistoryListener == LogInv /\ ListenerStep => HistoryInv'
<1> SUFFICES ASSUME LogInv, ListenerStep PROVE HistoryInv'
  OBVIOUS
<1> USE ListenerIsNoChild
    DEF LogInv, TypeOK, HistoryInv, ListenerGoes, LogUnchanged, AddLog, Task, Becomes, history,
        EverReported
<1>1. CASE LFind \/ LSave
  BY <1>1 DEF LFind, LSave, Find
<1>2. CASE LSet
  <2>1. adding[Listener] \in EverReported
    BY <1>2 DEF LSet, ListenerInv, Adds
  <2>2. word' \subseteq EverReported /\ UNCHANGED <<outcome, past, cpc>>
    BY <1>2, <2>1 DEF LSet, Set
  <2>3. \A t \in Task : copy'[t] \subseteq EverReported
    BY <1>2 DEF LSet, Set
  <2>4. \A t \in Task : adding'[t] \in EverReported \cup {NoCode}
    BY <1>2 DEF LSet, Set
  <2>5. QED
    BY <2>2, <2>3, <2>4
<1>3. CASE LAccept \/ LReceive \/ LReceiveTimeout \/ LCreateFails
  BY <1>3 DEF LAccept, LReceive, LReceiveTimeout, LCreateFails
<1>4. CASE LCreate
  BY <1>4 DEF LCreate
<1>5. CASE LEnqueue \/ LEnqueueTimeout
  BY <1>5 DEF LEnqueue, LEnqueueTimeout
<1>6. QED
  BY <1>1, <1>2, <1>3, <1>4, <1>5 DEF ListenerStep

-----------------------------------------------------------------------------
(* The steps of the children.                                              *)

LEMMA HistoryChild == ASSUME LogInv, NEW c \in Child, ChildStep(c) PROVE HistoryInv'
<1> USE ListenerIsNoChild
    DEF LogInv, TypeOK, HistoryInv, ChildGoes, history, LogUnchanged, AddLog, Task, EverReported
<1>1. CASE CFind(c) \/ CGreet(c) \/ CServeFails(c) \/ Reclaim(c)
  BY <1>1 DEF CFind, Find, CGreet, CServeFails, Reclaim
<1>2. CASE CSet(c)
  <2>1. adding[c] \in EverReported
    BY <1>2 DEF CSet, ChildInv
  <2>2. QED
    BY <1>2, <2>1 DEF CSet, Set
<1>3. QED
  BY <1>1, <1>2 DEF ChildStep

LEMMA TypeChild == ASSUME LogInv, NEW c \in Child, ChildStep(c) PROVE TypeOK'
<1> USE DEF LogInv, TypeOK, ChildGoes, history, LogUnchanged, AddLog, Code, ChildPc, Task, Outcome
<1> USE DEF ServerConnected, ChildConnected, ChildNotCreated, DateNotSent, NoAvailableSockets
<1>1. CASE CFind(c) \/ CGreet(c) \/ CServeFails(c) \/ Reclaim(c)
  BY <1>1 DEF CFind, Find, CGreet, CServeFails, Reclaim
<1>2. CASE CSet(c)
  <2>1. adding[c] \in Code
    BY <1>2 DEF CSet, ChildInv
  <2>2. QED
    BY <1>2, <2>1 DEF CSet, Set
<1>3. QED
  BY <1>1, <1>2 DEF ChildStep

\* A child takes no bit out of the word that any task counts on.
LEMMA ChildKeepsShared ==
  ASSUME LogInv, NEW c \in Child, ChildStep(c)
  PROVE  \A code \in {ServerConnected, ChildConnected, DateNotSent} :
           code \in word => code \in word'
<1> USE DEF ChildGoes, history, LogUnchanged, AddLog
<1>1. CASE CFind(c) \/ CGreet(c) \/ CServeFails(c) \/ Reclaim(c)
  BY <1>1 DEF CFind, Find, CGreet, CServeFails, Reclaim
<1>2. CASE CSet(c)
  BY <1>2 DEF CSet, Set, LogInv, ChildInv
<1>3. QED
  BY <1>1, <1>2 DEF ChildStep

LEMMA ListenerChild == ASSUME LogInv, NEW c \in Child, ChildStep(c) PROVE ListenerInv'
<1>1. ServerConnected \in word => ServerConnected \in word'
  BY ChildKeepsShared
<1>2. UNCHANGED <<lpc, outcome>> /\ ListenerBlocked
  BY DEF ChildStep, ChildGoes, history, CFind, CSet, CGreet, CServeFails, Reclaim
<1>3. copy'[Listener] = copy[Listener]
  BY ListenerIsNoChild
  DEF ChildStep, CFind, CSet, CGreet, CServeFails, Reclaim, Find, Set, AddLog, LogUnchanged,
      LogInv, TypeOK, Task
<1>4. QED
  BY <1>1, <1>2, <1>3 DEF LogInv, ListenerInv, ListenerBlocked, Reported

LEMMA ChildChild == ASSUME LogInv, NEW c \in Child, ChildStep(c) PROVE ChildInv'
<1>1. ListenerBlocked /\ UNCHANGED <<lpc, outcome>>
  BY DEF ChildStep, ChildGoes, history, CFind, CSet, CGreet, CServeFails, Reclaim
<1>2. ~Announcing
  BY <1>1 DEF Announcing, ListenerBlocked
<1>3. \A code \in {ServerConnected, ChildConnected, DateNotSent} : code \in word => code \in word'
  BY ChildKeepsShared
<1> USE DEF LogInv, TypeOK, ChildInv, ChildGoes, history, LogUnchanged, AddLog, Task
<1>4. ASSUME NEW d \in Child, d # c
      PROVE  cpc'[d] = cpc[d] /\ copy'[d] = copy[d] /\ adding'[d] = adding[d]
  BY <1>4 DEF ChildStep, CFind, CSet, CGreet, CServeFails, Reclaim, Find, Set
<1> USE DEF ServerConnected, ChildConnected, DateNotSent
<1>5. CASE CFind(c) \/ CGreet(c) \/ CServeFails(c) \/ Reclaim(c)
  BY <1>2, <1>3, <1>4, <1>5 DEF CFind, Find, CGreet, CServeFails, Reclaim
<1>6. CASE CSet(c)
  BY <1>2, <1>3, <1>4, <1>6 DEF CSet, Set
<1>7. QED
  BY <1>5, <1>6 DEF ChildStep

-----------------------------------------------------------------------------
LEMMA LogInvTakes == LogInv /\ EepromTakes => LogInv'
<1> SUFFICES ASSUME LogInv, EepromTakes PROVE LogInv'
  OBVIOUS
<1>1. logsQueue' \in Seq(SUBSET Code) /\ Len(logsQueue') = Len(logsQueue) - 1
  BY DEF EepromTakes, LogInv, TypeOK
<1>2. Len(logsQueue') <= QueueLength
  BY <1>1, QueueLengthAssumption DEF LogInv, TypeOK
<1>3. UNCHANGED <<word, copy, adding, lpc, cpc, outcome, past>>
  BY DEF EepromTakes, LogUnchanged, taskVars, history
<1>4. QED
  BY <1>1, <1>2, <1>3
  DEF LogInv, TypeOK, ListenerInv, ChildInv, HistoryInv, Adds, Announcing, Reported, EverReported

LEMMA LogInvNext == LogInv /\ [Next]_vars => LogInv'
<1> SUFFICES ASSUME LogInv, [Next]_vars PROVE LogInv'
  OBVIOUS
<1>1. CASE ListenerStep
  BY <1>1, TypeListener, ListenerListener, ChildListener, HistoryListener DEF LogInv
<1>2. CASE \E c \in Child : ChildStep(c)
  BY <1>2, TypeChild, ListenerChild, ChildChild, HistoryChild DEF LogInv
<1>3. CASE EepromTakes
  BY <1>3, LogInvTakes
<1>4. CASE UNCHANGED vars
  BY <1>4
  DEF vars, logVars, taskVars, history, LogInv, TypeOK, ListenerInv, ChildInv, HistoryInv, Adds,
      Announcing, Reported, EverReported
<1>5. QED
  BY <1>1, <1>2, <1>3, <1>4 DEF Next

LEMMA LogInvCorrect == Spec => []LogInv
BY LogInvInit, LogInvNext, PTL DEF Spec

\* The variables keep their types; the log queue is never longer than it may be.
THEOREM LogTypeCorrect == Spec => []TypeOK
BY LogInvCorrect, PTL DEF LogInv

\* The word that logsSave queues misses nothing that the listener has logged of
\* the connection, and holds no code that no client has caused, however many
\* children write back old copies of the word (server.c:75-115).
THEOREM SavedWordHolds == Spec => SavedHolds
<1> DEFINE saved == logsQueue'[Len(logsQueue')]
           Holds == Reported \cup {DateNotSent} \subseteq saved /\ saved \subseteq EverReported
<1>1. LogInv /\ [Next]_vars => (Len(logsQueue') > Len(logsQueue) => Holds)
  <2> SUFFICES ASSUME LogInv, [Next]_vars, Len(logsQueue') > Len(logsQueue)
               PROVE  Holds
    OBVIOUS
  <2>1. logsQueue \in Seq(SUBSET Code)
    BY DEF LogInv, TypeOK
  <2>2. ASSUME LEnqueue PROVE Holds
    <3>1. saved = copy[Listener]
      BY <2>1, <2>2 DEF LEnqueue, LogInv, TypeOK, Task
    <3>2. QED
      BY <2>2, <3>1 DEF LEnqueue, LogInv, ListenerInv, HistoryInv, Task
  <2>3. ASSUME EepromTakes PROVE FALSE
    BY <2>1, <2>3 DEF EepromTakes
  <2>4. ASSUME UNCHANGED logsQueue PROVE FALSE
    BY <2>1, <2>4
  <2>5. ASSUME ListenerStep, ~LEnqueue PROVE UNCHANGED logsQueue
    BY <2>5 DEF ListenerStep, ListenerGoes, LFind, LSet, LAccept, LReceive, LReceiveTimeout,
                LCreate, LCreateFails, LSave, LEnqueueTimeout
  <2>6. ASSUME NEW c \in Child, ChildStep(c) PROVE UNCHANGED logsQueue
    BY <2>6 DEF ChildStep, ChildGoes, history, CFind, CSet, CGreet, CServeFails, Reclaim
  <2>7. QED
    BY <2>2, <2>3, <2>4, <2>5, <2>6 DEF Next, vars, logVars
<1>2. QED
  BY <1>1, LogInvCorrect, PTL DEF Spec, SavedHolds

\* What every connection logs is never lost again, although logsAddLog writes
\* back copies of the word without a lock (logs.c:61-68).
THEOREM SharedCodesKept == Spec => SharedCodesStay
<1>1. LogInv /\ [Next]_vars =>
        \A code \in {ServerConnected, ChildConnected, DateNotSent} :
          code \in word => code \in word'
  <2> SUFFICES ASSUME LogInv, [Next]_vars
               PROVE  \A code \in {ServerConnected, ChildConnected, DateNotSent} :
                        code \in word => code \in word'
    OBVIOUS
  <2>1. CASE LSet
    BY <2>1 DEF LSet, Set, ListenerGoes, LogInv, ListenerInv
  <2>2. CASE ListenerStep /\ ~LSet
    BY <2>2 DEF ListenerStep, ListenerGoes, LogUnchanged, AddLog, Find, LFind, LAccept, LReceive,
                LReceiveTimeout, LCreate, LCreateFails, LSave, LEnqueue, LEnqueueTimeout
  <2>3. CASE \E c \in Child : ChildStep(c)
    BY <2>3, ChildKeepsShared
  <2>4. CASE EepromTakes \/ UNCHANGED vars
    BY <2>4 DEF EepromTakes, LogUnchanged, vars, logVars
  <2>5. QED
    BY <2>1, <2>2, <2>3, <2>4 DEF Next
<1>2. QED
  BY <1>1, LogInvCorrect, PTL DEF Spec, SharedCodesStay
=============================================================================
