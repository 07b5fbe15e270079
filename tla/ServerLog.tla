------------------------------ MODULE ServerLog ------------------------------
(***************************************************************************)
(* The log of the server: logs.c as the tasks of server.c use it.          *)
(*                                                                         *)
(* One word of eight bits in RAM belongs to the module "server".  The      *)
(* listener and the children set bits in it with logsAddLog, which takes a *)
(* copy, sets the bit in the copy and writes the copy back.  At the end of *)
(* every connection the listener queues the word with the time (logsSave); *)
(* the EEPROM task takes it from there.  No code ever clears a bit.        *)
(*                                                                         *)
(* Scheduling is that of DaytimeServer: the children and the EEPROM task   *)
(* (priority 3) run only while the listener (priority 4) is blocked.       *)
(***************************************************************************)
EXTENDS Integers, Sequences

CONSTANTS
  Child,        \* room for child tasks
  QueueLength   \* LOGS_QUEUE_LENGTH

ASSUME ChildAssumption == "listener" \notin Child
ASSUME QueueLengthAssumption == QueueLength \in Nat \ {0}

VARIABLES
  word,      \* log_code of the module: the set of its bits
  copy,      \* log_data of the task that is inside logsAddLog or logsSave
  adding,    \* the logNumber of its logsAddLog
  lpc,       \* where the listener is
  cpc,       \* where each child is
  logsQueue, \* the words on their way to the EEPROM
  outcome,   \* history: what has become of the listener's present client
  past       \* history: the outcomes of all clients since the start

logVars == <<word, copy, adding, logsQueue>>
history == <<outcome, past>>
taskVars == <<lpc, cpc, history>>
vars == <<logVars, taskVars>>

\* logMappingTab, logs.c:3.
ServerConnected == 0
ChildConnected == 1
ChildNotCreated == 2
DateNotSent == 3
NoAvailableSockets == 5
Code == {ServerConnected, ChildConnected, ChildNotCreated, DateNotSent, NoAvailableSockets}

NoCode == -1
Listener == "listener"

Task == Child \cup {Listener}

ListenerPc == {"delay", "receive", "create", "find", "set", "save", "send"}
ChildPc == {"none", "find", "set", "greet", "serve", "gone"}
Outcome == {"served", "refused", "notCreated"}

TypeOK ==
  /\ word \subseteq Code
  /\ copy \in [Task -> SUBSET Code]
  /\ adding \in [Task -> Code \cup {NoCode}]
  /\ lpc \in ListenerPc
  /\ cpc \in [Child -> ChildPc]
  /\ logsQueue \in Seq(SUBSET Code) /\ Len(logsQueue) <= QueueLength
  /\ outcome \in Outcome \cup {"none"}
  /\ past \subseteq Outcome

\* logsInit and logsAddNewModule are done, the listener listens.
Init ==
  /\ word = {}
  /\ copy = [t \in Task |-> {}]
  /\ adding = [t \in Task |-> NoCode]
  /\ lpc = "delay"
  /\ cpc = [c \in Child |-> "none"]
  /\ logsQueue = <<>>
  /\ outcome = "none" /\ past = {}

-----------------------------------------------------------------------------
(* logsAddLog: find the word of the module, set the bit, write it back.     *)

AddLog(t, code) == adding' = [adding EXCEPT ![t] = code] /\ UNCHANGED <<word, copy>>

Find(t) == copy' = [copy EXCEPT ![t] = word] /\ UNCHANGED <<word, adding>>

\* Mutant: the bit is assigned instead of or-ed into the word.
SetAssigns(t, next) ==
  /\ word' = {adding[t]}
  /\ copy' = [copy EXCEPT ![t] = {}]
  /\ adding' = [adding EXCEPT ![t] = next]

\* next is the log that the task adds right after this one, if any.
Set(t, next) ==
  /\ word' = copy[t] \cup {adding[t]}
  /\ copy' = [copy EXCEPT ![t] = {}]
  /\ adding' = [adding EXCEPT ![t] = next]

-----------------------------------------------------------------------------
(* listeningForConnectionTask.                                              *)

\* Mutant: the children have the priority of the listener.
NeverAlone == TRUE

\* vTaskDelay and xQueueReceive, and logsSave while the queue is full.
ListenerBlocked ==
  \/ lpc \in {"delay", "receive"}
  \/ lpc = "send" /\ Len(logsQueue) = QueueLength

ListenerGoes(from, to) ==
  /\ lpc = from
  /\ lpc' = to
  /\ UNCHANGED <<cpc, logsQueue>>

LogUnchanged == UNCHANGED <<word, copy, adding>>

Becomes(what) == outcome' = what /\ past' = past \cup {what}

LFind ==
  ListenerGoes("find", "set") /\ Find(Listener) /\ UNCHANGED history

\* Where listeningForConnectionTask goes on when logsAddLog returns.
AfterLog ==
  CASE adding[Listener] = ServerConnected -> "receive"
    [] adding[Listener] = DateNotSent -> IF outcome = "none" THEN "create" ELSE "save"
    [] OTHER -> "find"

\* After NoAvailableSockets or ChildNotCreated comes DateNotSent, as for every
\* other client (server.c:106).
LSet ==
  /\ ListenerGoes("set", AfterLog)
  /\ Set(Listener, IF AfterLog = "find" THEN DateNotSent ELSE NoCode)
  /\ UNCHANGED history

\* A client is ESTABLISHED on socket 0.
LAccept ==
  /\ ListenerGoes("delay", "find") /\ AddLog(Listener, ServerConnected)
  /\ outcome' = "none" /\ UNCHANGED past

\* A worker from the pool and its port to the client.  A failed send logs
\* DateNotSent and the listener goes on all the same.
LReceive ==
  /\ UNCHANGED history
  /\ \/ ListenerGoes("receive", "create") /\ LogUnchanged
     \/ ListenerGoes("receive", "find") /\ AddLog(Listener, DateNotSent)

\* No worker within 10000 ticks.  If the "-1" cannot be sent either, DateNotSent
\* is added here and once more below, to the same effect.
LReceiveTimeout ==
  /\ ListenerGoes("receive", "find") /\ AddLog(Listener, NoAvailableSockets)
  /\ Becomes("refused")

LCreate ==
  /\ lpc = "create"
  /\ lpc' = "find"
  /\ Becomes("served")
  /\ \E c \in Child :
       /\ cpc[c] = "none"
       /\ cpc' = [cpc EXCEPT ![c] = "find"]
       /\ adding' = [adding EXCEPT ![Listener] = DateNotSent, ![c] = ChildConnected]
  /\ UNCHANGED <<word, copy, logsQueue>>

LCreateFails ==
  /\ \A c \in Child : cpc[c] # "none"
  /\ ListenerGoes("create", "find") /\ AddLog(Listener, ChildNotCreated)
  /\ Becomes("notCreated")

\* logsSave copies the word and reads the clock.
LSave ==
  /\ ListenerGoes("save", "send")
  /\ Find(Listener) /\ UNCHANGED history

\* Mutant: a queue without a limit.
LEnqueueAlways ==
  /\ lpc = "send" /\ lpc' = "delay"
  /\ logsQueue' = Append(logsQueue, copy[Listener])
  /\ copy' = [copy EXCEPT ![Listener] = {}]
  /\ UNCHANGED <<word, adding, cpc, history>>

LEnqueue ==
  /\ lpc = "send" /\ lpc' = "delay"
  /\ Len(logsQueue) < QueueLength
  /\ logsQueue' = Append(logsQueue, copy[Listener])
  /\ copy' = [copy EXCEPT ![Listener] = {}]
  /\ UNCHANGED <<word, adding, cpc, history>>

\* xQueueSend waited ten ticks in vain: the log is dropped.
LEnqueueTimeout ==
  /\ ListenerGoes("send", "delay")
  /\ Len(logsQueue) = QueueLength
  /\ copy' = [copy EXCEPT ![Listener] = {}]
  /\ UNCHANGED <<word, adding, history>>

ListenerStep ==
  \/ LFind \/ LSet \/ LAccept \/ LReceive \/ LReceiveTimeout
  \/ LCreate \/ LCreateFails \/ LSave \/ LEnqueue \/ LEnqueueTimeout

-----------------------------------------------------------------------------
(* redirectConnectionToChildSocket and eepromTask.                          *)

ChildGoes(c, from, to) ==
  /\ ListenerBlocked
  /\ cpc[c] = from
  /\ cpc' = [cpc EXCEPT ![c] = to]
  /\ UNCHANGED <<lpc, history, logsQueue>>

CFind(c) == ChildGoes(c, "find", "set") /\ Find(c)

CSet(c) ==
  /\ ChildGoes(c, "set", IF adding[c] = ChildConnected THEN "greet" ELSE "serve")
  /\ Set(c, NoCode)

CGreet(c) ==
  \/ ChildGoes(c, "greet", "serve") /\ LogUnchanged
  \/ ChildGoes(c, "greet", "find") /\ AddLog(c, DateNotSent)

\* sendCurrentDate fails: with interrupts off, logsAddLog is one step.  Then the
\* child ends.
CServeFails(c) ==
  /\ ChildGoes(c, "serve", "gone")
  /\ word' = word \cup {DateNotSent} /\ UNCHANGED <<copy, adding>>

\* The idle task frees the memory of the deleted child.
Reclaim(c) == ChildGoes(c, "gone", "none") /\ LogUnchanged

ChildStep(c) == CFind(c) \/ CSet(c) \/ CGreet(c) \/ CServeFails(c) \/ Reclaim(c)

EepromTakes ==
  /\ ListenerBlocked
  /\ logsQueue # <<>>
  /\ logsQueue' = Tail(logsQueue)
  /\ LogUnchanged /\ UNCHANGED taskVars

Next == ListenerStep \/ (\E c \in Child : ChildStep(c)) \/ EepromTakes

Spec == Init /\ [][Next]_vars

-----------------------------------------------------------------------------
\* What the listener has logged of its present client before server.c:106, and
\* what the word can hold after all the clients since the start.
Reported ==
  {ServerConnected}
  \cup (IF outcome = "refused" THEN {NoAvailableSockets} ELSE {})
  \cup (IF outcome = "notCreated" THEN {ChildNotCreated} ELSE {})

EverReported ==
  {ServerConnected, DateNotSent}
  \cup (IF "served" \in past THEN {ChildConnected} ELSE {})
  \cup (IF "refused" \in past THEN {NoAvailableSockets} ELSE {})
  \cup (IF "notCreated" \in past THEN {ChildNotCreated} ELSE {})

\* server.c:75-115: the word queued at the end of a connection misses nothing that
\* the listener has logged of it, although children write their copies of the word
\* back at any time the listener is blocked, and it holds no code that no client
\* has caused.  It need not be about this client alone: no bit is ever cleared
\* (logs.c:66), and DateNotSent is set for every client (server.c:106).
SavedHolds ==
  [][Len(logsQueue') > Len(logsQueue) =>
       LET saved == logsQueue'[Len(logsQueue')]
       IN  Reported \cup {DateNotSent} \subseteq saved /\ saved \subseteq EverReported]_vars

\* logs.c:66-68: what every connection logs stays once it is logged, although
\* copies of the word are written back late; only the two codes that report
\* trouble can be lost.
SharedCodesStay ==
  [][\A code \in {ServerConnected, ChildConnected, DateNotSent} :
       code \in word => code \in word']_vars
=============================================================================
