--------------------------------- MODULE Boot ---------------------------------
(***************************************************************************)
(* From main (application/main.c) to the first steps of the tasks.         *)
(*                                                                         *)
(* main creates queues, a list and tasks one after the other; any of the   *)
(* allocations may fail, and main goes on after most of them.  Then the    *)
(* tasks run on whatever is there: the listener and its children log       *)
(* (logs.c), eepromTask takes the logs from the queue.  What the tasks     *)
(* allocate later (server_utils.c:47, 72) is left out.                     *)
(***************************************************************************)
EXTENDS LinkedList, Integers, Sequences, Functions

CONSTANTS
  Modules,     \* the modules that are added, in order; main adds MODULE_SERVER
  NoSockets,   \* no_sockets
  QueueLength  \* LOGS_QUEUE_LENGTH

ASSUME ModulesAssumption == Modules \in Seq(Module) /\ Len(Modules) > 0
ASSUME NumbersAssumption == NoSockets \in Nat \ {0} /\ QueueLength \in Nat \ {0}

VARIABLES
  pc,            \* where main is
  ready,         \* the drivers that are initialised
  queues,        \* the queues that exist: their handles are not NULL
  socketQueue,   \* the workers in one
  logsQueue,     \* the log words in the other
  added,         \* how many modules logsAddNewModule was called for
  usedStackSize, \* is it set?
  tasks,         \* the tasks created
  failed,        \* history: the allocations that failed
  fate           \* "runs"; or a task followed a null pointer; or searches for ever

logVars == <<listVars, logsQueue, added>>
vars == <<pc, ready, queues, socketQueue, usedStackSize, tasks, logVars, failed, fate>>

Task == {"listener", "led1", "eeprom", "log", "led2"}
Allocation == Task \cup {"logsQueue", "list", "socketQueue", "scheduler"} \cup Module
Worker == 1 .. NoSockets - 1

Place == {"chip", "rtc", "eepromInit", "logs", "pool", "listener", "led1", "modules",
          "eeprom", "log", "led2", "start", "run", "returned", "stopped"}

TypeOK ==
  /\ ListTypeOK
  /\ pc \in Place
  /\ ready \subseteq {"chip", "i2c", "eeprom"}
  /\ queues \subseteq {"socketQueue", "logsQueue"}
  /\ socketQueue \in Seq([sockNumber : Worker, port : Nat])
  /\ logsQueue \in Seq(LogStruct)
  /\ added \in 0 .. Len(Modules)
  /\ usedStackSize \in BOOLEAN
  /\ tasks \subseteq Task
  /\ failed \subseteq Allocation
  /\ fate \in {"runs", "follows", "searches"}

Init ==
  /\ ListInit
  /\ pc = "chip" /\ ready = {}
  /\ queues = {} /\ socketQueue = <<>> /\ logsQueue = <<>>
  /\ added = 0 /\ usedStackSize = FALSE
  /\ tasks = {} /\ failed = {} /\ fate = "runs"

Goes(from, to) == pc = from /\ pc' = to

Fails(what) == failed' = failed \cup {what}

-----------------------------------------------------------------------------
(* initHardware, whose result main ignores.                                *)

Initialised(driver) ==
  /\ ready' = ready \cup {driver}
  /\ UNCHANGED <<queues, socketQueue, usedStackSize, tasks, logVars, failed, fate>>

\* The callbacks are registered, then the chip is reset and configured.
InitWizChip == Goes("chip", "rtc") /\ Initialised("chip")

RtcInit == Goes("rtc", "eepromInit") /\ Initialised("i2c")

\* The second i2cInit refuses, and nobody looks.
EepromInit == Goes("eepromInit", "logs") /\ Initialised("eeprom")

LogsInit ==
  /\ Goes("logs", "pool")
  /\ UNCHANGED <<ready, socketQueue, logsQueue, usedStackSize, tasks, added, fate>>
  /\ \/ Fails("logsQueue") /\ UNCHANGED <<listVars, queues>>
     \/ /\ queues' = queues \cup {"logsQueue"}
        /\ \/ CreateFails /\ Fails("list")
           \/ \E a \in Cell : Create(a) /\ UNCHANGED failed

-----------------------------------------------------------------------------
(* createTCPServerSocket, and the other tasks.                             *)

WorkerSocket(i) == [sockNumber |-> i, port |-> i * 1111]

\* The workers, socket 0 being the listener's.
Pool == [i \in Worker |-> WorkerSocket(i)]

BootUnchanged == UNCHANGED <<ready, logVars, fate>>

\* A queue that could not be created is reported to createTCPServerSocket, which
\* then reports success without a listener (server.c:35).
CreateSocketQueue ==
  /\ BootUnchanged /\ UNCHANGED <<usedStackSize, tasks>>
  /\ \/ /\ Goes("pool", "listener")
        /\ queues' = queues \cup {"socketQueue"} /\ socketQueue' = Pool
        /\ UNCHANGED failed
     \/ Goes("pool", "led1") /\ Fails("socketQueue") /\ UNCHANGED <<queues, socketQueue>>

\* Mutant: a listener that could not be created is not reported either.
ListenerUnreported ==
  /\ BootUnchanged /\ UNCHANGED <<queues, socketQueue>>
  /\ Goes("listener", "led1")
  /\ \/ tasks' = tasks \cup {"listener"} /\ usedStackSize' = TRUE /\ UNCHANGED failed
     \/ Fails("listener") /\ UNCHANGED <<tasks, usedStackSize>>

CreateListener ==
  /\ BootUnchanged /\ UNCHANGED <<queues, socketQueue>>
  /\ \/ /\ Goes("listener", "led1")
        /\ tasks' = tasks \cup {"listener"} /\ usedStackSize' = TRUE
        /\ UNCHANGED failed
     \/ Goes("listener", "returned") /\ Fails("listener") /\ UNCHANGED <<tasks, usedStackSize>>

\* The tasks without which main goes on.
CreateTask(t, next) ==
  /\ Goes(t, next)
  /\ BootUnchanged /\ UNCHANGED <<queues, socketQueue, usedStackSize>>
  /\ \/ tasks' = tasks \cup {t} /\ UNCHANGED failed
     \/ Fails(t) /\ UNCHANGED tasks

CreateTasks ==
  \/ CreateTask("led1", "modules")
  \/ CreateTask("eeprom", "log")
  \/ CreateTask("log", "led2")
  \/ CreateTask("led2", "start")

NextModule == [moduleAddr |-> Modules[added + 1], log_code |-> {}]

LogsAddNewModule ==
  /\ pc = "modules" /\ added < Len(Modules)
  /\ added' = added + 1
  /\ pc' = IF added' = Len(Modules) THEN "eeprom" ELSE "modules"
  /\ UNCHANGED <<ready, queues, socketQueue, usedStackSize, tasks, logsQueue, fate>>
  /\ \/ AddRefused /\ UNCHANGED failed
     \/ AddFirst(NextModule) /\ UNCHANGED failed
     \/ AddFirstFails /\ Fails(Modules[added + 1])
     \/ \E a \in Cell : AddAnother(NextModule, a) /\ UNCHANGED failed
     \/ (AddAnotherFails \/ \E a \in Cell : AddAnotherHalf(a)) /\ Fails(Modules[added + 1])

\* The scheduler creates the idle and the timer task.
StartScheduler ==
  /\ BootUnchanged /\ UNCHANGED <<queues, socketQueue, usedStackSize, tasks>>
  /\ \/ Goes("start", "run") /\ UNCHANGED failed
     \/ Goes("start", "stopped") /\ Fails("scheduler")

-----------------------------------------------------------------------------
(* The tasks.                                                              *)

Runs(t) ==
  /\ pc = "run" /\ fate = "runs" /\ t \in tasks
  /\ UNCHANGED <<pc, queues, socketQueue, usedStackSize, tasks, failed, added>>

\* The search has no result, or no end.
NotFound(m) ==
  /\ ~Found(m)
  /\ fate' = CASE FollowsNull -> "follows" [] Endless(m) -> "searches" [] OTHER -> "runs"
  /\ UNCHANGED <<listVars, logsQueue, ready>>

LogsAddLog(m, code) ==
  /\ Runs("listener")
  /\ \/ /\ Found(m)
        /\ SetModuleData([moduleAddr |-> m, log_code |-> FirstNode.data.log_code \cup {code}])
        /\ UNCHANGED <<logsQueue, ready, fate>>
     \/ NotFound(m)

\* logsQueue with one more word, or after ten ticks without room the same.
Sent(word) == IF Len(logsQueue) < QueueLength THEN Append(logsQueue, word) ELSE logsQueue

LogsSave(m) ==
  /\ Runs("listener")
  /\ \/ /\ Found(m)
        /\ IF "logsQueue" \in queues THEN logsQueue' = Sent(FirstNode.data) /\ UNCHANGED fate
                                    ELSE fate' = "follows" /\ UNCHANGED logsQueue
        /\ UNCHANGED <<listVars, ready>>
     \/ NotFound(m)

\* eepromTask marks the EEPROM as not initialised (eeprom.c:165), and then
\* reads from the queue.
EepromTask ==
  /\ Runs("eeprom")
  /\ ready' = ready \ {"eeprom"}
  /\ UNCHANGED listVars
  /\ IF "logsQueue" \in queues
     THEN logsQueue' = (IF logsQueue = <<>> THEN <<>> ELSE Tail(logsQueue)) /\ UNCHANGED fate
     ELSE fate' = "follows" /\ UNCHANGED logsQueue

-----------------------------------------------------------------------------

Next ==
  \/ InitWizChip \/ RtcInit \/ EepromInit \/ LogsInit
  \/ CreateSocketQueue \/ CreateListener \/ CreateTasks \/ LogsAddNewModule
  \/ StartScheduler
  \/ \E m \in Module : LogsSave(m) \/ \E code \in Code : LogsAddLog(m, code)
  \/ EepromTask

Spec == Init /\ [][Next]_vars

-----------------------------------------------------------------------------
(* Properties.                                                             *)

\* No search goes on for ever, although the loop of linkedListFindModule never
\* advances: linkedListAdd never links a second element (linked_list.c:46, 81).
SearchEnds == fate # "searches"

\* The module added first keeps its word, whatever is added after it and
\* whatever fails (linked_list.c:29).
FirstModuleStays ==
  list # Null /\ added > 0 /\ Modules[1] \notin failed =>
    HasData /\ FirstNode.data.moduleAddr = Modules[1]

\* Of all the allocations main ignores, only that of the log queue and that of
\* the first module's word make a task follow a null pointer
\* (main.c:54-78, logs.c:26, linked_list.c:31).
FaultCauses == fate = "follows" => failed \cap {"logsQueue", Modules[1]} # {}

\* The tasks run without a listener only if the queue of workers is missing; a
\* listener has its workers, the listening socket not among them, and the stack
\* size for their tasks (server.c:33-42, socket_queue.c:6-35).
ListenerServes ==
  pc = "run" =>
    IF "listener" \in tasks
    THEN /\ usedStackSize
         /\ {w.sockNumber : w \in Range(socketQueue)} = Worker
    ELSE "socketQueue" \in failed

=============================================================================
