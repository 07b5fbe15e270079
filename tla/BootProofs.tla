------------------------------ MODULE BootProofs ------------------------------
(* For any number of modules, any heap and any allocations that fail: no       *)
(* search for a module is endless, the first module keeps its word, and a task *)
(* follows a null pointer only for want of the log queue or of that word.      *)
EXTENDS Boot, TLAPS

Early == {"chip", "rtc", "eepromInit", "logs"}
Before == Early \cup {"pool", "listener", "led1"}
Running == {"eeprom", "log", "led2", "start", "run"}

Shape ==
  /\ list \in Cell \cup {Null}
  /\ node \in [Cell -> Node \cup {Null}]
  /\ list # Null => node[list] # Null
  /\ added \in 0 .. Len(Modules)

\* Nothing is ever linked: an element is added to a copy of the head.
Unlinked == \A a \in Cell : node[a] # Null => node[a].next = Null

\* logsInit creates the queue before the list.
QueueBeforeList ==
  /\ list # Null => "logsQueue" \in queues
  /\ pc \in Early \/ "logsQueue" \in queues \/ "logsQueue" \in failed

\* The tasks run after all modules were added; until then the list is empty.
ModulesFirst ==
  /\ pc \in Early => list = Null
  /\ pc \in Running => added > 0
  /\ pc \in Before => added = 0
  /\ added = 0 /\ list # Null => node[list].data = Null

IInv == Shape /\ Unlinked /\ QueueBeforeList /\ ModulesFirst /\ FirstModuleStays /\ FaultCauses /\ SearchEnds

\* main begins with an empty heap.
LEMMA InitIInv == Init => IInv
BY ModulesAssumption DEF Init, ListInit, IInv, Shape, Unlinked, QueueBeforeList, ModulesFirst, Early, Before,
   Running, FirstModuleStays, FaultCauses, SearchEnds

\* The first element is a node.
LEMMA FirstIsNode ==
  ASSUME Shape, list # Null
  PROVE  list \in Cell /\ node[list] \in Node /\ node[list] # Null
BY FreshAssumption DEF Shape

\* Allocating a cell changes no other one, and the list is allocated.
LEMMA AllocateKeeps ==
  ASSUME Shape, Unlinked, NEW a \in Cell, NEW data \in LogStruct \cup {Null}, Allocate(a, data)
  PROVE  /\ node' \in [Cell -> Node \cup {Null}]
         /\ node'[a] = [data |-> data, next |-> Null]
         /\ node'[a] # Null
         /\ \A b \in Cell \ {a} : node'[b] = node[b]
         /\ \A b \in Cell : node'[b] # Null => node'[b].next = Null
         /\ list # Null => list # a
<1>1. [data |-> data, next |-> Null] \in Node
  BY DEF Node
<1> QED
  BY <1>1, FreshAssumption DEF Allocate, Shape, Unlinked

\* The module that is added next.
LEMMA NextModuleIsLog ==
  ASSUME Shape, added < Len(Modules)
  PROVE  NextModule \in LogStruct /\ Modules[added + 1] \in Module
<1>1. Modules[added + 1] \in Module
  BY ModulesAssumption DEF Shape
<1> QED
  BY <1>1 DEF NextModule, LogStruct

\* Storing a word in the first element keeps it a node, and unlinked.
LEMMA StoreKeeps ==
  ASSUME Shape, Unlinked, list # Null, NEW word \in LogStruct,
         node' = [node EXCEPT ![list].data = word]
  PROVE  /\ node' \in [Cell -> Node \cup {Null}]
         /\ node'[list] # Null /\ node'[list].data = word /\ node'[list].data # Null
         /\ \A b \in Cell : node'[b] # Null => node'[b].next = Null
<1>1. list \in Cell /\ node[list] \in Node /\ node[list] # Null
  BY FirstIsNode
<1>2. node'[list] = [data |-> word, next |-> node[list].next]
  BY <1>1 DEF Shape, Node
<1>3. node'[list] \in Node /\ node'[list].data = word /\ node'[list].next = node[list].next
  BY <1>1, <1>2 DEF Node
<1>4. \A b \in Cell \ {list} : node'[b] = node[b]
  BY <1>1 DEF Shape
<1>5. node' \in [Cell -> Node \cup {Null}]
  BY <1>1, <1>3, <1>4 DEF Shape
<1> QED
  BY <1>1, <1>3, <1>4, <1>5, FreshAssumption DEF Unlinked

\* Steps of main that leave the log alone.
LEMMA LogAlone ==
  ASSUME IInv, UNCHANGED <<logVars, fate>>, queues \subseteq queues', failed \subseteq failed',
         pc' \in Early <=> pc \in Early,
         pc' \in Before => added = 0,
         pc' \in Running => added > 0
  PROVE  IInv'
<1> USE DEF IInv
<1>1. UNCHANGED <<list, node, added, fate>>
  BY DEF logVars, listVars
<1>2. Shape' /\ Unlinked'
  BY <1>1 DEF Shape, Unlinked
<1>3. QueueBeforeList'
  BY <1>1 DEF QueueBeforeList
<1>4. ModulesFirst'
  BY <1>1 DEF ModulesFirst
<1>5. FirstModuleStays'
  BY <1>1 DEF FirstModuleStays, HasData, FirstNode
<1>6. FaultCauses' /\ SearchEnds'
  BY <1>1 DEF FaultCauses, SearchEnds
<1> QED
  BY <1>2, <1>3, <1>4, <1>5, <1>6

\* logsInit creates the queue and then the list, or less.
LEMMA LogsInitIInv == IInv /\ LogsInit => IInv'
<1> SUFFICES ASSUME IInv, LogsInit
             PROVE  IInv'
  OBVIOUS
<1> USE DEF IInv
<1>0. /\ pc' = "pool" /\ added' = added /\ fate' = fate
      /\ list = Null /\ added = 0
  BY DEF LogsInit, Goes, ModulesFirst, Early, Before
<1> USE DEF QueueBeforeList, ModulesFirst, Running, Early, Before, FirstModuleStays, FaultCauses, SearchEnds
<1>1. CASE Fails("logsQueue") /\ UNCHANGED <<listVars, queues>>
  BY <1>0, <1>1 DEF Fails, listVars, Shape, Unlinked
<1>2. CASE queues' = queues \cup {"logsQueue"} /\ CreateFails /\ Fails("list")
  BY <1>0, <1>2 DEF CreateFails, Fails, Shape, Unlinked
<1>3. ASSUME queues' = queues \cup {"logsQueue"}, NEW a \in Cell, Create(a), UNCHANGED failed
      PROVE  IInv'
  <2>1. list' = a /\ list' # Null
    BY <1>3, NullAssumption DEF Create
  <2>2. /\ node' \in [Cell -> Node \cup {Null}]
        /\ node'[a] = [data |-> Null, next |-> Null]
        /\ node'[a] # Null
        /\ \A b \in Cell : node'[b] # Null => node'[b].next = Null
    BY <1>3, AllocateKeeps DEF Create
  <2>3. node'[list'].data = Null
    BY <2>1, <2>2
  <2>4. Shape' /\ Unlinked'
    BY <1>0, <2>1, <2>2 DEF Shape, Unlinked
  <2>5. QueueBeforeList' /\ ModulesFirst'
    BY <1>0, <1>3, <2>1, <2>3
  <2> QED
    BY <1>0, <1>3, <2>4, <2>5
<1> QED
  BY <1>1, <1>2, <1>3 DEF LogsInit

\* logsAddNewModule: the first module gets the first element, or malloc failed
\* for it; the others leave the first element as it is.
LEMMA AddModuleIInv == IInv /\ LogsAddNewModule => IInv'
<1> SUFFICES ASSUME IInv, LogsAddNewModule
             PROVE  IInv'
  OBVIOUS
<1> USE DEF IInv
<1>0. /\ pc = "modules" /\ pc' \in {"modules", "eeprom"} /\ added' = added + 1 /\ added < Len(Modules)
      /\ UNCHANGED <<queues, fate>>
  BY DEF LogsAddNewModule
<1>1. added' \in 0 .. Len(Modules) /\ added' > 0 /\ added \in Nat
  BY <1>0, ModulesAssumption DEF Shape
<1>2. NextModule \in LogStruct /\ NextModule.moduleAddr = Modules[added + 1]
  BY <1>0, NextModuleIsLog DEF NextModule
<1> USE DEF QueueBeforeList, ModulesFirst, Running, Early, Before, FaultCauses, SearchEnds
<1>3. ASSUME list' = list, failed \subseteq failed',
             node' \in [Cell -> Node \cup {Null}],
             \A b \in Cell : node'[b] # Null => node'[b].next = Null,
             list # Null => node'[list] # Null,
             FirstModuleStays'
      PROVE  IInv'
  <2>1. Shape' /\ Unlinked'
    BY <1>1, <1>3 DEF Shape, Unlinked
  <2>2. QueueBeforeList' /\ ModulesFirst'
    BY <1>0, <1>1, <1>3
  <2>3. FaultCauses' /\ SearchEnds'
    BY <1>0, <1>3
  <2> QED
    BY <1>3, <2>1, <2>2, <2>3
<1>4. CASE AddRefused /\ UNCHANGED failed
  <2>1. list = Null
    BY <1>4 DEF AddRefused
  <2> QED
    BY <1>3, <1>4, <2>1 DEF AddRefused, listVars, Shape, Unlinked, FirstModuleStays
<1>5. CASE AddFirst(NextModule) /\ UNCHANGED failed
  <2>1. list # Null /\ list' = list /\ ~HasData
    BY <1>5 DEF AddFirst, Empty, HasData, FirstNode
  <2>2. /\ node' \in [Cell -> Node \cup {Null}]
        /\ node'[list] # Null /\ node'[list].data = NextModule /\ node'[list].data # Null
        /\ \A b \in Cell : node'[b] # Null => node'[b].next = Null
    BY <1>2, <1>5, <2>1, StoreKeeps DEF AddFirst
  <2>3. added > 0 => Modules[1] \in failed
    BY <2>1 DEF FirstModuleStays
  <2>4. CASE added = 0
    BY <1>2, <1>3, <1>5, <2>1, <2>2, <2>4 DEF FirstModuleStays, HasData, FirstNode
  <2>5. CASE added > 0
    BY <1>3, <1>5, <2>1, <2>2, <2>3, <2>5 DEF FirstModuleStays
  <2> QED
    BY <1>1, <2>4, <2>5
<1>6. CASE AddFirstFails /\ Fails(Modules[added + 1])
  <2>1. list # Null /\ ~HasData /\ UNCHANGED listVars /\ failed' = failed \cup {Modules[added + 1]}
    BY <1>6 DEF AddFirstFails, Empty, HasData, FirstNode, Fails
  <2>2. Modules[1] \in failed'
    BY <1>1, <2>1 DEF FirstModuleStays
  <2> QED
    BY <1>3, <2>1, <2>2 DEF listVars, Shape, Unlinked, FirstModuleStays
<1>7. ASSUME Filled, list' = list, failed \subseteq failed',
             list # Null => node'[list] = node[list],
             node' \in [Cell -> Node \cup {Null}],
             \A b \in Cell : node'[b] # Null => node'[b].next = Null
      PROVE  IInv'
  <2>1. list \in Cell /\ node[list] # Null
    BY <1>7, FirstIsNode DEF Filled
  <2>2. node[list].data # Null
    BY <1>7, <2>1 DEF Filled, Empty, Unlinked
  <2>3. added > 0
    BY <1>1, <2>1, <2>2, <1>7 DEF Filled
  <2>4. FirstModuleStays'
    BY <1>7, <2>3 DEF FirstModuleStays, HasData, FirstNode
  <2> QED
    BY <1>3, <1>7, <2>1, <2>4
<1>8. ASSUME NEW a \in Cell, NEW data \in LogStruct \cup {Null}, Filled, Allocate(a, data),
             list' = list, failed \subseteq failed'
      PROVE  IInv'
  <2>1. /\ node' \in [Cell -> Node \cup {Null}]
        /\ \A b \in Cell \ {a} : node'[b] = node[b]
        /\ \A b \in Cell : node'[b] # Null => node'[b].next = Null
        /\ list # Null => list # a
    BY <1>8, AllocateKeeps
  <2>2. list # Null => node'[list] = node[list]
    BY <2>1 DEF Shape
  <2> QED
    BY <1>7, <1>8, <2>1, <2>2
<1>9. ASSUME NEW a \in Cell, AddAnother(NextModule, a), UNCHANGED failed
      PROVE  IInv'
  BY <1>2, <1>8, <1>9 DEF AddAnother
<1>10. CASE AddAnotherFails /\ Fails(Modules[added + 1])
  BY <1>7, <1>10 DEF AddAnotherFails, Fails, listVars, Shape, Unlinked
<1>11. ASSUME NEW a \in Cell, AddAnotherHalf(a), Fails(Modules[added + 1])
      PROVE  IInv'
  BY <1>8, <1>11 DEF AddAnotherHalf, Fails
<1> QED
  BY <1>4, <1>5, <1>6, <1>9, <1>10, <1>11 DEF LogsAddNewModule

\* The tasks: only the word of the first element changes, and what a task meets
\* has its cause.
LEMMA TasksIInv ==
  ASSUME IInv,
         EepromTask \/ \E m \in Module : LogsSave(m) \/ \E code \in Code : LogsAddLog(m, code)
  PROVE  IInv'
<1> USE DEF IInv
<1>0. pc = "run" /\ fate = "runs" /\ UNCHANGED <<pc, queues, failed, added>>
  BY DEF LogsSave, LogsAddLog, EepromTask, Runs
<1>1. added > 0
  BY <1>0 DEF ModulesFirst, Running
<1>2. "logsQueue" \in queues \/ "logsQueue" \in failed
  BY <1>0 DEF QueueBeforeList, Early
<1>3. ASSUME UNCHANGED listVars, FaultCauses', SearchEnds'
      PROVE  IInv'
  BY <1>0, <1>3 DEF listVars, Shape, Unlinked, QueueBeforeList, ModulesFirst, FirstModuleStays, HasData, FirstNode
<1>4. ASSUME NEW m \in Module, NotFound(m)
      PROVE  IInv'
  <2>1. FollowsNull => Modules[1] \in failed
    BY <1>1 DEF FollowsNull, FirstModuleStays, HasData, FirstNode
  <2>2. ~Endless(m)
    <3>1. ASSUME HasData
          PROVE  FirstNode.next = Null
      BY <3>1, FirstIsNode DEF HasData, FirstNode, Unlinked
    <3> QED
      BY <3>1 DEF Endless
  <2>3. fate' = IF FollowsNull THEN "follows" ELSE "runs"
    BY <1>4, <2>2 DEF NotFound
  <2>4. FaultCauses' /\ SearchEnds'
    BY <1>0, <2>1, <2>3 DEF FaultCauses, SearchEnds
  <2> QED
    BY <1>3, <1>4, <2>4 DEF NotFound
<1>5. ASSUME NEW m \in Module, NEW code \in Code, LogsAddLog(m, code), Found(m)
      PROVE  IInv'
  <2> DEFINE word == [moduleAddr |-> m, log_code |-> FirstNode.data.log_code \cup {code}]
  <2>1. /\ HasData /\ list # Null /\ FirstNode.data.moduleAddr = m
        /\ SetModuleData(word) /\ fate' = fate
    BY <1>5 DEF LogsAddLog, NotFound, Found, HasData
  <2>2. list \in Cell /\ node[list] \in Node /\ node[list].data \in LogStruct
    BY <2>1, FirstIsNode DEF HasData, FirstNode, Node
  <2>3. word \in LogStruct /\ word.moduleAddr = m
    BY <2>2 DEF LogStruct, FirstNode
  <2> HIDE DEF word
  <2>4. list' = list /\ node' = [node EXCEPT ![list].data = word]
    BY <2>1 DEF SetModuleData
  <2>5. /\ node' \in [Cell -> Node \cup {Null}]
        /\ node'[list] # Null /\ node'[list].data = word /\ node'[list].data # Null
        /\ \A b \in Cell : node'[b] # Null => node'[b].next = Null
    BY <2>1, <2>3, <2>4, StoreKeeps
  <2>6. FirstModuleStays'
    BY <1>0, <2>1, <2>3, <2>4, <2>5 DEF FirstModuleStays, HasData, FirstNode
  <2>7. Shape' /\ Unlinked' /\ QueueBeforeList' /\ ModulesFirst'
    BY <1>0, <1>1, <2>1, <2>4, <2>5 DEF Shape, Unlinked, QueueBeforeList, ModulesFirst
  <2> QED
    BY <1>0, <2>1, <2>6, <2>7 DEF FaultCauses, SearchEnds
<1>6. ASSUME NEW m \in Module, LogsSave(m), Found(m)
      PROVE  IInv'
  <2>1. "logsQueue" \in queues
    BY <1>6 DEF Found, HasData, QueueBeforeList
  <2>2. UNCHANGED <<listVars, fate>>
    BY <1>6, <2>1 DEF LogsSave, NotFound
  <2> QED
    BY <1>0, <1>3, <2>2 DEF FaultCauses, SearchEnds
<1>7. CASE EepromTask
  BY <1>0, <1>2, <1>3, <1>7 DEF EepromTask, FaultCauses, SearchEnds
<1> QED
  BY <1>4, <1>5, <1>6, <1>7 DEF LogsSave, LogsAddLog

\* One step per action.
LEMMA NextIInv == IInv /\ [Next]_vars => IInv'
<1> SUFFICES ASSUME IInv, [Next]_vars
             PROVE  IInv'
  OBVIOUS
<1> USE DEF Early, Before, Running
<1>0. CASE UNCHANGED vars
  BY <1>0, LogAlone DEF vars, IInv, ModulesFirst
<1>1. CASE InitWizChip \/ RtcInit \/ EepromInit
  BY <1>1, LogAlone DEF InitWizChip, RtcInit, EepromInit, Goes, Initialised, IInv, ModulesFirst
<1>2. CASE LogsInit
  BY <1>2, LogsInitIInv
<1>3. CASE CreateSocketQueue
  BY <1>3, LogAlone DEF CreateSocketQueue, Goes, BootUnchanged, Fails, IInv, ModulesFirst
<1>4. CASE CreateListener
  BY <1>4, LogAlone DEF CreateListener, Goes, BootUnchanged, Fails, IInv, ModulesFirst
<1>5. CASE CreateTasks
  BY <1>5, LogAlone DEF CreateTasks, CreateTask, Goes, BootUnchanged, Fails, IInv, ModulesFirst
<1>6. CASE LogsAddNewModule
  BY <1>6, AddModuleIInv
<1>7. CASE StartScheduler
  BY <1>7, LogAlone DEF StartScheduler, Goes, BootUnchanged, Fails, IInv, ModulesFirst
<1>8. CASE EepromTask \/ \E m \in Module : LogsSave(m) \/ \E code \in Code : LogsAddLog(m, code)
  BY <1>8, TasksIInv
<1> QED
  BY <1>0, <1>1, <1>2, <1>3, <1>4, <1>5, <1>6, <1>7, <1>8 DEF Next

\* IInv holds in every reachable state.
LEMMA AlwaysIInv == Spec => []IInv
BY InitIInv, NextIInv, PTL DEF Spec

\* No search for a module is endless (linked_list.c:81): nothing is ever linked
\* behind the first element.
THEOREM SearchesEnd == Spec => []SearchEnds
BY AlwaysIInv, PTL DEF IInv

\* Whatever fails and whatever is added later, the module added first keeps the
\* first element (linked_list.c:29).
THEOREM FirstModuleKept == Spec => []FirstModuleStays
BY AlwaysIInv, PTL DEF IInv

\* A task follows a null pointer only for want of the log queue or of the first
\* module's word (logs.c:26, linked_list.c:31).
THEOREM FaultsHaveCauses == Spec => []FaultCauses
BY AlwaysIInv, PTL DEF IInv

-----------------------------------------------------------------------------

After == {"led1", "modules", "eeprom", "log", "led2", "start", "run"}

\* What main has for the listener when it comes to it, and after it.
Prepared ==
  /\ pc = "listener" => socketQueue = Pool
  /\ pc \in After => IF "listener" \in tasks THEN usedStackSize /\ socketQueue = Pool
                                           ELSE "socketQueue" \in failed
  /\ pc \in Early \cup {"pool", "listener"} => tasks = {}

\* Every step of main before the listener, at it, and after it.
LEMMA PreparedStays == Prepared /\ [Next]_vars => Prepared'
<1> SUFFICES ASSUME Prepared, [Next]_vars
             PROVE  Prepared'
  OBVIOUS
<1> USE DEF Prepared, After, Early
<1>0. CASE UNCHANGED vars
  BY <1>0 DEF vars
<1>1. CASE InitWizChip \/ RtcInit \/ EepromInit \/ LogsInit
  BY <1>1 DEF InitWizChip, RtcInit, EepromInit, LogsInit, Goes, Initialised
<1>2. CASE CreateSocketQueue
  BY <1>2 DEF CreateSocketQueue, Goes, Fails
<1>3. CASE CreateListener
  BY <1>3 DEF CreateListener, Goes
<1>4. CASE CreateTasks
  <2> SUFFICES ASSUME NEW t \in {"led1", "eeprom", "log", "led2"},
                      NEW next \in {"modules", "log", "led2", "start"},
                      pc = t, CreateTask(t, next)
               PROVE  Prepared'
    BY <1>4 DEF CreateTasks, CreateTask, Goes
  <2>1. pc \in After /\ pc' \in After /\ UNCHANGED <<socketQueue, usedStackSize>>
    BY DEF CreateTask, Goes
  <2>2. ("listener" \in tasks' <=> "listener" \in tasks) /\ failed \subseteq failed'
    BY DEF CreateTask, Fails
  <2>3. pc' # "listener" /\ pc' \notin Early \cup {"pool", "listener"}
    BY <2>1
  <2> QED
    BY <2>1, <2>2, <2>3
<1>5. CASE LogsAddNewModule
  <2>1. pc \in After /\ pc' \in {"modules", "eeprom"} /\ UNCHANGED <<socketQueue, usedStackSize, tasks>>
    BY <1>5 DEF LogsAddNewModule
  <2>2. failed \subseteq failed'
    BY <1>5 DEF LogsAddNewModule, Fails
  <2> QED
    BY <2>1, <2>2
<1>6. CASE StartScheduler
  BY <1>6 DEF StartScheduler, Goes, Fails
<1>7. CASE EepromTask \/ \E m \in Module : LogsSave(m) \/ \E code \in Code : LogsAddLog(m, code)
  <2>1. UNCHANGED <<pc, socketQueue, usedStackSize, tasks, failed>>
    BY <1>7 DEF EepromTask, LogsSave, LogsAddLog, Runs
  <2> QED
    BY <2>1
<1> QED
  BY <1>0, <1>1, <1>2, <1>3, <1>4, <1>5, <1>6, <1>7 DEF Next

\* createSocketQueue puts every worker in, and nothing else.
LEMMA PoolHasWorkers == {w.sockNumber : w \in Range(Pool)} = Worker
<1>1. \A i : WorkerSocket(i).sockNumber = i
  BY DEF WorkerSocket
<1>2. Range(Pool) = {WorkerSocket(i) : i \in Worker}
  BY DEF Range, Pool
<1> QED
  BY <1>1, <1>2

\* Tasks without a listener mean that the queue of workers is missing; a listener
\* finds its workers and its stack size (server.c:33-42, socket_queue.c:6-35).
THEOREM ListenerPrepared == Spec => []ListenerServes
<1>1. Init => Prepared
  BY DEF Init, Prepared, After
<1>2. Prepared => ListenerServes
  BY PoolHasWorkers DEF Prepared, After, ListenerServes
<1> QED
  BY <1>1, <1>2, PreparedStays, PTL DEF Spec
=============================================================================
