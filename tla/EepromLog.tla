------------------------------ MODULE EepromLog ------------------------------
(***************************************************************************)
(* The saved logs: eepromTask takes them from the log queue and writes     *)
(* them to the I2C memory (server/eeprom.c), log_task prints what is there *)
(* when the button is pressed (logsPrintSaved in logs.c).                  *)
(*                                                                         *)
(* The memory is written in pages of eight bytes; a page has room for two  *)
(* logs of four bytes, each marked by a sync symbol that erased memory     *)
(* does not show.  After a write the device programs the page for some     *)
(* milliseconds and answers nobody; a transfer that starts meanwhile waits *)
(* for its answer with the interrupts off, and waits for ever: i2c.c never *)
(* repeats the start.  The board can be reset at any moment, and loses     *)
(* everything but the memory.                                              *)
(*                                                                         *)
(* A transfer is one step: i2c.c runs it with the interrupts off (I2cBus). *)
(* It turns them on again at its STOP, also for log_task, which has turned *)
(* them off for the whole of the printing: after the first transfer of up  *)
(* to 64 the tasks go on, and logs are saved between the others.           *)
(***************************************************************************)
EXTENDS Integers, Sequences

CONSTANTS
  Pages,        \* EEPROM_SIZE / 8
  QueueLength,  \* LOGS_QUEUE_LENGTH
  MaxLogs,      \* bound: logs queued altogether
  MaxBoots      \* bound: resets of the board

ASSUME PagesAssumption == Pages \in Nat \ {0}
ASSUME QueueLengthAssumption == QueueLength \in Nat \ {0}
ASSUME BoundsAssumption == MaxLogs \in Nat /\ MaxBoots \in Nat

VARIABLES
  memory,        \* the half pages: a log, or no log
  programming,   \* device: is the last page written being programmed?
  write_pointer,
  logsQueue,
  taken,         \* log_data of eepromTask: the log it is about to save, if any
  hung,          \* does a transfer wait for ever with the interrupts off?
  lastLog,       \* the number of the last log queued
  boots,
  saved,         \* history: the logs saved since the last boot
  reading,       \* i of logsPrintSaved; Blocks: nothing is being printed
  again,         \* has log_task called eepromReadBlock once for this block?
  unprinted      \* history: logs in the ring when the button was pressed, not yet printed

printVars == <<reading, again, unprinted>>
vars == <<memory, programming, write_pointer, logsQueue, taken, hung, lastLog, boots, saved,
          printVars>>

EEPROM_SIZE == 8 * Pages
Half == 0 .. 2 * Pages - 1
Log == 1 .. MaxLogs

\* Bytes without the sync symbol, and bytes with it that no log was written to.
Erased == 0
Garbage == -1
Content == Log \cup {Erased, Garbage}

\* Mutant: the last page is forgotten.
BlocksShort == Pages - 1

\* logsPrintSaved asks for 32 blocks, twice the pages there are; the device wraps.
Blocks == 2 * Pages

HasSync(half) == memory[half] # Erased
FirstHalf(address) == 2 * (address \div 8)
SecondHalf(address) == FirstHalf(address) + 1

TypeOK ==
  /\ memory \in [Half -> Content]
  /\ programming \in BOOLEAN
  /\ write_pointer \in {8 * page : page \in 0 .. Pages - 1}
  /\ logsQueue \in Seq(Log) /\ Len(logsQueue) <= QueueLength
  /\ taken \in Seq(Log) /\ Len(taken) <= 1
  /\ hung \in BOOLEAN
  /\ lastLog \in 0 .. MaxLogs
  /\ boots \in 0 .. MaxBoots
  /\ saved \in Seq(Log)
  /\ reading \in 0 .. Blocks /\ again \in BOOLEAN
  /\ unprinted \subseteq Log

-----------------------------------------------------------------------------
(* Start of the program.                                                    *)

\* What findLastLog returns: i2cReadRegister never fails.
FindLastLog == 0

\* eepromInit stores this result over the address that findLastLog has found.
InitialPointer == FindLastLog

Init ==
  /\ memory = [half \in Half |-> Erased]
  /\ programming = FALSE
  /\ write_pointer = 0
  /\ logsQueue = <<>> /\ taken = <<>>
  /\ hung = FALSE
  /\ lastLog = 0 /\ boots = 0
  /\ saved = <<>>
  /\ reading = Blocks /\ again = FALSE /\ unprinted = {}

\* The page just written, which a loss of power can leave in any state.
Unfinished ==
  IF programming
    THEN LET first == FirstHalf((write_pointer - 8) % EEPROM_SIZE) IN {first, first + 1}
    ELSE {}

\* A reset, or a loss of power.  Booting takes longer than programming a page.
Reset ==
  /\ boots < MaxBoots /\ boots' = boots + 1
  /\ \E torn \in [Unfinished -> {Erased, Garbage}], whole \in BOOLEAN :
       memory' = [half \in Half |->
                    IF ~whole /\ half \in Unfinished THEN torn[half] ELSE memory[half]]
  /\ programming' = FALSE /\ hung' = FALSE
  /\ write_pointer' = InitialPointer
  /\ logsQueue' = <<>> /\ taken' = <<>> /\ saved' = <<>>
  /\ reading' = Blocks /\ again' = FALSE /\ unprinted' = {}
  /\ UNCHANGED lastLog

-----------------------------------------------------------------------------
(* The tasks.                                                               *)

LogsSave ==
  /\ ~hung
  /\ lastLog < MaxLogs /\ lastLog' = lastLog + 1
  /\ Len(logsQueue) < QueueLength
  /\ logsQueue' = Append(logsQueue, lastLog')
  /\ UNCHANGED <<memory, programming, write_pointer, taken, hung, boots, saved, printVars>>

\* Mutant: xQueuePeek for xQueueReceive.
ReceivePeeks ==
  /\ ~hung
  /\ taken = <<>> /\ logsQueue # <<>>
  /\ taken' = <<Head(logsQueue)>>
  /\ UNCHANGED <<memory, programming, write_pointer, logsQueue, hung, lastLog, boots, saved, printVars>>

Receive ==
  /\ ~hung
  /\ taken = <<>> /\ logsQueue # <<>>
  /\ taken' = <<Head(logsQueue)>>
  /\ logsQueue' = Tail(logsQueue)
  /\ UNCHANGED <<memory, programming, write_pointer, hung, lastLog, boots, saved, printVars>>

\* eepromCheckIfBusy, and the test of eepromTask: vTaskDelay(10) would outlast
\* the programming, but the function returns 0 or -1, never 1.
EepromCheckIfBusy == IF programming THEN -1 ELSE 0
TaskWaits == EepromCheckIfBusy = 1

\* The first half of a page is written together with an empty second half.  The
\* eight bytes for the second half would start in the middle of the page and
\* roll over: the log, last in the buffer, would come first in the page.
PageWritten(log) ==
  LET first == FirstHalf(write_pointer) IN
  IF write_pointer % 8 = 0
    THEN [memory EXCEPT ![first] = log, ![first + 1] = Erased]
    ELSE [memory EXCEPT ![first] = log, ![first + 1] = memory[first]]

\* Mutant: the pointer runs off the end.
AdvanceUnwrapped == write_pointer + 8

\* Mutant: the pointer advances by one log.
AdvanceByLog == (write_pointer + 4) % EEPROM_SIZE

NextPointer == (write_pointer + 8) % EEPROM_SIZE

\* Mutant: nothing is overwritten, a log that finds no free page waits.
SaveLogIfFree ==
  /\ ~hung /\ ~programming
  /\ taken # <<>>
  /\ ~HasSync(FirstHalf(write_pointer))
  /\ memory' = PageWritten(Head(taken))
  /\ write_pointer' = NextPointer
  /\ programming' = TRUE
  /\ saved' = saved \o taken
  /\ taken' = <<>>
  /\ UNCHANGED <<hung, logsQueue, lastLog, boots, printVars>>

SaveLog ==
  /\ ~hung
  /\ taken # <<>>
  /\ IF programming /\ ~TaskWaits
       THEN hung' = TRUE /\ UNCHANGED <<memory, programming, write_pointer, taken, saved>>
       ELSE /\ memory' = PageWritten(Head(taken))
            /\ write_pointer' = NextPointer
            /\ programming' = TRUE
            /\ saved' = saved \o taken
            /\ taken' = <<>>
            /\ UNCHANGED hung
  /\ UNCHANGED <<logsQueue, lastLog, boots, printVars>>

ProgrammingEnds ==
  /\ programming /\ programming' = FALSE
  /\ UNCHANGED <<memory, write_pointer, logsQueue, taken, hung, lastLog, boots, saved, printVars>>

-----------------------------------------------------------------------------
(* log_task prints the logs from address 0 on, up to the first page without *)
(* a log, reading every page twice, or once if both halves have the sync.   *)

Newest(i) == saved[Len(saved) + 1 - i]
Recent == 1 .. (IF Len(saved) < Pages THEN Len(saved) ELSE Pages)

ButtonPressed ==
  /\ ~hung /\ reading = Blocks
  /\ reading' = 0 /\ again' = FALSE
  /\ unprinted' = {Newest(i) : i \in Recent}
  /\ UNCHANGED <<memory, programming, write_pointer, logsQueue, taken, hung, lastLog, boots, saved>>

\* There is no look at eepromCheckIfBusy before a page is read.
PrintWhileProgramming ==
  /\ programming /\ ~hung /\ reading < Blocks
  /\ hung' = TRUE
  /\ UNCHANGED <<memory, programming, write_pointer, logsQueue, taken, lastLog, boots, saved, printVars>>

ReadingPage == ~programming /\ ~hung /\ reading < Blocks
Block == 2 * (reading % Pages)

\* EEPROM_INVALID_SECOND_BLOCK, and 0: the log returned is a mixture of two.
FirstOnly == HasSync(Block) /\ ~HasSync(Block + 1)
Both == HasSync(Block) /\ HasSync(Block + 1)

\* The first call of eepromReadBlock: 0 is the only result that spares the second.
ReadFirst ==
  /\ ReadingPage /\ ~again
  /\ IF Both THEN reading' = reading + 1 /\ UNCHANGED again
             ELSE again' = TRUE /\ UNCHANGED reading
  /\ UNCHANGED <<memory, programming, write_pointer, logsQueue, taken, hung, lastLog, boots, saved,
                 unprinted>>

\* The second call: any other result than one log ends the printing, 0 too.
ReadAgain ==
  /\ ReadingPage /\ again
  /\ again' = FALSE
  /\ IF FirstOnly THEN reading' = reading + 1 /\ unprinted' = unprinted \ {memory[Block]}
                  ELSE reading' = Blocks /\ UNCHANGED unprinted
  /\ UNCHANGED <<memory, programming, write_pointer, logsQueue, taken, hung, lastLog, boots, saved>>

Next ==
  \/ LogsSave \/ Receive \/ SaveLog \/ ProgrammingEnds
  \/ ButtonPressed \/ ReadFirst \/ ReadAgain \/ PrintWhileProgramming
  \/ Reset

Spec == Init /\ [][Next]_vars

\* The task runs when it is ready, the device gets ready.
FairSpec == Spec /\ WF_vars(Receive) /\ WF_vars(SaveLog) /\ WF_vars(ProgrammingEnds)

-----------------------------------------------------------------------------
\* eeprom.c:217-220: the memory is a ring of as many logs as it has pages; since
\* the boot the last ones saved stand behind write_pointer, none torn.
RecentKept ==
  \A i \in Recent : memory[FirstHalf((write_pointer - 8 * i) % EEPROM_SIZE)] = Newest(i)

\* logs.c:95-121: when a printing has ended, every log that was in the ring when
\* the button was pressed and still is has been printed, whatever was saved between
\* its transfers and whatever resets have left in the other pages.
RecentPrinted == reading = Blocks => \A i \in Recent : Newest(i) \notin unprinted

\* The queue and the task neither lose, repeat nor reorder a log on its way from
\* logsSave to the memory (logs.c:85, eeprom.c:174-182).
InOrder ==
  LET onTheWay == saved \o taken \o logsQueue
  IN  onTheWay = [i \in 1 .. Len(onTheWay) |-> lastLog - Len(onTheWay) + i]

\* eeprom.c:174-184: every log is taken from the queue, and saved, in time, unless
\* a transfer meets the device while it programs.
Drains == logsQueue \o taken # <<>> ~> logsQueue \o taken = <<>> \/ hung
=============================================================================
