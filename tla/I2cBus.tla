-------------------------------- MODULE I2cBus --------------------------------
(***************************************************************************)
(* The I2C bus (i2c.c), which clock and EEPROM share, and the tasks that   *)
(* use it: a child that reads the clock for its client (server.c:272), the *)
(* listener, which reads it for a log (server.c:111), eepromTask, and      *)
(* log_task.                                                               *)
(* There is one processor: while the interrupts are off no other task      *)
(* runs.  Every transfer turns them off, and at its end on.                *)
(***************************************************************************)
EXTENDS Integers, Sequences

CONSTANTS
  Child,    \* child tasks
  Listener, \* the listener
  Eeprom,   \* eepromTask
  Log,      \* log_task
  Seconds, Minutes, Hours,  \* of a minute, an hour, a day
  MaxTicks, \* bound: ticks of the clock during one reading
  None

\* The tasks that read the clock.
Reader == Child \cup {Listener}
Task == Reader \cup {Eeprom, Log}
Day == Seconds * Minutes * Hours

ASSUME TaskAssumption ==
  /\ Listener \notin Child
  /\ Eeprom \notin Reader /\ Log \notin Reader /\ Eeprom # Log
  /\ None \notin Task
ASSUME TimeAssumption == {Seconds, Minutes, Hours, MaxTicks} \subseteq 1 .. 99

VARIABLES
  irq,      \* the interrupts are on
  running,  \* the task that runs
  bus,      \* the task whose transfer is on the bus
  clock,    \* the time of day
  pc, job,  \* where each task is, and in what
  todo,     \* what its next transfers are about
  date,     \* what a reader has read from the clock
  elapsed   \* history: the ticks of the clock since the reader's job began

vars == <<irq, running, bus, clock, pc, job, todo, date, elapsed>>

Field == {"sec", "min", "hour"}
Item == Field \cup {"day", "month", "year", "page"}

Midnight == [f \in Field |-> 0]

TypeOK ==
  /\ irq \in BOOLEAN /\ running \in Task /\ bus \in Task \cup {None}
  /\ clock \in 0 .. Day - 1
  /\ pc \in [Task -> {"idle", "next", "start", "stop", "send"}]
  /\ job \in [Task -> {"date", "stamp", "save", "print"}]
  /\ todo \in [Task -> Seq(Item)]
  /\ date \in [Reader -> [Field -> Nat]]
  /\ \A c \in Reader : date[c]["sec"] < Seconds /\ date[c]["min"] < Minutes /\ date[c]["hour"] < Hours
  /\ elapsed \in [Reader -> 0 .. MaxTicks]

Init ==
  /\ irq = TRUE /\ running \in Task /\ bus = None
  /\ clock = 0
  /\ pc = [t \in Task |-> "idle"] /\ job = [t \in Task |-> "date"]
  /\ todo = [t \in Task |-> <<>>]
  /\ date = [c \in Reader |-> Midnight]
  /\ elapsed = [c \in Reader |-> 0]

-----------------------------------------------------------------------------
(* The clock counts in binary coded decimals.                              *)

\* dec2bcd, and what the clock does.
Bcd(n) == (n \div 10) * 16 + (n % 10)

\* readSec and the others, bcd2dec.
Decimal(b) == ((b \div 16) % 16) * 10 + (b % 16)

RtcRegister(f) ==
  Bcd(CASE f = "sec" -> clock % Seconds
        [] f = "min" -> (clock \div Seconds) % Minutes
        [] f = "hour" -> clock \div (Seconds * Minutes))

TimeOf(d) == d["sec"] + Seconds * (d["min"] + Minutes * d["hour"])

Tick ==
  /\ \A c \in Reader : pc[c] # "idle" => elapsed[c] < MaxTicks
  /\ clock' = (clock + 1) % Day
  /\ elapsed' = [c \in Reader |-> IF pc[c] = "idle" THEN 0 ELSE elapsed[c] + 1]
  /\ UNCHANGED <<irq, running, bus, pc, job, todo, date>>

-----------------------------------------------------------------------------
(* Transfers: START, the bytes, STOP.                                      *)

Switch(t) ==
  /\ irq /\ t # running
  /\ running' = t
  /\ UNCHANGED <<irq, bus, clock, pc, job, todo, date, elapsed>>

Goes(t, from, to) == running = t /\ pc[t] = from /\ pc' = [pc EXCEPT ![t] = to]

\* Mutant: the caller has turned the interrupts off.
StartTrusting(t) ==
  /\ Goes(t, "next", "start") /\ todo[t] # <<>>
  /\ bus' = t
  /\ UNCHANGED <<irq, running, clock, job, todo, date, elapsed>>

Start(t) ==
  /\ Goes(t, "next", "start") /\ todo[t] # <<>>
  /\ irq' = FALSE /\ bus' = t
  /\ UNCHANGED <<running, clock, job, todo, date, elapsed>>

Data(t) ==
  /\ Goes(t, "start", "stop")
  /\ LET item == Head(todo[t])
     IN  date' = IF item \in Field THEN [date EXCEPT ![t][item] = Decimal(RtcRegister(item))] ELSE date
  /\ UNCHANGED <<irq, running, bus, clock, job, todo, elapsed>>

Stop(t) ==
  /\ Goes(t, "stop", "next")
  /\ irq' = TRUE /\ bus' = None
  /\ todo' = [todo EXCEPT ![t] = Tail(@)]
  /\ UNCHANGED <<running, clock, job, date, elapsed>>

-----------------------------------------------------------------------------
(* The tasks.                                                              *)

Begins(t, what, items) ==
  /\ Goes(t, "idle", "next")
  /\ job' = [job EXCEPT ![t] = what]
  /\ todo' = [todo EXCEPT ![t] = items]
  /\ UNCHANGED <<running, bus, clock, date, elapsed>>

\* Mutant: the hours first.
DateRegistersBackwards == <<"year", "month", "day", "hour", "min", "sec">>

DateRegisters == <<"sec", "min", "hour", "day", "month", "year">>

\* sendCurrentDate: constructCurrentTime reads the date.  (rtcReadDate ends with an
\* __enable_irq that finds the interrupts turned on by its last transfer.)
AskDate(c) == Begins(c, "date", DateRegisters) /\ UNCHANGED irq

StampRegisters == <<"hour", "min">>

\* logsSave reads the time stamp, for the listener.
AskStamp(c) == Begins(c, "stamp", StampRegisters) /\ UNCHANGED irq

\* eepromTask: saveLog writes a page, which it reads first to fill the second half.
\* (eepromCheckIfBusy, before, starts no transfer.)
SaveLog == \E n \in 1 .. 2 : Begins(Eeprom, "save", [i \in 1 .. n |-> "page"]) /\ irq' = FALSE

\* log_task: logsPrintSaved.
PrintSaved == Begins(Log, "print", <<"page", "page">>) /\ irq' = FALSE

Ready(t, what) == job[t] = what /\ todo[t] = <<>>

\* Mutant: rtcReadDate is expected to leave the interrupts off.
DateReadTrusting(c) ==
  /\ Goes(c, "next", "send") /\ Ready(c, "date")
  /\ UNCHANGED <<irq, running, bus, clock, job, todo, date, elapsed>>

\* The date is there, and sendCurrentDate turns the interrupts off.
DateRead(c) ==
  /\ Goes(c, "next", "send") /\ Ready(c, "date")
  /\ irq' = FALSE
  /\ UNCHANGED <<running, bus, clock, job, todo, date, elapsed>>

\* What was read is gone with its job.
Gone(c) == date' = [date EXCEPT ![c] = Midnight] /\ elapsed' = [elapsed EXCEPT ![c] = 0]

Finishes(t) == UNCHANGED <<running, bus, clock, job, todo>>

DateSent(c) == Goes(c, "send", "idle") /\ irq' = TRUE /\ Finishes(c) /\ Gone(c)

StampRead(c) == Goes(c, "next", "idle") /\ Ready(c, "stamp") /\ UNCHANGED irq /\ Finishes(c) /\ Gone(c)

LogSaved == Goes(Eeprom, "next", "idle") /\ Ready(Eeprom, "save") /\ irq' = TRUE /\ Finishes(Eeprom)
            /\ UNCHANGED <<date, elapsed>>

LogsPrinted == Goes(Log, "next", "idle") /\ Ready(Log, "print") /\ irq' = TRUE /\ Finishes(Log)
               /\ UNCHANGED <<date, elapsed>>

-----------------------------------------------------------------------------

Next ==
  \/ Tick
  \/ \E t \in Task : Switch(t) \/ Start(t) \/ Data(t) \/ Stop(t)
  \/ \E c \in Child : AskDate(c) \/ DateRead(c) \/ DateSent(c)
  \/ AskStamp(Listener) \/ StampRead(Listener)
  \/ SaveLog \/ PrintSaved \/ LogSaved \/ LogsPrinted

Spec == Init /\ [][Next]_vars

-----------------------------------------------------------------------------
(* Properties.                                                             *)

\* A transfer has the bus for itself from START to STOP, although the end of
\* every transfer turns the interrupts on inside the regions of eepromTask and
\* log_task (i2c.c:89, 134, 188; eeprom.c:181; logs.c:160).
TransfersWhole == \A t \in Task : pc[t] \in {"start", "stop"} => bus = t

\* The date is sent with the interrupts off, and no transfer is under way
\* (server.c:272-283): the region begins after the last transfer's __enable_irq.
SendMasked == \A c \in Reader : pc[c] = "send" => ~irq /\ running = c /\ bus = None

\* A date, whose seconds are read first, is not before the moment when the
\* reading began.
DateNotPast ==
  \A c \in Reader : pc[c] = "send" =>
    (TimeOf(date[c]) - (clock - elapsed[c])) % Day < elapsed[c] + Seconds * Minutes

\* A time stamp, whose hour is read first, is never ahead.
StampNotAhead ==
  \A c \in Reader : pc[c] = "next" /\ Ready(c, "stamp") =>
    (clock - TimeOf(date[c])) % Day < elapsed[c] + Seconds * Minutes

\* What is read register by register from a running clock is wrong by less than
\* an hour: a date only ahead (rtc.c:30-46), the time stamp of a log only behind
\* (logs.c:82-83).
ClockErrorBounded == DateNotPast /\ StampNotAhead

=============================================================================
