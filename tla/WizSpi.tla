------------------------------- MODULE WizSpi -------------------------------
(***************************************************************************)
(* How the driver reaches the W5100: WIZCHIP_READ, WIZCHIP_WRITE and their *)
(* _BUF variants in W5100/w5100.c, over the SPI callbacks of chip_init.c.  *)
(*                                                                         *)
(* An access is a frame of four bytes (operation, two address bytes, data) *)
(* sent while the chip select is low.  Every call is between               *)
(* WIZCHIP_CRITICAL_ENTER and _EXIT, which do what the application has     *)
(* registered.  chip_init.c registers nothing, so they do nothing: only    *)
(* the scheduling keeps the tasks apart.  The listener (priority 4) never  *)
(* blocks inside a call; the children (priority 3) run only while it is    *)
(* outside of one and share the processor by time slices; a child that     *)
(* sends the date has turned the interrupts off, and nobody else runs.     *)
(***************************************************************************)
EXTENDS Integers, Sequences

CONSTANTS
  Child,      \* the child tasks
  Address,    \* the addresses the driver uses
  Value,      \* the bytes it writes there
  MaxLength   \* bound: bytes in a buffer

Listener == "listener"
Task == Child \cup {Listener}
NoTask == "none"

WriteOp == 240  \* 0xF0
ReadOp == 15    \* 0x0F

Byte == Value \cup {0, WriteOp, ReadOp} \cup UNION {{a \div 256, a % 256} : a \in Address}
Unknown == -1   \* stands for any byte: what spi_rb returns when the chip sends nothing

Access == [op : {"read", "write"}, address : Address, data : Value]

\* Mutant of Frame: the low byte of the address first.
FrameSwapped(access) ==
  <<IF access.op = "write" THEN WriteOp ELSE ReadOp,
    access.address % 256, access.address \div 256, access.data>>

\* In a read, data is what the uninitialised receive buffer of spi_rb holds,
\* which the master clocks out while the chip answers.
Frame(access) ==
  <<IF access.op = "write" THEN WriteOp ELSE ReadOp,
    access.address \div 256, access.address % 256, access.data>>

\* A buffer is accessed at consecutive 16-bit addresses, all reads or all writes.
Buffer ==
  {call \in UNION {[1 .. n -> Access] : n \in 1 .. MaxLength} :
     \A i \in DOMAIN call :
       /\ call[i].op = call[1].op
       /\ call[i].address = (call[1].address + i - 1) % 65536}

ASSUME ChildAssumption == Listener \notin Child /\ NoTask \notin Child
ASSUME MaxLengthAssumption == MaxLength \in Nat \ {0}
ASSUME BytesAssumption == Value \subseteq 0 .. 255
ASSUME AddressAssumption == Address \subseteq Nat /\ \A a \in Address : a < 65536

VARIABLES
  inside,    \* the tasks between WIZCHIP_CRITICAL_ENTER and _EXIT
  masked,    \* the child that has turned the interrupts off, if any
  pc,        \* where each task is in its call
  buffered,  \* is the call of each task one of the _BUF variants?
  todo,      \* the accesses of its call that are not finished
  sent,      \* bytes of the current frame it has sent
  result,    \* what it has read last in its call
  selected,  \* chip: is the select line low?
  received,  \* chip: the bytes of the current frame
  memory,    \* chip: registers and buffers
  mixed      \* history: the tasks whose present frame has met another one

taskVars == <<inside, masked, pc, buffered, todo, sent, result>>
chipVars == <<selected, received, memory>>
vars == <<taskVars, chipVars, mixed>>

TypeOK ==
  /\ inside \subseteq Task
  /\ masked \in Child \cup {NoTask}
  /\ pc \in [Task -> {"idle", "open", "select", "transfer", "deselect", "close"}]
  /\ buffered \in [Task -> BOOLEAN]
  /\ todo \in [Task -> Seq(Access)]
  /\ sent \in [Task -> 0 .. 4]
  /\ result \in [Task -> Byte \cup {Unknown}]
  /\ selected \in BOOLEAN
  /\ received \in Seq(Byte) /\ Len(received) <= 4
  /\ memory \in [Address -> Byte]
  /\ mixed \subseteq Task

Init ==
  /\ inside = {} /\ masked = NoTask
  /\ pc = [t \in Task |-> "idle"]
  /\ buffered = [t \in Task |-> FALSE]
  /\ todo = [t \in Task |-> <<>>]
  /\ sent = [t \in Task |-> 0]
  /\ result = [t \in Task |-> Unknown]
  /\ selected = FALSE
  /\ received = <<>>
  /\ memory = [a \in Address |-> 0]
  /\ mixed = {}

-----------------------------------------------------------------------------
(* The chip: it acts on the fourth byte of a frame and ignores what comes   *)
(* while it is not selected or after a whole frame.  A frame mixed from     *)
(* several can name any address: only those in Address are looked at.       *)

Listening == selected /\ Len(received) < 4
LastByte == selected /\ Len(received) = 3
Addressed == 256 * received[2] + received[3]

ChipTakes(byte) ==
  /\ received' = IF Listening THEN Append(received, byte) ELSE received
  /\ memory' = IF LastByte /\ received[1] = WriteOp /\ Addressed \in Address
                 THEN [memory EXCEPT ![Addressed] = byte] ELSE memory

\* What the chip sends back meanwhile means something in one case only.
ChipAnswers ==
  IF LastByte /\ received[1] = ReadOp /\ Addressed \in Address
    THEN memory[Addressed] ELSE Unknown

-----------------------------------------------------------------------------
(* Scheduling.                                                              *)

\* Mutant: the children have the priority of the listener.
MayRunAsEquals(t) == masked \in {NoTask, t}

MayRun(t) ==
  /\ masked \in {NoTask, t}
  /\ t = Listener \/ pc[Listener] = "idle"

\* sendCurrentDate, around its calls.
DisableIrq(c) ==
  /\ MayRun(c) /\ pc[c] = "idle" /\ masked = NoTask
  /\ masked' = c
  /\ UNCHANGED <<inside, pc, buffered, todo, sent, result, chipVars, mixed>>

EnableIrq(c) ==
  /\ pc[c] = "idle" /\ masked = c
  /\ masked' = NoTask
  /\ UNCHANGED <<inside, pc, buffered, todo, sent, result, chipVars, mixed>>

-----------------------------------------------------------------------------
(* The driver.                                                              *)

Goes(t, from, to) ==
  /\ MayRun(t)
  /\ pc[t] = from
  /\ pc' = [pc EXCEPT ![t] = to]
  /\ UNCHANGED masked

\* The line goes up, and the chip forgets the frame.
Released == selected' = FALSE /\ received' = <<>>

\* WIZCHIP_CRITICAL_EXIT, and the return with the result.
Exit(t) ==
  /\ inside' = inside \ {t}
  /\ buffered' = [buffered EXCEPT ![t] = FALSE]
  /\ result' = [result EXCEPT ![t] = Unknown]

\* Between the select and the deselect of a frame.
InFrame(t) == pc[t] \in {"transfer", "deselect"}
OthersInFrame(t) == {u \in Task \ {t} : InFrame(u)}

\* WIZCHIP_CRITICAL_ENTER: the callback is empty.
Enter(t) ==
  /\ MayRun(t)
  /\ pc[t] = "idle"
  /\ inside' = inside \cup {t}
  /\ \E call \in Buffer, isBuffer \in BOOLEAN :
       /\ isBuffer \/ Len(call) = 1
       /\ todo' = [todo EXCEPT ![t] = call]
       /\ buffered' = [buffered EXCEPT ![t] = isBuffer]
       /\ pc' = [pc EXCEPT ![t] = IF isBuffer THEN "open" ELSE "select"]
  /\ UNCHANGED <<masked, sent, result, chipVars, mixed>>

\* The _select that the _BUF variants kept in front of their loops.
Open(t) ==
  /\ Goes(t, "open", "select")
  /\ selected' = TRUE
  /\ UNCHANGED <<inside, buffered, todo, sent, result, received, memory, mixed>>

\* Selecting a chip that is selected already changes nothing: the frame joins
\* the one that a stopped task has begun.
Select(t) ==
  /\ Goes(t, "select", "transfer")
  /\ selected' = TRUE
  /\ mixed' = IF OthersInFrame(t) = {} THEN mixed ELSE mixed \cup OthersInFrame(t) \cup {t}
  /\ UNCHANGED <<inside, buffered, todo, sent, result, received, memory>>

\* spi_wb and spi_rb do not test their results: while another task is stopped
\* inside HAL_SPI_Transmit or HAL_SPI_Receive, they return HAL_BUSY and nothing
\* is sent.
MayBeLost(t) == \E u \in Task \ {t} : pc[u] = "transfer"

Transfer(t) ==
  /\ Goes(t, "transfer", IF sent[t] = 3 THEN "deselect" ELSE "transfer")
  /\ sent' = [sent EXCEPT ![t] = @ + 1]
  /\ \E lost \in {FALSE, MayBeLost(t)} :
       /\ IF lost THEN UNCHANGED <<received, memory>>
                  ELSE ChipTakes(Frame(Head(todo[t]))[sent[t] + 1])
       /\ result' = IF sent[t] = 3 /\ Head(todo[t]).op = "read"
                      THEN [result EXCEPT ![t] = IF lost THEN Unknown ELSE ChipAnswers]
                      ELSE result
  /\ UNCHANGED <<inside, buffered, todo, selected, mixed>>

\* Mutant of Ends: a buffer is sent under one select, as before M20160715.
EndsOnce(t) == IF buffered[t] THEN UNCHANGED <<selected, received>> ELSE Released

\* The _deselect behind every frame.
Ends(t) == Released

\* The end of a frame, which is the end of a call that has no buffer.
Deselect(t) ==
  /\ Goes(t, "deselect", IF ~buffered[t] THEN "idle"
                         ELSE IF Len(todo[t]) = 1 THEN "close" ELSE "select")
  /\ Ends(t)
  /\ todo' = [todo EXCEPT ![t] = Tail(@)]
  /\ sent' = [sent EXCEPT ![t] = 0]
  /\ IF buffered[t] THEN UNCHANGED <<inside, buffered, result>> ELSE Exit(t)
  /\ mixed' = mixed \ {t}
  /\ UNCHANGED memory

\* The _deselect behind the loops, which ends a frame that another task has begun
\* since the last one in the loop.
Close(t) ==
  /\ Goes(t, "close", "idle")
  /\ Released
  /\ Exit(t)
  /\ mixed' = mixed \cup OthersInFrame(t)
  /\ UNCHANGED <<todo, sent, memory>>

Next ==
  \/ \E t \in Task :
       \/ Enter(t) \/ Open(t) \/ Select(t)
       \/ Transfer(t) \/ Deselect(t) \/ Close(t)
  \/ \E c \in Child : DisableIrq(c) \/ EnableIrq(c)

Spec == Init /\ [][Next]_vars

-----------------------------------------------------------------------------
\* An access happens when its last byte is through.
Pending(t) == IF pc[t] = "deselect" THEN Tail(todo[t]) ELSE todo[t]

\* The tasks whose present access another task's call has met, or may still meet.
Overlapped == {t \in inside : inside # {t} \/ (pc[t] = "transfer" /\ t \in mixed)}

Registers == INSTANCE RegisterFile WITH
  Byte <- Byte \cup {Unknown},
  Call <- Buffer,
  Reset <- 0,
  NothingRead <- Unknown,
  calling <- inside,
  pending <- [t \in Task |-> Pending(t)],
  overlapped <- Overlapped

\* w5100.c:47-222: without a critical section the driver implements registers
\* whose accesses are exact where the calls of two tasks do not overlap; whatever
\* an overlap does, it is over with the accesses that overlapped.
RegistersSpec == Registers!Spec

\* A frame that has met no other arrives whole (w5100.c:47-76), also after frames
\* that have met: what the chip has received is what its task has sent.
FramesIntact ==
  \A t \in Task :
    pc[t] = "transfer" /\ t \notin mixed =>
      selected /\ received = SubSeq(Frame(Head(todo[t])), 1, sent[t])

\* No task cuts into a frame that the listener has begun, nor into one of a date
\* that is being sent (server.c:276-278): such a frame is mixed only if it was
\* begun while another task was stopped inside one.
NobodyCutsIn ==
  [][\A t \in Task : (t = Listener \/ t = masked) /\ InFrame(t) /\ t \notin mixed
        => t \notin mixed']_vars

\* w5100.h:1029, "to protect your shared code which are executed without
\* distribution": a frame is never interrupted by another.  Refuted: the callbacks
\* that would protect it are not registered (chip_init.c:77-78).
FramesProtected ==
  \A t \in Task :
    pc[t] = "transfer" => selected /\ received = SubSeq(Frame(Head(todo[t])), 1, sent[t])
=============================================================================
