# A verification model of the Embedded TCP/IP Daytime Server

TLA+ specifications of the daytime server (STM32 Nucleo-F401RE, W5100 Ethernet
chip, FreeRTOS), the TLC configurations that check them on small instances, and
theorems checked by the TLA+ proof system. The reference is the C code of the
server, `src/server`, and of its client, `src/custom_client`; `PROJECT.json`
maps every definition to its lines.

## 1. The system

| part | source | state | operations | talks to |
|---|---|---|---|---|
| listener task | `server/server.c` 44-134 | its place in the loop, `childSocket`, socket 0 | open, listen, poll, accept, take a worker, announce its port, create the child, refuse, log, close | socket API, worker pool, logs, FreeRTOS |
| child tasks | `server/server.c` 207-283 | their place, `workerSocket` | copy the parameter, open, listen, poll, accept, greet, send the time every 1000 ticks, close, return the worker, delete itself | socket API, worker pool, logs, RTC, FreeRTOS |
| worker pool | `server/socket_queue.c` | a FreeRTOS queue of 4 places holding sockets 1-3 | create and fill; `xQueueReceive`, `xQueueSend` | listener, children |
| socket API | `ioLibrary_Driver/Ethernet/socket.c` | `sock_is_sending`, `sock_io_mode`, `sock_remained_size`, `sock_pack_info` | `socket`, `close`, `listen`, `send`, which the program calls; `connect`, `disconnect`, `recv`, `sendto`, `recvfrom`, `ctlsocket`, options | W5100 registers |
| W5100 access | `W5100/w5100.c`, `w5100.h`, `wizchip_conf.c` | chip registers and ring buffers, `_DNS_`, `_DHCP_` | SPI frames, command registers, `wiz_send_data`, `wiz_recv_data`, configuration | SPI |
| logs | `logs.c`, `linked_list.c` | list of per-module log words, log queue of 10 | add a module, set a bit, save, print | listener, children, EEPROM task, RTC |
| EEPROM log | `eeprom.c` | 128 bytes, `write_pointer` | init, find the last log, save, read a block, clear | I2C, log queue |
| I2C and RTC | `i2c.c`, `rtc.c` | bus, interrupts flag; date registers | register reads and writes, BCD conversions | EEPROM, RTC chip |
| boot | `application/main.c`, `chip_init.c` | what exists so far | initialise, create the tasks, start the scheduler | all |
| client | `src/custom_client/datetime_client.c` | its two connections, the static buffer of `my_read` | connect, read the port, connect again, print the lines | server |

Scheduling. FreeRTOS is preemptive with time slicing. The listener has priority
4 (`main.c:51`), children, EEPROM task and log task 3, the LED task 2, the idle
task 0. So a child runs only while the listener is blocked, two children
interleave at any instruction, and the memory of deleted tasks is freed only
when no other task is ready. `sendCurrentDate` retries with the interrupts off.

What makes this code hard, and what its correctness means part by part:

- *Listener and children*: a variable shared by address, status read and used
  later, peers that come and go at any time, a pool that may be empty, a heap
  that may be full. Every worker socket is in one hand; none is open without a
  task; a client that was accepted is cut off by nobody but the network; the
  server listens again and again.
- *W5100 access*: one SPI bus, several tasks, frames of four bytes, no critical
  section. Frames that no other task meets stay whole, and their accesses act on
  the registers they name; what an overlap does is over with it.
- *Logs*: a read-modify-write of one word by several tasks. The word that is
  saved for a connection misses nothing that the listener has logged of it and
  holds no code that no client has caused.
- *EEPROM log*: a ring written page by page by a device that is busy after each
  write, on a board that may be reset. The newest logs are kept and printed.
- *Socket API*: two words with one bit per socket, updated by all tasks without
  a lock; loops that wait for the chip. A message that is taken to be on its way
  is, every call returns, and the interrupts come back.
- *Buffers*: rings next to each other in one memory, pointers that wrap, sizes
  read in two halves from a chip that changes them. No byte is lost, repeated or
  read by the wrong socket; no datagram is mixed with another.
- *Configuration*: bit fields that share bytes, a reset that erases what must be
  put back, `sendto` that borrows a register. Settings hold.
- *I2C and clock*: one bus, nested disabling of the interrupts that does not
  nest, registers read one after the other from a running clock. Transfers stay
  whole, what is read is wrong by a bounded time.
- *Boot*: allocations that fail and results that are ignored. It is known from
  which failures a task follows a null pointer, and the log word of the server
  survives what is added after it.
- *Client*: a message without an end, a buffer shared by two connections, errors
  that are not tested. It goes where it was sent, prints whole lines, and ends.

`PROJECT.json` lists the hazards one by one, each at its line with the
properties that watch it.

## 2. Plan

All of the modules that were planned are written. The order is that of
importance to the program.

| | modules | shows | theorems |
|---|---|---|---|
| 2.1 | `SocketApi`, `WorkerPool`, `DaytimeServer` | the server implements the pool; liveness | all safety properties |
| 2.2 | `RegisterFile`, `WizSpi` | without a critical section, the driver implements registers whose accesses are exact where calls do not overlap | types, frames, listener not cut into, refinement |
| 2.3 | `ServerLog` | the saved word misses nothing the listener logged and holds no code without a cause | types, both action properties |
| 2.4 | `EepromLog` | ring, printing, order, progress | types, ring, printing, order |
| 2.5 | `WizSocket` | `socket.c` command by command, with unlocked words | types, busy is real |
| 2.6 | `ByteStreams`, `WizBuffers` | the rings implement streams; sizes; datagrams | types, refinement, sizes, datagrams |
| 2.7 | `WizRegisters` | the register map and the configuration of the chip | types, settings, flags, sizes |
| 2.8 | `I2cBus` | transfers of several tasks, the running clock | types, bus exclusive, sending masked, time error |
| 2.9 | `LinkedList`, `Boot` | what exists after failed allocations | all four properties |
| 2.10 | `DaytimeClient` | the client's side of the protocol | both safety properties |

Left: the safety properties are all proved. Nothing of the plan is open but what
section 5 names as model-checked only.

## 3. The modules

### SocketApi, DaytimeServer, WorkerPool

`SocketApi` is `socket.c` as the server uses it: for each call one operator per
outcome (`ListenOk`, `ListenMissed`, `Transmit`, `SendBusy`, `SendFails`, ...),
and what the chip and the peers do on their own. `sr` is `Sn_SR` of each socket,
`sending` and `sendok` the bit of `sock_is_sending` and the flag in `Sn_IR` that
together make a `send` busy. A call is one step. `CLOSE` is immediate, so the
states of an orderly shutdown do not show. A message is at most 15 bytes and
the one before it is acknowledged first, so the transmit buffer is never full.

`DaytimeServer` has one action per step of `listeningForConnectionTask` (names
in L) and `redirectConnectionToChildSocket` (names in C) between two points
where a task switch or the network can matter. `lpc` and `cpc[c]` are the places
in the code. `childSocket` is the listener's stack variable, whose *address* is
the parameter of every child; `CCopy` is the first slice of the child, in which
it dereferences it. `"spin"` is the loop of `sendCurrentDate` with the
interrupts off: nothing else of the server runs. `Child` is the set of places
the heap has for tasks; a task that has deleted itself keeps its place until the
idle task runs (`Reclaim`).

`EagerClient` says whether a SYN can reach socket 0 before the listener has
polled it for the first time. If not, the listener always blocks in
`vTaskDelay(100)` before it accepts, and the last child has copied its parameter
by then (`LWake`).

`WorkerPool` is what the server promises: a worker is available, taken for a
client, or served by one task, and comes back. It may be abandoned, because the
code drops it when `xTaskCreate` fails. `DaytimeServer` implements it under the
mapping `available` = contents of the queue, `taken` = `childSocket` between
`xQueueReceive` and `xTaskCreate`, `serving` = the worker each task uses or will
use.

### RegisterFile, WizSpi

`WizSpi` is an access of `w5100.c` byte by byte: enter, select, four bytes,
deselect, exit, and the additional select and deselect around the loops of the
`_BUF` variants. The chip acts on the fourth byte of a frame. The program
registers no critical section callbacks (`chip_init.c`), so enter and exit do
nothing and the tasks are kept apart by their priorities alone: the listener
runs to the end of its call, children are preempted between any two steps, and
a child that sends the date has turned the interrupts off (`masked`). Where two
frames meet, the chip takes the bytes of both, a byte may be refused with
`HAL_BUSY` and get lost, and a deselect ends the frame of the other. `mixed` is
the history of which frames have met another.

`RegisterFile` is the abstraction: registers read and written in one step,
exactly by a task whose call no other overlaps, in any way by one that is
overlapped (`Gets`, `Miss`). The other modules take an access to the chip as one
exact step, which holds for the accesses that no other task overlaps. The lock
inside the HAL call for one byte is left out.

### ServerLog

The log word of the module "server" as a set of bits, `logsAddLog` in its two
halves (`Find` copies, `Set` writes back), the listener and the children around
it, and `logsSave` with the queue to the EEPROM task. `ListenerBlocked` is the
scheduling of `DaytimeServer`, with the full log queue in addition. The pool and
the chip are nondeterministic here. `outcome` and `past` are history: what has
become of the present client and of all clients so far. No code clears a bit.

### EepromLog

The memory as half pages that hold a log, nothing, or garbage; `write_pointer`;
the task between queue and memory; the write cycle of the device; `Reset` at any
moment, with the page in programming torn or not. `InitialPointer` is what
`eepromInit` does with the result of `findLastLog`: `findLastLog` puts the
address into `write_pointer` and returns 0, which is then assigned over it.
`logsPrintSaved` turns the interrupts off, but every transfer turns them on again
(`i2c.c:188`), so the printing is one step for each transfer (`ReadFirst`,
`ReadAgain`) with logs saved between them. `reading` and `again` are its place,
`unprinted` is history: what was in the ring when the button was pressed and has
not been printed.

### WizSocket

One task and its socket, one action per command or register that the driver
touches in a call: `pc` names the place in `socket`, `close`, `listen`,
`connect`, `disconnect`, `send` and `recv`, `cr` is the command register, which
the chip clears when it takes the command (`Take`) and carries out later
(`Perform`). `sock_is_sending` and `sock_io_mode` stand for the bit of this
socket. What other tasks can do to that bit is to load the word, with this bit in
it, and store it back at any later time with the interrupts on: `heldSending` and
`heldMode` are the values that are in such copies. So any number of other tasks
is covered. `masked` is the region of `sendCurrentDate`, `greeted` that the
greeting was sent before it. `Room` is the size of the transmit buffer in
messages.

### ByteStreams, WizBuffers

`WizBuffers` has `wiz_send_data`, `wiz_recv_data` and `wiz_recv_ignore` on rings
that lie one after the other in one memory, `getSn_TX_FSR` and `getSn_RX_RSR`
with their four reads of one byte each while the chip goes on, and `recvfrom`
with `sock_remained_size` and `sock_pack_info`. A byte is the number it has in
its socket's stream, so every loss or mix shows. `ByteStreams` is the promise: a
queue per socket. The pointers count modulo `Modulus` for 2^16, a register byte
has `Radix` values for 256.

### WizRegisters

The address of every register that has an accessor in `w5100.h` and is used by
`wizchip_conf.c` or the options of `socket.c`, as a run of bytes (sets of bits).
The actions are `wizchip_init`, `wizchip_sw_reset`, the `ctlnetwork` and
`ctlwizchip` commands that set something, the plain setters of the sockets,
`sendto` from the moment it clears the subnet mask to its return, and the chip
that raises flags. `asked`, `info`, `mask`, `mode` and `raised` are history: what
was set last, and which flags nobody has cleared by name.

### I2cBus

A transfer is START, which turns the interrupts off, the bytes, and STOP, which
turns them on, also when the caller had turned them off. Tasks switch where the
interrupts are on. A child reads the clock for its client (six registers), the
listener for the stamp of a log (two), `eepromTask` writes a page or reads and
writes one, `log_task` reads pages. The clock ticks at any time; `elapsed`
counts its ticks since the reading began.

### LinkedList, Boot

`linked_list.c` has one operator per outcome of a call, on a heap of `Cell`
cells. `Boot` calls it from the steps of `main`, each allocation succeeding or
failing, adds further modules after the one of the server, and then lets the
tasks log, save and read the queue once or more. `fate` says whether a task
followed a null pointer or searches for ever; the models stop there.

### DaytimeClient

`main` of the client with `get_new_port`, `get_date_time`, `readline` and
`my_read`; `unread` is the static buffer from `read_ptr` on, one for both
connections. A read takes any part of what has arrived. `SendPort`,
`SendRefusal` and `SendLine` are the messages of `server.c`, delivered one
segment each; a connection can end, be reset with or without the bytes that have
arrived, or say nothing any more, because the chip's `CLOSE` says nothing to the
peer. `strtol` and `numberToString` are computed. After an error `recvline` has
no end: `Garbage` is what may lie behind.

## 4. The runs

| run | question | instance |
|---|---|---|
| `safety` | does the server implement the pool, with no worker in two hands, none open without a task, no client cut off? | 3 sockets, 3 task places, clients slower than the first poll |
| `live` | does everything that must happen happen? | 2 sockets, 2 task places |
| `shared` (violated) | is a worker in one hand with clients of any speed? | 3 sockets, 2 places |
| `spi` | what does the driver promise without a critical section? | listener and 2 children, two calls at a time, buffers of 2 bytes across a page |
| `spi_mixed` (violated) | does a frame stay whole when tasks meet? | listener and 1 child |
| `log` | what does the saved word hold; do common codes stay? | 2 children, queue of 2 |
| `eeprom` | are the newest logs kept, printed, in order, whatever is saved while they are printed, and do all get saved? | 3 pages, 8 logs, 2 resets |
| `socket` | is busy real, do calls return, do the interrupts come back? | one socket, any number of other tasks, room for 2 messages |
| `buffers` | do the rings implement streams, whatever is read while the chip works? | rings of 4 and 2 bytes, pointers modulo 8, bytes of 3 values, datagrams of up to 2 bytes |
| `bus` | are transfers whole, is sending masked, how wrong is the time? | 1 child, the listener, `eepromTask`, `log_task`; minutes of 12 s, hours of 2 min, days of 3 h |
| `setup` | what do failed allocations lead to; do settings hold, rings fit, flags stay? | 2 modules, 3 cells, 2 codes, queue of 2; 2 sockets, 4 KB, 3 calls |
| `client` | does the client go to its port, print whole lines, end? | 3 workers, 3 messages, lines of 6 bytes |

Bounds. Three sockets give two workers: enough for two tasks to share one, for
the pool to run empty and to wrap its order; three task places give one more
than there are workers, so that a zombie can hold memory beside two live tasks
(in `shared` two places are enough). The real numbers are 4 sockets and a heap of
8192 bytes at about 620 bytes a task. One worker and two tasks suffice for the
liveness run: a task that waits behind another, a zombie, a refused client. Two
calls at a time are enough on the SPI bus, where every interference is between the
one that has begun a frame and one that begins another: the listener and a child
use both addresses and buffers across the page, two children, who interleave at
any byte, single bytes at one (`CallsBounded`). `setup` puts `Boot` beside
`WizRegisters`: they share no variable, and one moves while the other stays as it
starts (`moving`). A log queue of two can be empty,
half full and full. Three pages let the ring wrap within eight logs twice over,
with resets in each lap. The rings differ in size and touch each other, a
pointer wraps after two laps of one and four of the other, and a size needs both
bytes of its register. The days of `bus` are short so that every carry happens
within a reading; `MaxTicks` = 2 lets the clock pass a carry in the middle of
one. Three cells are one for the list and two for a second module. The lines of
the client are together longer than one read, and each shorter than the buffer,
as in the program. `MaxLogs`, `MaxBoots`, `MaxLength`, `MaxCalls`, `MaxTicks` and
the number of `Lines` are what is cut off. Deadlock checking is off in `eeprom`,
`setup`, `socket` and `client`: the cut-off counters, a hung bus, a
null pointer, a client that has ended or a `connect()` that waits stop the system.

What the runs that expect a violation show. `spi_mixed`: the listener wakes while a
child is inside a frame and begins its own under the same select; the chip takes
bytes of both as one frame. `w5100.h:1029` means the critical section to protect
what is "executed without distribution", and `chip_init.c:77` does not register it.
`shared`: a client that connects
between `listen` and the first poll keeps the listener, of higher priority, from
blocking; it overwrites `childSocket` before the previous child has run. Two
tasks then serve one socket and another socket is lost. README.md:5 promises a
new task for the socket that was taken.

Other disagreements met while modelling. They are in the models as the code has
them, and the properties above hold in spite of them.

- *Server*: after a failed `xTaskCreate` the worker is not put back (the pool of
  `WorkerPool` allows it to be abandoned). server.c:106 sets the bit "date not
  sent" (logs.c:3) for every connection, which server.c:182 means for a failed
  send. No bit is ever cleared: a saved word holds the codes of earlier clients,
  too, and does not tell by itself what became of its own. `portAsString` is one
  byte short for `numberToString`; in the image under `server/Objects` the byte
  falls on a member that nothing reads. `getsockopt(SO_DESTPORT)` writes through
  a pointer made of an uninitialised value, `setsockopt(SO_TTL)` is given the
  number 3 for a pointer. `SOCKET_SUCCESS` (1) and `SOCKET_FAILED` (-1) are both
  true in C, so the loop of `sendCompleteMessage` takes the 0 of `SOCK_BUSY` for
  zero bytes sent and tries again: that is the loop `"spin"` stands for. A
  client that reaches the worker's port before the child has opened it is
  refused, and the child waits for it for ever.
- *Driver*: a bit of `sock_is_sending` that comes back before the
  greeting makes the greeting busy for ever, with the interrupts on. `send()`
  returns `SOCK_BUSY` on a blocking socket, against socket.h:96. `connect()` has
  no way out in CLOSE_WAIT; `recv()` closes a half-closed socket without a look
  at the data that came between its two reads. `wizchip_init` never returns for a
  receive size of 0; a socket with transmit size 0 gets a ring of 1 KB. The mask
  0xA0 of `getIR` hides the flags of the sockets from CW_GET_INTERRUPT.
  `setSn_PROTO` writes Sn_TOS. Two tasks in `sendto()` at a time can lose the
  subnet mask, network settings made meanwhile are overwritten.
- *Logs*: a bit set between the copy and the write-back of another task
  disappears; `SavedHolds` shows that the word saved for a connection misses
  nothing of what the listener has logged all the same. After every start the
  first log overwrites the first page, because the 0 that `findLastLog` returns
  is assigned over the address that it found; so logs of the start before can be
  overwritten while pages are free, and the properties of the ring speak of the
  logs since the last start. `eepromCheckIfBusy` returns -1 for busy, the task
  tests for 1, and `i2cWriteData` then waits for ever for an acknowledgement: it
  takes two logs within one write cycle, or the print button. The loops of i2c.c
  that wait after STOP wait for the opposite of an idle bus.
- *List and boot*: the second and later modules are added to a copy and lost,
  although `linkedListAdd` reports success; correcting that alone would make every
  search past the first element endless. If the log queue cannot be created,
  `eepromTask` receives from a null handle; if the pool cannot, the system runs
  without a listener and nobody is told.
- *Formatting*: `constructCurrentTime` appends to uninitialised memory, and calls
  `rtc_read_date`, which is named `rtcReadDate` at this commit.
- *Client*: the default port is 27, the server is at 13. The branch for -1 in
  `main` is never taken, as the loop of `get_new_port` goes on until the
  connection ends. After a reset the client goes on with what its stack holds.

Liveness and fairness. `DaytimeServer` assumes strong fairness of the listener
and of every child, because the scheduler runs what is ready but readiness comes
and goes with the interrupts and with higher tasks; of `Reclaim`, because the
idle task runs whenever nothing else does; of a child's `listen` succeeding when
it is tried for ever, because the SYN that beats it has to arrive within
microseconds; and weak fairness of "acknowledged or given up", which is the
retransmission of the chip. Clients owe nothing. The liveness run has
`EagerClient = FALSE`: a client that always beats the first poll and resets
keeps the listener from ever blocking, so that no child runs. `WizSocket`
assumes that the task goes on in its call, that the chip takes and performs
commands, and the retransmission; the peer owes nothing, which is why
`CallsReturn` is about the calls of the server and not about `connect` and
`recv`. `EepromLog` assumes that the task runs when ready and that the write
cycle ends; `Drains` allows for the hang described above, so it does not say
that the hang cannot happen. `DaytimeClient` assumes of the client alone that it
goes on while it can.

Every property of a passing run has a mutant in `PROJECT.json`: a definition
changed the way a plausible mistake would, defined beside the original, under
which TLC finds the property violated. The type invariants of `WizSpi`,
`WizBuffers`, `WizRegisters`, `I2cBus` and `Boot` are stated in their modules
and not among the properties of the runs.

## 5. The proofs

`DaytimeProofs` proves of the server, for every number of sockets and every finite
set of task places:

- `TypeCorrect`: `TypeOK`. It is not inductive: `CReturn` puts `workerSocket[c]`
  into the queue, so `Assigned` adds that a task that serves, and the listener
  between take and create, hold a worker. `TypeInv` is the conjunction.
- `NeverBlocks`: `ReturnNeverBlocks`, for clients of any speed. `CountInv`:
  length of the queue plus one for the listener's hand plus the number of
  serving tasks is at most the number of workers. No step adds to that count,
  even when tasks share a worker, so a queue with one place more than workers
  has room for the task that returns one.
- `WorkersExclusive`: `ExclusiveWorkers`, assuming `EagerClient = FALSE`.
  `ExclusiveInv` = `HandOver` /\ `Apart`: while a created task has not copied
  its parameter, the listener is not past its next `vTaskDelay` and
  `childSocket` still holds that task's worker; queue, hand and tasks are apart.
- `NoOrphan` and `NeverCutsOff`: `NoOrphanSocket` and `OnlyNetworkCutsOff`, same
  assumption. `StatusInv` says for each place of a child what its socket's
  status can be; it needs exclusivity, as otherwise another task could change it.
- `ServerImplementsPool`: `Spec => PoolSpec`, the refinement, same assumption:
  every action maps to one action of `WorkerPool` or to a stutter.

Of the client it proves `PortIsAgreed` (`PortAgreed`) and `LinesAreWhole`
(`LinesWhole`) for any ports (`PortAssumption`: 1 to 65535, and a buffer longer than
what the listener sends), any garbage and any number of messages, each not empty,
shorter than the buffer and with its only newline at its end (`LineAssumption`:
so are the greeting and the dates of `server.c`). (`ClientInit`, `ClientSpec` and so
on have names of their own so that one module can hold both.)

- Numbers: `PortIsRead` says that `strtol` gives back what `numberToString` has
  written, by the quotients of the number (`QuotientsFollow`), and that it is five
  digits at most, so that a line that holds it is never full.
- `Cut`: what a connection has delivered is the line, then what is left of the
  static buffer, then what has arrived, in that order and with nothing between. Each
  step of `readline` and `my_read` moves a boundary (`CutTake`, `CutRefill`,
  `CutArrives`, `CutLoses`, `CutUsed`).
- `FirstInv`: on the first connection those three are the answer, whole unless the
  connection was reset. Hence a line that is read at the end of the connection is
  all of it, and when `main` goes on nothing of it is left in the buffer.
- `SecondInv`: on the second they follow the messages that are printed in the text
  of all messages (`Text`), and what is under way follows them. A line never
  reaches beyond the end of a message (`LineInLine`), so it is a message whole, or
  the part of one behind which the connection has ended; `PrintedInv` keeps that.

The assumption is the weakest that is true: `shared` refutes exclusivity without
it. Other assumptions are those named in the modules: at least one socket, a
finite set of task places.

`ServerLogProofs` proves the three properties of the run `log` for every set of
children and every length of the queue: `LogTypeCorrect`, `SavedWordHolds` and
`SharedCodesKept`. `LogInv` adds to `TypeOK`:

- `HistoryInv`: every bit in the word, in a copy and in a `logsAddLog` under way has
  a client who caused it.
- `ListenerInv`: from its first log for a client to `logsSave` the listener finds
  its own bits in the word. It is blocked in between only while it waits for a
  worker, when the bit `ServerConnected` is the one that counts, and that one is
  in every copy a child can write back.
- `ChildInv`: a child exists only after `ServerConnected` is in the word, and runs
  only after `DateNotSent` is; its copy therefore holds both, and
  `ChildConnected` unless it is about to add it.

`WizSpiProofs` proves, for every set of children, addresses, values and buffer
lengths and without a critical section, `SpiTypeCorrect`, `FramesStayIntact`,
`ListenerNotCutInto` (`NobodyCutsIn`) and `DriverImplementsRegisters`; the first
is about `TypeOK`. `SpiInv` says that a task has a byte to send where it sends
one (`Busy`), that two frames under way at a time are both mixed, and that the
chip has received of a frame that is not mixed exactly what its task has sent
(`Frames`). So a mixture is over with the last of the frames that were in it.
Entering a call maps to `Request`, the fourth byte of a frame to
`Read` or `Write`, or to `Miss` where another call overlaps, other bytes that reach
the chip in a mixture to `Disturb`, the end of a call to `Return`, every other step
to a stutter.

`EepromLogProofs` proves, for every number of pages, length of the queue and
number of logs and resets, `EepromTypeCorrect`, `RingKeepsRecent` (`RecentKept`)
and `LogsStayInOrder` (`InOrder`). Addresses modulo the size of the memory are
first turned into pages: `Before(p, i)` is the page i places before p, and less
than a lap back it is never p itself (`SamePage`), so the page that is written is
not one of those that must stay. `InOrder` is inductive with the types; each step
regroups `saved`, `taken` and `logsQueue` or appends the next number (`GoesOn`).
`RecentIsPrinted` (`RecentPrinted`) rests on two facts. `Ahead`: a log still to
be printed lies in the page that is read next or behind it, since only a write
moves a log out of the ring and it then need not be printed. `Filled`: the pages
written since the boot, from the first on or all of them, hold one log and an
erased half, so that the printing passes through them to what is ahead.

`WizBuffersProofs` proves `RingsAreStreams` (`StreamsSpec`), `SizeWasThereAlways`
(`SizeWasThere`), `DatagramsStayApart` (`NeverMixes`) and `BuffersTypeCorrect`, for
any number of sockets and any sizes of rings, registers and datagrams. Assumed is
what the module names: the size of a ring divides the count of the pointers (2^16
and a power of two) and is less than it, and fits in a register of two bytes.

- Where the rings are: `Base` is defined by recursion, so that it exists and grows
  is shown with the least number for which it would not (`Induction`,
  `BasesExist`, `BaseGrows`); rings of two sockets share no cell (`RingsApart`).
- One ring: since its size divides the count, the cell after the wrap of a pointer
  is the cell after it anyway (`SlotWraps`). So `wiz_send_data` and `wiz_recv_data`
  in their two parts, and the chip, append to the ring of their socket or take from
  its front and leave the others alone (`PutStep`, `TakeStep`).
- `Sizes`: from which sizes the bytes read so far are, in the order of the reading.
  Two numbers that agree, the first made of sizes a <= b and the second of sizes
  c <= d with b <= c, are both b (`Agreement`). A size that is only read while it
  can grow is then still there when it is used, which is why data fit and what is
  read has arrived.
- `Mixed`: a ring of datagrams begins with what `sock_remained_size` says is left of
  one, and whole datagrams follow (`Parsed`); `Places` says that `recvfrom` asks for
  the size only when nothing is left.

`IInv` is their conjunction with the types.

`WizChipProofs` proves, of `WizSocket`, `SocketTypeCorrect` and `MaskedBusyIsReal`
(`BusyIsReal`) for every `Room`. The strengthening: which command can be under
way at which place (`CommandInv`, `OpenInv`), that a fresh connection has sent
nothing (`FreshInv`), that after the greeting something is on its way or answered
until the bit is cleared (`AnsweredInv`), and that the interrupts are off only
after a greeting (`MaskedInv`). Nothing is assumed of the copies other tasks hold.

Of `WizRegisters` it proves `SettingsAreKept` (`SettingsHold`), `FlagsAreKept`
(`FlagsKept`), `RingsFitAlways` (`RingsFit`) and `RegistersTypeCorrect`, for any
number of sockets, memory, patterns and sizes, assuming that 2 KB for each socket,
the sizes after a reset, fit. (WizRegisters names its `RegistersSpec` and `phase`
so that one module can hold the theorems of both.)

- The map: the address of a byte tells its register (`ChipRegister`,
  `SocketRegister`), so no two registers share one (`RegistersApart`). A register
  that is written holds what was written and every other one what it held
  (`Writing`); several writes change only their registers (`Keeps`).
- `RegistersInv`: each setting and each address in the map is what was last set.
  In `sendto` the subnet mask may be in `taddr` instead (`AddressesKept`). A flag
  that was raised and not cleared is in its register (`FlagsInv`).
- The sizes: `Sums` are the tables of sums over sets of sockets; there is one, it
  is unique, and it is what `MapThenSumSet` computes (`SumsExist`, `OneSum`,
  `SumIs`), all by the least number of sockets for which it would fail. Smaller
  terms make a smaller sum (`SumGrows`), and a ring is at most as large as what
  was asked for (`SizeIsAsked`), which is why sizes that are no powers of two do
  no harm.

`I2cBusProofs` proves `BusTypeCorrect`, `BusIsExclusive` (`TransfersWhole`),
`DateSentMasked` (`SendMasked`) and `ClockErrorIsBounded` (`ClockErrorBounded`) for
any number of children and any lengths of minute, hour and day. What is inductive
is that only the running task, with the interrupts off, is inside a transfer or a
region (`OneInside`), and that the bus belongs to the task in the transfer
(`BusOwned`). For the time error: each register read so far shows a moment since
the reading began, and the moments are in the order of the readings; that such a
date is never behind the moment its reading began, and ahead of it by less than
the reading took and an hour, is then arithmetic.

`BootProofs` proves the four properties of `Boot` that `setup` checks, for any
heap, modules and failures. `Unlinked`: no node has a successor, whence no
search is endless. `QueueBeforeList`: a list exists only if the log queue does,
and a queue that is missing is an allocation that failed; `ModulesFirst`: the
tasks run only after the first module was added or failed. `Prepared` is the
invariant behind `ListenerPrepared`: the queue of workers is filled before the
listener is created, and its stack size is set with it.

Only model-checked: the liveness properties, which are out of the prover's
reach. They hold for the instances above. Induction over data is not available
as a rule; where a proof needs it (`Base`, the sums of sizes, the text of the
client) it takes the least counterexample.

## 6. Not modelled

LEDs and standard output share no state with the rest. The set-up of clocks and
pins is register writes that nothing reads. FreeRTOS, the HAL and the C library
are not in the repository; they appear as guards and as steps marked external.
Of the driver: what is compiled for other chips and bus modes, the PHY functions,
`sock_any_port`, the headers of IPRAW and MACRAW in `recvfrom`, `getsockopt`. Of
the rest, what nothing calls: `rtcSetDate`, `eepromClear`. The memory that
`free(taskName)` in server.c:115 and `getChildTaskName` damage depends on the C
library; the models take them to do nothing. The mallocs of the running tasks
(server_utils.c:47, 72), whose results are not tested, are not among the
allocations that fail in `Boot`. Ring sizes are 1 to the memory of the chip: the
int8_t sums of wizchip_conf.c:437-447 let sizes above 127 and of 0 pass.

Two things the code does are allowed by the properties and so not caught by them:
`PoolSpec` lets a worker be lost when `xTaskCreate` fails (server.c:89-95), so the
pool may shrink; `OnlyNetworkCutsOff` exempts a child that reopens its socket
after its wait for the handshake, in which the handshake may just have completed
(server.c:154). `src/server/RTE` holds
configuration headers of the vendor, of which FreeRTOSConfig.h gives the
scheduling, and start-up code of the processor.
