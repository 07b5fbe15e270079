----------------------------- MODULE RegisterFile -----------------------------
(***************************************************************************)
(* The W5100 as the tasks find it behind a driver without critical         *)
(* sections: registers that they read and write one byte at a time.  A     *)
(* call is a sequence of accesses: one for WIZCHIP_READ and WIZCHIP_WRITE, *)
(* one per byte for WIZCHIP_READ_BUF and WIZCHIP_WRITE_BUF.  An access     *)
(* that no other task's call overlaps is exact, in one step.  Others read  *)
(* anything, and may change any byte or none.                              *)
(***************************************************************************)
EXTENDS Sequences

CONSTANTS
  Task,        \* the tasks that use the chip
  Address,     \* its registers and buffer bytes
  Byte,        \* what a byte can be
  Call,        \* the calls: sequences of accesses
  Reset,       \* what every byte is after the reset
  NothingRead  \* the result of a call that has not read yet

VARIABLES
  memory,     \* the byte at each address
  calling,    \* the tasks in a call
  pending,    \* the accesses each task has called for and not got yet
  overlapped, \* the tasks whose present access has met another task's call
  result      \* what each call has read last

registerVars == <<memory, calling, pending, overlapped, result>>

Init ==
  /\ memory = [a \in Address |-> Reset]
  /\ calling = {} /\ overlapped = {}
  /\ pending = [t \in Task |-> <<>>]
  /\ result = [t \in Task |-> NothingRead]

Request(t) ==
  /\ t \notin calling
  /\ calling' = calling \cup {t}
  /\ \E call \in Call : pending' = [pending EXCEPT ![t] = call]
  /\ overlapped' = IF calling = {} THEN {} ELSE calling'
  /\ UNCHANGED <<memory, result>>

Gets(t, op) ==
  /\ pending[t] # <<>> /\ Head(pending[t]).op = op
  /\ pending' = [pending EXCEPT ![t] = Tail(@)]
  /\ UNCHANGED calling

Write(t) ==
  /\ Gets(t, "write") /\ t \notin overlapped
  /\ memory' = [memory EXCEPT ![Head(pending[t]).address] = Head(pending[t]).data]
  /\ UNCHANGED <<overlapped, result>>

Read(t) ==
  /\ Gets(t, "read") /\ t \notin overlapped
  /\ result' = [result EXCEPT ![t] = memory[Head(pending[t]).address]]
  /\ UNCHANGED <<memory, overlapped>>

\* The bytes of several tasks, taken together, can be one access.
Damaged ==
  \/ memory' = memory
  \/ \E a \in Address, byte \in Byte : memory' = [memory EXCEPT ![a] = byte]

\* What overlaps is an access, not a task: the next one of a task that is alone
\* by then is exact again.
Miss(t) ==
  /\ t \in overlapped
  /\ \/ Gets(t, "write") /\ UNCHANGED result
     \/ Gets(t, "read") /\ \E byte \in Byte : result' = [result EXCEPT ![t] = byte]
  /\ Damaged
  /\ overlapped' = IF calling = {t} THEN {} ELSE overlapped

Disturb ==
  /\ overlapped # {}
  /\ Damaged
  /\ UNCHANGED <<calling, pending, overlapped, result>>

\* What has been read is its caller's, and an overlap can be over.
Return(t) ==
  /\ t \in calling /\ pending[t] = <<>>
  /\ calling' = calling \ {t}
  /\ overlapped' \in SUBSET (overlapped \ {t})
  /\ result' = [result EXCEPT ![t] = NothingRead]
  /\ UNCHANGED <<memory, pending>>

Next == Disturb \/ \E t \in Task : Request(t) \/ Write(t) \/ Read(t) \/ Miss(t) \/ Return(t)

Spec == Init /\ [][Next]_registerVars
=============================================================================
