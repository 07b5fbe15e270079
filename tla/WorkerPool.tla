------------------------------ MODULE WorkerPool ------------------------------
(***************************************************************************)
(* What the server promises about its worker sockets, without the queue,   *)
(* the chip or the scheduler: a worker is available, or taken out for a    *)
(* client, or assigned to exactly one task that serves the client and then *)
(* gives it back.  A worker taken out may also be abandoned: the code does *)
(* not put it back when the task cannot be created.                        *)
(***************************************************************************)
CONSTANTS
  Worker,  \* the worker sockets
  Task     \* the tasks that serve clients

VARIABLES
  available, \* the workers that can be taken
  taken,     \* the worker taken for the client being answered, if any
  serving    \* the worker each task serves, if any

poolVars == <<available, taken, serving>>

PoolTypeOK ==
  /\ available \subseteq Worker
  /\ taken \subseteq Worker
  /\ serving \in [Task -> SUBSET Worker]

Init ==
  /\ available = Worker
  /\ taken = {}
  /\ serving = [t \in Task |-> {}]

Take(w) ==
  /\ taken = {} /\ w \in available
  /\ available' = available \ {w}
  /\ taken' = {w}
  /\ UNCHANGED serving

Assign(t) ==
  /\ taken # {} /\ serving[t] = {}
  /\ serving' = [serving EXCEPT ![t] = taken]
  /\ taken' = {}
  /\ UNCHANGED available

Abandon ==
  /\ taken # {}
  /\ taken' = {}
  /\ UNCHANGED <<available, serving>>

GiveBack(t) ==
  /\ serving[t] # {}
  /\ available' = available \cup serving[t]
  /\ serving' = [serving EXCEPT ![t] = {}]
  /\ UNCHANGED taken

Next ==
  \/ \E w \in Worker : Take(w)
  \/ \E t \in Task : Assign(t) \/ GiveBack(t)
  \/ Abandon

Spec == Init /\ [][Next]_poolVars

\* No worker is in two places: two tasks never share one, and one that a task
\* or the listener holds cannot be taken by the next client.
Exclusive ==
  /\ available \cap taken = {}
  /\ \A t \in Task : serving[t] \cap (available \cup taken) = {}
  /\ \A t, u \in Task : t # u => serving[t] \cap serving[u] = {}

=============================================================================
