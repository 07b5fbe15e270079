------------------------------ MODULE LinkedList ------------------------------
(***************************************************************************)
(* The log words of the modules: linked_list.c, on the heap of the C       *)
(* library.  One operator per outcome of a call; the address that malloc   *)
(* returns is a parameter.                                                 *)
(***************************************************************************)
CONSTANTS
  Cell,     \* cells of the heap
  Module,   \* values of moduleAddr
  Code,     \* bits of log_code
  Null

ASSUME NullAssumption == Null \notin Cell

VARIABLES
  list,  \* the head of the list
  node   \* the nodes allocated

listVars == <<list, node>>

LogStruct == [moduleAddr : Module, log_code : SUBSET Code]
Node == [data : LogStruct \cup {Null}, next : Cell \cup {Null}]

ASSUME FreshAssumption == Null \notin LogStruct /\ Null \notin Node

ListTypeOK ==
  /\ list \in Cell \cup {Null}
  /\ node \in [Cell -> Node \cup {Null}]
  /\ list # Null => node[list] # Null

ListInit == list = Null /\ node = [a \in Cell |-> Null]

Allocate(a, data) ==
  /\ node[a] = Null
  /\ node' = [node EXCEPT ![a] = [data |-> data, next |-> Null]]

Create(a) == Allocate(a, Null) /\ list' = a

CreateFails == list' = Null /\ UNCHANGED node

\* Mutant: no element follows, so the list is taken for empty.
NoneFollows == list # Null /\ node[list].next = Null

Empty == list # Null /\ node[list].next = Null /\ node[list].data = Null

-----------------------------------------------------------------------------
(* linkedListAdd.                                                          *)

AddRefused == list = Null /\ UNCHANGED listVars

AddFirst(log) == Empty /\ node' = [node EXCEPT ![list].data = log] /\ UNCHANGED list

AddFirstFails == Empty /\ UNCHANGED listVars

Filled == list # Null /\ ~Empty

\* Mutant: the new element is linked to the list itself.
LinkedToList(log, a) ==
  /\ Filled /\ node[a] = Null
  /\ node' = [node EXCEPT ![a] = [data |-> log, next |-> Null], ![list].next = a]
  /\ UNCHANGED list

\* The new element is linked to a copy of the head (linked_list.c:44), which
\* goes with the call: nothing refers to the element any more.
AddAnother(log, a) == Filled /\ Allocate(a, log) /\ UNCHANGED list

AddAnotherFails == Filled /\ UNCHANGED listVars
AddAnotherHalf(a) == Filled /\ Allocate(a, Null) /\ UNCHANGED list

-----------------------------------------------------------------------------
(* linkedListFindModule and linkedListSetModuleData search alike: they     *)
(* look at a copy of the head, again and again.                            *)

\* Mutant: list == NULL is not tested.
FollowsUntested == list = Null \/ node[list].data = Null

\* The pointer of an empty list is followed.
FollowsNull == list # Null /\ node[list].data = Null

\* The element they look at.
FirstNode == node[list]
HasData == list # Null /\ FirstNode.data # Null

Found(m) == HasData /\ FirstNode.data.moduleAddr = m
Endless(m) == HasData /\ FirstNode.data.moduleAddr # m /\ FirstNode.next # Null

\* linkedListSetModuleData on a module that was found.
SetModuleData(log) == node' = [node EXCEPT ![list].data = log] /\ UNCHANGED list

=============================================================================
