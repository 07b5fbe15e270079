------------------------------- MODULE MCSetUp -------------------------------
(* Model-checking instance of Boot and WizRegisters: the start of the program   *)
(* and the configuration of the chip, which have no variable in common.  One of *)
(* them moves, the other stays as it starts.                                    *)
EXTENDS Boot, WizRegisters, TLC

CONSTANTS server, other

\* A second module, which the program does not have, after the server's.
ServerFirst == <<server, other>>
HeapSymmetry == Permutations(Cell)

\* Two sockets with 4 KB each way; a pattern whose bytes all differ and an empty
\* one; sizes that fit, do not fit together, and are no powers of two.
MCPatterns == {[i \in 1 .. 6 |-> {i}], [i \in 1 .. 6 |-> {}]}

MCContents == {[i \in 1 .. 6 |-> {i}]}

MCSizeChoices == {0 :> 1 @@ 1 :> 1, 0 :> 1 @@ 1 :> 3, 0 :> 4 @@ 1 :> 1}

VARIABLE moving

SetUpInit == Init /\ RegistersInit /\ moving \in {"boot", "registers"}

SetUpNext ==
  /\ UNCHANGED moving
  /\ \/ moving = "boot" /\ Next /\ UNCHANGED registerVars
     \/ moving = "registers" /\ RegistersNext /\ UNCHANGED vars

SetUpSpec == SetUpInit /\ [][SetUpNext]_<<vars, registerVars, moving>>
=============================================================================
