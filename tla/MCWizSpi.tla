------------------------------ MODULE MCWizSpi ------------------------------
(* Model-checking instance of WizSpi: the children are interchangeable; two    *)
(* addresses, on both sides of the end of a page of 256, and buffers that      *)
(* cross it.                                                                   *)
EXTENDS WizSpi, FiniteSets, TLC

Lower == 16639
Upper == 16640
MCAddress == {Lower, Upper}

ChildSymmetry == Permutations(Child)

\* Bound: two calls at a time.  The listener and a child use both addresses and
\* buffers across the page; two children, who interleave at any byte, only one.
CallsBounded ==
  /\ Cardinality(inside) <= 2
  /\ Child \subseteq inside =>
       /\ memory[Lower] = 0
       /\ \A c \in Child : todo[c] # <<>> => Len(todo[c]) = 1 /\ todo[c][1].address = Upper
=============================================================================
