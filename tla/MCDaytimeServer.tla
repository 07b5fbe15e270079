--------------------------- MODULE MCDaytimeServer ---------------------------
(* Model-checking instance of DaytimeServer: the child slots are model      *)
(* values that no step tells apart.                                         *)
EXTENDS DaytimeServer, TLC

ChildSymmetry == Permutations(Child)
=============================================================================
