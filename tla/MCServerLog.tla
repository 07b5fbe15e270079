----------------------------- MODULE MCServerLog -----------------------------
(* Model-checking instance of ServerLog: the child slots are model values    *)
(* that no step tells apart.                                                 *)
EXTENDS ServerLog, TLC

ChildSymmetry == Permutations(Child)
=============================================================================
