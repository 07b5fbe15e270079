---------------------------- MODULE MCWizBuffers ----------------------------
(* Model-checking instance of WizBuffers: two rings of different size, one   *)
(* after the other; the pointers wrap after two and four laps.               *)
EXTENDS WizBuffers, TLC

MCSockSize == 0 :> 4 @@ 1 :> 2
=============================================================================
