---------------------------- MODULE MCDaytimeClient ----------------------------
(* Model-checking instance of DaytimeClient: the worker greets and sends two *)
(* dates, longer together than what one read takes.                         *)
EXTENDS DaytimeClient

MCLines == <<<<67, 10>>, <<49, 58, 10>>, <<50, 58, 10>>>>

\* Nothing, another digit, two of them, and the port of another worker.
MCGarbage == {<<0>>, <<53, 0>>, <<57, 57, 0>>, <<50, 50, 50, 50, 0>>}
=============================================================================
