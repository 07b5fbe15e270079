----------------------------- MODULE MCEepromLog -----------------------------
(* Model-checking instance of EepromLog.                                     *)
EXTENDS EepromLog
=============================================================================
