------------------------------- MODULE MCI2cBus -------------------------------
(* Model-checking instance of I2cBus: a child, the listener, eepromTask and   *)
(* log_task; a minute of twelve seconds: the decimals have two digits.       *)
EXTENDS I2cBus
=============================================================================
