---------------------------- MODULE MCWizSocket ----------------------------
EXTENDS WizSocket

\* A transmit buffer of two messages: empty, half full, full.
MCRoom == 2

=============================================================================
