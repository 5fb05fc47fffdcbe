--------------------------- MODULE MCInternalTicks ---------------------------
(* Small instances of InternalTicks for TLC. *)
EXTENDS InternalTicks

\* With Minute = 7: periods of 3.5 and 2.33 microseconds.
TwoTempos == {2, 3}
OneTempo == {2}
=============================================================================
