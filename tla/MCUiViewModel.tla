---------------------------- MODULE MCUiViewModel ----------------------------
(* Small instances of UiViewModel for TLC. *)
EXTENDS UiViewModel

Bits == {0, 1}
AllZero == [w \in Words |-> 0]
=============================================================================
