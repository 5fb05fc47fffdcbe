--------------------------- MODULE DisplayRegister ---------------------------
(***************************************************************************)
(* What the two cores expect of the view model: one value, replaced and    *)
(* taken over in single steps.                                             *)
(***************************************************************************)
CONSTANTS Values, Default

VARIABLES value, display

RegisterInit == value = Default /\ display = Default

Replace == value' \in Values \ {value} /\ UNCHANGED display

TakeOver == display' = value /\ UNCHANGED value

RegisterSpec == RegisterInit /\ [][Replace \/ TakeOver]_<<value, display>>
=============================================================================
