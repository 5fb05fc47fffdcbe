------------------------ MODULE MCInputCoordination ------------------------
(* Two step buttons, one slot of the storage dialog, two fingers.          *)
EXTENDS InputCoordination
=============================================================================
