----------------------- MODULE MCTransportController -----------------------
(* Small instances of TransportController for TLC. *)
EXTENDS TransportProperties

CONSTANTS n1, n2

\* Every enabled step plays the same pitch: the hardest case for Offs.
OneNote == {n1}
TwoNotes == {n1, n2}
On(note, gate) == [enabled |-> TRUE, note |-> note, gate |-> gate]
Rest == [enabled |-> FALSE, note |-> n1, gate |-> 100]

ShortAndFull == {Rest, On(n1, 25), On(n1, 100)}
FullOnly == {On(n1, 100)}
FullOrRest == {Rest, On(n1, 100)}
RestFullOrShort == {Rest, On(n1, 100), On(n2, 25)}

Straight == {50}
Swung == {90}

Internal == {"Internal"}
External == {"External"}
AllModes == {"Internal", "External", "Off"}
=============================================================================
