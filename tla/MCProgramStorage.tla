-------------------------- MODULE MCProgramStorage --------------------------
EXTENDS ProgramStorage

Ranges == [swing |-> {50, 90}, gate |-> {50, 100}]
Defaults == [swing |-> 50, gate |-> 100]
Legacy == {100}

Fast == [swing |-> 90, gate |-> 100]
TwoEdits == {Fast, Defaults}

(* What older firmware left: no gates yet, a swing that is too large now.  *)
OldImage == [whole |-> TRUE, revision |-> 1, content |-> [swing |-> 100]]

(* What newer firmware left: a tag nobody knows here.                      *)
NewImage ==
  [whole |-> TRUE, revision |-> 2,
   content |-> [repeat |-> 3, swing |-> 50, gate |-> 50]]

Blank == [A |-> Missing, B |-> Missing]
Used == [A |-> OldImage, B |-> NewImage]
Cut == [A |-> OldImage, B |-> Torn]
FoundFiles ==
  {[slot \in Slots |-> Blank],
   [slot \in Slots |-> IF slot = CurrentSlot THEN Used ELSE Cut]}
=============================================================================
