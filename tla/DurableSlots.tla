---------------------------- MODULE DurableSlots ----------------------------
(***************************************************************************)
(* What the slot store promises: a save takes effect at one moment or not  *)
(* at all, whatever fails and whenever the power goes; a save that answers *)
(* Ok took effect; a load answers the program of the last save that took   *)
(* effect or, when a copy could not be read, an error or the one before.   *)
(***************************************************************************)
CONSTANTS Slots, Programs, None

VARIABLES
  value,     \* the program each slot holds, or None
  previous,  \* the program it held before, while it is still there
  saving,    \* the save under way, or None
  reply      \* the last answer

slots == <<value, previous, saving, reply>>

Contents == [Slots -> Programs \cup {None}]

SlotsInit == value \in Contents /\ previous \in Contents /\ saving = None

StartSave ==
  /\ saving = None
  /\ saving' \in [slot : Slots, program : Programs, done : {FALSE}]
  /\ UNCHANGED <<value, previous, reply>>

(* The copy about to be overwritten is no longer the previous program.     *)
Overwrite ==
  /\ previous' = [previous EXCEPT ![saving.slot] = None]
  /\ UNCHANGED value

TakeEffect ==
  /\ value' = [value EXCEPT ![saving.slot] = saving.program]
  /\ previous' = [previous EXCEPT ![saving.slot] = value[saving.slot]]

Write ==
  /\ saving # None
  /\ ~saving.done
  /\ \/ Overwrite /\ saving' = saving
     \/ TakeEffect /\ saving' = [slot |-> saving.slot, program |-> saving.program, done |-> TRUE]
  /\ UNCHANGED reply

(* The save fails before, in or after the write, or is Ok after it.        *)
EndSave ==
  /\ saving # None
  /\ saving' = None
  /\ reply'.status = "Ok" => saving.done
  /\ \/ UNCHANGED <<value, previous>>
     \/ ~saving.done /\ Overwrite

PowerLoss ==
  /\ saving' = None
  /\ \/ UNCHANGED <<value, previous>>
     \/ saving # None /\ ~saving.done /\ (Overwrite \/ TakeEffect)

Load(slot) ==
  /\ saving = None
  /\ reply'.status = "Ok" => reply'.program \in {value[slot], previous[slot]} \ {None}
  /\ UNCHANGED <<value, previous, saving>>

(* Refused before anything is touched, or the caller takes the answer.     *)
Refuse ==
  /\ saving = None
  /\ reply'.status # "Ok"
  /\ UNCHANGED <<value, previous, saving>>

SlotsNext ==
  \/ PowerLoss
  \/ StartSave
  \/ Write
  \/ EndSave
  \/ \E slot \in Slots : Load(slot)
  \/ Refuse

SlotsSpec == SlotsInit /\ [][SlotsNext]_slots
=============================================================================
