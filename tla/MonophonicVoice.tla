--------------------------- MODULE MonophonicVoice ---------------------------
(***************************************************************************)
(* What the metronome promises the instrument behind the MIDI cable, with  *)
(* no queues, ticks, sessions or retries in it.  It plays one note at a    *)
(* time and only while it is playing, starts and stops the instrument in   *)
(* silence, stops it only when it plays no more, and leaves no note on     *)
(* after it stopped.  After the cable was lost the instrument hears        *)
(* nothing until the metronome has stopped playing.                        *)
(***************************************************************************)
CONSTANT Notes

VARIABLES
  playing,    \* a session runs
  sounding,   \* the notes the instrument holds
  driven,     \* the instrument follows a MIDI Start
  cut         \* the cable was lost and the session not yet given up

voice == <<playing, sounding, driven, cut>>

Silent == sounding = {}

VoiceInit ==
  /\ playing = FALSE
  /\ sounding = {}
  /\ driven = FALSE
  /\ cut = FALSE

Begin == playing' = TRUE /\ UNCHANGED <<sounding, driven, cut>>

End == playing' = FALSE /\ UNCHANGED <<sounding, driven, cut>>

(* A message that reaches the instrument.                                  *)
Heard == ~cut /\ UNCHANGED <<playing, cut>>

StartInstrument == Heard /\ playing /\ Silent /\ driven' = TRUE /\ UNCHANGED sounding

StopInstrument == Heard /\ ~playing /\ Silent /\ driven' = FALSE /\ UNCHANGED sounding

Attack(note) == Heard /\ playing /\ Silent /\ sounding' = {note} /\ UNCHANGED driven

Release == Heard /\ ~Silent /\ sounding' = {} /\ UNCHANGED driven

(* The cable is pulled: the instrument resets itself.                      *)
CableLost ==
  /\ ~cut
  /\ cut' = TRUE
  /\ sounding' = {}
  /\ driven' = FALSE
  /\ UNCHANGED playing

(* The metronome gives up what it played.                                  *)
CableGivenUp == cut /\ cut' = FALSE /\ playing' = FALSE /\ UNCHANGED <<sounding, driven>>

VoiceNext ==
  \/ Begin
  \/ End
  \/ StartInstrument
  \/ StopInstrument
  \/ \E note \in Notes : Attack(note)
  \/ Release
  \/ CableLost
  \/ CableGivenUp

VoiceSafety == VoiceInit /\ [][VoiceNext]_voice

VoiceSpec == VoiceSafety /\ WF_voice(~playing /\ Release)
=============================================================================
