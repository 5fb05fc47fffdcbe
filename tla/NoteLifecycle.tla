---------------------------- MODULE NoteLifecycle ----------------------------
(***************************************************************************)
(* What the sequencer believes about the note it plays                     *)
(* (engine/note_lifecycle.cpp): the launch whose NoteOn was accepted       *)
(* (actual) and the launch whose NoteOn was last queued (projected).  The  *)
(* requested-Off mark is not modelled: only return values nobody uses      *)
(* depend on it.                                                           *)
(***************************************************************************)
CONSTANT None   \* the empty std::optional

Launch(note, launch, gen) == [note |-> note, launch |-> launch, gen |-> gen]

(* notifyNoteOnAccepted: a projection of another launch is kept.           *)
ProjectedAfterOnAccepted(projected, accepted) ==
  IF projected = None THEN accepted
  ELSE IF projected.launch = accepted.launch THEN accepted ELSE projected

(* notifyNoteOnExpired and notifyNoteOffAccepted forget a launch they name *)
(* by note, launch number and session; none of the three is ever zero.     *)
Forget(candidate, launch) == IF candidate = launch THEN None ELSE candidate

ForgetAny(candidate, launches) ==
  IF candidate \in launches THEN None ELSE candidate

ProjectedOrActual(projected, actual) ==
  IF projected # None THEN projected ELSE actual
=============================================================================
