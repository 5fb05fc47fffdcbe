-------------------------- MODULE TransportProperties --------------------------
(***************************************************************************)
(* What the transport owes its user and the instrument behind the cable,   *)
(* stated over TransportController.                                        *)
(***************************************************************************)
EXTENDS TransportController

-----------------------------------------------------------------------------
(***************************************************************************)
(* Invariants                                                              *)
(***************************************************************************)
OffPending(note) == \E p \in outbox : p.kind = "NoteOff" /\ p.note = note

StopPending == \E p \in outbox : p.kind = "Stop"

(* A note that sounds at the host is always accounted for: either the      *)
(* running session still knows it as its sounding launch, or its Off waits *)
(* in the outbox.  It covers the stop paths of midi_dispatcher.h:66-108,   *)
(* the clean start that forgets the sounding launch, and the claim that    *)
(* the terminal reserve always has room for the Off.                       *)
NoStuckNote ==
  \A n \in hostNotes :
    OffPending(n) \/ (running /\ actual # None /\ actual.note = n)

(* A host that follows our MIDI Start is either being driven or is owed a  *)
(* MIDI Stop (midi_dispatcher.h:46-64 and 88-93).                          *)
HostIsStopped == hostPlaying => StopPending \/ (running /\ outputActive)

(* A launch whose NoteOn was accepted keeps its Off, scheduled or pending, *)
(* for as long as its session runs: the gate always ends the note          *)
(* (sendDue, queueReplacementOff and discardAt at midi_dispatcher.h:146).  *)
AcceptedOnHasOff ==
  Idle /\ running /\ actual # None =>
    \/ HasNoteOff(outbox, actual.gen, actual.launch)
    \/ \E e \in queue : e.kind = "NoteOff" /\ e.launch = actual.launch

(* One launch is owed one Off: it is never both scheduled and pending, and *)
(* never pending twice (queueReplacementOff at midi_dispatcher.h:611-636   *)
(* withdraws the scheduled one, stopLaunch looks for the pending one).     *)
OffIsNotDuplicated ==
  \A p \in outbox : p.kind = "NoteOff" =>
    /\ \A q \in outbox \ {p} :
         ~(q.kind = "NoteOff" /\ q.gen = p.gen /\ q.launch = p.launch)
    /\ \A e \in queue :
         ~(e.kind = "NoteOff" /\ e.gen = p.gen /\ e.launch = p.launch)

(* The three flags that say "playing" agree whenever an operation returns: *)
(* Transport::_running, Sequencer::_running, and the session that is owed  *)
(* an end.  toggle() looks at one of them, process() at the others.        *)
FlagsAgree ==
  Idle =>
    /\ running = seqRunning
    /\ internalTiming => running
    /\ running => terminalGen # sessionGen
    /\ ~capacityExceeded \/ ~running

(* A clock the cable refuses cannot keep the transport running for longer  *)
(* than the retry window and the ticks one process pass may consume after  *)
(* its last look at the window (expireOverdue, midi_dispatcher.h:569-574). *)
RetryWindowEnforced ==
  Idle /\ running /\ clockRetry # None =>
    tick < clockRetry + TicksPerSixteenth + MaxTicksPerPass

-----------------------------------------------------------------------------
(***************************************************************************)
(* What a step may never do                                                *)
(***************************************************************************)
Accepted == OutboxFront(Live)

(* The instrument is played one note at a time: a NoteOn is accepted only  *)
(* while nothing sounds, whatever was refused, expired or replaced before  *)
(* (queueReplacementOff and the order of the outbox).                      *)
OneNoteAtATime ==
  [][SendAccepted /\ Accepted.kind = "NoteOn" => hostNotes = {}]_vars

(* Notes, clocks and starts that reach the host belong to the session that *)
(* runs: nothing of a stopped or earlier session sounds later              *)
(* (stopLaunch's removals and the generation checks of sendDue).           *)
OnlyLiveMusic ==
  [][SendAccepted /\ Accepted.kind \in {"NoteOn", "Clock", "Start"} =>
       running /\ Accepted.gen = sessionGen]_vars

(* With a clock of its own, an Off always ends the launch it was planned   *)
(* for, even if its neighbours have the same pitch (launchId in            *)
(* midi_dispatcher.h:425-440 and 611-636).                                 *)
OffSilencesItsOwnNote ==
  [][SendAccepted /\ Accepted.kind = "NoteOff" /\ actual # None
       /\ Accepted.note = actual.note /\ Accepted.note \in hostNotes =>
     LaunchOf(Accepted) = actual]_vars

(* The host hears the Off of the sounding note before the Stop that ends   *)
(* the session (the order of the pushes in stopLaunch).                    *)
OffBeforeStop ==
  [][SendAccepted /\ Accepted.kind = "Stop" => hostNotes = {}]_vars

(* The planner is never refused: what one lookahead may schedule fits the  *)
(* event queue together with what is still due, so a session is never      *)
(* stopped for it (schedule() at transport_controller.h:225-243).          *)
PlannerFits ==
  [][\A step \in StepChoices, swing \in Swings : ~ScheduleOverflow(step, swing)]_vars

-----------------------------------------------------------------------------
(***************************************************************************)
(* Progress.  A pass runs to its end; loop() calls process() between any   *)
(* two rounds of input; the cable does not refuse for ever.                *)
(***************************************************************************)
Processing == \E n \in 0 .. MaxTicksPerPass : Process(n)

Fairness ==
  /\ WF_vars(Work \/ Delivery)
  /\ SF_vars(Processing)
  /\ SF_vars(SendAccepted)

SpecLive == Spec /\ Fairness

(* The user closes the storage dialog some time.                           *)
SpecStorageCloses == SpecLive /\ WF_vars(CloseStorage)

(* After the transport stopped, for whatever reason, the host falls silent *)
(* (the terminal Off is retried by every process pass).                    *)
StoppedFallsSilent == ~running ~> hostNotes = {}

(* Seen through the cable, the controller is a monophonic voice: all of    *)
(* its queues, sessions, retries and stop paths implement MonophonicVoice. *)
Voice == INSTANCE MonophonicVoice
           WITH playing <- running, sounding <- hostNotes, driven <- hostPlaying,
                cut <- outcome = "Disconnected"

ImplementsVoice == Voice!VoiceSpec
=============================================================================
