-------------------------- MODULE TransportController --------------------------
(***************************************************************************)
(* The realtime half of core 0: TransportController, the MidiDispatcher it *)
(* owns, the StepPlanner and the NoteLifecycle behind the Sequencer, and   *)
(* the USB sink the dispatcher sends to.                                   *)
(*                                                                         *)
(* A public operation of the controller is a pass: it runs to its end on   *)
(* core 0 with nothing in between, but every send in it may be accepted,   *)
(* refused for now, or find the cable gone.  `agenda' holds what the pass  *)
(* still has to do, so that each send is a step of its own and a pass is   *)
(* the sequence of steps the code prescribes.  Between passes agenda is    *)
(* empty and any operation may be called.                                  *)
(*                                                                         *)
(* hostNotes and hostPlaying are history variables: what an instrument     *)
(* behind the cable is doing after the accepted messages.                  *)
(***************************************************************************)
EXTENDS MidiEventQueue, MidiPendingDelivery, NoteLifecycle, Sequences

CONSTANTS
  Notes,             \* the pitches steps may have
  StepChoices,       \* what a step may hold when the planner reads it
  Swings,            \* the swing percentages the user may set
  Modes,             \* the clock modes the user may choose
  Lookahead,         \* SCHEDULING_LOOKAHEAD_TICKS: 2 in the code
  MaxAttempts,       \* MAX_SEND_ATTEMPTS_PER_PASS: 8 in the code
  MaxTicksPerPass,   \* MAX_INTERNAL_TICKS_PER_PASS: 4 in the code
  MaxTick,           \* bound of the model: no tick is consumed after it
  MaxGen             \* bound of the model: sessions that may be started

Step == [enabled : BOOLEAN, note : Notes, gate : Nat]
ClockModes == {"Off", "Internal", "External"}
Launches == [note : Notes, launch : Nat, gen : Nat]
Events == [at : Nat, kind : {"NoteOn", "NoteOff"}, note : Notes, launch : Nat,
           gen : Nat, gate : Nat]
NoteMessages ==
  [seq : Nat, kind : {"NoteOn", "NoteOff"}, note : Notes, launch : Nat,
   gen : Nat, limit : Nat, terminal : BOOLEAN]
RealtimeMessages ==
  [seq : Nat, kind : {"Clock", "Start", "Stop"}, note : {None}, launch : {0},
   gen : Nat, limit : Nat, terminal : BOOLEAN]
Messages == NoteMessages \cup RealtimeMessages

ASSUME ControllerAssumption ==
  /\ StepChoices \subseteq Step
  /\ Modes \subseteq ClockModes
  /\ Swings \subseteq Nat
  /\ Lookahead \in Nat
  /\ MaxAttempts \in Nat \ {0}
  /\ MaxTicksPerPass \in Nat \ {0}
  /\ MaxTick \in Nat
  /\ MaxGen \in Nat \ {0}
  /\ None \notin Launches
  /\ None \notin Nat

VARIABLES
  running,          \* Transport::_running
  tick,             \* Transport::_position.tick
  haveTick,         \* a tick of this session has been opened
  deliveryPos,      \* _deliveryPosition, in phase units
  queue,            \* MidiEventQueue
  seqRunning,       \* Sequencer::_running
  nextBoundary,     \* StepPlanner::_nextBoundaryTick
  outbox,           \* MidiPendingDeliveryQueue
  nextSeq,          \* _nextDeliverySequenceNumber
  sessionGen,       \* _sessionGeneration
  terminalGen,      \* _terminalGeneration: the session whose end is queued
  outputActive,     \* _internalOutputActive: this session owes a MIDI Stop
  clockRetry,       \* _clockRetryStartTick
  capacityExceeded, \* _capacityExceeded
  outcome,          \* _lifecycleOutcome
  blocked,          \* _deliveryBlocked
  attempts,         \* _attemptsRemaining
  actual,           \* NoteLifecycle::_actualSoundingLaunch
  projected,        \* NoteLifecycle::_projectedLaunch
  mode,             \* MidiClockSettings::_mode
  internalTiming,   \* _internalTiming
  storageOpen,      \* _storageOpen
  requiresStart,    \* _requiresExplicitStart
  external,         \* ExternalMidiClock: running, a clock seen, period known
  agenda,           \* the rest of the current pass
  hostNotes,        \* history: notes sounding at the host
  hostPlaying       \* history: the host follows a MIDI Start of ours

transportVars == <<running, tick, haveTick>>
plannerVars == <<seqRunning, nextBoundary>>
outboxVars == <<outbox, nextSeq>>
sessionVars == <<sessionGen, terminalGen, outputActive>>
passVars == <<outcome, blocked, attempts>>
noteVars == <<actual, projected>>
controlVars == <<mode, internalTiming, storageOpen, requiresStart, external>>
hostVars == <<hostNotes, hostPlaying>>

vars == <<transportVars, deliveryPos, queue, plannerVars, outboxVars,
          sessionVars, clockRetry, capacityExceeded, passVars, noteVars,
          controlVars, agenda, hostVars>>

Master(isRunning, seen, period) ==
  [running |-> isRunning, seen |-> seen, period |-> period]

ExternalReset == Master(FALSE, FALSE, FALSE)

Init ==
  /\ running = FALSE
  /\ tick = 0
  /\ haveTick = FALSE
  /\ deliveryPos = 0
  /\ queue = {}
  /\ seqRunning = FALSE
  /\ nextBoundary = 0
  /\ outbox = {}
  /\ nextSeq = 0
  /\ sessionGen = 1
  /\ terminalGen = 0
  /\ outputActive = FALSE
  /\ clockRetry = None
  /\ capacityExceeded = FALSE
  /\ outcome = "None"
  /\ blocked = FALSE
  /\ attempts = 0
  /\ actual = None
  /\ projected = None
  /\ mode = "Off"
  /\ internalTiming = FALSE
  /\ storageOpen = FALSE
  /\ requiresStart = FALSE
  /\ external = ExternalReset
  /\ agenda = <<>>
  /\ hostNotes = {}
  /\ hostPlaying = FALSE

Labels ==
  {"servicePending", "stop", "stopExternal", "capCheck", "lifecycle", "start",
   "dispatcherStart", "launch", "schedule", "continue", "consumeTick", "advance",
   "sendDue", "dispatchDue", "clockLoss"}

(* Every variable has its type; a pass never has more sends than allowed.  *)
TypeOK ==
  /\ running \in BOOLEAN
  /\ tick \in Nat
  /\ haveTick \in BOOLEAN
  /\ deliveryPos \in Nat
  /\ queue \subseteq Events
  /\ seqRunning \in BOOLEAN
  /\ nextBoundary \in Nat
  /\ outbox \subseteq Messages
  /\ nextSeq \in Nat
  /\ sessionGen \in Nat \ {0}
  /\ terminalGen \in Nat
  /\ outputActive \in BOOLEAN
  /\ clockRetry \in Nat \cup {None}
  /\ capacityExceeded \in BOOLEAN
  /\ outcome \in {"None", "Disconnected", "RetryWindowExceeded"}
  /\ blocked \in BOOLEAN
  /\ attempts \in 0 .. MaxAttempts
  /\ actual \in Launches \cup {None}
  /\ projected \in Launches \cup {None}
  /\ mode \in ClockModes
  /\ internalTiming \in BOOLEAN
  /\ storageOpen \in BOOLEAN
  /\ requiresStart \in BOOLEAN
  /\ external \in [running : BOOLEAN, seen : BOOLEAN, period : BOOLEAN]
  /\ agenda \in Seq(Labels)
  /\ hostNotes \subseteq Notes
  /\ hostPlaying \in BOOLEAN

-----------------------------------------------------------------------------
(***************************************************************************)
(* Passes.                                                                 *)
(***************************************************************************)
Idle == agenda = <<>>

Doing(label) == agenda # <<>> /\ Head(agenda) = label

Done == agenda' = Tail(agenda)

Then(work) == agenda' = work \o Tail(agenda)

(* TransportController::finishPass and MidiDispatcher::finishPass.         *)
FinishPass == <<"capCheck", "servicePending", "lifecycle">>

(* Fault: a stopped transport gets no new budget.                          *)
PassWhileRunning(work) ==
  /\ attempts' = IF running THEN MaxAttempts ELSE attempts
  /\ blocked' = FALSE
  /\ nextSeq' = IF outbox = {} THEN 0 ELSE nextSeq
  /\ agenda' = <<"servicePending">> \o work \o FinishPass

(* beginPass: a fresh budget, then whatever is pending is tried first.     *)
(* Numbers of an empty outbox start over: only their order is ever used.   *)
Pass(work) ==
  /\ attempts' = MaxAttempts
  /\ blocked' = FALSE
  /\ nextSeq' = IF outbox = {} THEN 0 ELSE nextSeq
  /\ agenda' = <<"servicePending">> \o work \o FinishPass

-----------------------------------------------------------------------------
(***************************************************************************)
(* The end of a session (MidiDispatcher::stopLaunch under the stop paths   *)
(* of the controller).  Clocks, NoteOns and transport starts of the        *)
(* session leave the outbox; the note that sounds is owed one Off and, if  *)
(* the session sent clocks, the host is owed one Stop.  Both may use the   *)
(* terminal reserve.  A session is ended once.                             *)
(***************************************************************************)
(* Faults: NoteOns of the session, or its Start, survive its end.          *)
CancelledControl(p) == p.gen = sessionGen /\ p.kind \in {"Clock", "Start"}

CancelledMusic(p) == p.gen = sessionGen /\ p.kind \in {"Clock", "NoteOn"}

Cancelled(p) == p.gen = sessionGen /\ p.kind \in {"Clock", "NoteOn", "Start"}

Kept == {p \in outbox : ~Cancelled(p)}

(* Fault: an Off that is pending already is not looked for.                *)
TerminalOffAlways == actual # None

TerminalOffDue ==
  actual # None /\ ~HasNoteOff(Kept, actual.gen, actual.launch)

(* Fault: the Off goes after the Stop.                                     *)
LateTerminalOff ==
  IF TerminalOffDue
  THEN Push(Kept, Pending(nextSeq + 2, "NoteOff", actual.note, actual.launch,
                          sessionGen, 0, TRUE), Capacity)
  ELSE Kept

WithTerminalOff ==
  IF TerminalOffDue
  THEN Push(Kept, Pending(nextSeq, "NoteOff", actual.note, actual.launch,
                          sessionGen, 0, TRUE), Capacity)
  ELSE Kept

(* Fault: a pending Off is taken for the Stop.                             *)
TerminalStopDueWithoutOff ==
  outputActive /\ ~HasTerminal(WithTerminalOff, "NoteOff", sessionGen)

TerminalStopDue ==
  outputActive /\ ~HasTerminal(WithTerminalOff, "Stop", sessionGen)

WithTerminalStop ==
  IF TerminalStopDue
  THEN Push(WithTerminalOff,
            Pending(nextSeq + 1, "Stop", None, 0, sessionGen, 0, TRUE), Capacity)
  ELSE WithTerminalOff

TerminalDropped ==
  /\ terminalGen # sessionGen
  /\ \/ TerminalOffDue /\ ~HasRoom(Kept, Capacity)
     \/ TerminalStopDue /\ ~HasRoom(WithTerminalOff, Capacity)

EndSession ==
  /\ queue' = {}
  /\ seqRunning' = FALSE
  /\ running' = FALSE
  /\ tick' = IF haveTick /\ running THEN tick + 1 ELSE tick
  /\ haveTick' = FALSE
  /\ outputActive' = FALSE
  /\ clockRetry' = None
  /\ terminalGen' = sessionGen
  /\ outbox' = IF terminalGen = sessionGen THEN outbox ELSE WithTerminalStop
  /\ nextSeq' = IF terminalGen = sessionGen THEN nextSeq ELSE nextSeq + 2
  /\ UNCHANGED <<sessionGen, nextBoundary, deliveryPos>>

(* stop(): some callers keep what the external clock has learned.          *)
Stop(label, nextExternal) ==
  /\ Doing(label)
  /\ EndSession
  /\ capacityExceeded' = (capacityExceeded \/ TerminalDropped)
  /\ internalTiming' = FALSE
  /\ external' = nextExternal
  /\ Then(<<"servicePending">>)
  /\ UNCHANGED <<mode, storageOpen, requiresStart, passVars, noteVars, hostVars>>

StopSession == Stop("stop", ExternalReset) \/ Stop("stopExternal", external)

(* stopForDeliveryCapacity, wherever a pass looks at capacityExceeded.     *)
CapacityStop ==
  /\ Doing("capCheck")
  /\ capacityExceeded
  /\ EndSession
  /\ capacityExceeded' = FALSE
  /\ internalTiming' = FALSE
  /\ external' = ExternalReset
  /\ Then(<<"servicePending">>)
  /\ UNCHANGED <<mode, storageOpen, requiresStart, passVars, noteVars, hostVars>>

CapacityKept ==
  /\ Doing("capCheck")
  /\ ~capacityExceeded
  /\ Done
  /\ UNCHANGED <<transportVars, deliveryPos, queue, plannerVars, outboxVars,
                 sessionVars, clockRetry, capacityExceeded, passVars, noteVars,
                 controlVars, hostVars>>

-----------------------------------------------------------------------------
(***************************************************************************)
(* Sending (MidiDispatcher::servicePending).  What is overdue goes before  *)
(* every attempt; one refused attempt ends the sending of the pass.        *)
(***************************************************************************)
(* Fault: the budget of a pass is not looked at.                           *)
CanSendUnbounded ==
  Doing("servicePending") /\ ~blocked /\ outcome = "None"

CanSend ==
  /\ Doing("servicePending")
  /\ ~blocked
  /\ outcome = "None"
  /\ attempts > 0

(* Fault: the window is one tick too long.                                 *)
RetryWindowLate == clockRetry # None /\ tick > clockRetry + TicksPerSixteenth

RetryWindowOver == clockRetry # None /\ tick >= clockRetry + TicksPerSixteenth

(* Fault: Offs expire with the Ons.                                        *)
OverdueNotes(p) ==
  /\ p.gen = sessionGen
  /\ \/ p.kind = "Clock" /\ tick > p.limit
     \/ p.kind \in {"NoteOn", "NoteOff"} /\ deliveryPos >= p.limit

Overdue(p) ==
  /\ p.gen = sessionGen
  /\ \/ p.kind = "Clock" /\ tick > p.limit
     \/ p.kind = "NoteOn" /\ deliveryPos >= p.limit

Live == {p \in outbox : ~Overdue(p)}

OverdueLaunches ==
  {Launch(p.note, p.launch, p.gen) : p \in {q \in outbox \ Live : q.kind = "NoteOn"}}

ProjectedLive == ForgetAny(projected, OverdueLaunches)

ServiceEnded ==
  /\ Doing("servicePending")
  /\ blocked \/ outcome # "None" \/ attempts = 0
  /\ Done
  /\ UNCHANGED <<transportVars, deliveryPos, queue, plannerVars, outboxVars,
                 sessionVars, clockRetry, capacityExceeded, passVars, noteVars,
                 controlVars, hostVars>>

RetryWindowExceeded ==
  /\ CanSend
  /\ RetryWindowOver
  /\ outcome' = "RetryWindowExceeded"
  /\ Done
  /\ UNCHANGED <<transportVars, deliveryPos, queue, plannerVars, outboxVars,
                 sessionVars, clockRetry, capacityExceeded, blocked, attempts,
                 noteVars, controlVars, hostVars>>

OutboxDrained ==
  /\ CanSend
  /\ ~RetryWindowOver
  /\ Live = {}
  /\ outbox' = Live
  /\ projected' = ProjectedLive
  /\ Done
  /\ UNCHANGED <<transportVars, deliveryPos, queue, plannerVars, nextSeq,
                 sessionVars, clockRetry, capacityExceeded, passVars, actual,
                 controlVars, hostVars>>

Attempt ==
  /\ CanSend
  /\ ~RetryWindowOver
  /\ Live # {}
  /\ attempts' = attempts - 1
  /\ UNCHANGED <<transportVars, deliveryPos, queue, plannerVars, nextSeq,
                 sessionVars, capacityExceeded, controlVars>>

LaunchOf(p) == Launch(p.note, p.launch, p.gen)

(* notifyNoteOnAccepted, notifyNoteOffAccepted.                            *)
NoteAccepted(p) ==
  \/ /\ p.kind = "NoteOn"
     /\ actual' = LaunchOf(p)
     /\ projected' = ProjectedAfterOnAccepted(ProjectedLive, LaunchOf(p))
  \/ /\ p.kind = "NoteOff"
     /\ actual' = Forget(actual, LaunchOf(p))
     /\ projected' = Forget(ProjectedLive, LaunchOf(p))
  \/ /\ p.kind \notin {"NoteOn", "NoteOff"}
     /\ projected' = ProjectedLive
     /\ UNCHANGED actual

(* The instrument at the other end of the cable.                           *)
HostReceives(p) ==
  /\ hostNotes' = IF p.kind = "NoteOn" THEN hostNotes \cup {p.note}
                  ELSE IF p.kind = "NoteOff" THEN hostNotes \ {p.note}
                  ELSE hostNotes
  /\ hostPlaying' = (p.kind = "Start" \/ (hostPlaying /\ p.kind # "Stop"))

SendAccepted ==
  /\ Attempt
  /\ LET p == OutboxFront(Live) IN
       /\ outbox' = Live \ {p}
       /\ clockRetry' = IF p.kind = "Clock" THEN None ELSE clockRetry
       /\ NoteAccepted(p)
       /\ HostReceives(p)
  /\ UNCHANGED <<agenda, outcome, blocked>>

SendRetryLater ==
  /\ Attempt
  /\ LET p == OutboxFront(Live) IN
       clockRetry' = IF p.kind = "Clock" /\ clockRetry = None
                     THEN p.limit ELSE clockRetry
  /\ outbox' = Live
  /\ projected' = ProjectedLive
  /\ blocked' = TRUE
  /\ Done
  /\ UNCHANGED <<outcome, actual, hostVars>>

(* _disconnected is raised and lowered together with this outcome.         *)
SendDisconnected ==
  /\ Attempt
  /\ outbox' = Live
  /\ projected' = ProjectedLive
  /\ blocked' = TRUE
  /\ outcome' = "Disconnected"
  /\ hostNotes' = {}
  /\ hostPlaying' = FALSE
  /\ Done
  /\ UNCHANGED <<clockRetry, actual>>

-----------------------------------------------------------------------------
(***************************************************************************)
(* What a pass does last (handleLifecycleOutcome).                         *)
(***************************************************************************)
NoOutcome ==
  /\ Doing("lifecycle")
  /\ outcome = "None"
  /\ Done
  /\ UNCHANGED <<transportVars, deliveryPos, queue, plannerVars, outboxVars,
                 sessionVars, clockRetry, capacityExceeded, passVars, noteVars,
                 controlVars, hostVars>>

(* The stop that follows an exhausted retry window sends nothing itself.   *)
RetryWindowStop ==
  /\ Doing("lifecycle")
  /\ outcome = "RetryWindowExceeded"
  /\ outcome' = "None"
  /\ EndSession
  /\ capacityExceeded' = (capacityExceeded \/ TerminalDropped)
  /\ internalTiming' = FALSE
  /\ external' = ExternalReset
  /\ Done
  /\ UNCHANGED <<blocked, attempts, noteVars, mode, storageOpen, requiresStart,
                 hostVars>>

(* Everything pending is abandoned.  outputActive and haveTick keep their  *)
(* values: only a start, a Continue or a stop writes them.                 *)
Disconnect ==
  /\ Doing("lifecycle")
  /\ outcome = "Disconnected"
  /\ outcome' = "None"
  /\ terminalGen' = 0
  /\ outbox' = {}
  /\ queue' = {}
  /\ seqRunning' = FALSE
  /\ running' = FALSE
  /\ IF actual # None \/ HasTerminalNoteOff(outbox)
     THEN actual' = None /\ projected' = None
     ELSE UNCHANGED noteVars
  /\ external' = ExternalReset
  /\ internalTiming' = FALSE
  /\ requiresStart' = TRUE
  /\ Done
  /\ UNCHANGED <<tick, haveTick, deliveryPos, nextBoundary, nextSeq, sessionGen,
                 outputActive, clockRetry, capacityExceeded, blocked, attempts,
                 mode, storageOpen, hostNotes, hostPlaying>>

-----------------------------------------------------------------------------
(***************************************************************************)
(* Starting a session: TransportController::start in the order of its      *)
(* calls, and the start of an external master's Continue.                  *)
(***************************************************************************)
(* Fault: the sequencer is never told of the new session.                 *)
StartWithoutLaunch == <<"start", "dispatcherStart", "schedule">>

StartSession == <<"start", "dispatcherStart", "launch", "schedule">>

EndPreviousSession ==
  /\ Doing("start")
  /\ EndSession
  /\ capacityExceeded' = (capacityExceeded \/ TerminalDropped)
  /\ Then(<<"servicePending">>)
  /\ UNCHANGED <<controlVars, passVars, noteVars, hostVars>>

(* MidiDispatcher::start: a Stop still pending is superseded.              *)
DispatcherStart ==
  /\ Doing("dispatcherStart")
  /\ LET kept == {p \in outbox : ~(p.terminal /\ p.kind = "Stop")}
         emitStart == mode = "Internal"
         entry == Pending(nextSeq, "Start", None, 0, sessionGen + 1, 0, FALSE)
     IN /\ outbox' = IF emitStart THEN Push(kept, entry, NormalCapacity) ELSE kept
        /\ capacityExceeded' =
             (capacityExceeded \/ (emitStart /\ ~HasRoom(kept, NormalCapacity)))
        /\ outputActive' = emitStart
  /\ nextSeq' = nextSeq + 1
  /\ sessionGen' = sessionGen + 1
  /\ terminalGen' = 0
  /\ clockRetry' = None
  /\ running' = TRUE
  /\ tick' = 0
  /\ haveTick' = FALSE
  /\ Then(<<"servicePending">>)
  /\ UNCHANGED <<deliveryPos, queue, plannerVars, passVars, noteVars,
                 controlVars, hostVars>>

LaunchSession ==
  /\ Doing("launch")
  /\ actual' = None
  /\ projected' = None
  /\ seqRunning' = TRUE
  /\ nextBoundary' = 0
  /\ internalTiming' = (mode # "External")
  /\ requiresStart' = FALSE
  /\ Done
  /\ UNCHANGED <<transportVars, deliveryPos, queue, outboxVars, sessionVars,
                 clockRetry, capacityExceeded, passVars, mode, storageOpen,
                 external, hostVars>>

(* A Continue keeps the position and the planner's next boundary.          *)
ContinueSession ==
  /\ Doing("continue")
  /\ seqRunning' = TRUE
  /\ running' = TRUE
  /\ haveTick' = FALSE
  /\ sessionGen' = sessionGen + 1
  /\ terminalGen' = 0
  /\ clockRetry' = None
  /\ Done
  /\ UNCHANGED <<tick, deliveryPos, queue, nextBoundary, outboxVars, outputActive,
                 capacityExceeded, passVars, noteVars, controlVars, hostVars>>

-----------------------------------------------------------------------------
(***************************************************************************)
(* Planning (StepPlanner::scheduleThrough): one sixteenth boundary at a    *)
(* time up to the lookahead.  The user may edit a step and the swing at     *)
(* any moment, so a boundary finds any of StepChoices and Swings there.    *)
(***************************************************************************)
(* Fault: the lookahead is taken for sixteenths.                           *)
HorizonInSixteenths == tick + Lookahead * TicksPerSixteenth

Horizon == tick + Lookahead

PlanningDue == seqRunning /\ nextBoundary <= Horizon

LaunchAt(step, swing) ==
  LET onPosition == At(nextBoundary,
                       SwingPhase(nextBoundary \div TicksPerSixteenth, swing))
      gate == GateDeadline(onPosition, step.gate)
  IN {Scheduled(onPosition, "NoteOn", step.note, nextBoundary + 1, sessionGen, gate),
      Scheduled(gate, "NoteOff", step.note, nextBoundary + 1, sessionGen, gate)}

ScheduleDone ==
  /\ Doing("schedule")
  /\ ~PlanningDue
  /\ Done
  /\ UNCHANGED <<transportVars, deliveryPos, queue, plannerVars, outboxVars,
                 sessionVars, clockRetry, capacityExceeded, passVars, noteVars,
                 controlVars, hostVars>>

ScheduleStep(step, swing) ==
  /\ Doing("schedule")
  /\ PlanningDue
  /\ step.enabled => BatchFits(queue, LaunchAt(step, swing))
  /\ queue' = IF step.enabled THEN queue \cup LaunchAt(step, swing) ELSE queue
  /\ nextBoundary' = nextBoundary + TicksPerSixteenth
  /\ UNCHANGED <<transportVars, deliveryPos, seqRunning, outboxVars, sessionVars,
                 clockRetry, capacityExceeded, passVars, noteVars, controlVars,
                 agenda, hostVars>>

ScheduleOverflow(step, swing) ==
  /\ Doing("schedule")
  /\ PlanningDue
  /\ step.enabled
  /\ ~BatchFits(queue, LaunchAt(step, swing))
  /\ agenda' = <<"stop">> \o Tail(agenda)
  /\ UNCHANGED <<transportVars, deliveryPos, queue, plannerVars, outboxVars,
                 sessionVars, clockRetry, capacityExceeded, passVars, noteVars,
                 controlVars, hostVars>>

-----------------------------------------------------------------------------
(***************************************************************************)
(* Ticks (MidiDispatcher::consumeTick).  `reached' is the phase of the     *)
(* open tick that the new record's timestamp shows to have passed: an      *)
(* alarm record closes the whole tick, a clock received from an external   *)
(* master may come early.                                                  *)
(***************************************************************************)
Reachable(phase) == At(tick, phase) >= deliveryPos

ConsumeTick(reached) ==
  /\ Doing("consumeTick")
  /\ IF running /\ haveTick
     THEN /\ Reachable(reached)
          /\ mode # "External" => reached = PhaseMax
          /\ deliveryPos' = At(tick, reached)
          /\ Then(<<"sendDue", "servicePending", "advance">>)
     ELSE /\ reached = 0
          /\ IF running THEN Then(<<"advance">>) ELSE Done
          /\ UNCHANGED deliveryPos
  /\ UNCHANGED <<transportVars, queue, plannerVars, outboxVars, sessionVars,
                 clockRetry, capacityExceeded, passVars, noteVars, controlVars,
                 hostVars>>

OwnClock(p) == p.gen = sessionGen /\ p.kind = "Clock"

AdvanceTick ==
  /\ Doing("advance")
  /\ ~(haveTick /\ capacityExceeded)
  /\ queue' = IF haveTick THEN DiscardAt(queue, tick) ELSE queue
  /\ tick' = IF haveTick THEN tick + 1 ELSE tick
  /\ haveTick' = TRUE
  /\ deliveryPos' = At(tick', 0)
  /\ LET kept == {p \in outbox : ~OwnClock(p)}
         clock == Pending(nextSeq, "Clock", None, 0, sessionGen, tick', FALSE)
         emitClock == mode = "Internal"
     IN /\ outbox' = IF emitClock THEN Push(kept, clock, NormalCapacity) ELSE outbox
        /\ capacityExceeded' =
             (capacityExceeded \/ (emitClock /\ ~HasRoom(kept, NormalCapacity)))
  /\ nextSeq' = nextSeq + 1
  /\ Then(<<"sendDue", "servicePending">>)
  /\ UNCHANGED <<running, plannerVars, sessionVars, clockRetry, passVars,
                 noteVars, controlVars, hostVars>>

AdvanceRefused ==
  /\ Doing("advance")
  /\ haveTick /\ capacityExceeded
  /\ Done
  /\ UNCHANGED <<transportVars, deliveryPos, queue, plannerVars, outboxVars,
                 sessionVars, clockRetry, capacityExceeded, passVars, noteVars,
                 controlVars, hostVars>>

(* dispatchDue of the process pass; a tick record may be younger than the  *)
(* time the pass took at its beginning, and then nothing is due.           *)
DispatchDue ==
  /\ Doing("dispatchDue")
  /\ running /\ haveTick
  /\ \E phase \in Phases :
       /\ Reachable(phase)
       /\ deliveryPos' = At(tick, phase)
  /\ Then(<<"sendDue", "servicePending">>)
  /\ UNCHANGED <<transportVars, queue, plannerVars, outboxVars, sessionVars,
                 clockRetry, capacityExceeded, passVars, noteVars, controlVars,
                 hostVars>>

NothingDue ==
  /\ Doing("dispatchDue")
  /\ Done
  /\ UNCHANGED <<transportVars, deliveryPos, queue, plannerVars, outboxVars,
                 sessionVars, clockRetry, capacityExceeded, passVars, noteVars,
                 controlVars, hostVars>>

-----------------------------------------------------------------------------
(***************************************************************************)
(* Moving due events to the outbox (MidiDispatcher::sendDue), one event a  *)
(* step, in the order of the queue, until none is due or the outbox is     *)
(* full.  An event leaves the queue only when the outbox took it.          *)
(***************************************************************************)
Transferring ==
  /\ Doing("sendDue")
  /\ UNCHANGED <<transportVars, deliveryPos, plannerVars, sessionVars, clockRetry,
                 passVars, actual, controlVars, hostVars>>

EventDue == queue # {} /\ QueueFront(queue).at <= deliveryPos

Stale(e) == e.gen # sessionGen

(* Fault: an Off at its gate is taken for an On past its gate.             *)
GatePassedByAny(e) == e.gate <= deliveryPos

GatePassed(e) == e.kind = "NoteOn" /\ e.gate <= deliveryPos

SendDueDone ==
  /\ Transferring
  /\ ~EventDue
  /\ Done
  /\ UNCHANGED <<queue, outboxVars, capacityExceeded, projected>>

DropLaunch ==
  /\ Transferring
  /\ EventDue
  /\ LET e == QueueFront(queue) IN
       /\ Stale(e) \/ GatePassed(e)
       /\ queue' = WithoutLaunch(queue, e.gen, e.launch)
       /\ projected' = IF Stale(e) THEN projected
                       ELSE Forget(projected, Launch(e.note, e.launch, e.gen))
  /\ UNCHANGED <<outboxVars, capacityExceeded, agenda>>

TransferNoteOff ==
  /\ Transferring
  /\ EventDue
  /\ LET e == QueueFront(queue)
         entry == Pending(nextSeq, "NoteOff", e.note, e.launch, sessionGen, 0, FALSE)
         fits == HasRoom(outbox, NormalCapacity)
     IN /\ ~Stale(e)
        /\ e.kind = "NoteOff"
        /\ outbox' = Push(outbox, entry, NormalCapacity)
        /\ queue' = IF fits THEN queue \ {e} ELSE queue
        /\ capacityExceeded' = (capacityExceeded \/ ~fits)
        /\ IF fits THEN UNCHANGED agenda ELSE Done
  /\ nextSeq' = nextSeq + 1
  /\ UNCHANGED projected

(* queueReplacementOff: the launch that is projected or sounding is owed   *)
(* its Off before another launch may be queued, and its own scheduled Off  *)
(* is withdrawn.  This Off may use the terminal reserve.                   *)
Active == ProjectedOrActual(projected, actual)

(* Fault: launches are told apart by their pitch.                          *)
ReplacementDueByPitch(e) ==
  /\ Active # None
  /\ Active.gen = sessionGen
  /\ Active.note # e.note
  /\ ~HasNoteOff(outbox, Active.gen, Active.launch)

ReplacementDue(e) ==
  /\ Active # None
  /\ Active.gen = sessionGen
  /\ Active.launch # e.launch
  /\ ~HasNoteOff(outbox, Active.gen, Active.launch)

ReplacementOff ==
  Pending(nextSeq, "NoteOff", Active.note, Active.launch, sessionGen, 0, TRUE)

TransferNoteOn ==
  /\ Transferring
  /\ EventDue
  /\ LET e == QueueFront(queue)
         replace == ReplacementDue(e)
         withOff == IF replace THEN Push(outbox, ReplacementOff, Capacity) ELSE outbox
         queueLeft == IF replace THEN WithoutOff(queue, Active.gen, Active.launch)
                      ELSE queue
         fits == /\ replace => HasRoom(outbox, Capacity)
                 /\ HasRoom(withOff, NormalCapacity)
         on == Pending(nextSeq + 1, "NoteOn", e.note, e.launch, sessionGen, e.gate,
                       FALSE)
     IN /\ ~Stale(e)
        /\ e.kind = "NoteOn"
        /\ ~GatePassed(e)
        /\ outbox' = IF fits THEN withOff \cup {on} ELSE withOff
        /\ queue' = IF fits THEN queueLeft \ {e} ELSE queueLeft
        /\ projected' = IF fits THEN Launch(e.note, e.launch, e.gen) ELSE projected
        /\ capacityExceeded' = (capacityExceeded \/ ~fits)
        /\ IF fits THEN UNCHANGED agenda ELSE Done
  /\ nextSeq' = nextSeq + 2

-----------------------------------------------------------------------------
(***************************************************************************)
(* Losing the external clock (ExternalMidiClock::update): 250 ms without a *)
(* clock after at least one.  The period it had learned is kept.           *)
(***************************************************************************)
ClockLost ==
  /\ Doing("clockLoss")
  /\ external.seen
  /\ external' = Master(FALSE, FALSE, external.period)
  /\ IF external.running THEN agenda' = <<"stopExternal">> \o Tail(agenda) ELSE Done
  /\ UNCHANGED <<transportVars, deliveryPos, queue, plannerVars, outboxVars,
                 sessionVars, clockRetry, capacityExceeded, passVars, noteVars,
                 mode, internalTiming, storageOpen, requiresStart, hostVars>>

ClockPresent ==
  /\ Doing("clockLoss")
  /\ Done
  /\ UNCHANGED <<transportVars, deliveryPos, queue, plannerVars, outboxVars,
                 sessionVars, clockRetry, capacityExceeded, passVars, noteVars,
                 controlVars, hostVars>>

-----------------------------------------------------------------------------
(***************************************************************************)
(* The operations of the controller.                                       *)
(***************************************************************************)
PassUnchanged ==
  UNCHANGED <<transportVars, deliveryPos, queue, plannerVars, outbox, sessionVars,
              clockRetry, capacityExceeded, outcome, noteVars, hostVars>>

MayStart == sessionGen < MaxGen

Toggle ==
  /\ Idle
  /\ seqRunning \/ MayStart
  /\ Pass(IF seqRunning THEN <<"stop">> ELSE StartSession)
  /\ PassUnchanged
  /\ UNCHANGED controlVars

(* The new mode takes effect behind the stop; nothing before reads it.     *)
ApplyMode(m) ==
  /\ Idle
  /\ m # mode
  /\ Pass(<<"stop">>)
  /\ mode' = m
  /\ PassUnchanged
  /\ UNCHANGED <<internalTiming, storageOpen, requiresStart, external>>

OpenStorage ==
  /\ Idle
  /\ ~storageOpen
  /\ Pass(<<"stop">>)
  /\ storageOpen' = TRUE
  /\ PassUnchanged
  /\ UNCHANGED <<mode, internalTiming, requiresStart, external>>

CloseStorage ==
  /\ Idle
  /\ storageOpen
  /\ storageOpen' = FALSE
  /\ PassUnchanged
  /\ UNCHANGED <<nextSeq, blocked, attempts, mode, internalTiming, requiresStart,
                 external, agenda>>

TicksLeft(n) == tick + n <= MaxTick

(* process(): while storage is open it returns at once.  The ring may hold *)
(* any number of records; a record found when the transport no longer runs *)
(* is consumed without effect.                                             *)
Process(n) ==
  /\ Idle
  /\ ~storageOpen
  /\ n > 0 => internalTiming /\ TicksLeft(n)
  /\ LET ticks == [i \in 1 .. 2 * n |->
                     IF i % 2 = 1 THEN "consumeTick" ELSE "capCheck"]
         loss == IF mode = "External" THEN <<"clockLoss">> ELSE <<>>
     IN Pass(ticks \o <<"dispatchDue", "capCheck", "schedule">> \o loss)
  /\ PassUnchanged
  /\ UNCHANGED controlVars

HearsExternal == Idle /\ ~storageOpen /\ mode = "External"

ExternalStart ==
  /\ HearsExternal
  /\ MayStart
  /\ Pass(StartSession)
  /\ external' = Master(TRUE, external.seen, external.period)
  /\ PassUnchanged
  /\ UNCHANGED <<mode, internalTiming, storageOpen, requiresStart>>

ExternalContinue ==
  /\ HearsExternal
  /\ MayStart
  /\ Pass(IF ~seqRunning /\ ~requiresStart THEN <<"continue">> ELSE <<>>)
  /\ external' = Master(TRUE, external.seen, external.period)
  /\ PassUnchanged
  /\ UNCHANGED <<mode, internalTiming, storageOpen, requiresStart>>

ExternalStop ==
  /\ HearsExternal
  /\ Pass(<<"stopExternal">>)
  /\ external' = Master(FALSE, external.seen, external.period)
  /\ PassUnchanged
  /\ UNCHANGED <<mode, internalTiming, storageOpen, requiresStart>>

(* handleClock: the first clock only starts the measurement; a later one   *)
(* that comes in range makes a period known, and it stays known.  A tick   *)
(* needs both a running master and a period.                               *)
ExternalClock(periodKnown) ==
  /\ HearsExternal
  /\ TicksLeft(1)
  /\ external.period => periodKnown
  /\ periodKnown => external.period \/ external.seen
  /\ external' = Master(external.running, TRUE, periodKnown)
  /\ Pass(IF external.running /\ periodKnown THEN <<"consumeTick">> ELSE <<>>)
  /\ PassUnchanged
  /\ UNCHANGED <<mode, internalTiming, storageOpen, requiresStart>>

Operation ==
  \/ Toggle
  \/ \E m \in Modes : ApplyMode(m)
  \/ OpenStorage
  \/ CloseStorage
  \/ \E n \in 0 .. MaxTicksPerPass : Process(n)
  \/ ExternalStart
  \/ ExternalContinue
  \/ ExternalStop
  \/ \E periodKnown \in BOOLEAN : ExternalClock(periodKnown)

Delivery ==
  \/ ServiceEnded
  \/ RetryWindowExceeded
  \/ OutboxDrained
  \/ SendAccepted
  \/ SendRetryLater
  \/ SendDisconnected

Work ==
  \/ StopSession
  \/ CapacityStop
  \/ CapacityKept
  \/ NoOutcome
  \/ RetryWindowStop
  \/ Disconnect
  \/ EndPreviousSession
  \/ DispatcherStart
  \/ LaunchSession
  \/ ContinueSession
  \/ ScheduleDone
  \/ \E step \in StepChoices, swing \in Swings : ScheduleStep(step, swing)
  \/ \E step \in StepChoices, swing \in Swings : ScheduleOverflow(step, swing)
  \/ \E phase \in Phases : ConsumeTick(phase)
  \/ AdvanceTick
  \/ AdvanceRefused
  \/ DispatchDue
  \/ NothingDue
  \/ SendDueDone
  \/ DropLaunch
  \/ TransferNoteOff
  \/ TransferNoteOn
  \/ ClockLost
  \/ ClockPresent

Next == Operation \/ Delivery \/ Work

Spec == Init /\ [][Next]_vars
=============================================================================
